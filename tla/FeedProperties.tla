--------------------------- MODULE FeedProperties ---------------------------
(***************************************************************************)
(* What the feed promises the dispatcher and its subscribers.              *)
(***************************************************************************)
EXTENDS Feed

\* A set: the date and what the symbols that have a row of it got.
Announcement == [date : Nat, values : UNION {[symbols -> Values] : symbols \in SUBSET Symbols}]

\* The types of the fields of Feed and FeedMem; a series keeps within maxlen.
TypeOK ==
    /\ rows \in [Symbols -> Seq(Row)] /\ series \in [Symbols -> Seq(Row)]
    /\ \A s \in Symbols : next[s] \in 0 .. Len(rows[s]) /\ since[s] \in 0 .. Len(sets)
    /\ \A s \in Symbols : Len(series[s]) <= Maxlen
    /\ isStarted \in BOOLEAN /\ worker \in BOOLEAN /\ lost \in BOOLEAN
    /\ range \in Ranges \cup {<< >>}
    /\ currentDate \in Nat /\ loads \in 0 .. MaxLoads
    /\ DOMAIN currentValues \subseteq Symbols
    /\ \A s \in DOMAIN currentValues : currentValues[s] \in Values \cup {DefaultValue}
    /\ sets \in Seq(Announcement)

\* The sets up to the n-th that had a row of s, since it was last loaded.
Heard(s, n) == {i \in since[s] + 1 .. n : s \in DOMAIN sets[i].values}

\* What the subscribers heard of a symbol are its rows up to the cursor: as many
\* rows, each at its turn.
AnnouncedOnce ==
    \A s \in Symbols :
        /\ Cardinality(Heard(s, Len(sets))) = next[s]
        /\ \A i \in Heard(s, Len(sets)) :
              rows[s][Cardinality(Heard(s, i))] = [date |-> sets[i].date, value |-> sets[i].values[s]]

\* The series of a symbol and its rows up to the cursor tell the same story: the
\* shorter is the end of the longer, as a reset empties the one and a load begins
\* the other anew.
SeriesTellTheSame ==
    \A s \in Symbols : \A k \in 1 .. Len(series[s]) :
        k <= next[s] => series[s][Len(series[s]) + 1 - k] = rows[s][next[s] + 1 - k]

\* What the exchange and the strategy read beside the event, current_values, is
\* the last set or, for a symbol that is not in it, the default value: never a
\* price of the past.
ReadsArePresent ==
    \A s \in DOMAIN currentValues :
        \/ currentValues[s] = DefaultValue
        \/ /\ sets # << >> /\ Last(sets).date = currentDate
           /\ s \in DOMAIN Last(sets).values /\ currentValues[s] = Last(sets).values[s]

\* The merge (get_next) drops nothing, repeats nothing and keeps a symbol's order,
\* however the symbols' dates and the loads, stops and resets of the feed
\* interleave, and the event, the series and current_values agree about it, as
\* long as no full series took a set down with it.
EveryRowOnce == ~lost => AnnouncedOnce /\ SeriesTellTheSame /\ ReadsArePresent

\* The rows of each symbol have the dates that the merge counts on.
Merged == \A s \in Symbols : Ascending(rows[s])
StrictlyMerged ==
    \A s \in Symbols : \A i, j \in DOMAIN rows[s] : i < j => rows[s][i].date < rows[s][j].date

\* Between loads the sets come in the order of their dates, and all that is known
\* of a date comes in one set, unless a symbol has two rows of it: a subscriber
\* never sees a bar of the past, nor half of the present.
SetsInOrder ==
    \A i, j \in DOMAIN sets :
        i < j /\ (\A s \in Symbols : since[s] < i) =>
            /\ Merged => sets[i].date <= sets[j].date
            /\ StrictlyMerged => sets[i].date < sets[j].date

\* A worker that goes on gets the feed to its end, but for a symbol whose next
\* row has a null date.
Drains ==
    worker ~> \/ Eof \/ ~worker
              \/ \E s \in Symbols : Waits(s) /\ NextRow(s).date = NullDate

-----------------------------------------------------------------------------
(***************************************************************************)
(* The feed is a subject as the Dispatcher expects one, as long as the rows *)
(* of each symbol ascend and none has a null date: a date comes as often as *)
(* it comes in the symbol that has most rows of it left.                   *)
(***************************************************************************)
\* The places of the rows that are left of a symbol, and of those of a date.
Left(s) == next[s] + 1 .. Len(rows[s])
LeftOf(s, date) == {n \in Left(s) : rows[s][n].date = date}

DatesLeft == UNION {{rows[s][n].date : n \in Left(s)} : s \in Symbols}

Times(date) == Max({Cardinality(LeftOf(s, date)) : s \in Symbols})

\* The deliveries that are left: of every date the first, the second, and so on.
Due == UNION {{date} \X (1 .. Times(date)) : date \in DatesLeft}

\* The i-th of them is of the first date up to which there are i.
Schedule ==
    [i \in 1 .. Cardinality(Due) |->
        Min({date \in DatesLeft : i <= Cardinality({due \in Due : due[1] <= date})})]

Keeps == Merged /\ \A s \in Symbols : \A i \in DOMAIN rows[s] : rows[s][i].date # NullDate

Source == INSTANCE DatedSource WITH dates <- IF Keeps THEN Schedule ELSE << >>, started <- worker

\* FeedMem implements the subject that dispatch_ of the Dispatcher merges.
ImplementsSource == Source!Spec
=============================================================================
