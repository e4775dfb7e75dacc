----------------------------- MODULE FeedProofs -----------------------------
(***************************************************************************)
(* Proofs about module Feed, for any symbols, files and calendar.          *)
(***************************************************************************)
EXTENDS FeedProperties, FiniteSetTheorems, SequenceTheorems, WellFoundedInduction, TLAPS

-----------------------------------------------------------------------------
(***************************************************************************)
(* Numbers, sequences and sets of places.                                  *)
(***************************************************************************)
\* A set of natural numbers that is not empty has a smallest one.
LEMMA MinOfNaturals ==
  ASSUME NEW S, S \subseteq Nat, S # {}
  PROVE  Min(S) \in S /\ \A n \in S : Min(S) <= n
<1> DEFINE R == OpToRel(<, Nat)
<1>1. \A m, n \in Nat : << m, n >> \in R <=> m < n
  BY DEF OpToRel
<1>2. \E m \in S : \A n \in S : << n, m >> \notin R
  BY NatLessThanWellFounded, WFMin, Zenon
<1> HIDE DEF R
<1>3. PICK m \in S : \A n \in S : << n, m >> \notin R
  BY <1>2
<1>4. \A n \in S : ~(n < m)
  BY <1>1, <1>3
<1>5. \A n \in S : m <= n
  BY <1>4
<1> QED BY <1>5 DEF Min

\* A sequence and one element more.
LEMMA AppendFacts ==
  ASSUME NEW S, NEW seq \in Seq(S), NEW e \in S
  PROVE  /\ Append(seq, e) \in Seq(S)
         /\ Len(seq) \in Nat /\ Len(Append(seq, e)) = Len(seq) + 1
         /\ Append(seq, e)[Len(seq) + 1] = e
         /\ \A k \in 1..Len(seq) : Append(seq, e)[k] = seq[k]
BY AppendProperties, LenProperties

\* A function on the places up to a number is a sequence.
LEMMA FunctionIsSequence ==
  ASSUME NEW S, NEW n \in Nat, NEW f \in [1..n -> S]
  PROVE  f \in Seq(S)
BY SeqDef

\* The places up to n behind a place, with a row of s: Heard for any sets.
Places(seq, from, s, n) == {i \in from + 1 .. n : s \in DOMAIN seq[i].values}

LEMMA PlacesAreFinite ==
  ASSUME NEW seq, NEW from \in Nat, NEW s, NEW n \in Nat
  PROVE  /\ IsFiniteSet(Places(seq, from, s, n))
         /\ Cardinality(Places(seq, from, s, n)) \in Nat
<1>1. IsFiniteSet(from + 1 .. n)
  BY FS_Interval
<1>2. Places(seq, from, s, n) \in SUBSET (from + 1 .. n)
  BY DEF Places
<1> QED BY <1>1, <1>2, FS_Subset, FS_CardinalityType

\* What one set more adds to the places of a symbol.
LEMMA PlacesOfAppend ==
  ASSUME NEW seq \in Seq(Announcement), NEW set \in Announcement,
         NEW from \in 0 .. Len(seq), NEW s
  PROVE  /\ \A n \in 0 .. Len(seq) :
               Places(Append(seq, set), from, s, n) = Places(seq, from, s, n)
         /\ s \notin DOMAIN set.values =>
               Places(Append(seq, set), from, s, Len(seq) + 1) = Places(seq, from, s, Len(seq))
         /\ s \in DOMAIN set.values =>
               /\ Places(Append(seq, set), from, s, Len(seq) + 1)
                    = Places(seq, from, s, Len(seq)) \cup {Len(seq) + 1}
               /\ Cardinality(Places(Append(seq, set), from, s, Len(seq) + 1))
                    = Cardinality(Places(seq, from, s, Len(seq))) + 1
<1> DEFINE more == Append(seq, set)
           end == Len(seq)
<1>1. /\ end \in Nat /\ more[end + 1] = set
      /\ \A k \in 1 .. end : more[k] = seq[k]
  BY AppendFacts
<1> HIDE DEF more, end
<1>2. from \in Nat /\ from <= end
  BY <1>1 DEF end
<1>3. \A n \in 0 .. end : Places(more, from, s, n) = Places(seq, from, s, n)
  BY <1>1, <1>2 DEF Places
<1>4. s \notin DOMAIN set.values => Places(more, from, s, end + 1) = Places(seq, from, s, end)
  BY <1>1, <1>2 DEF Places
<1>5. s \in DOMAIN set.values =>
          Places(more, from, s, end + 1) = Places(seq, from, s, end) \cup {end + 1}
  BY <1>1, <1>2 DEF Places
<1>6. end + 1 \notin Places(seq, from, s, end)
  BY <1>1 DEF Places
<1>7. /\ IsFiniteSet(Places(seq, from, s, end))
      /\ Cardinality(Places(seq, from, s, end) \cup {end + 1})
           = Cardinality(Places(seq, from, s, end)) + 1
  BY <1>1, <1>2, <1>6, PlacesAreFinite, FS_AddElement
<1> QED BY <1>3, <1>4, <1>5, <1>7 DEF more, end
-----------------------------------------------------------------------------
(***************************************************************************)
(* The invariant.                                                          *)
(***************************************************************************)
\* No set that came after the last load is of a later date than a row that is
\* still to come, but for the rows of the symbols that a null date holds back:
\* those never come before the next load.
NothingEarlierLeft ==
    \A i \in DOMAIN sets : (\A s \in Symbols : since[s] < i) =>
        \A s \in Symbols : (\A t \in Stuck : t < s) =>
            \A n \in next[s] + 1 .. Len(rows[s]) :
                /\ Merged => sets[i].date <= rows[s][n].date
                /\ StrictlyMerged => sets[i].date < rows[s][n].date

IInv == TypeOK /\ EveryRowOnce /\ NothingEarlierLeft /\ SetsInOrder

\* What the fields are made of.
LEMMA Facts ==
  ASSUME TypeOK
  PROVE  /\ sets \in Seq(Announcement) /\ Len(sets) \in Nat /\ DOMAIN sets = 1..Len(sets)
         /\ \A i \in DOMAIN sets : sets[i] \in Announcement /\ sets[i].date \in Nat
         /\ \A s \in Symbols :
               /\ rows[s] \in Seq(Row) /\ Len(rows[s]) \in Nat
               /\ DOMAIN rows[s] = 1..Len(rows[s])
               /\ \A n \in 1..Len(rows[s]) : rows[s][n] \in Row /\ rows[s][n].date \in Nat
               /\ series[s] \in Seq(Row) /\ Len(series[s]) \in Nat
               /\ next[s] \in 0 .. Len(rows[s]) /\ next[s] \in Nat
               /\ since[s] \in 0 .. Len(sets) /\ since[s] \in Nat
<1>1. sets \in Seq(Announcement) /\ Len(sets) \in Nat /\ DOMAIN sets = 1..Len(sets)
  BY LenProperties DEF TypeOK
<1>2. \A i \in DOMAIN sets : sets[i] \in Announcement
  BY <1>1, ElementOfSeq
<1>3. \A i \in DOMAIN sets : sets[i].date \in Nat
  BY <1>2 DEF Announcement
<1> SUFFICES ASSUME NEW s \in Symbols
             PROVE  /\ rows[s] \in Seq(Row) /\ Len(rows[s]) \in Nat
                    /\ DOMAIN rows[s] = 1..Len(rows[s])
                    /\ \A n \in 1..Len(rows[s]) : rows[s][n] \in Row /\ rows[s][n].date \in Nat
                    /\ series[s] \in Seq(Row) /\ Len(series[s]) \in Nat
                    /\ next[s] \in 0 .. Len(rows[s]) /\ next[s] \in Nat
                    /\ since[s] \in 0 .. Len(sets) /\ since[s] \in Nat
  BY <1>1, <1>2, <1>3
<1>4. rows[s] \in Seq(Row) /\ series[s] \in Seq(Row)
  BY DEF TypeOK
<1>5. /\ Len(rows[s]) \in Nat /\ DOMAIN rows[s] = 1..Len(rows[s])
      /\ Len(series[s]) \in Nat
  BY <1>4, LenProperties
<1>6. \A n \in 1..Len(rows[s]) : rows[s][n] \in Row
  BY <1>4, ElementOfSeq
<1>7. \A n \in 1..Len(rows[s]) : rows[s][n].date \in Nat
  BY <1>6 DEF Row
<1>8. next[s] \in 0 .. Len(rows[s]) /\ since[s] \in 0 .. Len(sets)
  BY DEF TypeOK
<1> QED BY <1>1, <1>4, <1>5, <1>6, <1>7, <1>8

\* The row under the cursor of a symbol that waits.
LEMMA RowUnderCursor ==
  ASSUME TypeOK, NEW s \in Symbols, Waits(s)
  PROVE  /\ next[s] + 1 \in 1..Len(rows[s])
         /\ NextRow(s) = rows[s][next[s] + 1] /\ NextRow(s) \in Row
         /\ NextRow(s).date \in Nat /\ NextRow(s).value \in Values
<1>1. next[s] + 1 \in 1..Len(rows[s])
  BY Facts DEF Waits
<1>2. rows[s][next[s] + 1] \in Row
  BY <1>1, Facts
<1> QED BY <1>1, <1>2 DEF NextRow, Row

-----------------------------------------------------------------------------
(***************************************************************************)
(* peek_date: the smallest date behind the last null date.                 *)
(***************************************************************************)
LEMMA Peeked ==
  ASSUME TypeOK
  PROVE  /\ PeekDate \in Nat
         /\ PeekDate # NullDate =>
               /\ \E s \in Symbols : /\ Waits(s) /\ (\A t \in Stuck : t < s)
                                     /\ NextRow(s).date = PeekDate
               /\ \A s \in Symbols :
                     Waits(s) /\ (\A t \in Stuck : t < s) => PeekDate <= NextRow(s).date
<1>1. CASE Counted = {}
  BY <1>1 DEF PeekDate, NullDate
<1>2. CASE Counted # {}
  <2>1. Counted \subseteq Symbols /\ \A s \in Counted : Waits(s)
    BY DEF Counted, Waiting
  <2>2. NextDates(Counted) \subseteq Nat /\ NextDates(Counted) # {}
    BY <1>2, <2>1, RowUnderCursor DEF NextDates
  <2>3. /\ Min(NextDates(Counted)) \in NextDates(Counted)
        /\ \A d \in NextDates(Counted) : Min(NextDates(Counted)) <= d
    BY <2>2, MinOfNaturals
  <2>4. PeekDate = Min(NextDates(Counted))
    BY <1>2 DEF PeekDate
  <2>5. PICK s \in Counted : NextRow(s).date = PeekDate
    BY <2>3, <2>4 DEF NextDates
  <2>6. \A x \in Symbols : Waits(x) /\ (\A t \in Stuck : t < x) => x \in Counted
    BY DEF Counted, Waiting
  <2>7. \A x \in Counted : PeekDate <= NextRow(x).date
    BY <2>3, <2>4 DEF NextDates
  <2>8. \A t \in Stuck : t < s
    BY <2>5 DEF Counted
  <2> QED BY <2>1, <2>2, <2>3, <2>4, <2>5, <2>6, <2>7, <2>8
<1> QED BY <1>1, <1>2

\* The symbols that are dispatched, and what of them.
LEMMA TakenFacts ==
  ASSUME TypeOK
  PROVE  /\ Taken \subseteq Symbols
         /\ \A s \in Taken : /\ Waits(s) /\ NextRow(s) \in Row /\ NextRow(s).date = PeekDate
                             /\ next[s] + 1 \in 1..Len(rows[s])
                             /\ NextRow(s) = rows[s][next[s] + 1]
                             /\ NextRow(s) = [date |-> PeekDate, value |-> TakenValues[s]]
                             /\ TakenValues[s] \in Values
         /\ DOMAIN TakenValues = Taken
         /\ [date |-> PeekDate, values |-> TakenValues] \in Announcement
<1>1. Taken \subseteq Symbols /\ \A s \in Taken : Waits(s) /\ NextRow(s).date = PeekDate
  BY DEF Taken
<1>2. \A s \in Taken : /\ NextRow(s) \in Row /\ next[s] + 1 \in 1..Len(rows[s])
                       /\ NextRow(s) = rows[s][next[s] + 1] /\ NextRow(s).value \in Values
  BY <1>1, RowUnderCursor
<1>3. DOMAIN TakenValues = Taken /\ \A s \in Taken : TakenValues[s] = NextRow(s).value
  BY DEF TakenValues
<1>4. TakenValues \in [Taken -> Values]
  BY <1>2 DEF TakenValues
<1>5. \A s \in Taken : NextRow(s) = [date |-> PeekDate, value |-> TakenValues[s]]
  BY <1>1, <1>2, <1>3 DEF Row
<1>6. [date |-> PeekDate, values |-> TakenValues] \in Announcement
  BY <1>1, <1>4, Peeked DEF Announcement
<1> QED BY <1>1, <1>2, <1>3, <1>5, <1>6

-----------------------------------------------------------------------------
(***************************************************************************)
(* The kinds of steps.                                                     *)
(***************************************************************************)
\* Some symbols get rows, and start again from the first.
Loading ==
    /\ \E loaded \in SUBSET Symbols :
          /\ loaded # {}
          /\ \A s \in loaded : next'[s] = 0 /\ since'[s] = Len(sets)
          /\ \A s \in Symbols \ loaded :
                rows'[s] = rows[s] /\ next'[s] = next[s] /\ since'[s] = since[s]
    /\ rows' \in [Symbols -> Seq(Row)] /\ loads' \in 0 .. MaxLoads
    /\ UNCHANGED << setVars, isStarted, range, worker >>

\* Nothing is loaded and nothing announced.
Resting ==
    /\ UNCHANGED << loadVars, currentDate, sets, lost >>
    /\ series' = series \/ series' = [s \in Symbols |-> << >>]
    /\ \/ currentValues' = currentValues
       \/ \E s \in Symbols :
             currentValues' = [x \in DOMAIN currentValues \cup {s} |->
                IF x \in DOMAIN currentValues THEN currentValues[x] ELSE DefaultValue]
    /\ range' \in Ranges \cup {<< >>}
    /\ isStarted' \in BOOLEAN
    /\ worker' \in BOOLEAN

LEMMA NothingRests ==
  ASSUME TypeOK, UNCHANGED vars
  PROVE  Resting
<1>1. /\ UNCHANGED << loadVars, currentDate, sets, lost >>
      /\ series' = series /\ currentValues' = currentValues /\ range' \in Ranges \cup {<< >>}
  BY DEF vars, loadVars, setVars, TypeOK
<1>2. isStarted' \in BOOLEAN /\ worker' \in BOOLEAN
  BY DEF vars, TypeOK
<1> QED BY <1>1, <1>2 DEF Resting

\* The rows that are added.
LEMMA LoadLoads ==
  ASSUME TypeOK, loads < MaxLoads, NEW new, DOMAIN new # {}, DOMAIN new \subseteq Symbols,
         \A s \in DOMAIN new : new[s] \in Seq(Row),
         Load(new), UNCHANGED << setVars, isStarted, range, worker >>
  PROVE  Loading \/ Resting
<1>1. CASE Refused
  <2>1. UNCHANGED vars
    BY <1>1 DEF Load, vars
  <2> QED BY <2>1, NothingRests
<1>2. CASE ~Refused
  <2>1. rows' \in [Symbols -> Seq(Row)]
    <3>1. rows' = [s \in Symbols |-> IF s \in DOMAIN new THEN rows[s] \o new[s] ELSE rows[s]]
      BY <1>2 DEF Load
    <3>2. \A s \in DOMAIN new : rows[s] \o new[s] \in Seq(Row)
      BY Facts, ConcatProperties
    <3>3. \A s \in Symbols : rows[s] \in Seq(Row)
      BY Facts
    <3> QED BY <3>1, <3>2, <3>3
  <2>2. /\ \A s \in DOMAIN new : next'[s] = 0 /\ since'[s] = Len(sets)
        /\ \A s \in Symbols \ DOMAIN new :
              rows'[s] = rows[s] /\ next'[s] = next[s] /\ since'[s] = since[s]
    BY <1>2 DEF Load, Rewound
  <2>3. loads' \in 0 .. MaxLoads
    <3>1. MaxLoads \in Nat
      BY FeedAssumption
    <3>2. loads \in 0 .. MaxLoads /\ loads' = loads + 1
      BY <1>2 DEF Load, TypeOK
    <3> QED BY <3>1, <3>2
  <2> QED BY <2>1, <2>2, <2>3 DEF Loading
<1> QED BY <1>1, <1>2

\* The filtered lines, sorted, are rows.
LEMMA SortingsAreRows ==
  ASSUME NEW lines \in Seq(Row), NEW sorted \in Sortings(lines)
  PROVE  sorted \in Seq(Row)
<1> DEFINE size == Cardinality(Included(lines))
<1>1. DOMAIN lines = 1..Len(lines) /\ Len(lines) \in Nat
  BY LenProperties
<1>2. Included(lines) \in SUBSET (1..Len(lines))
  BY <1>1 DEF Included
<1>3. IsFiniteSet(1..Len(lines))
  BY <1>1, FS_Interval
<1>4. size \in Nat
  BY <1>2, <1>3, FS_Subset, FS_CardinalityType
<1>5. PICK p \in Bijection(1..size, Included(lines)) : sorted = [n \in 1..size |-> lines[p[n]]]
  BY DEF Sortings
<1>6. p \in [1..size -> Included(lines)]
  BY DEF Bijection, Injection
<1>7. \A n \in 1..Len(lines) : lines[n] \in Row
  BY ElementOfSeq
<1>8. sorted \in [1..size -> Row]
  <2> HIDE DEF size
  <2> QED BY <1>2, <1>5, <1>6, <1>7
<1> HIDE DEF size
<1> QED BY <1>4, <1>8, FunctionIsSequence

\* So are the rows that the generator makes.
LEMMA CalendarIsRows ==
  ASSUME NEW value \in Values, NEW days \in Calendar
  PROVE  [i \in DOMAIN days |-> [date |-> days[i], value |-> value]] \in Seq(Row)
<1> DEFINE size == Cardinality(GeneratedDays)
<1>1. GeneratedDays \in SUBSET (StartDate .. EndDate) /\ GeneratedDays \subseteq Nat
  <2>1. StartDate \in Nat /\ EndDate \in Nat /\ BusinessDays \subseteq Nat
    BY GeneratorAssumption
  <2>2. \A d \in GeneratedDays : d \in Nat /\ StartDate <= d /\ d <= EndDate
    BY <2>1 DEF GeneratedDays
  <2> QED BY <2>1, <2>2
<1>2. IsFiniteSet(StartDate .. EndDate)
  BY GeneratorAssumption, FS_Interval
<1>3. size \in Nat
  BY <1>1, <1>2, FS_Subset, FS_CardinalityType
<1>4. days \in [1..size -> GeneratedDays]
  BY DEF Calendar
<1> HIDE DEF size
<1>5. [i \in DOMAIN days |-> [date |-> days[i], value |-> value]] \in [1..size -> Row]
  BY <1>1, <1>4 DEF Row
<1> QED BY <1>3, <1>5, FunctionIsSequence

\* Every step loads, rests or dispatches.
LEMMA StepKinds ==
  ASSUME TypeOK, Next
  PROVE  Loading \/ Resting \/ Dispatch
<1>1. ASSUME NEW file \in Files, AddValues(file)
      PROVE  Loading \/ Resting
  <2> DEFINE new == [s \in {file.symbol} |-> file.lines]
  <2>1. file.symbol \in Symbols /\ file.lines \in Seq(Row)
    BY FeedAssumption
  <2>2. DOMAIN new = {file.symbol} /\ \A s \in DOMAIN new : new[s] \in Seq(Row)
    BY <2>1
  <2>3. Load(new) /\ loads < MaxLoads /\ UNCHANGED << setVars, isStarted, range, worker >>
    BY <1>1 DEF AddValues
  <2> HIDE DEF new
  <2> QED BY <2>1, <2>2, <2>3, LoadLoads
<1>2. ASSUME NEW file \in Files, AddValuesFromCsv(file)
      PROVE  Loading \/ Resting
  <2>1. PICK sorted \in Sortings(file.lines) :
           IF sorted # << >> THEN Load([s \in {file.symbol} |-> sorted]) ELSE UNCHANGED loadVars
    BY <1>2 DEF AddValuesFromCsv
  <2>2. loads < MaxLoads /\ UNCHANGED << setVars, isStarted, range, worker >>
    BY <1>2 DEF AddValuesFromCsv
  <2>3. file.symbol \in Symbols /\ file.lines \in Seq(Row)
    BY FeedAssumption
  <2>4. CASE sorted = << >>
    <3>1. UNCHANGED vars
      BY <2>1, <2>2, <2>4 DEF vars
    <3> QED BY <3>1, NothingRests
  <2>5. CASE sorted # << >>
    <3> DEFINE new == [s \in {file.symbol} |-> sorted]
    <3>1. DOMAIN new = {file.symbol} /\ \A s \in DOMAIN new : new[s] \in Seq(Row)
      BY <2>3, SortingsAreRows
    <3>2. Load(new)
      BY <2>1, <2>5
    <3> HIDE DEF new
    <3> QED BY <2>2, <2>3, <3>1, <3>2, LoadLoads
  <2> QED BY <2>4, <2>5
<1>3. ASSUME NEW symbols \in SUBSET Symbols, AddValuesFromGenerator(symbols)
      PROVE  Loading \/ Resting
  <2>1. PICK value \in Values, days \in Calendar :
           Load([s \in symbols |-> [i \in DOMAIN days |-> [date |-> days[i], value |-> value]]])
    BY <1>3 DEF AddValuesFromGenerator
  <2> DEFINE new == [s \in symbols |-> [i \in DOMAIN days |-> [date |-> days[i], value |-> value]]]
  <2>2. DOMAIN new = symbols /\ \A s \in DOMAIN new : new[s] \in Seq(Row)
    BY CalendarIsRows
  <2>3. /\ symbols # {} /\ Load(new) /\ loads < MaxLoads
        /\ UNCHANGED << setVars, isStarted, range, worker >>
    BY <1>3, <2>1 DEF AddValuesFromGenerator
  <2> HIDE DEF new
  <2> QED BY <2>2, <2>3, LoadLoads
<1>4. ASSUME NEW dates \in Ranges, SetDateRange(dates)
      PROVE  Resting
  <2>1. isStarted' \in BOOLEAN /\ worker' \in BOOLEAN
    BY <1>4 DEF SetDateRange, TypeOK
  <2> QED BY <1>4, <2>1 DEF SetDateRange, Resting, loadVars, setVars
<1>5. ASSUME Reset PROVE Resting
  <2>1. isStarted' \in BOOLEAN /\ worker' \in BOOLEAN
    BY <1>5 DEF Reset, TypeOK
  <2> QED BY <1>5, <2>1 DEF Reset, Resting, loadVars, TypeOK
<1>6. ASSUME Start \/ Stop PROVE Resting
  <2>1. isStarted' \in BOOLEAN /\ worker' \in BOOLEAN
    BY <1>6 DEF Start, Stop
  <2> QED BY <1>6, <2>1 DEF Start, Stop, Resting, loadVars, setVars, TypeOK
<1>7. ASSUME NEW s \in Symbols, ReadPrice(s) PROVE Resting
  <2>1. isStarted' \in BOOLEAN /\ worker' \in BOOLEAN
    BY <1>7 DEF ReadPrice, TypeOK
  <2> QED BY <1>7, <2>1 DEF ReadPrice, Resting, loadVars, TypeOK
<1>8. ASSUME DispatchNothing PROVE Resting
  BY <1>8, NothingRests DEF DispatchNothing
<1> QED BY <1>1, <1>2, <1>3, <1>4, <1>5, <1>6, <1>7, <1>8 DEF Next, Client
-----------------------------------------------------------------------------
(***************************************************************************)
(* What a dispatch does to the cursors and the series.                     *)
(***************************************************************************)
LEMMA DispatchFacts ==
  ASSUME TypeOK, Dispatch
  PROVE  /\ rows' = rows /\ since' = since
         /\ PeekDate # NullDate /\ currentValues' = TakenValues
         /\ \A s \in Taken : next'[s] = next[s] + 1 /\ next[s] + 1 \in 1..Len(rows[s])
         /\ \A s \in Symbols \ Taken : next'[s] = next[s]
         /\ \A s \in Symbols : next'[s] \in next[s] .. Len(rows[s])
<1>1. rows' = rows /\ since' = since /\ PeekDate # NullDate /\ currentValues' = TakenValues
  BY DEF Dispatch, Current
<1>2. \A s \in Symbols : next'[s] = IF s \in Taken THEN next[s] + 1 ELSE next[s]
  BY DEF Dispatch, Advanced
<1>3. \A s \in Taken : s \in Symbols /\ next[s] + 1 \in 1..Len(rows[s])
  BY TakenFacts
<1>4. \A s \in Symbols : next[s] \in Nat /\ Len(rows[s]) \in Nat /\ next[s] <= Len(rows[s])
  BY Facts
<1>5. \A s \in Symbols : next'[s] \in next[s] .. Len(rows[s])
  BY <1>2, <1>3, <1>4
<1> QED BY <1>1, <1>2, <1>3, <1>5

\* The series of a symbol that is pushed, and of one that is not.
LEMMA SeriesFacts ==
  ASSUME TypeOK, Dispatch
  PROVE  /\ series' \in [Symbols -> Seq(Row)]
         /\ \A s \in Symbols \ Pushed : series'[s] = series[s]
         /\ \A s \in Pushed : /\ s \in Taken /\ ~Full(s)
                              /\ Len(series'[s]) = Len(series[s]) + 1
                              /\ series'[s][Len(series[s]) + 1] = NextRow(s)
                              /\ \A k \in 1..Len(series[s]) : series'[s][k] = series[s][k]
<1>1. series' = [s \in Symbols |-> IF s \in Pushed THEN Append(series[s], NextRow(s)) ELSE series[s]]
  BY DEF Dispatch
<1>2. \A s \in Pushed : s \in Taken /\ s \in Symbols /\ NextRow(s) \in Row
  BY TakenFacts DEF Pushed
<1>3. \A s \in Symbols : series[s] \in Seq(Row)
  BY Facts
<1>4. \A s \in Pushed : ~(s < s)
  <2> DEFINE size == Cardinality(Symbols)
  <2>1. Symbols = 1..size
    BY FeedAssumption
  <2> HIDE DEF size
  <2>2. \A s \in 1..size : s \in Int
    OBVIOUS
  <2> QED BY <1>2, <2>1, <2>2
<1>5. \A s \in Pushed : ~Full(s)
  BY <1>2, <1>4 DEF Pushed
<1>6. \A s \in Pushed : Append(series[s], NextRow(s)) \in Seq(Row)
  BY <1>2, <1>3, AppendFacts
<1>7. series' \in [Symbols -> Seq(Row)]
  BY <1>1, <1>3, <1>6
<1>8. \A s \in Pushed : series'[s] = Append(series[s], NextRow(s))
  BY <1>1, <1>2
<1>9. ASSUME NEW s \in Pushed
      PROVE  /\ Len(series'[s]) = Len(series[s]) + 1
             /\ series'[s][Len(series[s]) + 1] = NextRow(s)
             /\ \A k \in 1..Len(series[s]) : series'[s][k] = series[s][k]
  <2>1. series[s] \in Seq(Row) /\ NextRow(s) \in Row
    BY <1>2, <1>3
  <2> QED BY <1>8, <2>1, AppendFacts
<1>10. \A s \in Symbols \ Pushed : series'[s] = series[s]
  BY <1>1
<1> QED BY <1>2, <1>5, <1>7, <1>9, <1>10

\* The sets: as before and a set lost, or one set more and every row of it pushed.
LEMMA SetFacts ==
  ASSUME TypeOK, Dispatch
  PROVE  \/ /\ lost' = TRUE /\ sets' = sets /\ currentDate' = currentDate
         \/ /\ lost' = lost /\ currentDate' = PeekDate
            /\ sets' = Append(sets, [date |-> PeekDate, values |-> TakenValues])
            /\ Pushed = Taken
<1>1. CASE \E s \in Taken : Full(s)
  BY <1>1 DEF Dispatch
<1>2. CASE ~\E s \in Taken : Full(s)
  <2>1. Pushed = Taken
    BY <1>2 DEF Pushed
  <2> QED BY <1>2, <2>1 DEF Dispatch
<1> QED BY <1>1, <1>2

\* One set more.
LEMMA SetsGrow ==
  ASSUME TypeOK, sets' = Append(sets, [date |-> PeekDate, values |-> TakenValues])
  PROVE  /\ sets' \in Seq(Announcement) /\ Len(sets') = Len(sets) + 1
         /\ DOMAIN sets' = 1 .. Len(sets) + 1
         /\ sets'[Len(sets) + 1] = [date |-> PeekDate, values |-> TakenValues]
         /\ \A k \in 1..Len(sets) : sets'[k] = sets[k]
<1> DEFINE set == [date |-> PeekDate, values |-> TakenValues]
<1>1. set \in Announcement /\ sets \in Seq(Announcement)
  BY TakenFacts, Facts
<1> HIDE DEF set
<1>2. sets' = Append(sets, set)
  BY DEF set
<1>3. /\ sets' \in Seq(Announcement) /\ Len(sets') = Len(sets) + 1
      /\ sets'[Len(sets) + 1] = set /\ \A k \in 1..Len(sets) : sets'[k] = sets[k]
  BY <1>1, <1>2, AppendFacts
<1>4. DOMAIN sets' = 1..Len(sets')
  BY <1>3, LenProperties
<1> QED BY <1>3, <1>4 DEF set

-----------------------------------------------------------------------------
(***************************************************************************)
(* Types.                                                                  *)
(***************************************************************************)
LEMMA InitTypes == Init => TypeOK
<1> SUFFICES ASSUME Init PROVE TypeOK
  OBVIOUS
<1>1. << >> \in Seq(Row) /\ << >> \in Seq(Announcement) /\ Len(<< >>) = 0 /\ DOMAIN << >> = {}
  BY EmptySeq
<1>2. Maxlen \in Nat
  BY FeedAssumption
<1>3. MaxLoads \in Nat
  BY FeedAssumption
<1>4. rows \in [Symbols -> Seq(Row)] /\ series \in [Symbols -> Seq(Row)]
  BY <1>1 DEF Init
<1>5. \A s \in Symbols : /\ next[s] \in 0 .. Len(rows[s]) /\ since[s] \in 0 .. Len(sets)
                         /\ Len(series[s]) <= Maxlen
  BY <1>1, <1>2 DEF Init
<1>6. isStarted \in BOOLEAN /\ worker \in BOOLEAN /\ lost \in BOOLEAN
  BY DEF Init
<1>7. /\ range \in Ranges \cup {<< >>} /\ currentDate \in Nat /\ loads \in 0 .. MaxLoads
      /\ DOMAIN currentValues = {} /\ sets \in Seq(Announcement)
  BY <1>1, <1>3 DEF Init, NullDate
<1> QED BY <1>4, <1>5, <1>6, <1>7 DEF TypeOK

LEMMA NextTypes ==
  ASSUME TypeOK, Loading \/ Resting \/ Dispatch
  PROVE  TypeOK'
<1>1. CASE Loading
  <2>1. PICK loaded \in SUBSET Symbols :
          /\ \A s \in loaded : next'[s] = 0 /\ since'[s] = Len(sets)
          /\ \A s \in Symbols \ loaded :
                rows'[s] = rows[s] /\ next'[s] = next[s] /\ since'[s] = since[s]
    BY <1>1 DEF Loading
  <2>2. rows' \in [Symbols -> Seq(Row)] /\ loads' \in 0 .. MaxLoads
    BY <1>1 DEF Loading
  <2>3. UNCHANGED << series, currentDate, currentValues, sets, lost, isStarted, range, worker >>
    BY <1>1 DEF Loading, setVars
  <2>4. \A s \in Symbols : rows'[s] \in Seq(Row) /\ Len(rows'[s]) \in Nat
    BY <2>2, LenProperties
  <2>5. \A s \in Symbols : next'[s] \in 0 .. Len(rows'[s]) /\ since'[s] \in 0 .. Len(sets')
    <3>1. \A s \in loaded : s \in Symbols /\ next'[s] \in 0 .. Len(rows'[s])
      BY <2>1, <2>4
    <3>2. \A s \in loaded : since'[s] \in 0 .. Len(sets')
      BY <2>1, <2>3, Facts
    <3>3. \A s \in Symbols \ loaded : next'[s] \in 0 .. Len(rows'[s]) /\ since'[s] \in 0 .. Len(sets')
      BY <2>1, <2>3, Facts
    <3> QED BY <3>1, <3>2, <3>3
  <2>6. isStarted' \in BOOLEAN /\ worker' \in BOOLEAN /\ lost' \in BOOLEAN
    BY <2>3 DEF TypeOK
  <2> QED BY <2>2, <2>3, <2>5, <2>6 DEF TypeOK
<1>2. CASE Resting
  <2>1. isStarted' \in BOOLEAN /\ worker' \in BOOLEAN /\ lost' \in BOOLEAN
    BY <1>2 DEF Resting, TypeOK
  <2>2. UNCHANGED << rows, next, since, loads, currentDate, sets, lost >>
    BY <1>2 DEF Resting, loadVars
  <2>3. series' \in [Symbols -> Seq(Row)] /\ \A s \in Symbols : Len(series'[s]) <= Maxlen
    <3>1. CASE series' = series
      BY <3>1 DEF TypeOK
    <3>2. CASE series' = [s \in Symbols |-> << >>]
      <4>1. << >> \in Seq(Row) /\ Len(<< >>) = 0 /\ Maxlen \in Nat
        BY EmptySeq, FeedAssumption
      <4> QED BY <3>2, <4>1
    <3> QED BY <1>2, <3>1, <3>2 DEF Resting
  <2>4. /\ DOMAIN currentValues' \subseteq Symbols
        /\ \A s \in DOMAIN currentValues' : currentValues'[s] \in Values \cup {DefaultValue}
    <3>1. CASE currentValues' = currentValues
      BY <3>1 DEF TypeOK
    <3>2. ASSUME NEW s \in Symbols,
                 currentValues' = [x \in DOMAIN currentValues \cup {s} |->
                    IF x \in DOMAIN currentValues THEN currentValues[x] ELSE DefaultValue]
          PROVE  /\ DOMAIN currentValues' \subseteq Symbols
                 /\ \A x \in DOMAIN currentValues' :
                       currentValues'[x] \in Values \cup {DefaultValue}
      BY <3>2 DEF TypeOK
    <3> QED BY <1>2, <3>1, <3>2 DEF Resting
  <2>5. range' \in Ranges \cup {<< >>}
    BY <1>2 DEF Resting
  <2> QED BY <2>1, <2>2, <2>3, <2>4, <2>5 DEF TypeOK
<1>3. CASE Dispatch
  <2>1. \A s \in Symbols : next'[s] \in 0 .. Len(rows'[s])
    BY <1>3, DispatchFacts, Facts
  <2>2. /\ sets' \in Seq(Announcement) /\ currentDate' \in Nat
        /\ \A s \in Symbols : since'[s] \in 0 .. Len(sets')
    <3>1. CASE sets' = sets /\ currentDate' = currentDate
      BY <1>3, <3>1, DispatchFacts DEF TypeOK
    <3>2. CASE /\ sets' = Append(sets, [date |-> PeekDate, values |-> TakenValues])
               /\ currentDate' = PeekDate
      <4>1. sets' \in Seq(Announcement) /\ Len(sets') = Len(sets) + 1
        BY <3>2, SetsGrow
      <4> QED BY <1>3, <3>2, <4>1, DispatchFacts, Peeked, Facts
    <3> QED BY <1>3, <3>1, <3>2, SetFacts
  <2>3. \A s \in Symbols : Len(series'[s]) <= Maxlen
    <3>1. \A s \in Symbols : Len(series[s]) \in Nat /\ Len(series[s]) <= Maxlen
      BY Facts DEF TypeOK
    <3>2. Maxlen \in Nat
      BY FeedAssumption
    <3>3. \A s \in Pushed : s \in Symbols /\ Len(series[s]) < Maxlen
      BY <1>3, <3>1, <3>2, SeriesFacts, TakenFacts DEF Full
    <3> QED BY <1>3, <3>1, <3>2, <3>3, SeriesFacts
  <2>4. series' \in [Symbols -> Seq(Row)] /\ rows' = rows
    BY <1>3, SeriesFacts, DispatchFacts
  <2>5. /\ DOMAIN currentValues' \subseteq Symbols
        /\ \A s \in DOMAIN currentValues' : currentValues'[s] \in Values \cup {DefaultValue}
    BY <1>3, DispatchFacts, TakenFacts
  <2>6. UNCHANGED << loads, isStarted, range >>
    BY <1>3 DEF Dispatch
  <2>7. isStarted' \in BOOLEAN /\ worker' \in BOOLEAN /\ lost' \in BOOLEAN
    BY <1>3 DEF Dispatch, TypeOK
  <2> QED BY <2>1, <2>2, <2>3, <2>4, <2>5, <2>6, <2>7 DEF TypeOK
<1> QED BY <1>1, <1>2, <1>3
-----------------------------------------------------------------------------
(***************************************************************************)
(* Every row once.                                                         *)
(***************************************************************************)
\* The sets with a row of s behind a place are the first n rows of list.
Announced(seq, from, s, list, n) ==
    /\ Cardinality(Places(seq, from, s, Len(seq))) = n
    /\ \A i \in Places(seq, from, s, Len(seq)) :
          list[Cardinality(Places(seq, from, s, i))]
              = [date |-> seq[i].date, value |-> seq[i].values[s]]

LEMMA AnnouncedOnceMeans ==
  AnnouncedOnce <=> \A s \in Symbols : Announced(sets, since[s], s, rows[s], next[s])
BY DEF AnnouncedOnce, Announced, Heard, Places

\* Nothing was announced behind the last place.
LEMMA AnnouncedNothing ==
  ASSUME NEW seq \in Seq(Announcement), NEW s, NEW list
  PROVE  Announced(seq, Len(seq), s, list, 0)
<1>1. Len(seq) \in Nat
  BY LenProperties
<1>2. Places(seq, Len(seq), s, Len(seq)) = {}
  BY <1>1 DEF Places
<1> QED BY <1>2, FS_EmptySet DEF Announced

\* One set more announces the next row of the symbols in it.
LEMMA AnnouncedMore ==
  ASSUME NEW seq \in Seq(Announcement), NEW set \in Announcement,
         NEW from \in 0 .. Len(seq), NEW s, NEW list, NEW n,
         Announced(seq, from, s, list, n)
  PROVE  /\ s \notin DOMAIN set.values => Announced(Append(seq, set), from, s, list, n)
         /\ /\ s \in DOMAIN set.values
            /\ list[n + 1] = [date |-> set.date, value |-> set.values[s]]
            => Announced(Append(seq, set), from, s, list, n + 1)
<1> DEFINE more == Append(seq, set)
           end == Len(seq)
<1>1. /\ end \in Nat /\ Len(more) = end + 1 /\ more[end + 1] = set
      /\ \A k \in 1 .. end : more[k] = seq[k]
  BY AppendFacts
<1>2. /\ \A i \in 0 .. end : Places(more, from, s, i) = Places(seq, from, s, i)
      /\ s \notin DOMAIN set.values =>
            Places(more, from, s, end + 1) = Places(seq, from, s, end)
      /\ s \in DOMAIN set.values =>
            /\ Places(more, from, s, end + 1) = Places(seq, from, s, end) \cup {end + 1}
            /\ Cardinality(Places(more, from, s, end + 1))
                 = Cardinality(Places(seq, from, s, end)) + 1
  BY PlacesOfAppend
<1>3. from \in Nat /\ from <= end
  BY <1>1
<1>4. /\ Cardinality(Places(seq, from, s, end)) = n
      /\ \A i \in Places(seq, from, s, end) :
            list[Cardinality(Places(seq, from, s, i))]
                = [date |-> seq[i].date, value |-> seq[i].values[s]]
  BY DEF Announced
<1> HIDE DEF more, end
<1>5. \A i \in Places(seq, from, s, end) : i \in 1 .. end
  BY <1>1, <1>3 DEF Places
<1>6. \A i \in Places(seq, from, s, end) :
          list[Cardinality(Places(more, from, s, i))]
              = [date |-> more[i].date, value |-> more[i].values[s]]
  <2> SUFFICES ASSUME NEW i \in Places(seq, from, s, end)
               PROVE  list[Cardinality(Places(more, from, s, i))]
                        = [date |-> more[i].date, value |-> more[i].values[s]]
    OBVIOUS
  <2>1. i \in 1 .. end /\ i \in 0 .. end
    BY <1>1, <1>5
  <2>2. more[i] = seq[i] /\ Places(more, from, s, i) = Places(seq, from, s, i)
    BY <1>1, <1>2, <2>1
  <2> QED BY <1>4, <2>2
<1>7. ASSUME s \notin DOMAIN set.values
      PROVE  Announced(more, from, s, list, n)
  BY <1>1, <1>2, <1>4, <1>6, <1>7 DEF Announced
<1>8. ASSUME s \in DOMAIN set.values,
             list[n + 1] = [date |-> set.date, value |-> set.values[s]]
      PROVE  Announced(more, from, s, list, n + 1)
  <2>1. Cardinality(Places(more, from, s, Len(more))) = n + 1
    BY <1>1, <1>2, <1>4, <1>8
  <2>2. \A i \in Places(more, from, s, Len(more)) : i \in Places(seq, from, s, end) \/ i = end + 1
    BY <1>1, <1>2, <1>8
  <2>3. list[Cardinality(Places(more, from, s, end + 1))]
          = [date |-> more[end + 1].date, value |-> more[end + 1].values[s]]
    BY <1>1, <1>8, <2>1
  <2> QED BY <1>6, <2>1, <2>2, <2>3 DEF Announced
<1> QED BY <1>7, <1>8 DEF more

LEMMA InitOnce == Init => EveryRowOnce
<1> SUFFICES ASSUME Init PROVE EveryRowOnce
  OBVIOUS
<1>1. << >> \in Seq(Announcement) /\ Len(<< >>) = 0
  BY EmptySeq
<1>2. \A s \in Symbols : Announced(<< >>, 0, s, rows[s], 0)
  BY <1>1, AnnouncedNothing
<1>3. AnnouncedOnce
  BY <1>2, AnnouncedOnceMeans DEF Init
<1>4. SeriesTellTheSame
  BY <1>1 DEF SeriesTellTheSame, Init
<1>5. ReadsArePresent
  BY DEF ReadsArePresent, Init
<1> QED BY <1>3, <1>4, <1>5 DEF EveryRowOnce

LEMMA LoadingOnce ==
  ASSUME TypeOK, EveryRowOnce, Loading
  PROVE  EveryRowOnce'
<1> SUFFICES ASSUME ~lost
             PROVE  AnnouncedOnce' /\ SeriesTellTheSame' /\ ReadsArePresent'
  BY DEF EveryRowOnce, Loading, setVars
<1>1. PICK loaded \in SUBSET Symbols :
        /\ \A s \in loaded : next'[s] = 0 /\ since'[s] = Len(sets)
        /\ \A s \in Symbols \ loaded :
              rows'[s] = rows[s] /\ next'[s] = next[s] /\ since'[s] = since[s]
  BY DEF Loading
<1>2. UNCHANGED << series, currentDate, currentValues, sets >>
  BY DEF Loading, setVars
<1>3. AnnouncedOnce /\ SeriesTellTheSame /\ ReadsArePresent
  BY DEF EveryRowOnce
<1>4. AnnouncedOnce'
  <2>1. \A s \in loaded : Announced(sets, Len(sets), s, rows'[s], 0)
    BY Facts, AnnouncedNothing
  <2>2. \A s \in Symbols \ loaded : Announced(sets', since'[s], s, rows'[s], next'[s])
    BY <1>1, <1>2, <1>3, AnnouncedOnceMeans
  <2>3. \A s \in loaded : Announced(sets', since'[s], s, rows'[s], next'[s])
    BY <1>1, <1>2, <2>1
  <2>4. AnnouncedOnce' <=> \A s \in Symbols : Announced(sets', since'[s], s, rows'[s], next'[s])
    BY DEF AnnouncedOnce, Announced, Heard, Places
  <2> QED BY <2>2, <2>3, <2>4
<1>5. SeriesTellTheSame'
  <2> SUFFICES ASSUME NEW s \in Symbols, NEW k \in 1 .. Len(series[s]), k <= next'[s]
               PROVE  series[s][Len(series[s]) + 1 - k] = rows'[s][next'[s] + 1 - k]
    BY <1>2 DEF SeriesTellTheSame
  <2>1. s \notin loaded
    BY <1>1, Facts
  <2> QED BY <1>1, <1>3, <2>1 DEF SeriesTellTheSame
<1>6. ReadsArePresent'
  BY <1>2, <1>3 DEF ReadsArePresent, Last
<1> QED BY <1>4, <1>5, <1>6

LEMMA RestingOnce ==
  ASSUME TypeOK, EveryRowOnce, Resting
  PROVE  EveryRowOnce'
<1> SUFFICES ASSUME ~lost
             PROVE  AnnouncedOnce' /\ SeriesTellTheSame' /\ ReadsArePresent'
  BY DEF EveryRowOnce, Resting
<1>1. UNCHANGED << rows, next, since, currentDate, sets >>
  BY DEF Resting, loadVars
<1>2. AnnouncedOnce /\ SeriesTellTheSame /\ ReadsArePresent
  BY DEF EveryRowOnce
<1>3. AnnouncedOnce'
  BY <1>1, <1>2 DEF AnnouncedOnce, Heard
<1>4. SeriesTellTheSame'
  <2>1. CASE series' = series
    BY <1>1, <1>2, <2>1 DEF SeriesTellTheSame
  <2>2. CASE series' = [s \in Symbols |-> << >>]
    <3>1. Len(<< >>) = 0
      BY EmptySeq
    <3>2. \A s \in Symbols : 1 .. Len(series'[s]) = {}
      BY <2>2, <3>1
    <3> QED BY <3>2 DEF SeriesTellTheSame
  <2> QED BY <2>1, <2>2 DEF Resting
<1>5. ReadsArePresent'
  <2>1. CASE currentValues' = currentValues
    BY <1>1, <1>2, <2>1 DEF ReadsArePresent, Last
  <2>2. ASSUME NEW s \in Symbols,
               currentValues' = [x \in DOMAIN currentValues \cup {s} |->
                  IF x \in DOMAIN currentValues THEN currentValues[x] ELSE DefaultValue]
        PROVE  ReadsArePresent'
    BY <1>1, <1>2, <2>2 DEF ReadsArePresent, Last
  <2> QED BY <2>1, <2>2 DEF Resting
<1> QED BY <1>3, <1>4, <1>5

LEMMA DispatchOnce ==
  ASSUME TypeOK, EveryRowOnce, Dispatch
  PROVE  EveryRowOnce'
<1> SUFFICES ASSUME ~lost'
             PROVE  AnnouncedOnce' /\ SeriesTellTheSame' /\ ReadsArePresent'
  BY DEF EveryRowOnce
<1> DEFINE set == [date |-> PeekDate, values |-> TakenValues]
<1>1. /\ lost' = lost /\ currentDate' = PeekDate /\ sets' = Append(sets, set)
      /\ Pushed = Taken
  BY SetFacts
<1>2. AnnouncedOnce /\ SeriesTellTheSame
  BY <1>1 DEF EveryRowOnce
<1>3. /\ rows' = rows /\ since' = since /\ currentValues' = TakenValues
      /\ \A s \in Taken : next'[s] = next[s] + 1
      /\ \A s \in Symbols \ Taken : next'[s] = next[s]
  BY DispatchFacts
<1>4. /\ set \in Announcement /\ DOMAIN set.values = Taken
      /\ \A s \in Taken : rows[s][next[s] + 1] = [date |-> set.date, value |-> set.values[s]]
  BY TakenFacts
<1>5. AnnouncedOnce'
  <2> HIDE DEF set
  <2>1. \A s \in Symbols : Announced(Append(sets, set), since[s], s, rows[s], next'[s])
    <3> SUFFICES ASSUME NEW s \in Symbols
                 PROVE  Announced(Append(sets, set), since[s], s, rows[s], next'[s])
      OBVIOUS
    <3>1. sets \in Seq(Announcement) /\ since[s] \in 0 .. Len(sets)
      BY Facts
    <3>2. Announced(sets, since[s], s, rows[s], next[s])
      BY <1>2, AnnouncedOnceMeans
    <3>3. CASE s \in Taken
      BY <1>3, <1>4, <3>1, <3>2, <3>3, AnnouncedMore
    <3>4. CASE s \notin Taken
      BY <1>3, <1>4, <3>1, <3>2, <3>4, AnnouncedMore
    <3> QED BY <3>3, <3>4
  <2>2. AnnouncedOnce' <=> \A s \in Symbols : Announced(sets', since'[s], s, rows'[s], next'[s])
    BY DEF AnnouncedOnce, Announced, Heard, Places
  <2> QED BY <1>1, <1>3, <2>1, <2>2
<1>6. SeriesTellTheSame'
  <2> SUFFICES ASSUME NEW s \in Symbols, NEW k \in 1 .. Len(series'[s]), k <= next'[s]
               PROVE  series'[s][Len(series'[s]) + 1 - k] = rows[s][next'[s] + 1 - k]
    BY <1>3 DEF SeriesTellTheSame
  <2>1. Len(series[s]) \in Nat /\ next[s] \in Nat
    BY Facts
  <2>2. CASE s \notin Taken
    <3>1. series'[s] = series[s] /\ next'[s] = next[s]
      BY <1>1, <1>3, <2>2, SeriesFacts
    <3> QED BY <1>2, <3>1 DEF SeriesTellTheSame
  <2>3. CASE s \in Taken
    <3>1. /\ Len(series'[s]) = Len(series[s]) + 1
          /\ series'[s][Len(series[s]) + 1] = NextRow(s)
          /\ \A j \in 1..Len(series[s]) : series'[s][j] = series[s][j]
      BY <1>1, <2>3, SeriesFacts
    <3>2. next'[s] = next[s] + 1 /\ NextRow(s) = rows[s][next[s] + 1]
      BY <1>3, <2>3, TakenFacts
    <3>3. CASE k = 1
      BY <2>1, <3>1, <3>2, <3>3
    <3>4. CASE k # 1
      <4>1. /\ k - 1 \in 1 .. Len(series[s]) /\ k - 1 <= next[s]
            /\ Len(series[s]) + 1 - (k - 1) \in 1 .. Len(series[s])
            /\ Len(series'[s]) + 1 - k = Len(series[s]) + 1 - (k - 1)
            /\ next'[s] + 1 - k = next[s] + 1 - (k - 1)
        BY <2>1, <3>1, <3>2, <3>4
      <4>2. series[s][Len(series[s]) + 1 - (k - 1)] = rows[s][next[s] + 1 - (k - 1)]
        BY <1>2, <4>1 DEF SeriesTellTheSame
      <4> QED BY <3>1, <4>1, <4>2
    <3> QED BY <3>3, <3>4
  <2> QED BY <2>2, <2>3
<1>7. ReadsArePresent'
  <2>1. sets' # << >> /\ Last(sets') = set
    BY <1>1, SetsGrow, EmptySeq, Facts DEF Last
  <2> QED BY <1>1, <1>3, <2>1 DEF ReadsArePresent
<1> QED BY <1>5, <1>6, <1>7
-----------------------------------------------------------------------------
(***************************************************************************)
(* The order of the sets.                                                  *)
(***************************************************************************)
LEMMA StrictIsMerged ==
  ASSUME TypeOK, StrictlyMerged
  PROVE  Merged
<1> SUFFICES ASSUME NEW s \in Symbols, NEW i \in DOMAIN rows[s], NEW j \in DOMAIN rows[s], i < j
             PROVE  rows[s][i].date <= rows[s][j].date
  BY DEF Merged, Ascending
<1>1. rows[s][i].date < rows[s][j].date
  BY DEF StrictlyMerged
<1>2. rows[s][i].date \in Nat /\ rows[s][j].date \in Nat
  BY Facts
<1> QED BY <1>1, <1>2

\* A dispatch neither frees a symbol that a null date holds back nor holds back
\* another one.
LEMMA StuckStays ==
  ASSUME TypeOK, Dispatch, Merged
  PROVE  Stuck' = Stuck
<1>1. /\ rows' = rows /\ PeekDate # NullDate
      /\ \A s \in Taken : next'[s] = next[s] + 1 /\ next[s] + 1 \in 1..Len(rows[s])
      /\ \A s \in Symbols \ Taken : next'[s] = next[s]
  BY DispatchFacts
<1>2. \A s \in Symbols \ Taken : s \in Stuck' <=> s \in Stuck
  BY <1>1 DEF Stuck, Waiting, Waits, NextRow
<1>3. \A s \in Taken : s \notin Stuck
  BY <1>1 DEF Stuck, Taken
<1>4. ASSUME NEW s \in Taken, s \in Stuck'
      PROVE  FALSE
  <2>1. s \in Symbols /\ next[s] \in Nat /\ Len(rows[s]) \in Nat
    BY TakenFacts, Facts
  <2>2. /\ next[s] + 1 \in 1..Len(rows[s]) /\ next[s] + 2 \in 1..Len(rows[s])
        /\ rows[s][next[s] + 2].date = NullDate
    BY <1>1, <1>4, <2>1 DEF Stuck, Waiting, Waits, NextRow
  <2>3. rows[s][next[s] + 1].date = PeekDate
    BY TakenFacts
  <2>4. DOMAIN rows[s] = 1..Len(rows[s]) /\ Ascending(rows[s])
    BY <2>1, Facts DEF Merged
  <2>5. next[s] + 1 < next[s] + 2
    BY <2>1
  <2>6. rows[s][next[s] + 1].date <= rows[s][next[s] + 2].date
    BY <2>2, <2>4, <2>5 DEF Ascending
  <2> QED BY <1>1, <2>2, <2>3, <2>6, Peeked DEF NullDate
<1>5. Stuck \subseteq Symbols /\ Stuck' \subseteq Symbols
  BY DEF Stuck, Waiting
<1> QED BY <1>2, <1>3, <1>4, <1>5

\* What is still to come of a symbol after a dispatch is not before the dispatch.
LEMMA RestIsLater ==
  ASSUME TypeOK, Dispatch, Merged,
         NEW s \in Symbols, \A t \in Stuck : t < s,
         NEW n \in next'[s] + 1 .. Len(rows[s])
  PROVE  /\ n \in next[s] + 1 .. Len(rows[s])
         /\ PeekDate <= rows[s][n].date
         /\ StrictlyMerged => PeekDate < rows[s][n].date
<1>1. /\ PeekDate # NullDate
      /\ next'[s] = IF s \in Taken THEN next[s] + 1 ELSE next[s]
  BY DispatchFacts
<1>2. /\ next[s] \in Nat /\ Len(rows[s]) \in Nat /\ DOMAIN rows[s] = 1..Len(rows[s])
      /\ \A k \in 1..Len(rows[s]) : rows[s][k].date \in Nat
  BY Facts
<1>3. n \in next[s] + 1 .. Len(rows[s]) /\ n \in 1..Len(rows[s]) /\ next[s] + 1 \in 1..Len(rows[s])
  BY <1>1, <1>2
<1>4. Waits(s) /\ NextRow(s) = rows[s][next[s] + 1]
  BY <1>2, <1>3 DEF Waits, NextRow
<1>5. PeekDate \in Nat /\ PeekDate <= rows[s][next[s] + 1].date
  BY <1>1, <1>4, Peeked
<1>6. rows[s][next[s] + 1].date <= rows[s][n].date
  BY <1>2, <1>3 DEF Merged, Ascending
<1>7. ASSUME StrictlyMerged
      PROVE  PeekDate < rows[s][n].date
  <2>1. CASE s \in Taken
    <3>1. next[s] + 1 < n
      BY <1>1, <1>2, <2>1
    <3>2. rows[s][next[s] + 1].date < rows[s][n].date
      BY <1>2, <1>3, <1>7, <3>1 DEF StrictlyMerged
    <3> QED BY <1>2, <1>3, <1>5, <3>2
  <2>2. CASE s \notin Taken
    <3>1. rows[s][next[s] + 1].date # PeekDate
      BY <1>4, <2>2 DEF Taken
    <3> QED BY <1>2, <1>3, <1>5, <1>6, <3>1
  <2> QED BY <2>1, <2>2
<1> QED BY <1>2, <1>3, <1>5, <1>6, <1>7

LEMMA InitOrder == Init => NothingEarlierLeft /\ SetsInOrder
<1> SUFFICES ASSUME Init PROVE NothingEarlierLeft /\ SetsInOrder
  OBVIOUS
<1>1. DOMAIN sets = {}
  BY EmptySeq DEF Init
<1> QED BY <1>1 DEF NothingEarlierLeft, SetsInOrder

LEMMA LoadingOrder ==
  ASSUME TypeOK, Loading
  PROVE  NothingEarlierLeft' /\ SetsInOrder'
<1>1. PICK s \in Symbols : since'[s] = Len(sets)
  BY DEF Loading
<1>2. sets' = sets
  BY DEF Loading, setVars
<1>3. DOMAIN sets = 1..Len(sets) /\ Len(sets) \in Nat
  BY Facts
<1>4. \A i \in DOMAIN sets' : ~(since'[s] < i)
  BY <1>1, <1>2, <1>3
<1> QED BY <1>4 DEF NothingEarlierLeft, SetsInOrder

LEMMA RestingOrder ==
  ASSUME TypeOK, NothingEarlierLeft, SetsInOrder, Resting
  PROVE  NothingEarlierLeft' /\ SetsInOrder'
<1>1. rows' = rows /\ next' = next /\ since' = since /\ sets' = sets
  BY DEF Resting, loadVars
<1>2. Stuck' = Stuck /\ Merged' = Merged /\ StrictlyMerged' = StrictlyMerged
  BY <1>1 DEF Stuck, Waiting, Waits, NextRow, Merged, StrictlyMerged, Ascending
<1> QED BY <1>1, <1>2 DEF NothingEarlierLeft, SetsInOrder

LEMMA DispatchOrder ==
  ASSUME TypeOK, NothingEarlierLeft, SetsInOrder, Dispatch
  PROVE  NothingEarlierLeft' /\ SetsInOrder'
<1>1. rows' = rows /\ since' = since
  BY DispatchFacts
<1>2. (Merged' <=> Merged) /\ (StrictlyMerged' <=> StrictlyMerged)
  BY <1>1 DEF Merged, StrictlyMerged, Ascending
<1>3. DOMAIN sets = 1..Len(sets) /\ Len(sets) \in Nat
  BY Facts
<1>4. \/ DOMAIN sets' = DOMAIN sets
      \/ /\ DOMAIN sets' = 1 .. Len(sets) + 1
         /\ sets'[Len(sets) + 1].date = PeekDate
  <2>1. CASE sets' = sets
    BY <2>1
  <2>2. CASE sets' = Append(sets, [date |-> PeekDate, values |-> TakenValues])
    <3>1. /\ DOMAIN sets' = 1 .. Len(sets) + 1
          /\ sets'[Len(sets) + 1] = [date |-> PeekDate, values |-> TakenValues]
      BY <2>2, SetsGrow
    <3> QED BY <3>1
  <2> QED BY <2>1, <2>2, SetFacts
<1>5. \A i \in DOMAIN sets : sets'[i] = sets[i]
  BY <1>3, SetFacts, SetsGrow
<1>6. NothingEarlierLeft'
  <2> SUFFICES ASSUME NEW i \in DOMAIN sets', \A s \in Symbols : since[s] < i,
                      NEW s \in Symbols, \A t \in Stuck' : t < s,
                      NEW n \in next'[s] + 1 .. Len(rows[s])
               PROVE  /\ Merged => sets'[i].date <= rows[s][n].date
                      /\ StrictlyMerged => sets'[i].date < rows[s][n].date
    BY <1>1, <1>2 DEF NothingEarlierLeft
  <2>1. ASSUME Merged
        PROVE  /\ sets'[i].date <= rows[s][n].date
               /\ StrictlyMerged => sets'[i].date < rows[s][n].date
    <3>1. \A t \in Stuck : t < s
      BY <2>1, StuckStays
    <3>2. /\ n \in next[s] + 1 .. Len(rows[s])
          /\ PeekDate <= rows[s][n].date
          /\ StrictlyMerged => PeekDate < rows[s][n].date
      BY <2>1, <3>1, RestIsLater
    <3>3. CASE i \in DOMAIN sets
      BY <1>5, <2>1, <3>1, <3>2, <3>3 DEF NothingEarlierLeft
    <3>4. CASE i \notin DOMAIN sets
      <4>1. i = Len(sets) + 1 /\ sets'[i].date = PeekDate
        BY <1>3, <1>4, <3>4
      <4> QED BY <3>2, <4>1
    <3> QED BY <3>3, <3>4
  <2> QED BY <2>1, StrictIsMerged
<1>7. SetsInOrder'
  <2> SUFFICES ASSUME NEW i \in DOMAIN sets', NEW j \in DOMAIN sets', i < j,
                      \A s \in Symbols : since[s] < i
               PROVE  /\ Merged => sets'[i].date <= sets'[j].date
                      /\ StrictlyMerged => sets'[i].date < sets'[j].date
    BY <1>1, <1>2 DEF SetsInOrder
  <2>1. i \in DOMAIN sets /\ sets'[i] = sets[i]
    BY <1>3, <1>4, <1>5
  <2>2. CASE j \in DOMAIN sets
    BY <1>5, <2>1, <2>2 DEF SetsInOrder
  <2>3. CASE j \notin DOMAIN sets
    <3>1. sets'[j].date = PeekDate
      BY <1>3, <1>4, <2>3
    <3>2. PICK s \in Symbols : /\ Waits(s) /\ (\A t \in Stuck : t < s)
                               /\ NextRow(s).date = PeekDate
      BY Peeked, DispatchFacts
    <3>3. /\ next[s] + 1 \in next[s] + 1 .. Len(rows[s])
          /\ rows[s][next[s] + 1].date = PeekDate
      BY <3>2, RowUnderCursor, Facts
    <3>4. /\ Merged => sets[i].date <= rows[s][next[s] + 1].date
          /\ StrictlyMerged => sets[i].date < rows[s][next[s] + 1].date
      BY <2>1, <3>2, <3>3 DEF NothingEarlierLeft
    <3> QED BY <2>1, <3>1, <3>3, <3>4
  <2> QED BY <2>2, <2>3
<1> QED BY <1>6, <1>7

-----------------------------------------------------------------------------
(***************************************************************************)
(* The invariant holds.                                                    *)
(***************************************************************************)
LEMMA InitIInv == Init => IInv
BY InitTypes, InitOnce, InitOrder DEF IInv

LEMMA NextIInv == IInv /\ [Next]_vars => IInv'
<1> SUFFICES ASSUME IInv, [Next]_vars PROVE IInv'
  OBVIOUS
<1>1. TypeOK /\ EveryRowOnce /\ NothingEarlierLeft /\ SetsInOrder
  BY DEF IInv
<1>2. Loading \/ Resting \/ Dispatch
  <2>1. CASE Next
    BY <1>1, <2>1, StepKinds
  <2>2. CASE UNCHANGED vars
    BY <1>1, <2>2, NothingRests
  <2> QED BY <2>1, <2>2
<1>3. TypeOK'
  BY <1>1, <1>2, NextTypes
<1>4. EveryRowOnce'
  BY <1>1, <1>2, LoadingOnce, RestingOnce, DispatchOnce
<1>5. NothingEarlierLeft' /\ SetsInOrder'
  BY <1>1, <1>2, LoadingOrder, RestingOrder, DispatchOrder
<1> QED BY <1>3, <1>4, <1>5 DEF IInv

LEMMA AlwaysIInv == Spec => []IInv
BY InitIInv, NextIInv, PTL DEF Spec

\* The cursors stay within the rows and the series within maxlen: Feed and FeedMem
\* keep their types, whatever is loaded and whenever.
THEOREM TypeCorrect == Spec => []TypeOK
<1>1. IInv => TypeOK
  BY DEF IInv
<1> QED BY <1>1, AlwaysIInv, PTL

\* get_next drops no row, repeats none and keeps a symbol's order; the event, the
\* series and current_values agree about what came, however loads, stops, resets
\* and exceptions interleave, as long as no full series took a set down with it.
THEOREM RowsComeOnce == Spec => []EveryRowOnce
<1>1. IInv => EveryRowOnce
  BY DEF IInv
<1> QED BY <1>1, AlwaysIInv, PTL

\* Between loads the sets come in the order of their dates, for any number of
\* symbols, also when null dates hold some of them back (peek_date).
THEOREM SetsComeInOrder == Spec => []SetsInOrder
<1>1. IInv => SetsInOrder
  BY DEF IInv
<1> QED BY <1>1, AlwaysIInv, PTL

-----------------------------------------------------------------------------
(***************************************************************************)
(* The feed as a subject of the dispatcher.                                *)
(***************************************************************************)
\* A finite set of natural numbers that is not empty has a greatest one: the one
\* with the fewest numbers above it.
LEMMA MaxOfNaturals ==
  ASSUME NEW S, S \subseteq Nat, S # {}, IsFiniteSet(S)
  PROVE  Max(S) \in S /\ \A n \in S : n <= Max(S)
<1> DEFINE Above(n) == {m \in S : n < m}
           counts == {Cardinality(Above(n)) : n \in S}
<1>1. \A n \in S : IsFiniteSet(Above(n)) /\ Cardinality(Above(n)) \in Nat
  <2> TAKE n \in S
  <2>1. Above(n) \in SUBSET S
    OBVIOUS
  <2>2. IsFiniteSet(Above(n))
    BY <2>1, FS_Subset
  <2> QED BY <2>2, FS_CardinalityType
<1>2. counts \subseteq Nat /\ counts # {}
  BY <1>1
<1>3. Min(counts) \in counts /\ \A c \in counts : Min(counts) <= c
  BY <1>2, MinOfNaturals
<1>4. PICK n \in S : Cardinality(Above(n)) = Min(counts)
  BY <1>3
<1>5. ASSUME NEW m \in S, n < m PROVE FALSE
  <2>1. Above(m) \in SUBSET (Above(n) \ {m})
    <3>1. \A x \in Above(m) : x \in S /\ m < x
      OBVIOUS
    <3>2. \A x \in S : m < x => n < x /\ x # m
      BY <1>5
    <3> QED BY <3>1, <3>2
  <2>2. /\ IsFiniteSet(Above(n) \ {m})
        /\ Cardinality(Above(n) \ {m}) = Cardinality(Above(n)) - 1
    <3>1. m \in Above(n)
      BY <1>5
    <3> QED BY <1>1, <3>1, FS_RemoveElement
  <2>3. Cardinality(Above(m)) <= Cardinality(Above(n)) - 1
    BY <2>1, <2>2, FS_Subset
  <2>4. Cardinality(Above(n)) <= Cardinality(Above(m))
    BY <1>3, <1>4
  <2> HIDE DEF Above
  <2> QED BY <1>1, <2>3, <2>4
<1>6. \A m \in S : m <= n
  <2> TAKE m \in S
  <2>1. ~(n < m)
    BY <1>5
  <2> QED BY <2>1
<1> QED BY <1>6 DEF Max

\* What a function takes the elements of a finite set to is a finite set.
LEMMA ImageIsFinite ==
  ASSUME NEW S, IsFiniteSet(S), NEW f
  PROVE  IsFiniteSet({f[x] : x \in S})
<1> DEFINE g == [x \in S |-> f[x]]
<1>1. g \in Surjection(S, {f[x] : x \in S})
  BY DEF Surjection
<1> QED BY <1>1, FS_Surjection

\* Schedule, for any dates and any deliveries.
UpTo(due, date) == {d \in due : d[1] <= date}

Ordered(dates, due) ==
    [i \in 1 .. Cardinality(due) |->
        Min({date \in dates : i <= Cardinality(UpTo(due, date))})]

\* The dates are in the sequence in ascending order.
LEMMA OrderedAscends ==
  ASSUME NEW dates \in SUBSET (Nat \ {0}), IsFiniteSet(dates),
         NEW due, IsFiniteSet(due), \A d \in due : d[1] \in dates
  PROVE  /\ Cardinality(due) \in Nat
         /\ Ordered(dates, due) \in Seq(Nat \ {0})
         /\ Len(Ordered(dates, due)) = Cardinality(due)
         /\ \A i, j \in DOMAIN Ordered(dates, due) :
               i < j => Ordered(dates, due)[i] <= Ordered(dates, due)[j]
<1> DEFINE size == Cardinality(due)
           From(i) == {date \in dates : i <= Cardinality(UpTo(due, date))}
           seq == [i \in 1 .. size |-> Min(From(i))]
<1>1. size \in Nat
  BY FS_CardinalityType
<1>2. \A date \in dates : Cardinality(UpTo(due, date)) \in Nat
  <2> TAKE date \in dates
  <2>1. UpTo(due, date) \in SUBSET due
    BY DEF UpTo
  <2> QED BY <2>1, FS_Subset, FS_CardinalityType
<1>3. \A i \in 1 .. size : From(i) # {}
  <2> TAKE i \in 1 .. size
  <2>1. due # {}
    BY <1>1, FS_EmptySet
  <2>2. dates # {} /\ dates \subseteq Nat
    BY <2>1
  <2>3. Max(dates) \in dates /\ \A date \in dates : date <= Max(dates)
    BY <2>2, MaxOfNaturals
  <2>4. UpTo(due, Max(dates)) = due
    BY <2>3 DEF UpTo
  <2>5. Max(dates) \in From(i)
    BY <2>3, <2>4
  <2> QED BY <2>5
<1>4. \A i \in 1 .. size :
         Min(From(i)) \in From(i) /\ \A date \in From(i) : Min(From(i)) <= date
  <2> TAKE i \in 1 .. size
  <2>1. From(i) \subseteq Nat /\ From(i) # {}
    BY <1>3
  <2> QED BY <2>1, MinOfNaturals
<1>5. seq \in [1 .. size -> Nat \ {0}]
  BY <1>4
<1>6. seq \in Seq(Nat \ {0}) /\ Len(seq) = size /\ DOMAIN seq = 1 .. size
  <2>1. seq \in Seq(Nat \ {0})
    BY <1>1, <1>5, FunctionIsSequence
  <2>2. Len(seq) = size /\ DOMAIN seq = 1 .. size
    BY <1>1
  <2> QED BY <2>1, <2>2
<1>7. ASSUME NEW i \in 1 .. size, NEW j \in 1 .. size, i < j
      PROVE  seq[i] <= seq[j]
  <2>1. \A n \in Nat : j <= n => i <= n
    BY <1>1, <1>7
  <2>2. \A date \in dates :
           j <= Cardinality(UpTo(due, date)) => i <= Cardinality(UpTo(due, date))
    BY <1>2, <2>1
  <2>3. From(j) \subseteq From(i)
    BY <2>2
  <2>4. Min(From(i)) <= Min(From(j))
    BY <1>4, <2>3
  <2> QED BY <2>4
<1>8. Ordered(dates, due) = seq
  BY DEF Ordered
<1> HIDE DEF seq
<1> QED BY <1>1, <1>6, <1>7, <1>8

\* e is a delivery of the earliest date, after which these dates are left.
IsFirst(dates, due, e, left) ==
    /\ dates \subseteq Nat \ {0} /\ IsFiniteSet(dates)
    /\ IsFiniteSet(due) /\ \A d \in due : d[1] \in dates
    /\ e \in due /\ \A date \in dates : e[1] <= date
    /\ \/ left = dates
       \/ left = dates \ {e[1]} /\ UpTo(due, e[1]) = {e}

\* Without it, the rest of the sequence is left.
LEMMA OrderedTail ==
  ASSUME NEW dates, NEW due, NEW e, NEW left, IsFirst(dates, due, e, left)
  PROVE  /\ Ordered(dates, due) # << >>
         /\ Ordered(left, due \ {e}) = Tail(Ordered(dates, due))
<1>1. PICK first \in dates : first = e[1]
  BY DEF IsFirst
<1>2. /\ dates \in SUBSET (Nat \ {0}) /\ IsFiniteSet(dates)
      /\ IsFiniteSet(due) /\ \A d \in due : d[1] \in dates
      /\ e \in due /\ e[1] = first /\ \A date \in dates : first <= date
      /\ left \in SUBSET dates
      /\ left = dates \/ (left = dates \ {first} /\ UpTo(due, first) = {e})
  BY <1>1 DEF IsFirst
<1> USE <1>2
<1> DEFINE size == Cardinality(due)
           seq == Ordered(dates, due)
           rest == Ordered(left, due \ {e})
<1>3. size \in Nat /\ seq \in Seq(Nat \ {0}) /\ Len(seq) = size
  BY OrderedAscends
<1>4. IsFiniteSet(due \ {e}) /\ Cardinality(due \ {e}) = size - 1 /\ size # 0
  BY FS_RemoveElement, FS_EmptySet
<1>5. seq # << >>
  BY <1>3, <1>4, EmptySeq
<1>6. /\ Tail(seq) \in Seq(Nat \ {0}) /\ Len(Tail(seq)) = size - 1
      /\ \A i \in 1 .. size - 1 : Tail(seq)[i] = seq[i + 1]
  BY <1>3, <1>5, HeadTailProperties
<1>7. IsFiniteSet(left) /\ \A d \in due \ {e} : d[1] \in left
  <2>1. IsFiniteSet(left)
    BY FS_Subset
  <2>2. ASSUME NEW d \in due \ {e}, left = dates \ {first}, UpTo(due, first) = {e}
        PROVE  d[1] # first
    BY <2>2 DEF UpTo
  <2> QED BY <2>1, <2>2
<1>8. rest \in Seq(Nat \ {0}) /\ Len(rest) = size - 1
  BY <1>4, <1>7, OrderedAscends
<1>9. \A date \in dates :
         /\ Cardinality(UpTo(due, date)) \in Nat
         /\ Cardinality(UpTo(due \ {e}, date)) = Cardinality(UpTo(due, date)) - 1
  <2> TAKE date \in dates
  <2>1. UpTo(due, date) \in SUBSET due /\ e \in UpTo(due, date)
    BY DEF UpTo
  <2>2. IsFiniteSet(UpTo(due, date))
    BY <2>1, FS_Subset
  <2>3. UpTo(due \ {e}, date) = UpTo(due, date) \ {e}
    BY DEF UpTo
  <2>4. Cardinality(UpTo(due, date)) \in Nat
    BY <2>2, FS_CardinalityType
  <2>5. \A S : IsFiniteSet(S) /\ e \in S => Cardinality(S \ {e}) = Cardinality(S) - 1
    BY ONLY FS_RemoveElement
  <2>6. Cardinality(UpTo(due, date) \ {e}) = Cardinality(UpTo(due, date)) - 1
    BY <2>1, <2>2, <2>5
  <2> QED BY <2>3, <2>4, <2>6
<1>10. left # dates => Cardinality(UpTo(due, first)) = 1
  BY FS_Singleton
<1>11. ASSUME NEW i \in 1 .. size - 1
      PROVE  rest[i] = seq[i + 1]
  <2>1. i + 1 \in 1 .. size
    BY <1>3
  <2>2. ASSUME NEW date \in dates
        PROVE  date \in left /\ i <= Cardinality(UpTo(due \ {e}, date))
                 <=> i + 1 <= Cardinality(UpTo(due, date))
    <3>1. i <= Cardinality(UpTo(due \ {e}, date)) <=> i + 1 <= Cardinality(UpTo(due, date))
      <4>1. i \in Nat /\ \A n \in Nat : i <= n - 1 <=> i + 1 <= n
        OBVIOUS
      <4> QED BY <1>9, <4>1
    <3>2. CASE date \in left
      BY <3>1, <3>2
    <3>3. CASE date \notin left
      <4>1. date = first /\ left # dates
        BY <3>3
      <4>2. Cardinality(UpTo(due, date)) = 1
        BY <1>10, <4>1
      <4> QED BY <3>3, <4>2
    <3> QED BY <3>2, <3>3
  <2>3. {date \in left : i <= Cardinality(UpTo(due \ {e}, date))}
          = {date \in dates : i + 1 <= Cardinality(UpTo(due, date))}
    BY <2>2
  <2>4. rest[i] = Min({date \in left : i <= Cardinality(UpTo(due \ {e}, date))})
    BY <1>4 DEF Ordered
  <2>5. seq[i + 1] = Min({date \in dates : i + 1 <= Cardinality(UpTo(due, date))})
    BY <2>1 DEF Ordered
  <2> QED BY <2>3, <2>4, <2>5
<1> HIDE DEF seq, rest, size
<1>12. \A i \in 1 .. Len(rest) : rest[i] = Tail(seq)[i]
  BY <1>6, <1>8, <1>11
<1>13. rest = Tail(seq)
  BY <1>6, <1>8, <1>12, SeqEqual
<1> QED BY <1>5, <1>13 DEF seq, rest

\* What is left of each symbol, and its dates.
LEMMA LeftFacts ==
  ASSUME TypeOK, NEW s \in Symbols
  PROVE  /\ IsFiniteSet(Left(s))
         /\ \A n \in Left(s) : n \in 1 .. Len(rows[s]) /\ rows[s][n].date \in Nat
         /\ \A date : IsFiniteSet(LeftOf(s, date)) /\ Cardinality(LeftOf(s, date)) \in Nat
<1>1. next[s] \in Nat /\ Len(rows[s]) \in Nat
  BY Facts
<1>2. IsFiniteSet(Left(s))
  <2>1. \A a, b \in Nat : IsFiniteSet(a + 1 .. b)
    BY FS_Interval
  <2> QED BY <1>1, <2>1 DEF Left
<1>3. \A n \in Left(s) : n \in 1 .. Len(rows[s])
  BY <1>1 DEF Left
<1>4. \A n \in Left(s) : rows[s][n].date \in Nat
  BY <1>3, Facts
<1>5. ASSUME NEW date
      PROVE  IsFiniteSet(LeftOf(s, date)) /\ Cardinality(LeftOf(s, date)) \in Nat
  <2>1. LeftOf(s, date) \in SUBSET Left(s)
    BY DEF LeftOf
  <2>2. IsFiniteSet(LeftOf(s, date))
    BY <1>2, <2>1, FS_Subset
  <2> QED BY <2>2, FS_CardinalityType
<1> QED BY <1>2, <1>3, <1>4, <1>5

\* A date comes as often as in the symbol that has most rows of it.
LEMMA TimesFacts ==
  ASSUME TypeOK, NEW date
  PROVE  /\ Times(date) \in Nat
         /\ \E s \in Symbols : Cardinality(LeftOf(s, date)) = Times(date)
         /\ \A s \in Symbols : Cardinality(LeftOf(s, date)) <= Times(date)
<1> DEFINE f == [s \in Symbols |-> Cardinality(LeftOf(s, date))]
<1>1. PICK counts : counts = {Cardinality(LeftOf(s, date)) : s \in Symbols}
  OBVIOUS
<1>2. counts \subseteq Nat /\ counts # {}
  BY <1>1, LeftFacts, FeedAssumption
<1>3. IsFiniteSet(counts)
  <2>1. counts = {f[s] : s \in Symbols}
    BY <1>1
  <2> HIDE DEF f
  <2> QED BY <2>1, ImageIsFinite, FeedAssumption
<1>4. Max(counts) \in counts /\ \A c \in counts : c <= Max(counts)
  BY <1>2, <1>3, MaxOfNaturals
<1>5. Times(date) = Max(counts)
  BY <1>1 DEF Times
<1> QED BY <1>1, <1>2, <1>4, <1>5

\* A date is left as long as it comes.
LEMMA DatesFacts ==
  ASSUME TypeOK
  PROVE  /\ DatesLeft \subseteq Nat /\ IsFiniteSet(DatesLeft)
         /\ \A date : date \in DatesLeft <=> \E s \in Symbols : LeftOf(s, date) # {}
         /\ \A date : date \in DatesLeft <=> Times(date) # 0
<1>1. \A date : date \in DatesLeft <=> \E s \in Symbols : LeftOf(s, date) # {}
  BY DEF DatesLeft, LeftOf
<1>2. DatesLeft \subseteq Nat
  BY LeftFacts DEF DatesLeft
<1>3. IsFiniteSet(DatesLeft)
  <2> DEFINE datesOf == [s \in Symbols |-> {rows[s][n].date : n \in Left(s)}]
  <2>1. ASSUME NEW s \in Symbols
        PROVE  IsFiniteSet(datesOf[s])
    <3> DEFINE f == [n \in Left(s) |-> rows[s][n].date]
    <3>1. datesOf[s] = {f[n] : n \in Left(s)}
      OBVIOUS
    <3> HIDE DEF f, datesOf
    <3> QED BY <3>1, ImageIsFinite, LeftFacts
  <2>2. DatesLeft = UNION {datesOf[s] : s \in Symbols}
    BY DEF DatesLeft
  <2> HIDE DEF datesOf
  <2>3. PICK all : all = {datesOf[s] : s \in Symbols}
    OBVIOUS
  <2>4. IsFiniteSet(all)
    BY <2>3, ImageIsFinite, FeedAssumption
  <2>5. \A some \in all : IsFiniteSet(some)
    BY <2>1, <2>3
  <2> QED BY <2>2, <2>3, <2>4, <2>5, FS_UNION
<1>4. ASSUME NEW date
      PROVE  (\E s \in Symbols : LeftOf(s, date) # {}) <=> Times(date) # 0
  <2>1. \A s \in Symbols : /\ Cardinality(LeftOf(s, date)) \in Nat
                           /\ LeftOf(s, date) = {} <=> Cardinality(LeftOf(s, date)) = 0
    BY LeftFacts, FS_EmptySet
  <2> QED BY <2>1, TimesFacts
<1> QED BY <1>1, <1>2, <1>3, <1>4

LEMMA DueFacts ==
  ASSUME TypeOK
  PROVE  /\ IsFiniteSet(Due)
         /\ \A due \in Due : due[1] \in DatesLeft
         /\ \A due : due \in Due <=>
               \E date \in DatesLeft : \E k \in 1 .. Times(date) : due = << date, k >>
<1>1. \A due : due \in Due <=>
         \E date \in DatesLeft : \E k \in 1 .. Times(date) : due = << date, k >>
  BY DEF Due
<1>2. IsFiniteSet(Due)
  <2> DEFINE dueOn == [date \in DatesLeft |-> {date} \X (1 .. Times(date))]
  <2>1. ASSUME NEW date \in DatesLeft
        PROVE  IsFiniteSet(dueOn[date])
    <3>1. IsFiniteSet({date}) /\ IsFiniteSet(1 .. Times(date))
      <4>1. \A k \in Nat : IsFiniteSet(1 .. k)
        BY FS_Interval
      <4> QED BY <4>1, TimesFacts, FS_Singleton
    <3>2. IsFiniteSet({date} \X (1 .. Times(date)))
      BY <3>1, FS_Product
    <3> QED BY <3>2
  <2>2. Due = UNION {dueOn[date] : date \in DatesLeft}
    BY DEF Due
  <2> HIDE DEF dueOn
  <2>3. PICK all : all = {dueOn[date] : date \in DatesLeft}
    OBVIOUS
  <2>4. IsFiniteSet(all)
    BY <2>3, ImageIsFinite, DatesFacts
  <2>5. \A some \in all : IsFiniteSet(some)
    BY <2>1, <2>3
  <2> QED BY <2>2, <2>3, <2>4, <2>5, FS_UNION
<1> QED BY <1>1, <1>2

LEMMA ScheduleIsOrdered == Schedule = Ordered(DatesLeft, Due)
BY DEF Schedule, Ordered, UpTo

\* Where no date is null, the schedule is one that the dispatcher expects.
LEMMA NoNullDates ==
  ASSUME TypeOK, Keeps
  PROVE  DatesLeft \in SUBSET (Nat \ {0})
<1>1. \A s \in Symbols : \A n \in Left(s) : n \in DOMAIN rows[s]
  BY LeftFacts, Facts
<1>2. \A s \in Symbols : \A n \in Left(s) : rows[s][n].date # 0
  BY <1>1 DEF Keeps, NullDate
<1>3. NullDate \notin DatesLeft
  BY <1>2 DEF DatesLeft, NullDate
<1> QED BY <1>3, DatesFacts DEF NullDate

Dates == IF Keeps THEN Schedule ELSE << >>

LEMMA KeepsSchedule == TypeOK => Source!Schedule(Dates)
<1> SUFFICES ASSUME TypeOK PROVE Source!Schedule(Dates)
  OBVIOUS
<1>1. CASE Keeps
  <2>1. Dates = Ordered(DatesLeft, Due)
    BY <1>1, ScheduleIsOrdered DEF Dates
  <2>2. /\ DatesLeft \in SUBSET (Nat \ {0}) /\ IsFiniteSet(DatesLeft)
        /\ IsFiniteSet(Due) /\ \A d \in Due : d[1] \in DatesLeft
    BY <1>1, NoNullDates, DatesFacts, DueFacts
  <2>3. /\ Dates \in Seq(Nat \ {0})
        /\ \A i, j \in DOMAIN Dates : i < j => Dates[i] <= Dates[j]
    BY <2>1, <2>2, OrderedAscends
  <2> QED BY <2>3 DEF Source!Schedule
<1>2. CASE ~Keeps
  <2>1. Dates = << >>
    BY <1>2 DEF Dates
  <2> QED BY <2>1 DEF Source!Schedule
<1> QED BY <1>1, <1>2

\* The date that is peeked is the earliest left, and all that have it are taken.
LEMMA EarliestIsPeeked ==
  ASSUME TypeOK, Keeps, Dispatch
  PROVE  /\ PeekDate \in DatesLeft
         /\ \A date \in DatesLeft : PeekDate <= date
         /\ \A s \in Symbols : s \notin Taken => LeftOf(s, PeekDate) = {}
<1>1. Stuck = {}
  <2>1. \A s \in Waiting : s \in Symbols /\ Waits(s)
    BY DEF Waiting
  <2>2. \A s \in Waiting : NextRow(s).date # NullDate
    BY <2>1, RowUnderCursor, Facts DEF Keeps
  <2> QED BY <2>2 DEF Stuck
<1>2. /\ PeekDate \in Nat
      /\ \E s \in Symbols : Waits(s) /\ NextRow(s).date = PeekDate
      /\ \A s \in Symbols : Waits(s) => PeekDate <= NextRow(s).date
  BY <1>1, Peeked DEF Dispatch
<1>3. ASSUME NEW s \in Symbols, NEW n \in Left(s)
      PROVE  Waits(s) /\ NextRow(s).date <= rows[s][n].date
  <2>1. /\ next[s] \in Nat /\ Len(rows[s]) \in Nat /\ DOMAIN rows[s] = 1 .. Len(rows[s])
        /\ n \in next[s] + 1 .. Len(rows[s]) /\ rows[s][n].date \in Nat
    BY Facts, LeftFacts DEF Left
  <2>2. Waits(s)
    BY <2>1 DEF Waits
  <2>3. next[s] + 1 \in DOMAIN rows[s] /\ n \in DOMAIN rows[s]
    BY <2>1
  <2>4. n = next[s] + 1 \/ next[s] + 1 < n
    BY <2>1
  <2>5. Ascending(rows[s])
    BY DEF Keeps, Merged
  <2> QED BY <2>1, <2>2, <2>3, <2>4, <2>5 DEF Ascending, NextRow
<1>4. PeekDate \in DatesLeft
  <2>1. PICK s \in Symbols : Waits(s) /\ NextRow(s).date = PeekDate
    BY <1>2
  <2>2. next[s] + 1 \in Left(s)
    BY <2>1, Facts DEF Left, Waits
  <2> QED BY <2>1, <2>2 DEF DatesLeft, NextRow
<1>5. ASSUME NEW date \in DatesLeft
      PROVE  PeekDate <= date
  <2>1. PICK s \in Symbols : \E n \in Left(s) : rows[s][n].date = date
    BY DEF DatesLeft
  <2>2. PICK n \in Left(s) : rows[s][n].date = date
    BY <2>1
  <2>3. /\ PeekDate <= NextRow(s).date /\ NextRow(s).date <= rows[s][n].date
        /\ NextRow(s).date \in Nat /\ rows[s][n].date \in Nat
    BY <1>2, <1>3, RowUnderCursor, LeftFacts
  <2> QED BY <1>2, <2>2, <2>3
<1>6. ASSUME NEW s \in Symbols, LeftOf(s, PeekDate) # {}
      PROVE  s \in Taken
  <2>1. PICK n \in Left(s) : rows[s][n].date = PeekDate
    BY <1>6 DEF LeftOf
  <2>2. /\ Waits(s) /\ PeekDate <= NextRow(s).date /\ NextRow(s).date <= PeekDate
        /\ NextRow(s).date \in Nat
    BY <1>2, <1>3, <2>1, RowUnderCursor
  <2>3. NextRow(s).date = PeekDate
    BY <1>2, <2>2
  <2> QED BY <2>2, <2>3 DEF Taken
<1> QED BY <1>4, <1>5, <1>6

\* A dispatch takes a row of the date peeked from each symbol that has one.
LEMMA LeftAfterDispatch ==
  ASSUME TypeOK, Dispatch, NEW s \in Symbols, NEW date
  PROVE  Cardinality(LeftOf(s, date))' =
            IF s \in Taken /\ date = PeekDate
            THEN Cardinality(LeftOf(s, date)) - 1 ELSE Cardinality(LeftOf(s, date))
<1>1. rows' = rows /\ next[s] \in Nat /\ Len(rows[s]) \in Nat
  BY DispatchFacts, Facts
<1>2. CASE s \notin Taken
  <2>1. next'[s] = next[s]
    BY <1>2, DispatchFacts
  <2>2. LeftOf(s, date)' = LeftOf(s, date)
    BY <1>1, <2>1 DEF LeftOf, Left
  <2> QED BY <1>2, <2>2
<1>3. CASE s \in Taken
  <2>1. next'[s] = next[s] + 1 /\ next[s] + 1 \in 1 .. Len(rows[s])
    BY <1>3, DispatchFacts
  <2>2. rows[s][next[s] + 1].date = PeekDate
    BY <1>3, TakenFacts
  <2>3. Left(s)' = Left(s) \ {next[s] + 1} /\ next[s] + 1 \in Left(s)
    BY <1>1, <2>1 DEF Left
  <2>4. LeftOf(s, date)' = LeftOf(s, date) \ {next[s] + 1}
    BY <1>1, <2>3 DEF LeftOf
  <2>5. next[s] + 1 \in LeftOf(s, date) <=> date = PeekDate
    BY <2>2, <2>3 DEF LeftOf
  <2>6. IsFiniteSet(LeftOf(s, date))
    BY LeftFacts
  <2>7. \A S, x : IsFiniteSet(S) =>
           Cardinality(S \ {x}) = IF x \in S THEN Cardinality(S) - 1 ELSE Cardinality(S)
    BY ONLY FS_RemoveElement
  <2>8. Cardinality(LeftOf(s, date) \ {next[s] + 1}) =
           IF date = PeekDate THEN Cardinality(LeftOf(s, date)) - 1 ELSE Cardinality(LeftOf(s, date))
    BY <2>5, <2>6, <2>7
  <2> QED BY <1>3, <2>4, <2>8
<1> QED BY <1>2, <1>3

LEMMA TimesAreTimes ==
  TypeOK => \A date : /\ Times(date) \in Nat
                      /\ \E s \in Symbols : Cardinality(LeftOf(s, date)) = Times(date)
                      /\ \A s \in Symbols : Cardinality(LeftOf(s, date)) <= Times(date)
BY TimesFacts

LEMMA TimesAfter ==
  (TypeOK => \A date : /\ Times(date) \in Nat
                       /\ \E s \in Symbols : Cardinality(LeftOf(s, date)) = Times(date)
                       /\ \A s \in Symbols : Cardinality(LeftOf(s, date)) <= Times(date))'
BY TimesAreTimes, PTL

LEMMA DatesAreLeft == TypeOK => \A date : date \in DatesLeft <=> Times(date) # 0
BY DatesFacts

LEMMA DatesAfter == (TypeOK => \A date : date \in DatesLeft <=> Times(date) # 0)'
BY DatesAreLeft, PTL

LEMMA DeliveriesAreDue ==
  TypeOK => \A due : due \in Due <=>
               \E date \in DatesLeft : \E k \in 1 .. Times(date) : due = << date, k >>
BY DueFacts

LEMMA DueAfter ==
  (TypeOK => \A due : due \in Due <=>
               \E date \in DatesLeft : \E k \in 1 .. Times(date) : due = << date, k >>)'
BY DeliveriesAreDue, PTL

\* The date peeked comes once less, the others as often as before.
LEMMA TimesAfterDispatch ==
  ASSUME TypeOK, TypeOK', Keeps, Dispatch, NEW date
  PROVE  Times(date)' = IF date = PeekDate THEN Times(date) - 1 ELSE Times(date)
<1> DEFINE count(s) == Cardinality(LeftOf(s, date))
<1>1. /\ Times(date) \in Nat /\ Times(date)' \in Nat
      /\ \E s \in Symbols : count(s) = Times(date)
      /\ \A s \in Symbols : count(s) <= Times(date)
      /\ \E s \in Symbols : count(s)' = Times(date)'
      /\ \A s \in Symbols : count(s)' <= Times(date)'
  BY TimesFacts, TimesAfter
<1>2. \A s \in Symbols : count(s) \in Nat
  BY LeftFacts
<1>3. \A s \in Symbols :
         count(s)' = IF s \in Taken /\ date = PeekDate THEN count(s) - 1 ELSE count(s)
  BY LeftAfterDispatch
<1>4. CASE date # PeekDate
  <2>1. \A s \in Symbols : count(s)' = count(s)
    BY <1>3, <1>4
  <2> HIDE DEF count
  <2> QED BY <1>1, <1>2, <1>4, <2>1
<1>5. CASE date = PeekDate
  <2>1. Times(date) # 0
    BY <1>5, EarliestIsPeeked, DatesFacts
  <2>2. \A s \in Symbols : s \notin Taken => count(s) = 0
    BY <1>5, EarliestIsPeeked, FS_EmptySet
  <2>3. \A s \in Symbols : count(s)' = IF s \in Taken THEN count(s) - 1 ELSE 0
    BY <1>3, <1>5, <2>2
  <2> HIDE DEF count
  <2>4. PICK s \in Symbols : count(s) = Times(date)
    BY <1>1
  <2>5. count(s)' = Times(date) - 1
    BY <2>1, <2>2, <2>3, <2>4
  <2>6. \A x \in Symbols : count(x)' <= Times(date) - 1
    BY <1>1, <1>2, <2>1, <2>3
  <2> QED BY <1>1, <1>5, <2>5, <2>6
<1> QED BY <1>4, <1>5

\* A dispatch delivers the first date of the schedule.
LEMMA DispatchDelivers ==
  ASSUME TypeOK, TypeOK', Keeps, Dispatch
  PROVE  Schedule # << >> /\ Schedule' = Tail(Schedule)
<1>1. PICK first, last : first = PeekDate /\ last = Times(PeekDate)
  OBVIOUS
<1>2. /\ first \in DatesLeft /\ last \in Nat /\ last # 0
      /\ \A date \in DatesLeft : first <= date
  BY <1>1, EarliestIsPeeked, TimesFacts, DatesFacts
<1>3. \A date : Times(date)' = IF date = first THEN Times(date) - 1 ELSE Times(date)
  BY <1>1, TimesAfterDispatch
<1>4. Times(first) = last /\ Times(first)' = last - 1
  BY <1>1, <1>3
<1>5. \A date : (date \in DatesLeft)' <=> date \in DatesLeft /\ ~(date = first /\ last = 1)
  <2> TAKE date
  <2>1. /\ date \in DatesLeft <=> Times(date) # 0
        /\ (date \in DatesLeft)' <=> Times(date)' # 0
    BY DatesFacts, DatesAfter
  <2>2. CASE date = first
    BY <1>2, <1>4, <2>1, <2>2
  <2>3. CASE date # first
    BY <1>3, <2>1, <2>3
  <2> QED BY <2>2, <2>3
<1>6. DatesLeft' = IF last = 1 THEN DatesLeft \ {first} ELSE DatesLeft
  BY <1>5
<1>7. \A due : due \in Due <=>
         \E date \in DatesLeft : \E k \in 1 .. Times(date) : due = << date, k >>
  BY DueFacts
<1>8. \A due : due \in Due' <=>
         \E date \in DatesLeft' : \E k \in 1 .. Times(date)' : due = << date, k >>
  BY DueAfter
<1> DEFINE e == << first, last >>
<1>9. e \in Due /\ e[1] = first
  BY <1>2, <1>4, <1>7
<1>10. Due' = Due \ {e}
  <2>1. ASSUME NEW due, due \in Due'
        PROVE  due \in Due \ {e}
    <3>5. PICK date \in DatesLeft' : \E k \in 1 .. Times(date)' : due = << date, k >>
      BY <1>8, <2>1
    <3>1. PICK k \in 1 .. Times(date)' : due = << date, k >>
      BY <3>5
    <3>2. date \in DatesLeft
      BY <1>5
    <3>3. Times(date) \in Nat
      BY TimesFacts
    <3>4. k \in 1 .. Times(date) /\ ~(date = first /\ k = last)
      BY <1>2, <1>3, <1>4, <3>3
    <3> QED BY <1>7, <3>1, <3>2, <3>4
  <2>2. ASSUME NEW due, due \in Due, due # e
        PROVE  due \in Due'
    <3>6. PICK date \in DatesLeft : \E k \in 1 .. Times(date) : due = << date, k >>
      BY <1>7, <2>2
    <3>1. PICK k \in 1 .. Times(date) : due = << date, k >>
      BY <3>6
    <3>2. Times(date) \in Nat
      BY TimesFacts
    <3>3. k \in 1 .. Times(date)'
      <4>1. CASE date = first
        BY <1>2, <1>4, <2>2, <3>1, <4>1
      <4>2. CASE date # first
        BY <1>3, <4>2
      <4> QED BY <4>1, <4>2
    <3>4. ~(date = first /\ last = 1)
      BY <1>4, <2>2, <3>1
    <3>5. date \in DatesLeft'
      BY <1>5, <3>4
    <3> QED BY <1>8, <3>1, <3>3, <3>5
  <2> QED BY <2>1, <2>2
<1>11. last = 1 => UpTo(Due, first) = {e}
  <2> HAVE last = 1
  <2>1. ASSUME NEW due \in Due, due[1] <= first
        PROVE  due = e
    <3>6. PICK date \in DatesLeft : \E k \in 1 .. Times(date) : due = << date, k >>
      BY <1>7
    <3>1. PICK k \in 1 .. Times(date) : due = << date, k >>
      BY <3>6
    <3>2. date <= first /\ date \in Nat /\ first \in Nat /\ first <= date
      BY <1>2, <2>1, <3>1, DatesFacts
    <3>3. date = first
      BY <3>2
    <3> QED BY <1>4, <3>1, <3>3
  <2>2. e[1] <= first
    BY <1>2, DatesFacts
  <2> QED BY <1>9, <2>1, <2>2 DEF UpTo
<1>12. /\ DatesLeft \in SUBSET (Nat \ {0}) /\ IsFiniteSet(DatesLeft)
       /\ IsFiniteSet(Due) /\ \A d \in Due : d[1] \in DatesLeft
  BY NoNullDates, DatesFacts, DueFacts
<1> HIDE DEF e
<1>13. /\ DatesLeft' \in SUBSET DatesLeft
       /\ \/ DatesLeft' = DatesLeft
          \/ DatesLeft' = DatesLeft \ {first} /\ UpTo(Due, first) = {e}
  BY <1>6, <1>11
<1>14. /\ Ordered(DatesLeft, Due) # << >>
       /\ Ordered(DatesLeft', Due \ {e}) = Tail(Ordered(DatesLeft, Due))
  <2>1. IsFirst(DatesLeft, Due, e, DatesLeft')
    BY <1>2, <1>9, <1>12, <1>13 DEF IsFirst
  <2> QED BY <2>1, OrderedTail
<1>15. Schedule = Ordered(DatesLeft, Due) /\ Schedule' = Ordered(DatesLeft', Due')
  <2>1. Schedule' = Ordered(DatesLeft', Due')
    BY DEF Schedule, Ordered, UpTo
  <2> QED BY <2>1, ScheduleIsOrdered
<1> QED BY <1>10, <1>14, <1>15

LEMMA KeepsScheduleNext == (TypeOK => Source!Schedule(Dates))'
BY KeepsSchedule, PTL

\* Where the rows and the cursors stay, the dates do.
LEMMA DatesStay ==
  ASSUME UNCHANGED << rows, next >>
  PROVE  Dates' = Dates /\ Keeps' = Keeps
<1>1. \A s : Left(s)' = Left(s)
  BY DEF Left
<1>2. \A s, date : LeftOf(s, date)' = LeftOf(s, date)
  BY <1>1 DEF LeftOf
<1>3. DatesLeft' = DatesLeft
  BY <1>1 DEF DatesLeft
<1>4. \A date : Times(date)' = Times(date)
  BY <1>2 DEF Times
<1>5. Due' = Due
  BY <1>3, <1>4 DEF Due
<1>6. Schedule' = Schedule
  BY <1>3, <1>5 DEF Schedule
<1>7. Keeps' = Keeps
  BY DEF Keeps, Merged
<1> QED BY <1>6, <1>7 DEF Dates

\* The feed is started while a worker has it, so that nobody can fill it.
Manned == worker => isStarted

\* What a step does to the dates, and to the worker.
LEMMA SourceKinds ==
  ASSUME TypeOK, Manned, [Next]_vars
  PROVE  /\ Manned'
         /\ \/ Dispatch
            \/ ~worker /\ ~worker'
            \/ UNCHANGED << rows, next >>
<1>1. ASSUME NEW new, Load(new), UNCHANGED << isStarted, worker >>
      PROVE  (~worker /\ ~worker') \/ UNCHANGED << rows, next >>
  <2>1. CASE worker
    BY <1>1, <2>1 DEF Load, Refused, Manned, loadVars
  <2>2. CASE ~worker
    BY <1>1, <2>2
  <2> QED BY <2>1, <2>2
<1>2. ASSUME NEW file \in Files, AddValues(file) \/ AddValuesFromCsv(file)
      PROVE  Manned' /\ ((~worker /\ ~worker') \/ UNCHANGED << rows, next >>)
  <2>1. UNCHANGED << isStarted, worker >>
    BY <1>2 DEF AddValues, AddValuesFromCsv
  <2>2. (\E new : Load(new)) \/ UNCHANGED loadVars
    BY <1>2 DEF AddValues, AddValuesFromCsv
  <2> QED BY <1>1, <2>1, <2>2 DEF Manned, loadVars
<1>3. ASSUME NEW symbols \in SUBSET Symbols, AddValuesFromGenerator(symbols)
      PROVE  Manned' /\ ((~worker /\ ~worker') \/ UNCHANGED << rows, next >>)
  <2>1. UNCHANGED << isStarted, worker >>
    BY <1>3 DEF AddValuesFromGenerator
  <2>2. \E new : Load(new)
    BY <1>3 DEF AddValuesFromGenerator
  <2> QED BY <1>1, <2>1, <2>2 DEF Manned
<1>4. ASSUME NEW dates \in Ranges, SetDateRange(dates)
      PROVE  Manned' /\ UNCHANGED << rows, next >>
  BY <1>4 DEF SetDateRange, Manned, loadVars
<1>5. ASSUME Reset \/ Start \/ Stop
      PROVE  Manned' /\ UNCHANGED << rows, next >>
  BY <1>5 DEF Reset, Start, Stop, Manned, loadVars
<1>6. ASSUME Dispatch
      PROVE  Manned'
  BY <1>6 DEF Dispatch, Manned
<1>7. ASSUME NEW s \in Symbols, ReadPrice(s)
      PROVE  Manned' /\ UNCHANGED << rows, next >>
  BY <1>7 DEF ReadPrice, Manned, loadVars
<1>8. ASSUME DispatchNothing \/ UNCHANGED vars
      PROVE  Manned' /\ UNCHANGED << rows, next >>
  BY <1>8 DEF DispatchNothing, vars, Manned, loadVars
<1> QED BY <1>2, <1>3, <1>4, <1>5, <1>6, <1>7, <1>8 DEF Next, Client

\* A dispatch of the feed is a delivery of the source, or the end of its worker,
\* if it keeps no schedule.
LEMMA DispatchIsDelivery ==
  ASSUME TypeOK, TypeOK', Dispatch
  PROVE  [Source!Next]_(Source!vars)
<1>1. worker /\ worker' \in BOOLEAN /\ rows' = rows
  <2>1. worker' = FALSE \/ worker' \in BOOLEAN
    BY DEF Dispatch
  <2> QED BY <2>1 DEF Dispatch
<1>2. Keeps' = Keeps
  BY <1>1 DEF Keeps, Merged
<1>3. CASE Keeps
  <2>1. Dates # << >> /\ Dates' = Tail(Dates)
    BY <1>2, <1>3, DispatchDelivers DEF Dates
  <2>2. Source!Deliver
    BY <1>1, <2>1 DEF Source!Deliver, Dates
  <2> QED BY <2>2 DEF Source!Next
<1>4. CASE ~Keeps
  <2>1. Dates' = Dates
    BY <1>2, <1>4 DEF Dates
  <2>2. CASE worker'
    BY <1>1, <2>1, <2>2, Zenon DEF Source!vars, Dates
  <2>3. CASE ~worker'
    <3>1. Source!Stop
      BY <1>1, <2>1, <2>3 DEF Source!Stop, Dates
    <3> QED BY <3>1 DEF Source!Next
  <2> QED BY <2>2, <2>3
<1> QED BY <1>3, <1>4

LEMMA SourceStep ==
  ASSUME TypeOK, TypeOK', Manned, [Next]_vars
  PROVE  [Source!Next]_(Source!vars)
<1>1. CASE Dispatch
  BY <1>1, DispatchIsDelivery
<1>2. CASE ~worker /\ ~worker'
  <2>1. Source!Schedule(Dates')
    BY KeepsScheduleNext
  <2>2. worker' = worker
    BY <1>2 DEF TypeOK
  <2>3. Source!Fill
    BY <1>2, <2>1, <2>2 DEF Source!Fill, Dates
  <2> QED BY <2>3 DEF Source!Next
<1>3. CASE UNCHANGED << rows, next >>
  <2>1. Dates' = Dates
    BY <1>3, DatesStay
  <2>2. worker \in BOOLEAN /\ worker' \in BOOLEAN
    BY DEF TypeOK
  <2>3. CASE worker' = worker
    BY <2>1, <2>3 DEF Source!vars, Dates
  <2>4. CASE ~worker /\ worker'
    <3>1. Source!Start
      BY <2>1, <2>2, <2>4 DEF Source!Start, Dates
    <3> QED BY <3>1 DEF Source!Next
  <2>5. CASE worker /\ ~worker'
    <3>1. Source!Stop
      BY <2>1, <2>2, <2>5 DEF Source!Stop, Dates
    <3> QED BY <3>1 DEF Source!Next
  <2> QED BY <2>2, <2>3, <2>4, <2>5
<1> QED BY <1>1, <1>2, <1>3, SourceKinds

LEMMA SourceInit == Init => Source!Init
<1> SUFFICES ASSUME Init PROVE Source!Init
  OBVIOUS
<1>1. TypeOK
  BY InitTypes
<1>2. \A s \in Symbols : Left(s) = {}
  BY DEF Init, Left
<1>3. DatesLeft = {}
  BY <1>2 DEF DatesLeft
<1>4. Due = {}
  BY <1>3 DEF Due
<1>5. Schedule = << >>
  BY <1>4, FS_EmptySet DEF Schedule
<1> QED BY <1>5 DEF Source!Init, Init

(***************************************************************************)
(* The feed, with its loads, files, filters, resets and null dates, is to  *)
(* the dispatcher a source of dates in ascending order, one with each      *)
(* dispatch, which nobody changes while a worker has it (dispatch_ of the   *)
(* Dispatcher relies on it), step by step and for any files.               *)
(***************************************************************************)
THEOREM FeedIsASource == Spec => ImplementsSource
<1>1. Init => Source!Init /\ Manned
  BY SourceInit DEF Init, Manned
<1>2. IInv /\ IInv' /\ Manned /\ [Next]_vars => Manned' /\ [Source!Next]_(Source!vars)
  BY SourceKinds, SourceStep DEF IInv
<1> QED BY <1>1, <1>2, AlwaysIInv, PTL DEF Spec, ImplementsSource, Source!Spec
=============================================================================
