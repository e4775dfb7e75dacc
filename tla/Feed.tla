-------------------------------- MODULE Feed --------------------------------
(***************************************************************************)
(* papryka/feed: the memory feed, its series, and the two feeds that fill   *)
(* it.  Each symbol has rows, in the order they were added, and a cursor; a *)
(* dispatch takes the rows of the smallest date under the cursors, appends  *)
(* them to the symbols' series and announces them as one set.               *)
(*                                                                         *)
(* A symbol is its place in the order of std::map, in which all loops here  *)
(* go.  values_left_ is never read and is left out.  The worker of a        *)
(* Dispatcher starts, dispatches and stops the feed; the client fills and   *)
(* resets it while no worker has it.  Nothing else subscribes to the feed's *)
(* events than what answers without calling the feed.                      *)
(***************************************************************************)
EXTENDS Integers, FiniteSetsExt, SequencesExt

CONSTANTS
    Symbols,        \* numbered in the order of their names
    Values,         \* what a row may hold
    Files,          \* the lines the client may add, with their symbol
    Ranges,         \* date ranges, pairs of dates, that set_date_range may get
    BusinessDays,   \* the days on which the calendar of the generator is open
    StartDate,      \* the generator's first day
    EndDate,        \* the generator's last day
    GeneratorDays,  \* GeneratorBase::maxlen
    Maxlen,         \* maxlen of the series
    MaxLoads        \* bound on the loads of rows

NullDate == 0

Row == [date : Nat, value : Values]

\* value_t(), which reading an absent key of current_values inserts.
DefaultValue == "default"

ASSUME FeedAssumption ==
    /\ IsFiniteSet(Symbols) /\ Symbols # {} /\ Symbols = 1 .. Cardinality(Symbols)
    /\ Maxlen \in Nat /\ MaxLoads \in Nat
    /\ Files \subseteq [symbol : Symbols, lines : Seq(Row)]
    /\ Ranges \subseteq Nat \X Nat

ASSUME GeneratorAssumption ==
    /\ StartDate \in Nat \ {0} /\ EndDate \in Nat /\ GeneratorDays \in Nat
    /\ BusinessDays \subseteq Nat

VARIABLES
    rows,           \* map_rows_
    next,           \* next_indexes_
    isStarted,      \* is_started_
    range,          \* row_filter_, << >> if there is none
    series,         \* the rows of ts_ptrs_
    currentDate,    \* current_date
    currentValues,  \* current_values
    worker,         \* a worker dispatches this feed
    sets,           \* history: the sets announced
    since,          \* history: how many of them before a symbol was last loaded
    lost,           \* history: a set was taken and not announced
    loads           \* the number of loads so far

loadVars == << rows, next, since, loads >>
setVars == << series, currentDate, currentValues, sets, lost >>
vars == << loadVars, setVars, isStarted, range, worker >>

-----------------------------------------------------------------------------
(***************************************************************************)
(* Filling the feed.                                                       *)
(***************************************************************************)
Rewound(symbols) == [s \in Symbols |-> IF s \in symbols THEN 0 ELSE next[s]]

\* Slip: rows may be added at any time.
Refused_Never == FALSE

\* add_values answers false once the feed is started.
Refused == isStarted

(***************************************************************************)
(* add_values, once for each symbol of new: the rows go behind those the    *)
(* symbol has, and the symbol starts again from its first row.             *)
(***************************************************************************)
Load(new) ==
    IF Refused
    THEN UNCHANGED loadVars
    ELSE /\ rows' = [s \in Symbols |-> IF s \in DOMAIN new THEN rows[s] \o new[s] ELSE rows[s]]
         /\ next' = Rewound(DOMAIN new)
         /\ since' = [s \in Symbols |-> IF s \in DOMAIN new THEN Len(sets) ELSE since[s]]
         /\ loads' = loads + 1

AddValues(file) ==
    /\ loads < MaxLoads
    /\ Load([s \in {file.symbol} |-> file.lines])
    /\ UNCHANGED << setVars, isStarted, range, worker >>

\* DateRowFilter::include_row, if a range was set.
IncludeRow(row) == range = << >> \/ row.date \in range[1] .. range[2]

Ascending(seq) == \A i, j \in DOMAIN seq : i < j => seq[i].date <= seq[j].date

Included(lines) == {i \in DOMAIN lines : IncludeRow(lines[i])}

\* What std::sort, which is not stable, may make of the lines that pass the filter.
Sortings(lines) ==
    LET places == 1 .. Cardinality(Included(lines))
    IN  {sorted \in {[n \in places |-> lines[p[n]]] : p \in Bijection(places, Included(lines))} :
            Ascending(sorted)}

\* FeedCsv reads a file, filters and sorts its lines, and adds them, if any.
AddValuesFromCsv(file) ==
    /\ loads < MaxLoads
    /\ \E sorted \in Sortings(file.lines) :
          IF sorted # << >> THEN Load([s \in {file.symbol} |-> sorted]) ELSE UNCHANGED loadVars
    /\ UNCHANGED << setVars, isStarted, range, worker >>

\* The business days among the days that the generator's loop looks at.
GeneratedDays == {d \in BusinessDays : d >= StartDate /\ d <= EndDate /\ d < StartDate + GeneratorDays}

\* These days as the loop comes to them.
Calendar ==
    {days \in [1 .. Cardinality(GeneratedDays) -> GeneratedDays] :
        \A i, j \in DOMAIN days : i < j => days[i] < days[j]}

\* FeedSynthetic adds a row of every such day to each symbol of data; it
\* asserts that there is one.
AddValuesFromGenerator(symbols) ==
    /\ loads < MaxLoads
    /\ symbols # {} /\ GeneratedDays # {}
    /\ \E value \in Values, days \in Calendar :
          Load([s \in symbols |-> [i \in DOMAIN days |-> [date |-> days[i], value |-> value]]])
    /\ UNCHANGED << setVars, isStarted, range, worker >>

SetDateRange(dates) ==
    /\ ~worker
    /\ range' = dates
    /\ UNCHANGED << loadVars, setVars, isStarted, worker >>

(***************************************************************************)
(* reset replaces the series by empty ones.  The cursors stay.             *)
(***************************************************************************)
Reset ==
    /\ ~worker
    /\ isStarted' = FALSE
    /\ series' = [s \in Symbols |-> << >>]
    /\ UNCHANGED << loadVars, currentDate, currentValues, sets, lost, range, worker >>

-----------------------------------------------------------------------------
(***************************************************************************)
(* Dispatching, by the worker.                                             *)
(***************************************************************************)
Waits(s) == next[s] < Len(rows[s])

NextRow(s) == rows[s][next[s] + 1]

Eof == \A s \in Symbols : ~Waits(s)

\* The dates under the cursors of some symbols.
NextDates(symbols) == {NextRow(s).date : s \in symbols}

Waiting == {s \in Symbols : Waits(s)}

\* Slip: the test for the null date, which the loop begins with, is missing.
PeekDate_NoNull == Min({NullDate} \cup NextDates(Waiting))

\* Slip: the first symbol's date will do.
PeekDate_First ==
    LET dated == {s \in Waiting : NextRow(s).date # NullDate}
    IN  IF dated = {} THEN NullDate ELSE NextRow(Min(dated)).date

\* The symbols whose next row has a null date.
Stuck == {s \in Waiting : NextRow(s).date = NullDate}

\* The symbols behind them.
Counted == {s \in Waiting : \A t \in Stuck : t < s}

(***************************************************************************)
(* peek_date.  A null date counts as no date: it is smaller than what the   *)
(* loop has found so far, and the next symbol's date takes its place,       *)
(* whatever it is.  So the dates behind the last null date count.          *)
(***************************************************************************)
PeekDate == IF Counted = {} THEN NullDate ELSE Min(NextDates(Counted))

\* Slip: stops at the first symbol whose row is of the date.
Taken_One ==
    LET due == {s \in Symbols : Waits(s) /\ NextRow(s).date = PeekDate}
    IN  {s \in due : \A t \in due : s <= t}

\* The symbols whose row is of the date that get_next has peeked.
Taken == {s \in Symbols : Waits(s) /\ NextRow(s).date = PeekDate}

\* Slip: all cursors move on, due or not.
Advanced_All == [s \in Symbols |-> IF Waits(s) THEN next[s] + 1 ELSE next[s]]

Advanced == [s \in Symbols |-> IF s \in Taken THEN next[s] + 1 ELSE next[s]]

TakenValues == [s \in Taken |-> NextRow(s).value]

\* current_values is assigned as a whole.
Current == TakenValues

\* Slip: lets one row too many in.
Full_Above(s) == Len(series[s]) > Maxlen

\* Timeseries::push_back throws.  Its date test compares a row with itself.
Full(s) == Len(series[s]) >= Maxlen

\* The symbols whose series get their row before a full one ends the loop.
Pushed == {s \in Taken : \A full \in Taken : Full(full) => s < full}

(***************************************************************************)
(* Feed::dispatch, as the worker calls it.  The cursors and current_values  *)
(* move before a full series may throw; current_date and the subscribers    *)
(* come after.  A subscriber may throw, too.  After an exception the worker *)
(* is gone and the feed is still started.  Nothing happens when the date    *)
(* peeked is null, as often as the worker asks.                            *)
(***************************************************************************)
Dispatch ==
    /\ worker /\ ~Eof /\ PeekDate # NullDate
    /\ next' = Advanced
    /\ currentValues' = Current
    /\ series' = [s \in Symbols |->
                     IF s \in Pushed THEN Append(series[s], NextRow(s)) ELSE series[s]]
    /\ IF \E s \in Taken : Full(s)
       THEN lost' = TRUE /\ worker' = FALSE /\ UNCHANGED << currentDate, sets >>
       ELSE /\ currentDate' = PeekDate
            /\ sets' = Append(sets, [date |-> PeekDate, values |-> TakenValues])
            /\ worker' \in BOOLEAN
            /\ UNCHANGED lost
    /\ UNCHANGED << rows, since, loads, isStarted, range >>

\* The same when the date is null: the worker spins.
DispatchNothing ==
    /\ worker /\ ~Eof /\ PeekDate = NullDate
    /\ UNCHANGED vars

\* A strategy reads a price: operator[] inserts what is not there.
ReadPrice(s) ==
    /\ worker
    /\ currentValues' = [x \in DOMAIN currentValues \cup {s} |->
                           IF x \in DOMAIN currentValues THEN currentValues[x] ELSE DefaultValue]
    /\ UNCHANGED << loadVars, series, currentDate, sets, lost, isStarted, range, worker >>

Start ==
    /\ ~worker
    /\ isStarted' = TRUE /\ worker' = TRUE
    /\ UNCHANGED << loadVars, setVars, range >>

\* The worker stops the feed at the end of all subjects, or when asked to.
Stop ==
    /\ worker
    /\ isStarted' = FALSE /\ worker' = FALSE
    /\ UNCHANGED << loadVars, setVars, range >>

-----------------------------------------------------------------------------
Init ==
    /\ rows = [s \in Symbols |-> << >>] /\ next = [s \in Symbols |-> 0]
    /\ isStarted = FALSE /\ range = << >>
    /\ series = [s \in Symbols |-> << >>]
    /\ currentDate = NullDate /\ currentValues = << >>
    /\ worker = FALSE
    /\ sets = << >> /\ since = [s \in Symbols |-> 0]
    /\ lost = FALSE /\ loads = 0

Client ==
    \/ \E file \in Files : AddValues(file) \/ AddValuesFromCsv(file)
    \/ \E symbols \in SUBSET Symbols : AddValuesFromGenerator(symbols)
    \/ \E dates \in Ranges : SetDateRange(dates)
    \/ Reset

Next ==
    \/ Client
    \/ Start
    \/ Dispatch
    \/ DispatchNothing
    \/ \E s \in Symbols : ReadPrice(s)
    \/ Stop

\* The worker dispatches as long as it runs and the feed is not at its end.
Spec == Init /\ [][Next]_vars /\ WF_vars(Dispatch)
=============================================================================
