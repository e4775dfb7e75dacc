--------------------------- MODULE BacktestProofs ---------------------------
(***************************************************************************)
(* Proofs about module Backtest: what was proved of the exchange alone,     *)
(* with bars of any day, and of the feed alone (the instance P), is put     *)
(* together for the two at work, for every value of the constants.          *)
(***************************************************************************)
EXTENDS Backtest, ExchangeStepProofs

P == INSTANCE FeedProofs WITH
        Values <- Bars, Ranges <- {},
        BusinessDays <- {}, StartDate <- 1, EndDate <- 0, GeneratorDays <- 0

-----------------------------------------------------------------------------
(***************************************************************************)
(* The feed, as module Feed has it and as FeedProofs knows it.              *)
(***************************************************************************)
\* What FeedProofs assumes of the constants.
LEMMA FeedGiven ==
  /\ P!IsFiniteSet(Symbols) /\ Symbols # {} /\ Symbols = 1 .. P!Cardinality(Symbols)
  /\ Maxlen \in Nat /\ MaxLoads \in Nat
  /\ Files \subseteq [symbol : Symbols, lines : Seq(P!Row)]
<1>1. /\ P!Cardinality(Symbols) = Cardinality(Symbols)
      /\ P!IsFiniteSet(Symbols) <=> IsFiniteSet(Symbols)
  BY DEF P!Cardinality, P!IsFiniteSet, Cardinality, IsFiniteSet
<1> QED BY <1>1, BacktestAssumption DEF P!Row

LEMMA SameFeed ==
  /\ F!PeekDate = P!PeekDate /\ F!Taken = P!Taken /\ F!TakenValues = P!TakenValues
  /\ F!Merged = P!Merged /\ F!Eof = P!Eof
<1>1. F!PeekDate = P!PeekDate
  BY DEF F!PeekDate, F!Counted, F!Stuck, F!Waiting, F!NextDates, F!NextRow, F!Waits,
         F!NullDate, F!Min,
         P!PeekDate, P!Counted, P!Stuck, P!Waiting, P!NextDates, P!NextRow, P!Waits,
         P!NullDate, P!Min
<1>2. F!Taken = P!Taken
  BY <1>1 DEF F!Taken, F!Waits, F!NextRow, P!Taken, P!Waits, P!NextRow
<1>3. F!TakenValues = P!TakenValues
  BY <1>2 DEF F!TakenValues, F!NextRow, P!TakenValues, P!NextRow
<1>4. F!Merged = P!Merged
  BY DEF F!Merged, F!Ascending, P!Merged, P!Ascending
<1>5. F!Eof = P!Eof
  BY DEF F!Eof, F!Waits, P!Eof, P!Waits
<1> QED BY <1>1, <1>2, <1>3, <1>4, <1>5

LEMMA SameDispatch == F!Dispatch <=> P!Dispatch
BY SameFeed DEF F!Dispatch, F!Advanced, F!Current, F!Pushed, F!Full, F!NextRow, F!NullDate,
         P!Dispatch, P!Advanced, P!Current, P!Pushed, P!Full, P!NextRow, P!NullDate

LEMMA FeedInit == F!Init => P!IInv
<1>1. F!Init => P!Init
  BY DEF F!Init, P!Init, F!NullDate, P!NullDate
<1> QED BY <1>1, FeedGiven, P!InitIInv

\* What the composition does to the feed.
FeedSteps ==
    \/ \E file \in Files : F!AddValues(file)
    \/ F!Start
    \/ F!Stop
    \/ F!Dispatch
    \/ UNCHANGED feedVars

LEMMA FeedKept == P!IInv /\ FeedSteps => P!IInv'
<1>1. ASSUME NEW file \in Files, F!AddValues(file) PROVE P!AddValues(file)
  BY <1>1 DEF F!AddValues, F!Load, F!Refused, F!Rewound, F!loadVars, F!setVars,
              P!AddValues, P!Load, P!Refused, P!Rewound, P!loadVars, P!setVars
<1>2. F!Start => P!Start
  BY DEF F!Start, P!Start, F!loadVars, F!setVars, P!loadVars, P!setVars
<1>3. F!Stop => P!Stop
  BY DEF F!Stop, P!Stop, F!loadVars, F!setVars, P!loadVars, P!setVars
<1>4. UNCHANGED feedVars => UNCHANGED P!vars
  BY DEF feedVars, P!vars, P!loadVars, P!setVars
<1>5. FeedSteps => [P!Next]_P!vars
  BY <1>1, <1>2, <1>3, <1>4, SameDispatch DEF FeedSteps, P!Next, P!Client
<1> QED BY <1>5, FeedGiven, P!NextIInv

-----------------------------------------------------------------------------
(***************************************************************************)
(* The kinds of steps.                                                     *)
(***************************************************************************)
\* A set that is taken is one that the exchange may get.
LEMMA TakenIsOffered ==
  ASSUME P!TypeOK
  PROVE  /\ P!TakenValues \in ValueMaps /\ ToDate(P!PeekDate) \in Nat /\ P!PeekDate \in Nat
         /\ P!Taken \subseteq Symbols /\ DOMAIN P!TakenValues = P!Taken
         /\ \A s \in P!Taken : P!TakenValues[s] \in Bars
         /\ [date |-> P!PeekDate, values |-> P!TakenValues] \in P!Announcement
<1>1. /\ P!Taken \subseteq Symbols /\ DOMAIN P!TakenValues = P!Taken
      /\ \A s \in P!Taken : P!TakenValues[s] \in Bars
      /\ [date |-> P!PeekDate, values |-> P!TakenValues] \in P!Announcement
  BY FeedGiven, P!TakenFacts
<1>2. P!TakenValues \in [P!Taken -> Bars]
  BY <1>1 DEF P!TakenValues
<1>3. P!TakenValues \in ValueMaps
  BY <1>1, <1>2, BacktestAssumption
<1>4. P!PeekDate \in Nat
  BY FeedGiven, P!Peeked
<1>5. \A n \in Nat : n \div PerDay \in Nat
  BY BacktestAssumption
<1> QED BY <1>1, <1>3, <1>4, <1>5 DEF ToDate

\* A set is announced, and a walk begins.
Brings ==
    /\ fault = "none" /\ cursor = NoCursor /\ stack = << >>
    /\ worker /\ worker' /\ ~P!Eof /\ P!PeekDate # P!NullDate
    /\ next' = P!Advanced /\ currentValues' = P!TakenValues
    /\ sets' = Append(sets, [date |-> P!PeekDate, values |-> P!TakenValues])
    /\ OnBars(P!TakenValues, ToDate(P!PeekDate))
    /\ UNCHANGED << rows, since, isStarted, lost >>

\* A set is lost to a full series.
Loses ==
    /\ lost' /\ ~worker'
    /\ currentValues' = P!TakenValues
    /\ UNCHANGED << vars, rows, since, sets, isStarted >>

\* The client adds the rows of a file to a feed that is not started.
Adds ==
    /\ fault = "none" /\ ~isStarted
    /\ \E s \in Symbols :
          /\ next'[s] = 0 /\ since'[s] = Len(sets)
          /\ \A t \in Symbols \ {s} :
                rows'[t] = rows[t] /\ next'[t] = next[t] /\ since'[t] = since[t]
    /\ UNCHANGED << vars, sets, currentValues, isStarted, worker, lost >>

\* The feed is started or stopped, or nothing happens.
Turns ==
    /\ UNCHANGED << vars, rows, next, since, sets, currentValues, lost >>
    /\ \/ isStarted' /\ worker'
       \/ cursor = NoCursor /\ ~worker'
       \/ UNCHANGED << isStarted, worker >>

\* The exchange and its clients go on, beside the feed.
GoesOn == (Client \/ Walk) /\ UNCHANGED feedVars

LEMMA StepsOfBacktest ==
  ASSUME P!TypeOK, [BacktestNext]_backtestVars
  PROVE  /\ Brings \/ Loses \/ Adds \/ Turns \/ GoesOn
         /\ Moves /\ FeedSteps
<1>1. CASE AddRows
  <2>1. PICK file \in Files : F!AddValues(file)
    BY <1>1 DEF AddRows
  <2>2. file.symbol \in Symbols
    BY BacktestAssumption
  <2>3. ASSUME isStarted PROVE Turns
    <3>1. UNCHANGED << rows, next, since >>
      BY <2>1, <2>3 DEF F!AddValues, F!Load, F!Refused, F!loadVars
    <3>2. UNCHANGED << sets, currentValues, isStarted, worker, lost >>
      BY <2>1 DEF F!AddValues, F!setVars
    <3>3. UNCHANGED vars
      BY <1>1 DEF AddRows
    <3> QED BY <3>1, <3>2, <3>3 DEF Turns
  <2>4. ASSUME ~isStarted PROVE Adds
    <3>1. /\ next'[file.symbol] = 0 /\ since'[file.symbol] = Len(sets)
          /\ \A t \in Symbols \ {file.symbol} :
                rows'[t] = rows[t] /\ next'[t] = next[t] /\ since'[t] = since[t]
      BY <2>1, <2>2, <2>4 DEF F!AddValues, F!Load, F!Refused, F!Rewound
    <3>2. UNCHANGED << sets, currentValues, isStarted, worker, lost >>
      BY <2>1 DEF F!AddValues, F!setVars
    <3>3. fault = "none" /\ UNCHANGED vars
      BY <1>1 DEF AddRows
    <3> QED BY <2>2, <2>4, <3>1, <3>2, <3>3 DEF Adds
  <2> QED BY <1>1, <2>1, <2>3, <2>4 DEF AddRows, Moves, FeedSteps
<1>2. CASE StartFeed
  BY <1>2 DEF StartFeed, F!Start, F!loadVars, F!setVars, Turns, Moves, FeedSteps
<1>3. CASE StopFeed
  BY <1>3 DEF StopFeed, WorkerFree, F!Stop, F!loadVars, F!setVars, Turns, Moves, FeedSteps
<1>4. CASE DispatchSet
  <2> DEFINE set == [date |-> P!PeekDate, values |-> P!TakenValues]
  <2>1. /\ P!Dispatch /\ WorkerFree /\ FeedSteps
        /\ \/ sets' # sets /\ worker' /\ OnBars(P!TakenValues, ToDate(P!PeekDate))
           \/ sets' = sets /\ UNCHANGED vars
    BY <1>4, SameFeed, SameDispatch DEF DispatchSet, FeedSteps
  <2>2. Append(sets, set) # sets
    <3>1. sets \in Seq(P!Announcement) /\ set \in P!Announcement
      BY TakenIsOffered DEF P!TypeOK
    <3> HIDE DEF set
    <3>2. Len(Append(sets, set)) = Len(sets) + 1 /\ Len(sets) \in Nat
      BY <3>1, AppendFacts
    <3> QED BY <3>2
  <2> HIDE DEF set
  <2>3. /\ next' = P!Advanced /\ currentValues' = P!TakenValues
        /\ worker /\ ~P!Eof /\ P!PeekDate # P!NullDate
        /\ UNCHANGED << rows, since, isStarted >>
        /\ \/ lost' = TRUE /\ worker' = FALSE /\ sets' = sets
           \/ sets' = Append(sets, set) /\ UNCHANGED lost
    BY <2>1 DEF P!Dispatch, P!Current, set
  <2>4. CASE sets' = sets
    BY <2>1, <2>2, <2>3, <2>4 DEF Loses, Moves
  <2>5. CASE sets' # sets
    <3>1. /\ sets' = Append(sets, set) /\ UNCHANGED lost /\ worker'
          /\ OnBars(P!TakenValues, ToDate(P!PeekDate))
      BY <2>1, <2>3, <2>5
    <3>2. Moves
      BY <3>1, TakenIsOffered DEF Moves
    <3> QED BY <2>1, <2>3, <3>1, <3>2 DEF Brings, WorkerFree, set
  <2> QED BY <2>4, <2>5, <2>1
<1>5. CASE ClientCalls \/ WalkGoesOn
  BY <1>5 DEF ClientCalls, WalkGoesOn, GoesOn, Moves, FeedSteps
<1>6. CASE Dead \/ UNCHANGED backtestVars
  BY <1>6 DEF Dead, backtestVars, vars, feedVars, Turns, Moves, FeedSteps
<1> QED BY <1>1, <1>2, <1>3, <1>4, <1>5, <1>6 DEF BacktestNext

-----------------------------------------------------------------------------
(***************************************************************************)
(* The exchange at work.                                                   *)
(***************************************************************************)
\* What is known of the two by themselves.
Base == Inv /\ NoneInitial /\ P!IInv

LEMMA InitBase == BacktestInit => Base
<1>1. Init => NoneInitial
  BY DEF Init, NoneInitial, Ids
<1> QED BY <1>1, InitInv, FeedInit DEF BacktestInit, Base

LEMMA BaseStep ==
  ASSUME Base, [BacktestNext]_backtestVars
  PROVE  /\ Base' /\ StepOf /\ UNCHANGED allowNegative
         /\ Brings \/ Loses \/ Adds \/ Turns \/ GoesOn
<1>1. P!TypeOK
  BY DEF Base, P!IInv
<1>2. Moves /\ FeedSteps
  BY <1>1, StepsOfBacktest
<1>3. Inv' /\ StepOf /\ UNCHANGED allowNegative
  BY <1>2, MovesInv, MoveKinds, OverdraftStays DEF Base
<1>4. NoneInitial' /\ P!IInv'
  BY <1>2, <1>3, NoneStaysInitial, FeedKept DEF Base
<1> QED BY <1>1, <1>3, <1>4, StepsOfBacktest DEF Base

LEMMA AlwaysBase == BacktestSpec => []Base
<1>1. Base /\ [BacktestNext]_backtestVars => Base'
  BY BaseStep
<1> QED BY <1>1, InitBase, PTL DEF BacktestSpec

(***************************************************************************)
(* Whatever the feed makes of the files, in whatever order and however      *)
(* often it is filled, started and stopped: the exchange's state is well    *)
(* typed, the book holds the orders that can still trade, their states say  *)
(* what was executed of them, and the walk knows where it is.              *)
(***************************************************************************)
THEOREM ExchangeStands == BacktestSpec => []Inv
<1>1. Base => Inv
  BY DEF Base
<1> QED BY <1>1, AlwaysBase, PTL

\* The exchange that the feed drives is a Brokerage, also when the days go back.
THEOREM BacktestIsABrokerage == BacktestSpec => ImplementsBrokerage
<1>1. Base /\ [BacktestNext]_backtestVars => [B!BrokerageNext]_(B!state)
  BY BaseStep, StepBrokerage DEF Base
<1>2. BacktestInit => B!BrokerageInit
  BY InitBrokerage DEF BacktestInit
<1> QED BY <1>1, <1>2, AlwaysBase, PTL
        DEF BacktestSpec, ImplementsBrokerage, B!BrokerageSpec

(***************************************************************************)
(* The shares of a symbol held long follow the executions exactly, over the *)
(* whole back-test, as long as doubles hold exactly what is held; sales     *)
(* need a target whose conversion of a negative double wraps.              *)
(***************************************************************************)
THEOREM BacktestKeepsLongShares == BacktestSpec => LongSharesKept
<1>1. Base /\ Base' /\ [BacktestNext]_backtestVars =>
        [\A s \in Symbols :
            /\ IsExact(Net(s)) /\ IsExact(Net(s)') /\ shares[s] = Net(s)
            /\ Net(s)' >= Net(s) \/ Casts = {"wraps"}
            => shares'[s] = Net(s)']_vars
  BY BaseStep, LongSharesStep DEF Base
<1> QED BY <1>1, AlwaysBase, PTL DEF BacktestSpec, LongSharesKept

-----------------------------------------------------------------------------
(***************************************************************************)
(* What the exchange goes by is the last set.                              *)
(***************************************************************************)
Synced ==
    /\ values = IF sets = << >> THEN [s \in {} |-> 0] ELSE sets[Len(sets)].values
    /\ today = IF sets = << >> THEN 0 ELSE ToDate(sets[Len(sets)].date)
    /\ \A s \in DOMAIN currentValues : currentValues[s] \in Bars

\* Between two sets the exchange keeps its bars, and begins no walk.
LEMMA ClockStays ==
  ASSUME Inv, Client \/ Walk
  PROVE  UNCHANGED << values, barNo, today >> /\ (cursor = NoCursor => cursor' = NoCursor)
<1>1. CASE Client
  BY <1>1 DEF Client, SubmitOrder, CancelOrder
<1>2. CASE VisitOrder \/ ReturnToClient
  BY <1>2 DEF VisitOrder, ReturnToClient
<1>3. CASE ReturnAccepted \/ ReturnPartiallyFilled \/ ReturnFilled \/ ReturnCanceled
  <2>1. UNCHANGED << values, barNo, today >>
    BY <1>3 DEF ReturnAccepted, ReturnPartiallyFilled, ReturnFilled, ReturnCanceled
  <2>2. Len(<< >>) = 0
    OBVIOUS
  <2>3. WalkFrame
    BY <1>3, <2>2 DEF ReturnAccepted, ReturnPartiallyFilled, ReturnFilled, ReturnCanceled,
                      WalkResumes, WalkFrame, Inv, WalkStands
  <2>4. cursor # NoCursor
    BY <2>3, LenProperties DEF Inv, WalkStands, TypeOK, Ids, NoCursor
  <2> QED BY <2>1, <2>4
<1> QED BY <1>1, <1>2, <1>3 DEF Walk

\* The list of sets with one set more.
LEMMA OneSetMore ==
  ASSUME P!TypeOK, Brings
  PROVE  LET set == [date |-> P!PeekDate, values |-> P!TakenValues]
         IN  /\ sets' = Append(sets, set) /\ sets' # << >>
             /\ Len(sets) \in Nat /\ Len(sets') = Len(sets) + 1
             /\ DOMAIN sets = 1..Len(sets) /\ DOMAIN sets' = 1..Len(sets) + 1
             /\ sets'[Len(sets) + 1] = set
             /\ \A i \in 1..Len(sets) : sets'[i] = sets[i]
<1> DEFINE set == [date |-> P!PeekDate, values |-> P!TakenValues]
<1>1. sets \in Seq(P!Announcement) /\ set \in P!Announcement
  BY TakenIsOffered DEF P!TypeOK
<1>2. sets' = Append(sets, set)
  BY DEF Brings
<1> HIDE DEF set
<1>3. /\ sets' \in Seq(P!Announcement) /\ sets' # << >>
      /\ Len(sets) \in Nat /\ Len(sets') = Len(sets) + 1
      /\ sets'[Len(sets) + 1] = set
      /\ \A i \in 1..Len(sets) : sets'[i] = sets[i]
  BY <1>1, <1>2, AppendFacts
<1>4. DOMAIN sets = 1..Len(sets) /\ DOMAIN sets' = 1..Len(sets')
  BY <1>1, <1>3, LenProperties
<1> QED BY <1>2, <1>3, <1>4 DEF set

LEMMA SyncedStep ==
  ASSUME Base, Synced, [BacktestNext]_backtestVars
  PROVE  Synced'
<1>1. Inv /\ P!TypeOK
  BY DEF Base, P!IInv
<1>2. CASE Brings
  <2>1. /\ values' = P!TakenValues /\ today' = ToDate(P!PeekDate)
        /\ currentValues' = P!TakenValues
    BY <1>2 DEF Brings, OnBars
  <2>2. \A s \in DOMAIN P!TakenValues : P!TakenValues[s] \in Bars
    BY <1>1, TakenIsOffered
  <2>3. sets' # << >> /\ sets'[Len(sets')] = [date |-> P!PeekDate, values |-> P!TakenValues]
    BY <1>1, <1>2, OneSetMore
  <2> QED BY <2>1, <2>2, <2>3 DEF Synced, ToDate
<1>3. CASE Loses
  <2>1. \A s \in DOMAIN P!TakenValues : P!TakenValues[s] \in Bars
    BY <1>1, TakenIsOffered
  <2>2. UNCHANGED << values, today, sets >> /\ currentValues' = P!TakenValues
    BY <1>3 DEF Loses, vars
  <2> QED BY <2>1, <2>2 DEF Synced, ToDate
<1>4. CASE Adds \/ Turns \/ GoesOn
  <2>1. UNCHANGED << values, today, sets, currentValues >>
    BY <1>1, <1>4, ClockStays DEF Adds, Turns, GoesOn, vars, feedVars
  <2> QED BY <2>1 DEF Synced, ToDate
<1> QED BY <1>2, <1>3, <1>4, BaseStep

LEMMA AlwaysSynced == BacktestSpec => [](Base /\ Synced)
<1>1. BacktestInit => Synced
  BY DEF BacktestInit, Init, F!Init, Synced
<1>2. Base /\ Synced /\ [BacktestNext]_backtestVars => Synced'
  BY SyncedStep
<1> QED BY <1>1, <1>2, AlwaysBase, PTL DEF BacktestSpec

\* A later date is not of an earlier day.
LEMMA DaysGoOn ==
  ASSUME NEW a \in Nat, NEW b \in Nat, a <= b
  PROVE  ToDate(a) \in Nat /\ ToDate(b) \in Nat /\ ToDate(a) <= ToDate(b)
<1>1. \A n \in Nat : /\ n \div PerDay \in Nat
                     /\ PerDay * (n \div PerDay) <= n /\ n < PerDay * (n \div PerDay) + PerDay
  BY BacktestAssumption
<1>2. \A m, n \in Nat : PerDay * m < PerDay * n + PerDay => m <= n
  BY BacktestAssumption
<1>3. PICK m \in Nat, n \in Nat : m = a \div PerDay /\ n = b \div PerDay
  BY <1>1
<1>4. PerDay * m <= a /\ b < PerDay * n + PerDay
  BY <1>1, <1>3
<1>5. PerDay * m < PerDay * n + PerDay
  <2>1. PerDay * m \in Nat /\ PerDay * n + PerDay \in Nat
    BY BacktestAssumption
  <2> HIDE DEF ToDate
  <2> QED BY <1>4, <2>1
<1>6. m <= n
  BY <1>2, <1>5
<1> QED BY <1>3, <1>6 DEF ToDate

\* The date that is due is not before that of the last set.
LEMMA DueIsLater ==
  ASSUME P!IInv, F!Merged, ~Refilled, P!PeekDate # P!NullDate, sets # << >>
  PROVE  /\ sets[Len(sets)].date \in Nat /\ P!PeekDate \in Nat
         /\ sets[Len(sets)].date <= P!PeekDate
<1>1. P!TypeOK /\ P!NothingEarlierLeft /\ P!Merged
  BY SameFeed DEF P!IInv
<1>2. /\ Len(sets) \in DOMAIN sets /\ Len(sets) \in Nat \ {0} /\ sets[Len(sets)].date \in Nat
      /\ \A s \in Symbols : since[s] \in Nat
  <2>1. /\ sets \in Seq(P!Announcement) /\ Len(sets) \in Nat /\ DOMAIN sets = 1..Len(sets)
        /\ \A i \in DOMAIN sets : sets[i].date \in Nat
        /\ \A s \in Symbols : since[s] \in Nat
    BY <1>1, FeedGiven, P!Facts
  <2>2. Len(sets) # 0
    BY <2>1, EmptySeq
  <2> QED BY <2>1, <2>2
<1>3. \A s \in Symbols : since[s] < Len(sets)
  BY <1>2 DEF Refilled
<1>4. PICK s \in Symbols : /\ P!Waits(s) /\ (\A t \in P!Stuck : t < s)
                           /\ P!NextRow(s).date = P!PeekDate
  BY <1>1, FeedGiven, P!Peeked
<1>5. next[s] + 1 \in next[s] + 1 .. Len(rows[s]) /\ P!NextRow(s) = rows[s][next[s] + 1]
  <2>1. next[s] + 1 \in 1..Len(rows[s]) /\ P!NextRow(s) = rows[s][next[s] + 1]
    BY <1>1, <1>4, FeedGiven, P!RowUnderCursor
  <2>2. next[s] \in Nat /\ Len(rows[s]) \in Nat
    BY <1>1, FeedGiven, P!Facts
  <2> QED BY <2>1, <2>2
<1>6. sets[Len(sets)].date <= rows[s][next[s] + 1].date
  BY <1>1, <1>2, <1>3, <1>4, <1>5 DEF P!NothingEarlierLeft
<1>7. P!PeekDate \in Nat
  BY <1>1, FeedGiven, P!Peeked
<1> QED BY <1>2, <1>4, <1>5, <1>6, <1>7

(***************************************************************************)
(* Every step of the composition is a step of module Exchange, for any      *)
(* files and any interleaving, as long as the rows of a symbol come in       *)
(* order and no symbol is filled again after sets were announced: what was  *)
(* proved of the exchange alone is true of it at work.  Of the exchange     *)
(* alone it takes that any number of days may pass between two bars.        *)
(***************************************************************************)
THEOREM BacktestIsAnExchange ==
  ASSUME Gaps = Nat
  PROVE  BacktestSpec => StepsOfTheExchange
<1>1. ASSUME Base, Synced, [BacktestNext]_backtestVars, F!Merged, ~Refilled
      PROVE  [Next]_vars
  <2>1. CASE Brings
    <3>1. PICK d : d = ToDate(P!PeekDate)
      OBVIOUS
    <3>2. OnBars(P!TakenValues, d) /\ P!PeekDate # P!NullDate
      BY <2>1, <3>1 DEF Brings
    <3>3. P!TakenValues \in ValueMaps /\ d \in Nat
      BY <1>1, <3>1, TakenIsOffered DEF Base, P!IInv
    <3>4. today \in Nat /\ today <= d
      <4>1. CASE sets = << >>
        BY <1>1, <3>3, <4>1 DEF Synced
      <4>2. CASE sets # << >>
        <5>1. /\ sets[Len(sets)].date \in Nat /\ P!PeekDate \in Nat
              /\ sets[Len(sets)].date <= P!PeekDate
          BY <1>1, <3>2, <4>2, DueIsLater DEF Base
        <5>2. today = ToDate(sets[Len(sets)].date)
          BY <1>1, <4>2 DEF Synced
        <5> QED BY <3>1, <5>1, <5>2, DaysGoOn
      <4> QED BY <4>1, <4>2
    <3>5. d - today \in Gaps /\ today + (d - today) = d
      BY <3>3, <3>4
    <3>6. OnBars(P!TakenValues, today + (d - today))
      BY <3>2, <3>5
    <3> QED BY <3>3, <3>5, <3>6 DEF Next
  <2>2. CASE Loses \/ Adds \/ Turns
    BY <2>2 DEF Loses, Adds, Turns
  <2>3. CASE GoesOn
    BY <2>3 DEF GoesOn, Next
  <2> QED BY <1>1, <2>1, <2>2, <2>3, BaseStep
<1>2. Base /\ Synced /\ [BacktestNext]_backtestVars => [F!Merged /\ ~Refilled => Next]_vars
  BY <1>1
<1> QED BY <1>2, AlwaysSynced, PTL DEF BacktestSpec, StepsOfTheExchange

-----------------------------------------------------------------------------
(***************************************************************************)
(* The volume that a symbol's first bar left.                              *)
(***************************************************************************)
Volumes ==
    \A s \in Symbols :
        /\ volumeLeft[s] = IF Heard(s) THEN FirstVolume(s) - 4 * FilledOf(s, Actions) ELSE Unknown
        /\ Heard(s) => volumeLeft[s] # Unknown /\ FirstVolume(s) \in Nat
        /\ ~Heard(s) => FilledOf(s, Actions) = 0

\* Min, as this module has it, of a set of natural numbers.
LEMMA MinIs ==
  ASSUME NEW S, S \subseteq Nat, S # {}
  PROVE  /\ Min(S) \in S /\ \A n \in S : Min(S) <= n
         /\ \A m \in S : (\A n \in S : m <= n) => Min(S) = m
<1>1. \E m \in S : \A n \in S : m <= n
  <2> SUFFICES ASSUME \A m \in S : \E n \in S : ~(m <= n)
               PROVE  FALSE
    OBVIOUS
  <2> DEFINE above == {k \in Nat : \A m \in S : k < m}
  <2>1. \A m, n \in Nat : ~(m <= n) => n < m
    OBVIOUS
  <2>2. 0 \in above
    <3>1. \A n \in Nat : 0 <= n
      OBVIOUS
    <3>2. 0 \notin S
      BY <3>1
    <3> QED BY <3>1, <3>2
  <2>3. ASSUME NEW k \in above PROVE k + 1 \in above
    <3>1. k \in Nat /\ k + 1 \in Nat /\ \A m \in S : k + 1 <= m
      OBVIOUS
    <3>2. k + 1 \notin S
      BY <3>1
    <3> QED BY <3>1, <3>2
  <2>4. above = Nat
    BY <2>2, <2>3, AllNaturals
  <2>5. PICK m \in S : m \in above
    BY <2>4
  <2> QED BY <2>5
<1>2. Min(S) \in S /\ \A n \in S : Min(S) <= n
  BY <1>1 DEF Min
<1>3. ASSUME NEW m \in S, \A n \in S : m <= n PROVE Min(S) = m
  <2>1. m \in Nat /\ Min(S) \in Nat
    BY <1>2
  <2>2. m <= Min(S) /\ Min(S) <= m
    BY <1>2, <1>3
  <2> QED BY <2>1, <2>2
<1> QED BY <1>2, <1>3

\* The places of the sets with a bar of s.
SetsOf(s) == {i \in DOMAIN sets : s \in DOMAIN sets[i].values}

VolumeOf(bar) == IF TickFeed THEN 4 * bar.volume ELSE bar.volume

LEMMA FirstStays ==
  ASSUME P!TypeOK, Brings, NEW s \in Symbols
  PROVE  /\ Heard(s) => Heard(s)' /\ FirstVolume(s)' = FirstVolume(s)
         /\ ~Heard(s) => (Heard(s)' <=> s \in P!Taken)
         /\ ~Heard(s) /\ s \in P!Taken => FirstVolume(s)' = VolumeOf(P!TakenValues[s])
<1> DEFINE n == Len(sets) + 1
<1>1. /\ n \in Nat /\ DOMAIN sets = 1..n - 1 /\ DOMAIN sets' = 1..n
      /\ sets'[n].values = P!TakenValues
      /\ \A i \in 1..n - 1 : sets'[i] = sets[i]
  BY OneSetMore
<1>2. DOMAIN P!TakenValues = P!Taken
  BY TakenIsOffered
<1>3. /\ SetsOf(s) \subseteq 1..n - 1 /\ (Heard(s) <=> SetsOf(s) # {})
      /\ SetsOf(s)' \subseteq 1..n /\ (Heard(s)' <=> SetsOf(s)' # {})
  BY <1>1 DEF SetsOf, Heard
<1>4. /\ \A i \in 1..n - 1 : i \in SetsOf(s)' <=> i \in SetsOf(s)
      /\ n \in SetsOf(s)' <=> s \in P!Taken
  BY <1>1, <1>2 DEF SetsOf
<1>5. /\ FirstVolume(s) = VolumeOf(sets[Min(SetsOf(s))].values[s])
      /\ FirstVolume(s)' = VolumeOf(sets'[Min(SetsOf(s)')].values[s])
  BY DEF FirstVolume, VolumeOf, SetsOf
<1> HIDE DEF n
<1>6. ASSUME Heard(s) PROVE Heard(s)' /\ FirstVolume(s)' = FirstVolume(s)
  <2>1. PICK m \in SetsOf(s) : m = Min(SetsOf(s)) /\ \A i \in SetsOf(s) : m <= i
    <3>1. SetsOf(s) \subseteq Nat /\ SetsOf(s) # {}
      BY <1>1, <1>3, <1>6
    <3> QED BY <3>1, MinIs
  <2>2. m \in SetsOf(s)' /\ m \in 1..n - 1
    BY <1>3, <1>4, <2>1
  <2>3. \A i \in SetsOf(s)' : m <= i
    BY <1>1, <1>3, <1>4, <2>1, <2>2
  <2>4. SetsOf(s)' \subseteq Nat /\ SetsOf(s)' # {}
    BY <1>1, <1>3, <2>2
  <2>5. Min(SetsOf(s)') = m
    BY <2>2, <2>3, <2>4, MinIs
  <2> QED BY <1>1, <1>3, <1>5, <2>1, <2>2, <2>4, <2>5
<1>7. ASSUME ~Heard(s) PROVE Heard(s)' <=> s \in P!Taken
  BY <1>1, <1>3, <1>4, <1>7
<1>8. ASSUME ~Heard(s), s \in P!Taken
      PROVE  FirstVolume(s)' = VolumeOf(P!TakenValues[s])
  <2>1. n \in SetsOf(s)' /\ \A i \in SetsOf(s)' : n <= i
    BY <1>1, <1>3, <1>4, <1>8
  <2>2. SetsOf(s)' \subseteq Nat /\ SetsOf(s)' # {}
    BY <1>1, <1>3, <2>1
  <2>3. Min(SetsOf(s)') = n
    BY <2>1, <2>2, MinIs
  <2> QED BY <1>1, <1>5, <2>3
<1> QED BY <1>6, <1>7, <1>8

LEMMA VolumesStep ==
  ASSUME Base, Synced, Volumes, [BacktestNext]_backtestVars
  PROVE  Volumes'
<1>1. Inv /\ Inv' /\ StepOf /\ P!TypeOK /\ P!TypeOK' /\ volumeLeft \in [Symbols -> Nat \cup {Unknown}]
  BY BaseStep DEF Base, P!IInv, Inv, TypeOK
<1> SUFFICES ASSUME NEW s \in Symbols
             PROVE  /\ volumeLeft'[s] = IF Heard(s)' THEN FirstVolume(s)' - 4 * FilledOf(s, Actions)'
                                                     ELSE Unknown
                    /\ Heard(s)' => volumeLeft'[s] # Unknown /\ FirstVolume(s)' \in Nat
                    /\ ~Heard(s)' => FilledOf(s, Actions)' = 0
  BY DEF Volumes
<1>2. /\ volumeLeft[s] = IF Heard(s) THEN FirstVolume(s) - 4 * FilledOf(s, Actions) ELSE Unknown
      /\ Heard(s) => volumeLeft[s] # Unknown /\ FirstVolume(s) \in Nat
      /\ ~Heard(s) => FilledOf(s, Actions) = 0
  BY DEF Volumes
<1>3. ASSUME sets' = sets PROVE (Heard(s)' <=> Heard(s)) /\ FirstVolume(s)' = FirstVolume(s)
  BY <1>3 DEF Heard, FirstVolume
<1>4. ASSUME orders' = orders PROVE FilledOf(s, Actions)' = FilledOf(s, Actions)
  <2>1. Ids' = Ids /\ FilledBy(s, Actions)' = FilledBy(s, Actions)
    BY <1>4 DEF FilledBy, Ids
  <2>2. FilledOf(s, Actions)' = Total(FilledBy(s, Actions), Ids)'
    BY <1>1, FilledOfTotalNext DEF Inv
  <2> QED BY <1>1, <2>1, <2>2, FilledOfTotal DEF Inv
<1>5. CASE Brings
  <2>1. FilledOf(s, Actions)' = FilledOf(s, Actions) /\ volumeLeft' = VolumesAfter(P!TakenValues)
    BY <1>4, <1>5 DEF Brings, OnBars
  <2>2. volumeLeft'[s] = IF volumeLeft[s] = Unknown /\ s \in P!Taken
                         THEN VolumeOf(P!TakenValues[s]) ELSE volumeLeft[s]
    BY <1>1, <2>1, TakenIsOffered DEF VolumesAfter, VolumeOf
  <2>3. s \in P!Taken => VolumeOf(P!TakenValues[s]) \in Nat
    <3>1. P!TakenValues \in ValueMaps /\ DOMAIN P!TakenValues = P!Taken
      BY <1>1, TakenIsOffered
    <3>2. s \in P!Taken => P!TakenValues[s].volume \in Nat
      BY <3>1, ValuesAssumption
    <3> QED BY <3>2 DEF VolumeOf
  <2>4. \A n \in Nat : n # Unknown /\ n - 4 * 0 = n
    BY DEF Unknown
  <2>5. CASE Heard(s)
    BY <1>1, <1>2, <1>5, <2>1, <2>2, <2>5, FirstStays
  <2>6. CASE ~Heard(s)
    BY <1>1, <1>2, <1>5, <2>1, <2>2, <2>3, <2>4, <2>6, FirstStays
  <2> QED BY <2>5, <2>6
<1>6. CASE Loses \/ Adds \/ Turns
  <2>1. sets' = sets /\ orders' = orders /\ volumeLeft' = volumeLeft
    BY <1>6 DEF Loses, Adds, Turns, vars
  <2> QED BY <1>2, <1>3, <1>4, <2>1
<1>7. CASE GoesOn
  <2>1. sets' = sets /\ barNo' = barNo
    BY <1>1, <1>7, ClockStays DEF GoesOn, feedVars
  <2>2. CASE Resting
    <3>1. volumeLeft' = volumeLeft
      BY <2>1, <2>2 DEF Resting
    <3>2. FilledOf(s, Actions)' = FilledOf(s, Actions)
      BY <1>1, <2>2, FilledMoves
    <3> QED BY <1>2, <1>3, <2>1, <3>1, <3>2
  <2>3. ASSUME NEW id \in Ids, NEW o \in Orders, ExecutesAs(id, o)
        PROVE  /\ volumeLeft'[s] = IF Heard(s)' THEN FirstVolume(s)' - 4 * FilledOf(s, Actions)'
                                                ELSE Unknown
               /\ Heard(s)' => volumeLeft'[s] # Unknown /\ FirstVolume(s)' \in Nat
               /\ ~Heard(s)' => FilledOf(s, Actions)' = 0
    <3> DEFINE spec == orders[id].spec
               q == FillOf(id).quantity
    <3>1. /\ spec.action \in Actions /\ spec.symbol \in Symbols /\ LeftFor(id) \in Nat
          /\ volumeLeft' = OnOrderFilled(spec.symbol, q)
      BY <1>1, <2>3, OrderTypes, SpecsAssumption DEF ExecutesAs, Inv
    <3>2. q \in Nat /\ 4 * q <= LeftFor(id)
      <4>1. q \in 1..Remaining(orders[id]) /\ 4 * q <= LeftFor(id)
        BY <1>1, <2>3, ExecutionPrice
      <4>2. Remaining(orders[id]) \in Int
        BY <1>1, OrderTypes, SpecsAssumption DEF Inv, Orders, Remaining
      <4> QED BY <4>1, <4>2
    <3>3. /\ FilledOf(s, Actions) \in Int
          /\ FilledOf(s, Actions)' = FilledOf(s, Actions) + IF spec.symbol = s THEN q ELSE 0
      BY <1>1, <2>3, <3>1, FilledMoves
    <3>4. LeftFor(id) = volumeLeft[spec.symbol]
      BY DEF LeftFor
    <3> HIDE DEF spec, q
    <3>5. CASE spec.symbol # s
      <4>1. volumeLeft'[s] = volumeLeft[s]
        BY <1>1, <3>1, <3>5 DEF OnOrderFilled
      <4> QED BY <1>2, <1>3, <2>1, <3>3, <3>5, <4>1
    <3>6. CASE spec.symbol = s
      <4>1. volumeLeft'[s] = volumeLeft[s] - 4 * q /\ volumeLeft[s] \in Nat /\ volumeLeft'[s] \in Nat
        BY <1>1, <3>1, <3>2, <3>4, <3>6 DEF OnOrderFilled
      <4>2. volumeLeft[s] # Unknown /\ volumeLeft'[s] # Unknown
        BY <4>1 DEF Unknown
      <4>3. Heard(s)
        BY <1>2, <4>2
      <4>4. FirstVolume(s) - 4 * FilledOf(s, Actions) \in Nat
            /\ volumeLeft'[s] = FirstVolume(s) - 4 * FilledOf(s, Actions) - 4 * q
        BY <1>2, <4>1, <4>3
      <4>5. FirstVolume(s) \in Int
        BY <1>2, <4>3
      <4>6. volumeLeft'[s] = FirstVolume(s) - 4 * (FilledOf(s, Actions) + q)
        BY <3>2, <3>3, <4>4, <4>5
      <4>7. Heard(s)' /\ FirstVolume(s)' = FirstVolume(s)
        BY <1>3, <2>1, <4>3
      <4>8. FilledOf(s, Actions)' = FilledOf(s, Actions) + q
        BY <3>3, <3>6
      <4>9. volumeLeft'[s] = FirstVolume(s)' - 4 * FilledOf(s, Actions)'
        BY <4>6, <4>7, <4>8
      <4>10. FirstVolume(s)' \in Nat /\ volumeLeft'[s] # Unknown
        BY <1>2, <4>2, <4>3, <4>7, <3>6
      <4> QED BY <4>9, <4>10, <4>7
    <3> QED BY <3>5, <3>6
  <2> QED BY <1>1, <2>2, <2>3, StepMoves
<1> QED BY <1>5, <1>6, <1>7, BaseStep

LEMMA AlwaysVolumes == BacktestSpec => [](Base /\ Synced /\ Volumes)
<1>1. BacktestInit => Volumes
  <2> SUFFICES ASSUME BacktestInit, NEW s \in Symbols
               PROVE  ~Heard(s) /\ volumeLeft[s] = Unknown /\ FilledOf(s, Actions) = 0
    BY DEF Volumes
  <2>1. ~Heard(s) /\ volumeLeft[s] = Unknown /\ orders = << >>
    BY DEF BacktestInit, Init, F!Init, Heard
  <2>2. FilledOf(s, Actions) = 0
    <3>1. TypeOK
      BY InitInv DEF BacktestInit, Inv
    <3>2. Ids = {}
      BY <2>1 DEF Ids
    <3>3. Total(FilledBy(s, Actions), {}) = 0
      BY TotalNone
    <3> QED BY <3>1, <3>2, <3>3, FilledOfTotal
  <2> QED BY <2>1, <2>2
<1>2. Base /\ Synced /\ Volumes /\ [BacktestNext]_backtestVars => Volumes'
  BY VolumesStep
<1> QED BY <1>1, <1>2, AlwaysSynced, PTL DEF BacktestSpec

(***************************************************************************)
(* FillType keeps, of every symbol, the volume of the first bar that was    *)
(* ever announced, less what was executed since: whatever bars follow.     *)
(***************************************************************************)
THEOREM VolumeIsOfFirstBar == BacktestSpec => []VolumeOfFirstBar
<1>1. Volumes => VolumeOfFirstBar
  BY DEF Volumes, VolumeOfFirstBar
<1> QED BY <1>1, AlwaysVolumes, PTL

-----------------------------------------------------------------------------
(***************************************************************************)
(* The cash, the shares and what they are worth.                           *)
(***************************************************************************)
\* What the orders brought in: what sales were paid, less what purchases cost.
Brought ==
    [id \in Ids |-> IF Buys(orders[id].spec) THEN -orders[id].paid ELSE orders[id].paid]

CashIsPaid == cash = InitialCash + Total(Brought, Ids)

LEMMA BroughtMoves ==
  ASSUME Inv, Inv', StepOf, CashIsPaid
  PROVE  CashIsPaid'
<1>1. TypeOK /\ TypeOK' /\ IsFiniteSet(Ids)
  BY IdsFinite DEF Inv
<1>2. PICK f, g : f = Brought /\ g = Brought'
  OBVIOUS
<1>3. \A id \in Ids : orders[id].paid \in Nat
  BY <1>1, OrderTypes DEF Orders
<1>4. \A id \in Ids' : orders'[id].paid \in Nat
  <2>1. \A id \in Ids' : orders'[id] \in Orders
    BY <1>1, ElementOfSeq DEF TypeOK, Ids
  <2> QED BY <2>1 DEF Orders
<1>5. (\A id \in Ids : f[id] \in Int) /\ (\A id \in Ids' : g[id] \in Int)
  BY <1>2, <1>3, <1>4 DEF Brought
<1>6. Total(f, Ids) \in Int /\ cash = InitialCash + Total(f, Ids) /\ InitialCash \in Nat
  BY <1>1, <1>2, <1>5, TotalFacts, BoundsAssumption DEF CashIsPaid
<1>7. SUFFICES cash' = InitialCash + Total(g, Ids')
  BY <1>2 DEF CashIsPaid
<1>8. CASE Resting
  <2>1. /\ \A id \in Ids : g[id] = f[id]
        /\ \A id \in Ids' \ Ids : g[id] = 0
    BY <1>2, <1>8 DEF Resting, Brought
  <2>2. Total(g, Ids') = Total(f, Ids)
    BY <1>1, <1>5, <1>8, <2>1, RestingTotal DEF Resting
  <2> QED BY <1>6, <1>8, <2>2 DEF Resting
<1>9. ASSUME NEW id \in Ids, NEW o \in Orders, ExecutesAs(id, o)
      PROVE  cash' = InitialCash + Total(g, Ids')
  <2>1. PICK cost \in Nat : cost = FillOf(id).price * FillOf(id).quantity
    <3>1. FillOf(id).price \in Nat /\ FillOf(id).quantity \in 1..Remaining(orders[id])
      BY <1>9, ExecutionPrice
    <3>2. orders[id].spec.quantity \in Nat /\ orders[id].filled \in Nat
      BY <1>1, OrderTypes, SpecsAssumption DEF Orders
    <3>3. Remaining(orders[id]) \in Int
      BY <3>2 DEF Remaining
    <3>4. \A a, b \in Nat : a * b \in Nat
      OBVIOUS
    <3> QED BY <3>1, <3>3, <3>4
  <2>2. /\ Ids' = Ids /\ orders'[id] = o /\ o.spec = orders[id].spec
        /\ o.paid = orders[id].paid + cost
        /\ cash' = IF Buys(orders[id].spec) THEN cash - cost ELSE cash + cost
        /\ \A i \in Ids \ {id} : orders'[i] = orders[i]
    BY <1>9, <2>1 DEF ExecutesAs, Becomes, CashAfter, Ids
  <2>3. \A i \in Ids \ {id} : g[i] = f[i]
    BY <1>2, <2>2 DEF Brought
  <2>4. g[id] - f[id] = IF Buys(orders[id].spec) THEN -cost ELSE cost
    <3>1. orders[id].paid \in Nat
      BY <1>3
    <3>2. CASE Buys(orders[id].spec)
      <4>1. f[id] = -orders[id].paid /\ g[id] = -o.paid
        BY <1>2, <2>2, <3>2 DEF Brought
      <4> QED BY <2>1, <2>2, <3>1, <3>2, <4>1
    <3>3. CASE ~Buys(orders[id].spec)
      <4>1. f[id] = orders[id].paid /\ g[id] = o.paid
        BY <1>2, <2>2, <3>3 DEF Brought
      <4> QED BY <2>1, <2>2, <3>1, <3>3, <4>1
    <3> QED BY <3>2, <3>3
  <2>5. Total(g, Ids) = Total(f, Ids) + (g[id] - f[id])
    BY <1>1, <1>5, <2>2, <2>3, TotalChange
  <2> QED BY <1>6, <2>1, <2>2, <2>4, <2>5
<1> QED BY <1>8, <1>9, StepMoves

\* The shares that an order added, counted negative if it sold them.
Moved ==
    [id \in Ids |-> IF Buys(orders[id].spec) THEN orders[id].filled ELSE -orders[id].filled]

MovedOf(s) == [id \in Ids |-> IF orders[id].spec.symbol = s THEN Moved[id] ELSE 0]

LEMMA MovedTypes ==
  ASSUME TypeOK
  PROVE  /\ IsFiniteSet(Ids)
         /\ \A id \in Ids : Moved[id] \in Int
         /\ \A s : \A id \in Ids : MovedOf(s)[id] \in Int
<1>1. \A id \in Ids : orders[id].filled \in Nat
  BY OrderTypes DEF Orders
<1>2. \A id \in Ids : Moved[id] \in Int
  BY <1>1 DEF Moved
<1> QED BY <1>2, IdsFinite DEF MovedOf

LEMMA NetIsMoved ==
  ASSUME TypeOK, NEW s
  PROVE  Net(s) = Total(MovedOf(s), Ids) /\ Net(s) \in Int
<1>1. PICK k, f, g : k = FilledBy(s, BuyActions) /\ f = MovedOf(s) /\ g = FilledBy(s, SellActions)
  OBVIOUS
<1>2. \A id \in Ids : orders[id].filled \in Nat /\ orders[id].spec.action \in Actions
  BY OrderTypes, SpecsAssumption DEF Orders
<1>3. IsFiniteSet(Ids) /\ (\A id \in Ids : f[id] \in Int)
  BY <1>1, MovedTypes
<1>4. \A id \in Ids : g[id] \in Int /\ k[id] = f[id] + g[id]
  <2> SUFFICES ASSUME NEW id \in Ids PROVE g[id] \in Int /\ k[id] = f[id] + g[id]
    OBVIOUS
  <2>1. PICK n \in Nat : n = orders[id].filled
    BY <1>2
  <2>2. CASE orders[id].spec.symbol # s
    <3>1. k[id] = 0 /\ f[id] = 0 /\ g[id] = 0
      BY <1>1, <2>2 DEF FilledBy, MovedOf
    <3> QED BY <3>1
  <2>3. CASE orders[id].spec.symbol = s /\ Buys(orders[id].spec)
    <3>1. orders[id].spec.action \in BuyActions /\ orders[id].spec.action \notin SellActions
      BY <2>3 DEF Buys, BuyActions, SellActions
    <3>2. k[id] = n /\ f[id] = n /\ g[id] = 0
      BY <1>1, <2>1, <2>3, <3>1 DEF FilledBy, MovedOf, Moved
    <3> QED BY <3>2
  <2>4. CASE orders[id].spec.symbol = s /\ ~Buys(orders[id].spec)
    <3>1. orders[id].spec.action \notin BuyActions /\ orders[id].spec.action \in SellActions
      BY <1>2, <2>4 DEF Buys, Actions
    <3>2. k[id] = 0 /\ f[id] = -n /\ g[id] = n
      BY <1>1, <2>1, <2>4, <3>1 DEF FilledBy, MovedOf, Moved
    <3> QED BY <3>2
  <2> QED BY <2>2, <2>3, <2>4
<1>5. Total(k, Ids) = Total(f, Ids) + Total(g, Ids)
  BY <1>3, <1>4, TotalAdds
<1>6. Total(f, Ids) \in Int /\ Total(g, Ids) \in Int
  BY <1>3, <1>4, TotalFacts
<1>7. FilledOf(s, BuyActions) = Total(k, Ids) /\ FilledOf(s, SellActions) = Total(g, Ids)
  BY <1>1, FilledOfTotal
<1> QED BY <1>1, <1>5, <1>6, <1>7 DEF Net

\* What the orders of these symbols moved is worth, at the prices kept for get_equity.
WorthOf(symbols) ==
    [id \in Ids |-> IF orders[id].spec.symbol \in symbols
                    THEN currentValues[orders[id].spec.symbol].close * Moved[id] ELSE 0]

\* Summed over the symbols, or over the orders, it is the same.
LEMMA WorthBothWays ==
  ASSUME TypeOK, NEW D, IsFiniteSet(D), \A s \in D : currentValues[s].close \in Int,
         NEW f, \A s \in D : f[s] = currentValues[s].close * Net(s)
  PROVE  /\ \A s \in D : f[s] \in Int
         /\ Total(f, D) = Total(WorthOf(D), Ids)
         /\ \A id \in Ids : WorthOf(D)[id] \in Int
<1>1. /\ IsFiniteSet(Ids) /\ (\A id \in Ids : Moved[id] \in Int)
      /\ \A s : \A id \in Ids : MovedOf(s)[id] \in Int
  BY MovedTypes
<1>2. \A a, b \in Int : a * b \in Int
  OBVIOUS
<1>3. \A s \in D : f[s] \in Int
  BY <1>2, NetIsMoved
<1>4. ASSUME NEW U \in SUBSET D, NEW id \in Ids PROVE WorthOf(U)[id] \in Int
  <2>1. CASE orders[id].spec.symbol \in U
    BY <1>1, <1>2, <2>1 DEF WorthOf
  <2>2. CASE orders[id].spec.symbol \notin U
    BY <2>2 DEF WorthOf
  <2> QED BY <2>1, <2>2
<1>5. PICK h : SumsUp(h, f, D) /\ Total(f, D) = h[D]
  BY <1>3, TotalFacts
<1>6. \A U \in SUBSET D : \A s \in U : h[U] = f[s] + h[U \ {s}] /\ h[U \ {s}] \in Int
  BY ONLY IsFiniteSet(D), <1>3, <1>5, SumSteps
<1> DEFINE T == {U \in SUBSET D : h[U] = Total(WorthOf(U), Ids)}
<1>7. {} \in T
  <2>1. h[{}] = 0
    BY <1>3, <1>5, SumFacts
  <2>2. \A id \in Ids : WorthOf({})[id] = 0
    BY DEF WorthOf
  <2>3. Total(WorthOf({}), Ids) = 0 * Cardinality(Ids) /\ Cardinality(Ids) \in Nat
    BY <1>1, <2>2, TotalSame, FS_CardinalityType
  <2> QED BY <2>1, <2>3
<1>8. ASSUME NEW U \in SUBSET D, U # {}, \A s \in U : U \ {s} \in T PROVE U \in T
  <2>1. PICK s \in U : TRUE
    BY <1>8
  <2>2. PICK R, c : R = U \ {s} /\ c = currentValues[s].close
    OBVIOUS
  <2>3. /\ R \in SUBSET D /\ h[R] = Total(WorthOf(R), Ids) /\ c \in Int
        /\ h[U] = c * Net(s) + h[R]
    BY <1>6, <1>8, <2>1, <2>2
  <2>4. PICK k, j, m : /\ k = [id \in Ids |-> c * MovedOf(s)[id]]
                       /\ j = WorthOf(R) /\ m = WorthOf(U)
    OBVIOUS
  <2>5. \A id \in Ids : k[id] = c * MovedOf(s)[id]
    BY <2>4
  <2>6. \A id \in Ids : k[id] \in Int /\ j[id] \in Int
    BY <1>1, <1>2, <1>4, <2>3, <2>4, <2>5
  <2>7. \A id \in Ids : m[id] = k[id] + j[id]
    <3> SUFFICES ASSUME NEW id \in Ids PROVE m[id] = k[id] + j[id]
      OBVIOUS
    <3>1. CASE orders[id].spec.symbol = s
      <4>1. m[id] = c * Moved[id] /\ j[id] = 0 /\ k[id] = c * Moved[id]
        BY <2>1, <2>2, <2>4, <3>1 DEF WorthOf, MovedOf
      <4> QED BY <2>6, <4>1
    <3>2. CASE orders[id].spec.symbol # s
      <4>1. m[id] = j[id] /\ k[id] = c * 0
        BY <2>2, <2>4, <3>2 DEF WorthOf, MovedOf
      <4> QED BY <2>3, <2>6, <4>1
    <3> QED BY <3>1, <3>2
  <2>8. Total(m, Ids) = Total(k, Ids) + Total(j, Ids)
    BY <1>1, <2>6, <2>7, TotalAdds
  <2>9. Total(k, Ids) = c * Net(s)
    <3>1. Total(k, Ids) = c * Total(MovedOf(s), Ids)
      BY <1>1, <2>3, <2>5, TotalTimes
    <3> QED BY <3>1, NetIsMoved
  <2>10. h[U] = Total(WorthOf(U), Ids)
    BY <2>3, <2>4, <2>8, <2>9
  <2> QED BY <2>10
<1> HIDE DEF T
<1>9. D \in T
  BY <1>7, <1>8, AllSubsets
<1> QED BY <1>3, <1>4, <1>5, <1>9 DEF T

LEMMA ClosesAreNumbers ==
  ASSUME Synced, NEW s \in Symbols \cap DOMAIN currentValues
  PROVE  currentValues[s].close \in Nat
<1>1. PICK bar \in Bars : bar = currentValues[s]
  BY DEF Synced
<1>2. PICK v : v = [t \in {s} |-> bar]
  OBVIOUS
<1>3. v \in [{s} -> Bars] /\ {s} \in SUBSET Symbols /\ s \in DOMAIN v /\ v[s] = bar
  BY <1>2
<1>4. v \in ValueMaps
  BY <1>3, BacktestAssumption
<1> QED BY <1>1, <1>3, <1>4, ValuesAssumption

\* get_equity, as a sum.
Held == [s \in Symbols \cap DOMAIN currentValues |-> currentValues[s].close * shares[s]]

LEMMA EquityTotal ==
  ASSUME Inv, Synced
  PROVE  /\ Equity = cash + Total(Held, Symbols \cap DOMAIN currentValues)
         /\ IsFiniteSet(Symbols \cap DOMAIN currentValues)
<1> DEFINE D == Symbols \cap DOMAIN currentValues
           n(s) == currentValues[s].close * shares[s]
           f == Held
           Sums(h) == h = [t \in SUBSET D |->
                          IF t = {} THEN 0
                          ELSE LET x == First(t) IN n(x) + h[t \ {x}]]
<1>1. Equity = cash + (CHOOSE h : Sums(h))[D]
  BY DEF Equity, MapThenSumSet, MapThenFoldSet, First
<1>2. ASSUME NEW t \in SUBSET D, t # {} PROVE n(First(t)) = f[First(t)]
  BY <1>2, FirstFacts DEF Held
<1>3. \A h : Sums(h) <=> SumsUp(h, f, D)
  BY <1>2 DEF SumsUp
<1>4. IsFiniteSet(D) /\ \A y \in D : f[y] \in Int
  <2>1. IsFiniteSet(D)
    BY BacktestAssumption, FS_Subset
  <2>2. \A s \in D : currentValues[s].close \in Nat /\ shares[s] \in Nat
    BY ClosesAreNumbers DEF Inv, TypeOK
  <2>3. \A a, b \in Nat : a * b \in Int
    OBVIOUS
  <2> QED BY <2>1, <2>2, <2>3 DEF Held
<1> HIDE DEF Sums, f, D
<1>5. \E h : SumsUp(h, f, D)
  BY <1>4, SumExists
<1>6. PICK c : c = (CHOOSE h : Sums(h)) /\ Sums(c)
  BY <1>3, <1>5
<1>7. SumsUp(c, f, D)
  BY <1>3, <1>6
<1>8. c[D] = Total(f, D)
  BY <1>4, <1>7, TotalIs
<1> QED BY <1>1, <1>4, <1>6, <1>8 DEF f, D

\* What the orders gained, as a sum.
Gained == [id \in Ids |-> Gain(id)]

LEMMA GainsTotal ==
  ASSUME TypeOK, \A id \in Ids : Gain(id) \in Int
  PROVE  MapThenSumSet(Gain, Ids) = Total(Gained, Ids)
<1> DEFINE f == Gained
           Sums(h) == h = [t \in SUBSET Ids |->
                          IF t = {} THEN 0
                          ELSE LET x == First(t) IN Gain(x) + h[t \ {x}]]
<1>1. MapThenSumSet(Gain, Ids) = (CHOOSE h : Sums(h))[Ids]
  BY DEF MapThenSumSet, MapThenFoldSet, First
<1>2. ASSUME NEW t \in SUBSET Ids, t # {} PROVE Gain(First(t)) = f[First(t)]
  BY <1>2, FirstFacts DEF Gained
<1>3. \A h : Sums(h) <=> SumsUp(h, f, Ids)
  BY <1>2 DEF SumsUp
<1>4. IsFiniteSet(Ids) /\ \A y \in Ids : f[y] \in Int
  BY IdsFinite DEF Gained
<1> HIDE DEF Sums, f
<1>5. \E h : SumsUp(h, f, Ids)
  BY <1>4, SumExists
<1>6. PICK c : c = (CHOOSE h : Sums(h)) /\ Sums(c)
  BY <1>3, <1>5
<1>7. SumsUp(c, f, Ids)
  BY <1>3, <1>6
<1>8. c[Ids] = Total(f, Ids)
  BY <1>4, <1>7, TotalIs
<1> QED BY <1>1, <1>6, <1>8 DEF f

LEMMA EquityFollows == Inv /\ Synced /\ CashIsPaid => EquityIsCashAndGains
<1> DEFINE D == Symbols \cap DOMAIN currentValues
<1> SUFFICES ASSUME Inv, Synced, CashIsPaid,
                    \A id \in Ids : orders[id].filled # 0 =>
                        orders[id].spec.symbol \in DOMAIN currentValues,
                    \A s \in Symbols : shares[s] = Net(s)
             PROVE  Equity = InitialCash + MapThenSumSet(Gain, Ids)
  BY DEF EquityIsCashAndGains
<1>1. TypeOK /\ IsFiniteSet(Ids) /\ (\A id \in Ids : Moved[id] \in Int)
  BY MovedTypes DEF Inv
<1>2. \A id \in Ids : /\ orders[id].filled \in Nat /\ orders[id].paid \in Nat
                      /\ orders[id].spec.symbol \in Symbols
  BY <1>1, OrderTypes, SpecsAssumption DEF Orders
<1>3. \A s \in D : currentValues[s].close \in Nat
  BY ClosesAreNumbers
<1>4. /\ Equity = cash + Total(Held, D) /\ IsFiniteSet(D)
      /\ \A s \in D : Held[s] = currentValues[s].close * Net(s)
  BY EquityTotal DEF Held
<1> HIDE DEF D
<1>5. /\ Total(Held, D) = Total(WorthOf(D), Ids)
      /\ \A id \in Ids : WorthOf(D)[id] \in Int
  <2>1. \A s \in D : currentValues[s].close \in Int
    BY <1>3
  <2> QED BY <1>1, <1>4, <2>1, WorthBothWays
<1>6. ASSUME NEW id \in Ids
      PROVE  Brought[id] \in Int /\ Gain(id) = Brought[id] + WorthOf(D)[id]
  <2>1. PICK n \in Nat, p \in Nat, s \in Symbols :
           n = orders[id].filled /\ p = orders[id].paid /\ s = orders[id].spec.symbol
    BY <1>2
  <2>2. PICK c : c = currentValues[s].close
    OBVIOUS
  <2>3. /\ Moved[id] = IF Buys(orders[id].spec) THEN n ELSE -n
        /\ Brought[id] = IF Buys(orders[id].spec) THEN -p ELSE p
        /\ WorthOf(D)[id] = IF s \in D THEN c * Moved[id] ELSE 0
        /\ Gain(id) = LET worth == IF n = 0 THEN 0 ELSE c * n
                      IN  IF Buys(orders[id].spec) THEN worth - p ELSE p - worth
    BY <2>1, <2>2 DEF Moved, Brought, WorthOf, Gain
  <2>4. CASE s \notin D
    <3>1. n = 0
      BY <2>1, <2>4 DEF D
    <3> QED BY <2>3, <2>4, <3>1
  <2>5. CASE s \in D
    <3>1. c \in Nat
      BY <1>3, <2>2, <2>5
    <3>2. PICK w \in Nat : w = c * n
      <4>1. \A a, b \in Nat : a * b \in Nat
        OBVIOUS
      <4> QED BY <3>1, <4>1
    <3>3. c * (-n) = -w /\ (n = 0 => w = 0)
      <4>1. \A a, b \in Nat : a * (-b) = -(a * b) /\ a * 0 = 0
        OBVIOUS
      <4> QED BY <3>1, <3>2, <4>1
    <3> QED BY <2>3, <2>5, <3>2, <3>3
  <2> QED BY <2>3, <2>4, <2>5
<1>7. \A id \in Ids : Gain(id) \in Int /\ Gained[id] = Brought[id] + WorthOf(D)[id]
  BY <1>5, <1>6 DEF Gained
<1>8. MapThenSumSet(Gain, Ids) = Total(Gained, Ids)
  BY <1>1, <1>7, GainsTotal
<1>9. Total(Gained, Ids) = Total(Brought, Ids) + Total(WorthOf(D), Ids)
  <2>1. PICK f, g, k : f = Brought /\ g = WorthOf(D) /\ k = Gained
    OBVIOUS
  <2>2. /\ \A id \in Ids : f[id] \in Int /\ g[id] \in Int
        /\ \A id \in Ids : k[id] = f[id] + g[id]
    BY <1>5, <1>6, <1>7, <2>1
  <2>3. Total(k, Ids) = Total(f, Ids) + Total(g, Ids)
    BY <1>1, <2>2, TotalAdds
  <2> QED BY <2>1, <2>3
<1>10. Total(Brought, Ids) \in Int /\ Total(WorthOf(D), Ids) \in Int /\ InitialCash \in Nat
  BY <1>1, <1>5, <1>6, TotalFacts, BoundsAssumption
<1> QED BY <1>4, <1>5, <1>8, <1>9, <1>10 DEF CashIsPaid

LEMMA AlwaysPaid == BacktestSpec => [](Base /\ Synced /\ CashIsPaid)
<1>1. BacktestInit => CashIsPaid
  <2> SUFFICES ASSUME BacktestInit PROVE CashIsPaid
    OBVIOUS
  <2>1. Ids = {} /\ cash = InitialCash
    BY DEF BacktestInit, Init, Ids
  <2>2. Total(Brought, {}) = 0 /\ InitialCash \in Nat
    BY TotalNone, BoundsAssumption
  <2> QED BY <2>1, <2>2 DEF CashIsPaid
<1>2. Base /\ CashIsPaid /\ [BacktestNext]_backtestVars => CashIsPaid'
  <2>1. Base => Inv
    BY DEF Base
  <2> QED BY <2>1, BaseStep, BroughtMoves DEF Base
<1> QED BY <1>1, <1>2, AlwaysSynced, PTL DEF BacktestSpec

(***************************************************************************)
(* No money appears or disappears between the cash, the shares and the      *)
(* prices that the feed keeps for get_equity: at every moment of every      *)
(* back-test, the equity is the initial cash and what the orders gained.    *)
(***************************************************************************)
THEOREM NoMoneyAppears == BacktestSpec => []EquityIsCashAndGains
<1>1. Base => Inv
  BY DEF Base
<1> QED BY <1>1, EquityFollows, AlwaysPaid, PTL

-----------------------------------------------------------------------------
(***************************************************************************)
(* What the program can die of.                                            *)
(***************************************************************************)
\* How it stands with the exchange when the program has died.
Fatal ==
    /\ fault = "no_symbol" => cursor \in Ids /\ orders[cursor].spec.symbol \notin DOMAIN values
    /\ fault \in {"zero_price", "zero_quantity", "all_or_none"} =>
          /\ cursor \in Ids /\ orders[cursor].state \in {"Accepted", "PartiallyFilled"}
          /\ orders[cursor].spec.symbol \in DOMAIN values
          /\ FillOf(cursor).outcome = fault
    /\ fault = "wild_iterator" => cursor \in Ids \ book
    /\ fault = "freed" => \E id \in Ids \ book : ~orders[id].kept

LEMMA AdvanceDies ==
  ASSUME fault = "none", cursor \in Ids, Ids' = Ids, Advance(cursor)
  PROVE  Fatal'
<1>1. fault' = "none" \/ (fault' = "wild_iterator" /\ cursor' = cursor /\ cursor \notin book')
  BY DEF Advance
<1> QED BY <1>1 DEF Fatal

LEMMA ProcessDies ==
  ASSUME Inv, Processing, ProcessOrder(cursor), UNCHANGED values
  PROVE  Fatal'
<1>1. fault = "none" /\ cursor \in Ids /\ orders \in Seq(Orders)
  BY DEF Processing, Inv, TypeOK
<1>2. orders[cursor] \in Orders
  BY <1>1, OrderTypes DEF Inv
<1>3. CASE Expire(cursor)
  BY <1>1, <1>3 DEF Expire, Fatal
<1>4. CASE Attempt(cursor)
  <2> DEFINE fill == FillOf(cursor)
             order == orders[cursor]
             touched == [order EXCEPT !.stopHit = StopHit(order, BarOf(cursor))]
  <2>1. \/ CommitOrderExecution(cursor, touched, fill)
        \/ orders' = [orders EXCEPT ![cursor] = touched] /\ Advance(cursor)
        \/ /\ ~(fill.outcome = "fill" /\ Affordable(order.spec, fill))
           /\ ~(fill.outcome = "no_fill" \/
                  (fill.outcome = "fill" /\ ~Affordable(order.spec, fill)))
           /\ Die(fill.outcome)
           /\ UNCHANGED << orders, book, cash, shares, volumeLeft, stack, cursor >>
    BY <1>4 DEF Attempt, FillOf, BarOf, LeftFor
  <2>2. fill.outcome \in Fills
    BY ProcessingTypes
  <2>6. touched \in Orders
    <3>1. StopHit(order, BarOf(cursor)) \in BOOLEAN
      BY <1>2 DEF StopHit, Orders
    <3> QED BY <1>2, <3>1 DEF Orders
  <2> HIDE DEF touched
  <2>3. CASE CommitOrderExecution(cursor, touched, fill)
    BY <1>1, <2>3 DEF CommitOrderExecution, Fatal
  <2>4. CASE orders' = [orders EXCEPT ![cursor] = touched] /\ Advance(cursor)
    BY <1>1, <2>4, <2>6, ReplaceOrder, AdvanceDies
  <2>5. CASE /\ fill.outcome # "fill" /\ fill.outcome # "no_fill"
             /\ Die(fill.outcome)
             /\ UNCHANGED << orders, book, cash, shares, volumeLeft, stack, cursor >>
    <3>1. /\ fault' = fill.outcome /\ fault' \in {"zero_price", "zero_quantity", "all_or_none"}
          /\ Ids' = Ids
      BY <2>2, <2>5 DEF Die, Fills, Ids
    <3>2. FillOf(cursor)' = fill
      BY <2>5 DEF FillOf, BarOf, LeftFor
    <3>3. /\ cursor' \in Ids' /\ orders'[cursor'].state \in {"Accepted", "PartiallyFilled"}
          /\ orders'[cursor'].spec.symbol \in DOMAIN values'
      BY <2>5, <3>1 DEF Processing
    <3> HIDE DEF fill
    <3> QED BY <2>5, <3>1, <3>2, <3>3 DEF Fatal
  <2> QED BY <2>1, <2>3, <2>4, <2>5
<1> QED BY <1>3, <1>4 DEF ProcessOrder

LEMMA WalkDies ==
  ASSUME Inv, Client \/ Walk
  PROVE  Fatal'
<1>1. TypeOK /\ WalkStands /\ BookHoldsLiveOrders /\ orders \in Seq(Orders) /\ book \subseteq Ids
  BY DEF Inv, TypeOK
<1>2. ASSUME NEW spec \in OrderSpecs, NEW kept \in KeepsOrder, SubmitOrder(spec, kept)
      PROVE  Fatal'
  BY <1>2 DEF SubmitOrder, ClientRuns, Fatal
<1>3. ASSUME NEW id \in book, CancelOrder(id) PROVE Fatal'
  <2>1. \/ fault' = "none"
        \/ /\ fault' = "freed" /\ ~orders[id].kept /\ orders' = orders /\ book' = book \ {id}
    BY <1>3 DEF CancelOrder, ClientRuns, Die
  <2>2. id \in Ids
    BY <1>1
  <2> QED BY <2>1, <2>2 DEF Fatal, Ids
<1>4. CASE VisitOrder
  <2>1. /\ fault = "none" /\ cursor # NoCursor /\ stack = << >> /\ UNCHANGED values
        /\ cursor \in Ids /\ cursor \in book
    BY <1>1, <1>4 DEF VisitOrder, WalkStands, TypeOK
  <2>2. CASE /\ orders[cursor].spec.symbol \notin DOMAIN values
             /\ Die("no_symbol")
             /\ UNCHANGED << orders, cursor >>
    BY <2>1, <2>2 DEF Die, Fatal, Ids
  <2>3. CASE fault' = fault
    BY <2>1, <2>3 DEF Fatal
  <2>4. CASE /\ orders[cursor].spec.symbol \in DOMAIN values
             /\ orders[cursor].state \in {"Accepted", "PartiallyFilled"}
             /\ ProcessOrder(cursor)
    <3>1. Processing
      BY <2>1, <2>4 DEF Processing
    <3> QED BY <2>1, <2>4, <3>1, ProcessDies
  <2> QED BY <1>4, <2>2, <2>3, <2>4 DEF VisitOrder
<1>5. CASE ReturnToClient
  BY <1>5 DEF ReturnToClient, Fatal
<1>6. ASSUME ReturnAccepted \/ ReturnPartiallyFilled \/ ReturnFilled \/ ReturnCanceled
      PROVE  fault = "none" /\ WalkFrame /\ cursor \in Ids /\ UNCHANGED values
  <2>1. Len(<< >>) = 0
    OBVIOUS
  <2>2. fault = "none" /\ WalkFrame /\ UNCHANGED values
    BY <1>6, <2>1 DEF ReturnAccepted, ReturnPartiallyFilled, ReturnFilled, ReturnCanceled,
                      WalkResumes, WalkFrame
  <2> QED BY <1>1, <2>2 DEF WalkStands
<1>7. CASE ReturnAccepted
  <2>1. CASE IsActive(orders[cursor]) /\ ProcessOrder(cursor)
    <3>1. Processing
      BY <1>1, <1>6, <1>7, <2>1
         DEF ReturnAccepted, WalkResumes, Processing, WalkStands, IsActive, BookHoldsLiveOrders
    <3> QED BY <1>6, <1>7, <2>1, <3>1, ProcessDies
  <2>2. CASE orders' = orders /\ Advance(cursor)
    BY <1>6, <1>7, <2>2, AdvanceDies DEF Ids
  <2> QED BY <1>7, <2>1, <2>2 DEF ReturnAccepted
<1>8. CASE ReturnPartiallyFilled \/ ReturnCanceled
  <2>1. orders' = orders /\ Advance(cursor)
    BY <1>8 DEF ReturnPartiallyFilled, ReturnCanceled
  <2> QED BY <1>6, <1>8, <2>1, AdvanceDies DEF Ids
<1>9. CASE ReturnFilled
  <2>1. CASE orders' = orders /\ Advance(cursor)
    BY <1>6, <1>9, <2>1, AdvanceDies DEF Ids
  <2>2. CASE /\ book' = book \ {cursor} /\ orders' = orders
             /\ ~orders[cursor].kept /\ fault' = "freed"
    BY <1>6, <1>9, <2>2 DEF Fatal, Ids
  <2> QED BY <1>9, <2>1, <2>2 DEF ReturnFilled, Die
<1> QED BY <1>2, <1>3, <1>4, <1>5, <1>7, <1>8, <1>9 DEF Client, Walk

LEMMA FatalStep ==
  ASSUME Base, Fatal, [BacktestNext]_backtestVars
  PROVE  Fatal'
<1>1. Inv
  BY DEF Base
<1>2. CASE Brings
  BY <1>2 DEF Brings, OnBars, Fatal
<1>3. CASE Loses \/ Adds \/ Turns
  BY <1>3 DEF Loses, Adds, Turns, vars, Fatal, Ids, FillOf, BarOf, LeftFor
<1>4. CASE GoesOn
  BY <1>1, <1>4, WalkDies DEF GoesOn
<1> QED BY <1>2, <1>3, <1>4, BaseStep

\* As long as no set was lost, symbols of the same dates are dispatched together;
\* a walk is that of a set announced since the last rows were added.
Together ==
    /\ worker => isStarted
    /\ cursor # NoCursor => isStarted /\ \A s \in Symbols : since[s] < Len(sets)
    /\ ~lost =>
          /\ \A s \in Symbols : since[s] = Len(sets) => next[s] = 0
          /\ SameDates =>
                /\ \A s, t \in Symbols : next[s] = next[t]
                /\ \A s \in Symbols :
                      since[s] < Len(sets) => DOMAIN sets[Len(sets)].values = Symbols

LEMMA TogetherStep ==
  ASSUME Base, Together, [BacktestNext]_backtestVars
  PROVE  Together'
<1>1. Inv /\ P!TypeOK
  BY DEF Base, P!IInv
<1>2. /\ Len(sets) \in Nat
      /\ \A s \in Symbols : /\ next[s] \in Nat /\ since[s] \in Nat /\ since[s] <= Len(sets)
                            /\ DOMAIN rows[s] = 1..Len(rows[s]) /\ Len(rows[s]) \in Nat
  BY <1>1, FeedGiven, P!Facts
<1>3. CASE Brings
  <2>1. /\ worker /\ UNCHANGED << rows, since, isStarted, lost >> /\ next' = P!Advanced
        /\ P!PeekDate # P!NullDate
    BY <1>3 DEF Brings
  <2>2. Len(sets') = Len(sets) + 1 /\ sets'[Len(sets')].values = P!TakenValues
    BY <1>1, <1>3, OneSetMore
  <2>3. \A s \in Symbols : since'[s] < Len(sets')
    BY <1>2, <2>1, <2>2
  <2>4. ASSUME ~lost, SameDates PROVE P!Taken = Symbols
    <3>1. PICK s \in Symbols : P!Waits(s) /\ P!NextRow(s).date = P!PeekDate
      BY <1>1, <2>1, FeedGiven, P!Peeked
    <3>2. ASSUME NEW t \in Symbols PROVE P!Waits(t) /\ P!NextRow(t).date = P!PeekDate
      <4>1. PICK f, g : /\ f = [i \in DOMAIN rows[s] |-> rows[s][i].date]
                        /\ g = [i \in DOMAIN rows[t] |-> rows[t][i].date]
        OBVIOUS
      <4>2. f = g /\ next[s] = next[t]
        BY <2>4, <4>1 DEF SameDates, Together
      <4>3. DOMAIN rows[s] = DOMAIN rows[t]
        BY <4>1, <4>2
      <4>4. next[s] + 1 \in DOMAIN rows[s]
        BY <1>2, <3>1 DEF P!Waits
      <4>5. next[t] + 1 \in 1..Len(rows[t]) /\ rows[t][next[t] + 1].date = rows[s][next[s] + 1].date
        BY <1>2, <4>1, <4>2, <4>3, <4>4
      <4> QED BY <1>2, <3>1, <4>5 DEF P!Waits, P!NextRow
    <3> QED BY <3>2 DEF P!Taken
  <2>5. DOMAIN P!TakenValues = P!Taken
    BY <1>1, TakenIsOffered
  <2>6. SameDates' <=> SameDates
    BY <2>1 DEF SameDates
  <2>7. ASSUME ~lost, SameDates, NEW s \in Symbols, NEW t \in Symbols PROVE next'[s] = next'[t]
    BY <2>1, <2>4, <2>7 DEF P!Advanced, Together
  <2> QED BY <1>2, <2>1, <2>2, <2>3, <2>4, <2>5, <2>6, <2>7 DEF Together
<1>4. CASE Loses
  BY <1>4 DEF Loses, vars, Together
<1>5. CASE Adds
  <2>1. /\ cursor = NoCursor /\ cursor' = cursor /\ ~worker /\ ~worker'
        /\ UNCHANGED << sets, lost >>
    BY <1>5 DEF Adds, Together, vars
  <2>2. PICK s \in Symbols :
           /\ next'[s] = 0 /\ since'[s] = Len(sets)
           /\ \A t \in Symbols \ {s} :
                 rows'[t] = rows[t] /\ next'[t] = next[t] /\ since'[t] = since[t]
    BY <1>5 DEF Adds
  <2>3. ASSUME ~lost, NEW t \in Symbols, since'[t] = Len(sets) PROVE next'[t] = 0
    BY <2>2, <2>3 DEF Together
  <2>4. ASSUME SameDates', NEW t \in Symbols PROVE since'[t] = Len(sets)
    BY <2>2, <2>4 DEF SameDates
  <2> QED BY <1>2, <2>1, <2>3, <2>4 DEF Together
<1>6. CASE Turns
  BY <1>6 DEF Turns, vars, Together, SameDates
<1>7. CASE GoesOn
  BY <1>1, <1>7, ClockStays DEF GoesOn, feedVars, Together, SameDates
<1> QED BY <1>3, <1>4, <1>5, <1>6, <1>7, BaseStep

\* The quantities asked for, as a sum.
AskedOf(s) ==
    [id \in Ids |-> IF orders[id].spec.symbol = s THEN orders[id].spec.quantity ELSE 0]

LEMMA DemandTotal ==
  ASSUME TypeOK, NEW s
  PROVE  Demand(s) = Total(AskedOf(s), Ids) /\ Demand(s) \in Int
<1> DEFINE n(id) == IF orders[id].spec.symbol = s THEN orders[id].spec.quantity ELSE 0
           f == AskedOf(s)
           Sums(h) == h = [t \in SUBSET Ids |->
                             IF t = {} THEN 0
                             ELSE LET x == First(t) IN n(x) + h[t \ {x}]]
<1>1. Demand(s) = (CHOOSE h : Sums(h))[Ids]
  BY DEF Demand, MapThenSumSet, MapThenFoldSet, First
<1>2. ASSUME NEW t \in SUBSET Ids, t # {} PROVE n(First(t)) = f[First(t)]
  BY <1>2, FirstFacts DEF AskedOf
<1>3. \A h : Sums(h) <=> SumsUp(h, f, Ids)
  BY <1>2 DEF SumsUp
<1>4. IsFiniteSet(Ids) /\ \A y \in Ids : f[y] \in Int
  <2>1. \A id \in Ids : orders[id].spec.quantity \in Nat
    BY OrderTypes, SpecsAssumption
  <2> QED BY <2>1, IdsFinite DEF AskedOf
<1> HIDE DEF Sums, f
<1>5. \E h : SumsUp(h, f, Ids)
  BY <1>4, SumExists
<1>6. PICK c : c = (CHOOSE h : Sums(h)) /\ Sums(c)
  BY <1>3, <1>5
<1>7. SumsUp(c, f, Ids)
  BY <1>3, <1>6
<1>8. c[Ids] = Total(f, Ids) /\ Total(f, Ids) \in Int
  BY <1>4, <1>7, TotalIs, TotalFacts
<1> QED BY <1>1, <1>6, <1>8 DEF f

\* An order that nothing was executed of asks for what others did not get.
LEMMA DemandAbove ==
  ASSUME Inv, NEW id \in Ids, orders[id].filled = 0
  PROVE  LET s == orders[id].spec.symbol
         IN  FilledOf(s, Actions) + orders[id].spec.quantity <= Demand(s)
<1> DEFINE s == orders[id].spec.symbol
           q == orders[id].spec.quantity
<1>1. TypeOK /\ IsFiniteSet(Ids)
  BY IdsFinite DEF Inv
<1>2. \A i \in Ids : /\ orders[i].spec.quantity \in Nat /\ orders[i].filled \in Nat
                     /\ orders[i].filled <= orders[i].spec.quantity
                     /\ orders[i].spec.action \in Actions
  <2>1. \A i \in Ids : /\ orders[i].spec.quantity \in Nat
                       /\ orders[i].filled \in 0..orders[i].spec.quantity
                       /\ orders[i].spec.action \in Actions
    BY <1>1, OrderTypes, SpecsAssumption DEF Inv, StateMatchesFill
  <2> QED BY <2>1
<1>3. PICK f, k, g : /\ f = FilledBy(s, Actions) /\ k = AskedOf(s)
                     /\ g = [i \in Ids |-> IF i = id THEN q ELSE f[i]]
  OBVIOUS
<1>4. \A i \in Ids : f[i] \in Int /\ k[i] \in Int /\ f[i] <= k[i]
  <2> SUFFICES ASSUME NEW i \in Ids PROVE f[i] \in Int /\ k[i] \in Int /\ f[i] <= k[i]
    OBVIOUS
  <2>1. CASE orders[i].spec.symbol = s
    <3>1. f[i] = orders[i].filled /\ k[i] = orders[i].spec.quantity
      BY <1>2, <1>3, <2>1 DEF FilledBy, AskedOf
    <3> QED BY <1>2, <3>1
  <2>2. CASE orders[i].spec.symbol # s
    <3>1. f[i] = 0 /\ k[i] = 0
      BY <1>3, <2>2 DEF FilledBy, AskedOf
    <3> QED BY <3>1
  <2> QED BY <2>1, <2>2
<1>5. f[id] = 0 /\ k[id] = q /\ q \in Nat
  BY <1>2, <1>3 DEF FilledBy, AskedOf
<1>6. (\A i \in Ids : g[i] \in Int /\ g[i] <= k[i]) /\ g[id] = q /\ \A i \in Ids \ {id} : g[i] = f[i]
  BY <1>3, <1>4, <1>5
<1>7. Total(g, Ids) = Total(f, Ids) + (g[id] - f[id])
  BY <1>1, <1>4, <1>6, TotalChange
<1>8. Total(g, Ids) <= Total(k, Ids)
  BY <1>1, <1>4, <1>6, TotalAtMost
<1>9. FilledOf(s, Actions) = Total(f, Ids) /\ Demand(s) = Total(k, Ids) /\ Total(f, Ids) \in Int
  BY <1>1, <1>3, <1>4, FilledOfTotal, DemandTotal, TotalFacts
<1> HIDE DEF s, q
<1>10. FilledOf(s, Actions) + q <= Demand(s)
  BY <1>5, <1>6, <1>7, <1>8, <1>9
<1> QED BY <1>10 DEF s, q

\* What a failed attempt says of the order, the volume that it found and the bar.
LEMMA FailedFills ==
  ASSUME NEW order, NEW bar, NEW left \in Nat, Remaining(order) \in Nat \ {0},
         bar.open \in Nat, bar.high \in Nat, bar.low \in Nat, bar.close \in Nat,
         order.spec.limit \in Nat, order.spec.stop \in Nat, order.spec.type \in Types
  PROVE  /\ Process(order, bar, left).outcome = "all_or_none" =>
               order.spec.aon /\ left < 4 * Remaining(order)
         /\ Process(order, bar, left).outcome = "zero_quantity" => left \in 1..3
         /\ Process(order, bar, left).outcome = "zero_price" =>
               order.spec.type = "Stop" /\ order.stopHit /\ bar.open = 0
<1> DEFINE size == FillSize(order, left)
           spec == order.spec
           Stopped == spec.type = "Stop" /\ order.stopHit /\ bar.open = 0
<1>1. size \in Nat /\ (size \div 4 = 0 /\ size # 0 => left \in 1..3)
  BY DEF FillSize
<1>2. \A price, q : FillInfo(price, q).outcome # "all_or_none"
      /\ (FillInfo(price, q).outcome = "zero_quantity" => q \div 4 = 0)
      /\ (FillInfo(price, q).outcome = "zero_price" => price = 0)
  BY DEF FillInfo, FailedAssert
<1> HIDE DEF size
<1>3. NoFill.outcome = "no_fill" /\ FailedAssert("all_or_none").outcome = "all_or_none"
  BY DEF NoFill, FailedAssert
<1>4. CASE HasStop(order.spec) /\ ~StopHit(order, bar)
  BY <1>3, <1>4 DEF Process
<1>5. CASE ~(HasStop(order.spec) /\ ~StopHit(order, bar)) /\ AllOrNoneFails(order, left)
  BY <1>3, <1>5 DEF Process, AllOrNoneFails
<1>6. CASE ~(HasStop(order.spec) /\ ~StopHit(order, bar)) /\ ~AllOrNoneFails(order, left)
  <2> DEFINE trigger == TriggerOf(order, bar)
             reached == LimitPriceTrigger(spec, bar)
  <2>1. Process(order, bar, left) =
           CASE spec.type = "Market" -> MarketFill(order, bar, left)
             [] spec.type = "Limit"  -> LimitFill(order, bar, left)
             [] spec.type = "Stop"   -> StopFill(order, bar, left, trigger)
             [] OTHER -> StopLimitFill(order, bar, left, trigger)
    BY <1>6 DEF Process
  <2>2. order.stopHit \/ trigger # 0 \/ ~HasStop(spec)
    BY <1>6 DEF StopHit
  <2>3. 0 \div 4 = 0
    OBVIOUS
  <2>4. spec.type = "Stop" => HasStop(spec)
    BY DEF HasStop
  <2>5. reached # 0 /\ trigger # 0 =>
           (IF (trigger < spec.limit) = Buys(spec) THEN trigger ELSE spec.limit) # 0
    <3> SUFFICES ASSUME reached # 0, trigger # 0, spec.limit = 0,
                        ~((trigger < spec.limit) = Buys(spec))
                 PROVE  FALSE
      OBVIOUS
    <3>1. trigger \in Nat
      <4>1. trigger = 0 \/ trigger = StopPriceTrigger(spec, bar)
        BY DEF TriggerOf
      <4> HIDE DEF trigger
      <4> QED BY <4>1, TriggerTypes DEF StopPriceTrigger
    <3>2. ~(trigger < spec.limit)
      <4> HIDE DEF trigger, spec
      <4> QED BY <3>1
    <3>3. Buys(spec)
      BY <3>2 DEF Buys
    <3>4. reached = FallTo(spec.limit, bar)
      BY <3>3 DEF LimitPriceTrigger
    <3>5. FallTo(0, bar) = 0
      BY DEF FallTo
    <3> QED BY <3>4, <3>5
  <2> HIDE DEF trigger, reached
  <2> DEFINE Known(fill) ==
        \/ fill = NoFill
        \/ size # 0 /\ \E price : fill = FillInfo(price, size) /\ (price = 0 => Stopped)
  <2>6. ASSUME spec.type = "Market" PROVE Known(MarketFill(order, bar, left))
    BY DEF MarketFill, size
  <2>7. ASSUME spec.type = "Limit" PROVE Known(LimitFill(order, bar, left))
    BY DEF LimitFill, size, reached
  <2>8. ASSUME spec.type = "Stop" PROVE Known(StopFill(order, bar, left, trigger))
    <3> DEFINE price == IF trigger # 0 THEN trigger ELSE bar.open
    <3>1. price = 0 => Stopped
      BY <2>2, <2>4, <2>8
    <3>2. \/ StopFill(order, bar, left, trigger) = NoFill
          \/ size # 0 /\ StopFill(order, bar, left, trigger) = FillInfo(price, size)
      BY <2>3 DEF StopFill, size
    <3> HIDE DEF price, Stopped
    <3> QED BY <3>1, <3>2
  <2>9. Known(StopLimitFill(order, bar, left, trigger))
    <3> DEFINE price == IF trigger # 0
                        THEN IF (trigger < spec.limit) = Buys(spec) THEN trigger ELSE spec.limit
                        ELSE reached
    <3>1. reached # 0 => price # 0
      BY <2>5
    <3>2. \/ StopLimitFill(order, bar, left, trigger) = NoFill
          \/ /\ size # 0 /\ reached # 0
             /\ StopLimitFill(order, bar, left, trigger) = FillInfo(price, size)
      BY <2>3, Zenon DEF StopLimitFill, size, reached
    <3> HIDE DEF price, Stopped
    <3> QED BY <3>1, <3>2
  <2> HIDE DEF Known
  <2>10. Known(Process(order, bar, left))
    BY <2>1, <2>6, <2>7, <2>8, <2>9, Zenon
  <2>11. CASE Process(order, bar, left) = NoFill
    BY <1>3, <2>11
  <2>12. ASSUME size # 0, NEW price, Process(order, bar, left) = FillInfo(price, size),
                price = 0 => Stopped
         PROVE  /\ Process(order, bar, left).outcome # "all_or_none"
                /\ Process(order, bar, left).outcome = "zero_quantity" => left \in 1..3
                /\ Process(order, bar, left).outcome = "zero_price" => Stopped
    <3> HIDE DEF Stopped
    <3> QED BY <1>1, <1>2, <2>12
  <2>13. Process(order, bar, left) # NoFill =>
            /\ Process(order, bar, left).outcome # "all_or_none"
            /\ Process(order, bar, left).outcome = "zero_quantity" => left \in 1..3
            /\ Process(order, bar, left).outcome = "zero_price" => Stopped
    <3> HIDE DEF Stopped
    <3> QED BY <2>10, <2>12, Zenon DEF Known
  <2> QED BY <2>11, <2>13
<1> QED BY <1>4, <1>5, <1>6

LEMMA DeathsAreKnown == Base /\ Synced /\ Volumes /\ Fatal /\ Together => KnownDeaths
<1> SUFFICES ASSUME Base, Synced, Volumes, Fatal, Together PROVE KnownDeaths
  OBVIOUS
<1> DEFINE DiesOfPrice ==
      /\ cursor \in Ids /\ orders[cursor].spec.type = "Stop" /\ orders[cursor].stopHit
      /\ orders[cursor].spec.symbol \in DOMAIN values
      /\ values[orders[cursor].spec.symbol].open = 0
<1>1. Inv /\ TypeOK /\ P!TypeOK
  BY DEF Base, P!IInv, Inv
<1>2. \A id \in Ids : orders[id].spec.symbol \in Symbols
  BY <1>1, OrderTypes, SpecsAssumption
<1>3. ASSUME fault = "no_symbol", SameDates, ~lost PROVE FALSE
  <2>1. cursor \in Ids /\ orders[cursor].spec.symbol \notin DOMAIN values
    BY <1>3 DEF Fatal
  <2>2. \A s \in Symbols : since[s] < Len(sets)
    BY <2>1 DEF Together, Ids, NoCursor
  <2>3. orders[cursor].spec.symbol \in DOMAIN sets[Len(sets)].values
    BY <1>2, <1>3, <2>1, <2>2 DEF Together
  <2>4. sets # << >>
    <3>1. \A s \in Symbols : since[s] \in Nat
      BY <1>1, FeedGiven, P!Facts
    <3>2. Len(<< >>) = 0 /\ \A n \in Nat : ~(n < 0)
      OBVIOUS
    <3> QED BY <1>2, <2>1, <2>2, <3>1, <3>2
  <2> QED BY <2>1, <2>3, <2>4 DEF Synced
<1>4. ASSUME fault \in {"zero_price", "zero_quantity", "all_or_none"}
      PROVE  \E s \in Symbols :
                /\ Heard(s)
                /\ fault = "zero_price" => DiesOfPrice
                /\ fault = "zero_quantity" => FirstVolume(s) % 4 # 0
                /\ fault = "all_or_none" => 4 * Demand(s) > FirstVolume(s)
  <2>1. /\ cursor \in Ids /\ orders[cursor].state \in {"Accepted", "PartiallyFilled"}
        /\ orders[cursor].spec.symbol \in DOMAIN values
        /\ FillOf(cursor).outcome = fault
    BY <1>4 DEF Fatal
  <2>2. PICK s \in Symbols : s = orders[cursor].spec.symbol
    BY <1>2, <2>1
  <2>3. /\ volumeLeft[s] # Unknown /\ volumeLeft[s] \in Nat
    BY <1>1, <2>1, <2>2 DEF Inv, WalkStands, TypeOK
  <2>4. /\ Heard(s) /\ FirstVolume(s) \in Nat
        /\ volumeLeft[s] = FirstVolume(s) - 4 * FilledOf(s, Actions)
    BY <2>3 DEF Volumes
  <2>5. /\ orders[cursor].spec.quantity \in Nat /\ orders[cursor].filled \in Nat
        /\ orders[cursor].filled \in 0..orders[cursor].spec.quantity
        /\ Remaining(orders[cursor]) # 0
        /\ orders[cursor].spec.aon =>
              orders[cursor].filled \in {0, orders[cursor].spec.quantity}
    BY <1>1, <2>1, OrderTypes, SpecsAssumption DEF Inv, StateMatchesFill, Orders
  <2>6. Remaining(orders[cursor]) \in Nat \ {0}
    BY <2>5 DEF Remaining
  <2>7. FillOf(cursor) = Process(orders[cursor], BarOf(cursor), volumeLeft[s])
    BY <2>2 DEF FillOf, LeftFor
  <2>8. /\ BarOf(cursor).open \in Nat /\ BarOf(cursor).high \in Nat
         /\ BarOf(cursor).low \in Nat /\ BarOf(cursor).close \in Nat
         /\ orders[cursor].spec.limit \in Nat /\ orders[cursor].spec.stop \in Nat
         /\ orders[cursor].spec.type \in Types
    <3>1. values \in ValueMaps
      <4>1. DOMAIN [t \in {} |-> 0] = {} /\ DOMAIN values # {}
        BY <2>1
      <4> QED BY <1>1, <4>1 DEF TypeOK
    <3> QED BY <1>1, <2>1, <3>1, BarTypes, OrderTypes, SpecsAssumption DEF BarOf
  <2>9. FilledOf(s, Actions) \in Int
    BY <1>1, FilledOfTotal
  <2>10. ASSUME fault = "zero_quantity" PROVE FirstVolume(s) % 4 # 0
    <3>1. volumeLeft[s] \in 1..3
      BY <2>1, <2>3, <2>6, <2>7, <2>10, <2>8, FailedFills
    <3>2. \A v \in Nat, n \in Int, r \in 1..3 : r = v - 4 * n => v % 4 # 0
      OBVIOUS
    <3> QED BY <2>4, <2>9, <3>1, <3>2
  <2>11. ASSUME fault = "all_or_none" PROVE 4 * Demand(s) > FirstVolume(s)
    <3>1. orders[cursor].spec.aon /\ volumeLeft[s] < 4 * Remaining(orders[cursor])
      BY <2>1, <2>3, <2>6, <2>7, <2>11, <2>8, FailedFills
    <3>2. orders[cursor].filled = 0
      BY <2>5, <3>1 DEF Remaining
    <3>3. PICK q \in Nat : q = orders[cursor].spec.quantity /\ Remaining(orders[cursor]) = q
      BY <2>5, <3>2 DEF Remaining
    <3>4. FilledOf(s, Actions) + q <= Demand(s) /\ Demand(s) \in Int
      BY <1>1, <2>1, <2>2, <3>2, <3>3, DemandAbove, DemandTotal
    <3> QED BY <2>3, <2>4, <2>9, <3>1, <3>3, <3>4
  <2>12. ASSUME fault = "zero_price" PROVE DiesOfPrice
    <3>1. /\ orders[cursor].spec.type = "Stop" /\ orders[cursor].stopHit
          /\ BarOf(cursor).open = 0
      BY <2>1, <2>3, <2>6, <2>7, <2>8, <2>12, FailedFills
    <3> QED BY <2>1, <3>1 DEF BarOf
  <2> HIDE DEF DiesOfPrice
  <2> QED BY <2>4, <2>10, <2>11, <2>12
<1>5. fault = "wild_iterator" => cursor \in Ids /\ ~IsActive(orders[cursor])
  BY <1>1 DEF Fatal, Inv, BookHoldsLiveOrders
<1>6. fault = "freed" => \E id \in Ids \ book : ~orders[id].kept
  BY DEF Fatal
<1> QED BY <1>3, <1>4, <1>5, <1>6 DEF KnownDeaths

LEMMA AlwaysKnown == BacktestSpec => [](Base /\ Synced /\ Volumes /\ Fatal /\ Together)
<1>1. BacktestInit => Fatal
  BY DEF BacktestInit, Init, Fatal
<1>2. BacktestInit => Together
  BY DEF BacktestInit, Init, F!Init, Together
<1>3. Base /\ Fatal /\ [BacktestNext]_backtestVars => Fatal'
  BY FatalStep
<1>4. Base /\ Together /\ [BacktestNext]_backtestVars => Together'
  BY TogetherStep
<1> QED BY <1>1, <1>2, <1>3, <1>4, AlwaysVolumes, PTL DEF BacktestSpec

(***************************************************************************)
(* The program dies only of what it was given, whatever the files, the      *)
(* orders and the moments at which they come: of files whose dates differ   *)
(* or a full series, of a bar that opens at 0 and meets a stop order hit    *)
(* before, of a volume that is no whole number of shares, of all-or-none    *)
(* orders for more than a symbol has, at an order that ended under the      *)
(* walk, or of an order whose pointer was thrown away.                     *)
(***************************************************************************)
THEOREM DiesOfWhatItWasGiven == BacktestSpec => []KnownDeaths
BY AlwaysKnown, DeathsAreKnown, PTL

=============================================================================
