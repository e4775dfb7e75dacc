------------------------------ MODULE Backtest ------------------------------
(***************************************************************************)
(* The back-tester at work: module Feed with the Exchange that subscribed   *)
(* to its new_values_event.  Every set that the feed announces starts a     *)
(* walk of the exchange, on the worker's thread, which dispatches again or  *)
(* stops the feed only when the walk and all announcements are over.  The   *)
(* strategy places orders as in module Exchange; the client adds rows and   *)
(* starts the feed.  What the exchange is given (which bars, of which day)  *)
(* is no longer chosen freely but made by the merge.                       *)
(***************************************************************************)
EXTENDS ExchangeAccount

CONSTANTS
    Files,        \* as in module Feed; a row's value is a bar
    Maxlen,
    MaxLoads,
    PerDay        \* how many of the dates that the feed compares make a day

VARIABLES rows, next, isStarted, range, series, currentDate, currentValues,
          worker, sets, since, lost, loads

Bars == UNION {{row.value : row \in Range(file.lines)} : file \in Files}

F == INSTANCE FeedProperties WITH
        Values <- Bars, Ranges <- {},
        BusinessDays <- {}, StartDate <- 1, EndDate <- 0, GeneratorDays <- 0

feedVars == << rows, next, isStarted, range, series, currentDate, currentValues,
               worker, sets, since, lost, loads >>

backtestVars == << vars, feedVars >>

ASSUME BacktestAssumption ==
    /\ IsFiniteSet(Symbols) /\ Symbols # {} /\ Symbols = 1 .. Cardinality(Symbols)
    /\ PerDay \in Nat \ {0} /\ Maxlen \in Nat /\ MaxLoads \in Nat
    /\ Files \subseteq [symbol : Symbols, lines : Seq([date : Nat, value : Bars])]
    /\ \A symbols \in SUBSET Symbols : [symbols -> Bars] \subseteq ValueMaps

-----------------------------------------------------------------------------
\* to_date of a point of time, by which the exchange tells the days.
ToDate(date) == date \div PerDay

\* The worker is between two calls of dispatch.
WorkerFree == fault = "none" /\ cursor = NoCursor /\ stack = << >>

\* The client adds the rows of a file, FeedMem refusing them once it is started.
AddRows ==
    /\ fault = "none"
    /\ \E file \in Files : F!AddValues(file)
    /\ UNCHANGED vars

StartFeed == fault = "none" /\ F!Start /\ UNCHANGED vars

StopFeed == WorkerFree /\ F!Stop /\ UNCHANGED vars

(***************************************************************************)
(* Feed::dispatch, up to the loop of on_bars.  The walk gets the copy of    *)
(* the set that dispatch has made, and no exception comes out of it.  A     *)
(* full series takes the set down before anyone hears of it.               *)
(***************************************************************************)
DispatchSet ==
    /\ WorkerFree
    /\ F!Dispatch
    /\ \/ sets' # sets /\ worker' /\ OnBars(F!TakenValues, ToDate(F!PeekDate))
       \/ sets' = sets /\ UNCHANGED vars

\* The strategy's calls, and the rest of the walk.
ClientCalls == Client /\ UNCHANGED feedVars
WalkGoesOn == Walk /\ UNCHANGED feedVars

\* The program died.
Dead == fault # "none" /\ UNCHANGED backtestVars

BacktestInit == Init /\ F!Init

BacktestNext ==
    \/ AddRows
    \/ StartFeed
    \/ StopFeed
    \/ DispatchSet
    \/ ClientCalls
    \/ WalkGoesOn
    \/ Dead

\* One thread dispatches and walks, and it goes on; the client need not.
BacktestSpec ==
    /\ BacktestInit /\ [][BacktestNext]_backtestVars
    /\ WF_backtestVars(DispatchSet) /\ WF_backtestVars(WalkGoesOn)

-----------------------------------------------------------------------------
(***************************************************************************)
(* Properties.                                                             *)
(***************************************************************************)
\* Rows were added to a symbol that others had already been dispatched with, or
\* that had: its cursor went back to its first row.
Refilled == \E s \in Symbols : since[s] > 0

(***************************************************************************)
(* Every step of the composition is a step of module Exchange: what the     *)
(* feed makes of the files (Feed::dispatch) is what the exchange may get,   *)
(* and the day of a set is never before that of the last, so that           *)
(* everything shown of the exchange alone holds here.  It takes rows in     *)
(* order, and a feed that is not filled again when it has run: that rewinds *)
(* it, and the exchange would see the days of the past once more.          *)
(***************************************************************************)
StepsOfTheExchange == [][ F!Merged /\ ~Refilled => Next ]_vars

\* The symbols have rows of the same dates, and were loaded together.
SameDates ==
    \A s, t \in Symbols :
        /\ [i \in DOMAIN rows[s] |-> rows[s][i].date] = [i \in DOMAIN rows[t] |-> rows[t][i].date]
        /\ since[s] = since[t]

\* get_equity: a symbol that the last set has no bar of counts for nothing.
Equity ==
    cash + MapThenSumSet(LAMBDA s : currentValues[s].close * shares[s],
                         Symbols \cap DOMAIN currentValues)

\* What an order has gained, at the last close.
Gain(id) ==
    LET o == orders[id]
        worth == IF o.filled = 0 THEN 0 ELSE currentValues[o.spec.symbol].close * o.filled
    IN  IF Buys(o.spec) THEN worth - o.paid ELSE o.paid - worth

(***************************************************************************)
(* The equity is the initial cash and what the orders gained: no money      *)
(* appears or disappears between the cash (commit_order_execution), the     *)
(* shares and the prices that the feed keeps for get_equity, at any moment  *)
(* of a walk.  It takes a bar, in the last set, of every symbol that was    *)
(* traded, and no shares sold short, which size_t does not count.          *)
(***************************************************************************)
EquityIsCashAndGains ==
    /\ \A id \in Ids : orders[id].filled # 0 => orders[id].spec.symbol \in DOMAIN currentValues
    /\ \A s \in Symbols : shares[s] = Net(s)
    => Equity = InitialCash + MapThenSumSet(Gain, Ids)

\* The volume of the first bar of s that was announced, in quarter shares.
FirstVolume(s) ==
    LET first == sets[Min({i \in DOMAIN sets : s \in DOMAIN sets[i].values})]
    IN  IF TickFeed THEN 4 * first.values[s].volume ELSE first.values[s].volume

Heard(s) == \E i \in DOMAIN sets : s \in DOMAIN sets[i].values

(***************************************************************************)
(* The volume left to fill is, over the whole back-test, that of the first  *)
(* bar of the symbol less all that was executed: an execution takes what it *)
(* fills, nothing else takes or gives any, and the orders of a symbol       *)
(* together never execute more (FillType::on_bars, on_order_filled).        *)
(***************************************************************************)
VolumeOfFirstBar ==
    \A s \in Symbols :
        volumeLeft[s] = IF Heard(s) THEN FirstVolume(s) - 4 * FilledOf(s, Actions) ELSE Unknown

Demand(s) ==
    MapThenSumSet(LAMBDA id : IF orders[id].spec.symbol = s THEN orders[id].spec.quantity ELSE 0,
                  Ids)

(***************************************************************************)
(* The program dies only of what it was given.  The lookup of an order's    *)
(* bar fails (on_bars_imp) only when the symbols' dates differ, or a set    *)
(* was lost to a full series; a fill costs nothing (process_order's first   *)
(* assertion) only where a stop order, hit on an earlier bar, meets one     *)
(* that opens at 0; it is truncated to nothing (the second) only when a     *)
(* first volume is not a whole number of shares; the assertion on           *)
(* all-or-none orders fails only when the orders of a symbol ask for more   *)
(* than its first volume; the walk's iterator dangles only at an order that *)
(* has ended; and memory is freed too early only of an order whose pointer  *)
(* the client did not keep.                                                *)
(***************************************************************************)
KnownDeaths ==
    /\ fault = "no_symbol" => ~SameDates \/ lost
    /\ fault = "zero_price" =>
          /\ cursor \in Ids /\ orders[cursor].spec.type = "Stop" /\ orders[cursor].stopHit
          /\ orders[cursor].spec.symbol \in DOMAIN values
          /\ values[orders[cursor].spec.symbol].open = 0
    /\ fault = "zero_quantity" => \E s \in Symbols : Heard(s) /\ FirstVolume(s) % 4 # 0
    /\ fault = "all_or_none" =>
          \E s \in Symbols : Heard(s) /\ 4 * Demand(s) > FirstVolume(s)
    /\ fault = "wild_iterator" => cursor \in Ids /\ ~IsActive(orders[cursor])
    /\ fault = "freed" => \E id \in Ids \ book : ~orders[id].kept

\* Once started, the worker brings the feed to its end through all the walks it
\* causes, unless it is stopped, a series is full or the program dies.
BacktestEnds == worker ~> F!Eof \/ ~worker \/ fault # "none"
=============================================================================
