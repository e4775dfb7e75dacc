------------------------- MODULE ExchangeProperties -------------------------
(***************************************************************************)
(* What module Exchange is expected to satisfy.                            *)
(***************************************************************************)
EXTENDS Exchange, FiniteSetsExt

Ids == 1..Len(orders)

Orders ==
    [spec : OrderSpecs, state : States, filled : Nat, paid : Nat,
     stopHit : BOOLEAN, accepted : Nat, placed : Nat, inWalk : BOOLEAN,
     kept : BOOLEAN]

Frames == [event : Events, id : Nat \ {0}, by : {"client", "on_bars"}]

\* Every variable has its type, and the ids in it are those of known orders.
TypeOK ==
    /\ orders \in Seq(Orders)
    /\ book \subseteq Ids
    /\ cash \in Int
    /\ shares \in [Symbols -> Nat]
    /\ allowNegative \in BOOLEAN
    /\ volumeLeft \in [Symbols -> Nat \cup {Unknown}]
    /\ values \in ValueMaps \cup {[s \in {} |-> 0]}
    /\ barNo \in Nat /\ today \in Nat
    /\ cursor \in Ids \cup {NoCursor}
    /\ stack \in Seq(Frames)
    /\ fault \in Faults

-----------------------------------------------------------------------------
\* The walk has announced the end of order id and will unregister it next.
Leaving(id) ==
    /\ stack # << >>
    /\ stack[1].by = "on_bars" /\ stack[1].event \in {"Filled", "Canceled"}
    /\ stack[1].id = id

(***************************************************************************)
(* The book holds exactly the orders that can still trade, whatever the     *)
(* client does inside announcements: no active order is lost from orders_,  *)
(* and an ended one stays only while the walk announces its end.            *)
(***************************************************************************)
BookHoldsLiveOrders ==
    fault # "freed" =>
        \A id \in Ids : id \in book <=> IsActive(orders[id]) \/ Leaving(id)

(***************************************************************************)
(* An order's state says how much of it was executed (Order::add_info,      *)
(* switch_state, which drops an invalid switch silently): never more than    *)
(* its quantity, all of it exactly when Filled, some when PartiallyFilled,  *)
(* and never a part of an all-or-none order.                               *)
(***************************************************************************)
StateMatchesFill ==
    \A id \in Ids :
        LET o == orders[id]
        IN  /\ o.filled \in 0..o.spec.quantity
            /\ o.state = "Filled" <=> Remaining(o) = 0
            /\ o.state \in {"Submitted", "Accepted"} => o.filled = 0
            /\ o.state = "PartiallyFilled" => o.filled > 0
            /\ o.spec.aon => o.filled \in {0, o.spec.quantity}

(***************************************************************************)
(* Where the walk stands (on_bars).  Its own announcement is at the bottom   *)
(* of the stack and is about the order under the cursor, whose state it      *)
(* tells, unless the client cancelled the order meanwhile; with no           *)
(* announcement open the cursor is at a registered order; and the bars being *)
(* processed all have a volume.                                             *)
(***************************************************************************)
WalkFrame == stack # << >> /\ stack[1].by = "on_bars"

WalkStands ==
    /\ \A k \in 1..Len(stack) : stack[k].by = "on_bars" => k = 1
    /\ WalkFrame =>
          /\ cursor \in Ids /\ stack[1].id = cursor
          /\ orders[cursor].spec.symbol \in DOMAIN values
          /\ stack[1].event \in {"Accepted", "PartiallyFilled"} =>
                orders[cursor].state \in {stack[1].event, "Canceled"}
          /\ stack[1].event \in {"Filled", "Canceled"} =>
                orders[cursor].state = stack[1].event /\ cursor \in book
          /\ stack[1].event # "Submitted"
    /\ fault = "none" /\ cursor # NoCursor =>
          IF stack = << >> THEN cursor \in book ELSE stack[1].by = "on_bars"
    /\ \A s \in DOMAIN values : volumeLeft[s] # Unknown

\* The inductive invariant: the four facts need each other.
Inv == TypeOK /\ BookHoldsLiveOrders /\ StateMatchesFill /\ WalkStands

-----------------------------------------------------------------------------
\* commit_order_execution executes order id in this step.
Executes(id) == id \in Ids /\ orders'[id].filled # orders[id].filled

\* Unless allow_negative_cash happens to be true, no execution overdraws.
NoOverdraft == allowNegative \/ cash >= 0

FilledOf(s, action) ==
    MapThenSumSet(LAMBDA id : IF orders[id].spec.action \in action /\ orders[id].spec.symbol = s
                              THEN orders[id].filled ELSE 0, Ids)
Net(s) == FilledOf(s, BuyActions) - FilledOf(s, SellActions)

\* Shares that stay exact on their way through double, scaled as they are.
IsExact(n) == n >= 0 /\ n * Scale <= Exact

(***************************************************************************)
(* While a symbol is held long, before a step and after it, the step keeps  *)
(* shares equal to what the orders bought less what they sold: the size_t   *)
(* arithmetic of commit_order_execution, which counts a sale as a huge      *)
(* purchase, loses nothing of what precision_.round can hold.  Sales need a *)
(* target that wraps negative doubles, which C++ leaves to it.             *)
(***************************************************************************)
LongSharesKept ==
    [][ \A s \in Symbols :
          /\ IsExact(Net(s)) /\ IsExact(Net(s)') /\ shares[s] = Net(s)
          /\ Net(s)' >= Net(s) \/ Casts = {"wraps"}
          => shares'[s] = Net(s)' ]_vars

(***************************************************************************)
(* The life of an order is one-way: it only makes the switches of           *)
(* Order::state_table, and once it has ended nothing about it changes, not  *)
(* even when the walk comes back to it through a dangling iterator.         *)
(***************************************************************************)
LivesOneWay ==
    \A id \in Ids :
        /\ orders[id].state # orders'[id].state =>
              orders'[id].state \in ValidStates(orders[id].state)
        /\ orders[id].state \in {"Canceled", "Filled"} => orders'[id] = orders[id]

OneWayLife == [][LivesOneWay]_vars

(***************************************************************************)
(* The end of an order is announced in the step that ends it, and an end    *)
(* is announced only then, so the client hears of it exactly once.          *)
(***************************************************************************)
HearsOfEnds ==
    \A id \in Ids :
        LET ends == IsActive(orders[id]) /\ ~IsActive(orders'[id])
            hears == /\ stack' # << >> /\ stack' # stack /\ Len(stack') >= Len(stack)
                     /\ stack'[Len(stack')].id = id
                     /\ stack'[Len(stack')].event \in {"Filled", "Canceled"}
        IN  ends <=> hears

EndsAnnounced == [][HearsOfEnds]_vars

(***************************************************************************)
(* A day order executes on the day it was accepted or never: the walk       *)
(* expires it first on any later day (pre_process_order), however often     *)
(* the walk visits it.                                                     *)
(***************************************************************************)
KeepsItsDay ==
    \A id \in Ids : Executes(id) /\ ~orders[id].spec.gtc => today = orders[id].accepted

DayOrderKeepsItsDay == [][KeepsItsDay]_vars

(***************************************************************************)
(* No look-ahead: an order placed between two bars, when the client has      *)
(* seen a bar, never executes on a bar the client had seen; only an order   *)
(* placed from inside an announcement of on_bars may.                       *)
(***************************************************************************)
ExecutesUnseen ==
    \A id \in Ids : Executes(id) => barNo > orders[id].placed \/ orders[id].inWalk

NoLookAhead == [][ExecutesUnseen]_vars

WellFormed(bar) ==
    /\ bar.low <= bar.open /\ bar.open <= bar.high
    /\ bar.low <= bar.close /\ bar.close <= bar.high
    /\ bar.low > 0

HasLimit(spec) == spec.type \in {"Limit", "StopLimit"}

(***************************************************************************)
(* An execution is at one price that the bar traded at, no worse than the   *)
(* order's limit, and for at least one share.                              *)
(***************************************************************************)
WithinLimit(spec, price) ==
    HasLimit(spec) => IF Buys(spec) THEN price <= spec.limit ELSE price >= spec.limit

ExecutesWithinBar ==
    \A id \in Ids :
        LET spec == orders[id].spec
            bar == values[spec.symbol]
            n == orders'[id].filled - orders[id].filled
        IN  Executes(id) /\ WellFormed(bar) =>
              /\ n > 0
              /\ \E p \in bar.low..bar.high :
                   orders'[id].paid = orders[id].paid + n * p /\ WithinLimit(spec, p)

PriceTraded == [][ExecutesWithinBar]_vars

\* A stop order never executes before a bar has reached its stop price.
StopReached(spec, bar) ==
    IF Buys(spec) THEN bar.high >= spec.stop ELSE bar.low <= spec.stop

ExecutesAfterStop ==
    \A id \in Ids :
        LET spec == orders[id].spec
            bar == values[spec.symbol]
        IN  Executes(id) /\ HasStop(spec) /\ WellFormed(bar) =>
               orders[id].stopHit \/ StopReached(spec, bar)

StopWaits == [][ExecutesAfterStop]_vars

-----------------------------------------------------------------------------
(***************************************************************************)
(* What the repository says of the exchange and the exchange does not do.   *)
(***************************************************************************)
\* test/exchange/order.cpp expects FillType::on_bars to leave a quarter of the
\* bar's volume to fill; it does so for the first bar of a symbol only.
VolumeFollowsBars ==
    [][ barNo' # barNo =>
          \A s \in DOMAIN values' :
            volumeLeft'[s] = IF TickFeed THEN 4 * values'[s].volume ELSE values'[s].volume ]_vars
=============================================================================
