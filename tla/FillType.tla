------------------------------ MODULE FillType ------------------------------
(***************************************************************************)
(* The fill rules of papryka/exchange/detail/filltype: at which price, and  *)
(* for how many shares, an order executes on one bar.  The operators are    *)
(* pure; module Exchange applies them to its state.                         *)
(*                                                                         *)
(* Prices are natural numbers.  Volumes are counted in quarter shares,      *)
(* because the volume limit is 0.25: a bar of volume V leaves V quarter     *)
(* shares to fill, and an order of Q shares asks for 4 * Q of them.         *)
(*                                                                         *)
(* An order is a record whose field spec holds what its constructor fixed   *)
(*   [type, action, symbol, quantity, onClose, stop, limit, gtc, aon]       *)
(* next to the fields the program changes (filled, stopHit are read here).  *)
(***************************************************************************)
EXTENDS Integers

Types == {"Market", "Limit", "Stop", "StopLimit"}
BuyActions == {"Buy", "BuyToCover"}
SellActions == {"Sell", "SellShort"}
Actions == BuyActions \cup SellActions

Buys(spec) == spec.action \in BuyActions

\* Order::get_remaining, in shares.
Remaining(order) == order.spec.quantity - order.filled

-----------------------------------------------------------------------------
(***************************************************************************)
(* FillTrigger.  Both functions ask whether the bar reaches a price level   *)
(* and answer the first price at or beyond it, or 0: a buy stop and a sell  *)
(* limit wait for the price to rise to the level, a sell stop and a buy     *)
(* limit for it to fall.                                                    *)
(***************************************************************************)
\* Slip: forgets that the bar may have opened beyond the level.
RiseTo_AtLevel(level, bar) == IF level <= bar.high THEN level ELSE 0

RiseTo(level, bar) ==
    CASE bar.low > level \/ (level <= bar.high /\ bar.open > level) -> bar.open
      [] bar.low <= level /\ level <= bar.high /\ bar.open <= level -> level
      [] OTHER -> 0

FallTo(level, bar) ==
    CASE bar.high < level \/ (level >= bar.low /\ bar.open < level) -> bar.open
      [] bar.high >= level /\ level >= bar.low /\ bar.open >= level -> level
      [] OTHER -> 0

\* Slip: the sides are swapped.
StopPriceTrigger_Swapped(spec, bar) ==
    IF Buys(spec) THEN FallTo(spec.stop, bar) ELSE RiseTo(spec.stop, bar)

StopPriceTrigger(spec, bar) ==
    IF Buys(spec) THEN RiseTo(spec.stop, bar) ELSE FallTo(spec.stop, bar)

LimitPriceTrigger(spec, bar) ==
    IF Buys(spec) THEN FallTo(spec.limit, bar) ELSE RiseTo(spec.limit, bar)

-----------------------------------------------------------------------------
(***************************************************************************)
(* FillType<Bar>::calculate_fill_size_, in quarter shares, for an order     *)
(* that left quarter shares can still serve.  An all-or-none order that     *)
(* does not fit runs into assert(false): AllOrNoneFails.                    *)
(***************************************************************************)
AllOrNoneFails(order, left) == order.spec.aon /\ 4 * Remaining(order) > left

FillSize(order, left) ==
    IF 4 * Remaining(order) <= left THEN 4 * Remaining(order) ELSE left

\* What a fill attempt answers: nothing, a failed assertion, or an execution.
Fills == {"no_fill", "all_or_none", "zero_price", "zero_quantity", "fill"}

NoFill == [outcome |-> "no_fill", price |-> 0, quantity |-> 0]
FailedAssert(why) == [outcome |-> why, price |-> 0, quantity |-> 0]

\* new FillInfo(price, fill_size): the real size is truncated to whole shares,
\* and process_order asserts that the price is not 0, and then that quantity is not.
FillInfo(price, size) ==
    IF price = 0 THEN FailedAssert("zero_price")
    ELSE IF size \div 4 = 0 THEN FailedAssert("zero_quantity")
    ELSE [outcome |-> "fill", price |-> price, quantity |-> size \div 4]

\* fill(order, bar, market_order_tag)
MarketFill(order, bar, left) ==
    LET price == IF order.spec.onClose THEN bar.close ELSE bar.open
    IN  IF FillSize(order, left) = 0 \/ price = 0
        THEN NoFill
        ELSE FillInfo(price, FillSize(order, left))

\* fill(order, bar, limit_order_tag)
LimitFill(order, bar, left) ==
    LET price == LimitPriceTrigger(order.spec, bar)
    IN  IF FillSize(order, left) = 0 \/ price = 0
        THEN NoFill
        ELSE FillInfo(price, FillSize(order, left))

\* fill(order, bar, stop_order_tag), once the stop is hit; trigger is 0 when it
\* was hit on an earlier bar.  int fill_size drops a fraction of a share.
StopFill(order, bar, left, trigger) ==
    IF FillSize(order, left) \div 4 = 0
    THEN NoFill
    ELSE FillInfo(IF trigger # 0 THEN trigger ELSE bar.open, FillSize(order, left))

\* fill(order, bar, stop_limit_order_tag), once the stop is hit.
StopLimitFill(order, bar, left, trigger) ==
    LET reached == LimitPriceTrigger(order.spec, bar)
        limit == order.spec.limit
        Better(a, b) == IF (a < b) = Buys(order.spec) THEN a ELSE b
    IN  IF FillSize(order, left) \div 4 = 0 \/ reached = 0
        THEN NoFill
        ELSE FillInfo(IF trigger # 0 THEN Better(trigger, limit) ELSE reached,
                      FillSize(order, left))

-----------------------------------------------------------------------------
HasStop(spec) == spec.type \in {"Stop", "StopLimit"}

\* The stop price trigger of this bar, looked for until the stop is hit.
TriggerOf(order, bar) ==
    IF HasStop(order.spec) /\ ~order.stopHit
    THEN StopPriceTrigger(order.spec, bar)
    ELSE 0

\* order.is_stop_hit after the attempt: it never goes back to false.
StopHit(order, bar) == order.stopHit \/ TriggerOf(order, bar) # 0

\* Order<_Fill>::process: the fill function of the order's type.
Process(order, bar, left) ==
    IF HasStop(order.spec) /\ ~StopHit(order, bar) THEN NoFill
    ELSE IF AllOrNoneFails(order, left) THEN FailedAssert("all_or_none")
    ELSE CASE order.spec.type = "Market" -> MarketFill(order, bar, left)
           [] order.spec.type = "Limit"  -> LimitFill(order, bar, left)
           [] order.spec.type = "Stop"   ->
                StopFill(order, bar, left, TriggerOf(order, bar))
           [] OTHER ->
                StopLimitFill(order, bar, left, TriggerOf(order, bar))
=============================================================================
