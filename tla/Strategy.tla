------------------------------ MODULE Strategy ------------------------------
(***************************************************************************)
(* papryka::Strategy with its positions, composed with the exchange.  The   *)
(* strategy is the subscriber of order_event: every frame of the exchange's *)
(* stack has a handler, a call of on_order_event_ in progress, which looks  *)
(* up the position of the order, lets its state machine react, and unlinks  *)
(* an ended order.  The user's callbacks run inside the handler and enter,  *)
(* exit and cancel positions, that is, call the exchange again.             *)
(*                                                                         *)
(* A handler is cut where it runs the user's code, which is named by its    *)
(* step; a step of "done" means that on_order_event_ has returned.          *)
(***************************************************************************)
EXTENDS Exchange

CONSTANTS
    Entries,        \* what the user enters: [side, symbol, quantity, stop, limit, gtc, aon]
    Exits,          \* the prices the user exits at: [stop, limit]
    Calls,          \* which callback of the user's makes which calls: pairs
    KeepsPosition   \* whether users keep the position_ptr_t they were given

Callbacks == {"on_bars", "on_order_updated", "on_enter", "on_enter_canceled",
              "on_exit", "on_exit_canceled"}
UserCalls == {"enter", "exit", "cancel_entry", "cancel_exit"}
Sides == {"Long", "Short"}

ASSUME EntriesAssumption ==
    \A e \in Entries :
        /\ e.side \in Sides /\ e.symbol \in Symbols
        /\ e.quantity \in 1 .. Word - 1 /\ e.stop \in Nat /\ e.limit \in Nat
        /\ e.gtc \in BOOLEAN /\ e.aon \in BOOLEAN

ASSUME UserAssumption ==
    /\ \A x \in Exits : x.stop \in Nat /\ x.limit \in Nat
    /\ Calls \subseteq Callbacks \X UserCalls
    /\ KeepsPosition \subseteq BOOLEAN

VARIABLES
    positions,  \* every position entered so far: positions[p] has id p
    owner,      \* order_to_position_
    handlers    \* handlers[k] handles the announcement stack[k]

strategyVars == << vars, positions, owner, handlers >>

NoOrder == 0     \* a null order_ptr_t
NoPosition == 0

-----------------------------------------------------------------------------
(***************************************************************************)
(* The orders a position creates.                                          *)
(***************************************************************************)
TypeFor(stop, limit) ==
    CASE limit = 0 /\ stop = 0 -> "Market"
      [] limit # 0 /\ stop = 0 -> "Limit"
      [] limit = 0 /\ stop # 0 -> "Stop"
      [] OTHER                 -> "StopLimit"

(***************************************************************************)
(* The constructors of LongPosition and ShortPosition pass (limitPrice,     *)
(* stopPrice) where create_order takes (stopPrice, limitPrice).  They set   *)
(* the last two flags after create_order; no bar comes in between.          *)
(***************************************************************************)
EntrySpec(e) ==
    [type |-> TypeFor(e.stop, e.limit),
     action |-> IF e.side = "Long" THEN "Buy" ELSE "SellShort",
     symbol |-> e.symbol, quantity |-> e.quantity, onClose |-> FALSE,
     stop |-> e.limit, limit |-> e.stop, gtc |-> e.gtc, aon |-> e.aon]

(***************************************************************************)
(* build_exit_order and submit_exit_order, for a position of that side and  *)
(* entry.  A long exit swaps the prices likewise; a short exit leaves       *)
(* isFillOnClose out, so that its first price is taken for that flag and    *)
(* its second, if any, for the stop.                                       *)
(***************************************************************************)
ExitRequest(side, entry, quantity, x) ==
    LET long == side = "Long"
        type == TypeFor(x.stop, x.limit)
    IN  [type |-> type, action |-> IF long THEN "Sell" ELSE "BuyToCover",
         symbol |-> entry.symbol, quantity |-> quantity,
         onClose |-> ~long /\ type # "Market",
         stop |-> IF long \/ type = "StopLimit" THEN x.limit ELSE 0,
         limit |-> IF long THEN x.stop ELSE 0,
         gtc |-> entry.gtc, aon |-> entry.aon]

\* The shares of a position, counted as its side has them.
Held(position) == IF position.side = "Long" THEN position.shares ELSE -position.shares

ExitSpec(position, x) ==
    ExitRequest(position.side, orders[position.entry].spec, Held(position) % Word, x)

\* All that a strategy asks of the exchange.
Requests ==
    UNION {{EntrySpec(e)} \cup
           {ExitRequest(e.side, EntrySpec(e), n, x) : n \in 1..e.quantity, x \in Exits} :
              e \in Entries}

\* It is one of the exchange's clients, and one that keeps its orders.
ASSUME RequestsAssumption == Requests \subseteq OrderSpecs /\ TRUE \in KeepsOrder

-----------------------------------------------------------------------------
(***************************************************************************)
(* Positions and the pointers to them and to orders.                       *)
(***************************************************************************)
\* alive: in active_positions_; kept: the user holds a position_ptr_t; active:
\* active_orders_; made: all orders it has created.
NewPosition(side) ==
    [side |-> side, entry |-> NoOrder, exit |-> NoOrder, active |-> {}, made |-> {},
     shares |-> 0, state |-> "Idle", alive |-> FALSE, kept |-> FALSE]

Positions == 1..Len(positions)
Exists(position) == position.alive \/ position.kept

\* is_entry_active and is_exit_active
Works(id) == id # NoOrder /\ IsActive(orders[id])

\* These orders are left to the book alone.
Dropped(ids) ==
    [id \in DOMAIN orders |->
        IF id \in ids THEN [orders[id] EXCEPT !.kept = FALSE] ELSE orders[id]]

\* unregister_position and what the last pointer to the position takes along.
Unregister(p) ==
    /\ positions' = [positions EXCEPT ![p].alive = FALSE]
    /\ orders' = IF positions[p].kept THEN orders
                 ELSE Dropped({positions[p].entry, positions[p].exit} \cup positions[p].active)

-----------------------------------------------------------------------------
(***************************************************************************)
(* Handlers and the user.                                                  *)
(***************************************************************************)
\* quantity: of the execution announced; caller: the function that announced,
\* and the position it works for.
Handler(quantity, caller, p) ==
    [step |-> "on_order_updated", quantity |-> quantity, position |-> NoPosition,
     caller |-> caller, for |-> p]

Top == handlers[Len(handlers)]
TopFrame == stack[Len(stack)]
Handling(steps) == fault = "none" /\ stack # << >> /\ Top.step \in steps
Goto(step, p) ==
    handlers' = [handlers EXCEPT ![Len(handlers)].step = step,
                                 ![Len(handlers)].position = p]
Announced(caller, p) == handlers' = Append(handlers, Handler(0, caller, p))

\* The user runs in callback c and makes that call there.
May(call) ==
    /\ ClientRuns
    /\ << IF stack = << >> THEN "on_bars" ELSE Top.step, call >> \in Calls

\* The user can reach a position that get_position finds, or that it kept.
Reachable == {p \in Positions : Exists(positions[p])}

\* enter_long, enter_short and their variants, up to the Submitted announcement.
Enter(e) ==
    /\ May("enter")
    /\ SubmitOrder(EntrySpec(e), TRUE)
    /\ positions' = Append(positions, NewPosition(e.side))
    /\ Announced("enter", Len(positions) + 1)
    /\ UNCHANGED owner

Cancel(id) ==
    /\ CancelOrder(id)
    /\ Announced("cancel", NoPosition)
    /\ UNCHANGED << positions, owner >>

CancelEntry(p) ==
    /\ May("cancel_entry") /\ Works(positions[p].entry)
    /\ Cancel(positions[p].entry)

CancelExit(p) ==
    /\ May("cancel_exit") /\ Works(positions[p].exit)
    /\ Cancel(positions[p].exit)

\* Slip: does not look for an active exit order.
CanExit_Twice(p) == positions[p].state \in {"Idle", "Open"}

\* StateMachine::exit throws when the exit order is active; users catch that.
CanExit(p) ==
    \/ positions[p].state = "Idle"
    \/ positions[p].state = "Open" /\ ~Works(positions[p].exit)

(***************************************************************************)
(* exit_market and its variants, StateMachine::exit: cancels an entry that  *)
(* is active, submits an exit order otherwise, unregisters a closed         *)
(* position.                                                               *)
(***************************************************************************)
Exit(p, x) ==
    LET position == positions[p]
    IN  /\ May("exit")
        /\ \/ /\ CanExit(p) /\ Works(position.entry)
              /\ Cancel(position.entry)
           \/ /\ CanExit(p) /\ position.state = "Open" /\ ~Works(position.entry)
              /\ SubmitOrder(ExitSpec(position, x), TRUE)
              /\ Announced("exit", p)
              /\ UNCHANGED << positions, owner >>
           \/ /\ position.state = "Close"
              /\ IF position.alive
                 THEN Unregister(p) /\ fault' = fault
                 ELSE Die("unregistered_twice") /\ UNCHANGED << positions, orders >>
              /\ UNCHANGED << book, cash, shares, allowNegative, volumeLeft, values,
                              barNo, today, cursor, stack, owner, handlers >>

User ==
    \/ \E e \in Entries : Enter(e)
    \/ \E p \in Reachable :
          \/ CancelEntry(p)
          \/ CancelExit(p)
          \/ \E x \in Exits : Exit(p, x)

-----------------------------------------------------------------------------
(***************************************************************************)
(* on_order_event_.                                                        *)
(***************************************************************************)
\* Slip: counts only the last execution of an order.
Counted_Filled(position, frame, quantity) ==
    LET spec == orders[frame.id].spec
        n == IF frame.event = "Filled" THEN quantity ELSE 0
    IN  [position EXCEPT
            !.active = IF IsActive(orders[frame.id]) THEN @ ELSE @ \ {frame.id},
            !.shares = IF Buys(spec) THEN @ + n ELSE @ - n]

\* Position::on_order_event before it asks the state machine.
Counted(position, frame, quantity) ==
    LET spec == orders[frame.id].spec
    IN  [position EXCEPT
            !.active = IF IsActive(orders[frame.id]) THEN @ ELSE @ \ {frame.id},
            !.shares = IF Buys(spec) THEN @ + quantity ELSE @ - quantity]

Reaction(state, callback) == [state |-> state, callback |-> callback, fault |-> "none"]
Ignores(position) == Reaction(position.state, "none")
Fails(position, why) == [state |-> position.state, callback |-> "none", fault |-> why]

\* Slip: forgets that an entry may be executed in parts.
ReactIdle_Whole(position, frame) ==
    CASE frame.event = "Filled" -> Reaction("Open", "on_enter")
      [] frame.event = "Canceled" -> Reaction("Close", "on_enter_canceled")
      [] OTHER -> Ignores(position)

\* The entry order is the only one there is.
ReactIdle(position, frame) ==
    CASE frame.event \in {"Filled", "PartiallyFilled"} -> Reaction("Open", "on_enter")
      [] frame.event = "Canceled" ->
            IF orders[position.entry].filled = 0
            THEN Reaction("Close", "on_enter_canceled")
            ELSE Fails(position, "entry_filled")
      [] OTHER -> Ignores(position)

\* exit_order->id is read whether or not there is an exit order.
ReactOpen(position, frame) ==
    CASE position.exit = NoOrder -> Fails(position, "null_exit_order")
      [] frame.id = position.exit /\ frame.event = "Filled" /\ position.shares = 0 ->
            Reaction("Close", "on_exit")
      [] frame.id = position.exit /\ frame.event = "Canceled" ->
            IF position.shares # 0 THEN Reaction("Open", "on_exit_canceled")
                                   ELSE Fails(position, "no_shares")
      [] OTHER -> Ignores(position)

\* StateMachine::on_order_event, up to the callback it makes, if any.
React(position, frame) ==
    CASE position.state = "Idle" -> ReactIdle(position, frame)
      [] position.state = "Open" -> ReactOpen(position, frame)
      [] OTHER -> Fails(position, "closed_position")

\* Whoever reads an order that is gone may die of it.
Survives(id) ==
    fault' \in IF orders'[id].kept \/ id \in book THEN {fault} ELSE {fault, "freed"}

\* Slip: leaves the order in the map, with no position.
Unlinked_Null(id) ==
    IF IsActive(orders[id]) THEN owner ELSE [owner EXCEPT ![id] = NoPosition]

\* unregister_position_order, for an order that has ended.
Unlinked(id) ==
    IF IsActive(orders[id]) THEN owner
    ELSE [n \in DOMAIN owner \ {id} |-> owner[n]]

Mapped(id) == id \in DOMAIN owner /\ positions[owner[id]].alive

\* on_order_updated has returned: the order has no position that is active.
Overlook ==
    /\ Handling({"on_order_updated"})
    /\ ~Mapped(TopFrame.id)
    /\ Goto("done", NoPosition)
    /\ UNCHANGED << orders, book, cash, shares, allowNegative, volumeLeft, values,
                    barNo, today, cursor, stack, positions, owner >>
    /\ Survives(TopFrame.id)

\* on_order_updated has returned, up to the next callback or to the end.
Deliver ==
    /\ Handling({"on_order_updated"})
    /\ Mapped(TopFrame.id)
    /\ UNCHANGED << orders, book, cash, shares, allowNegative, volumeLeft, values,
                    barNo, today, cursor, stack >>
    /\ LET p == owner[TopFrame.id]
           counted == Counted(positions[p], TopFrame, Top.quantity)
           reaction == React(counted, TopFrame)
           over == reaction.callback = "none"
       IN  /\ positions' = [positions EXCEPT ![p] = [counted EXCEPT !.state = reaction.state]]
           /\ owner' = IF over THEN Unlinked(TopFrame.id) ELSE owner
           /\ Goto(IF over THEN "done" ELSE reaction.callback, p)
           /\ IF reaction.fault = "none" THEN Survives(TopFrame.id) ELSE Die(reaction.fault)

\* on_enter or on_exit_canceled has returned.
CallbackReturns ==
    /\ Handling({"on_enter", "on_exit_canceled"})
    /\ owner' = Unlinked(TopFrame.id)
    /\ Goto("done", NoPosition)
    /\ UNCHANGED << orders, book, cash, shares, allowNegative, volumeLeft, values,
                    barNo, today, cursor, stack, positions >>
    /\ Survives(TopFrame.id)

\* on_enter_canceled or on_exit has returned: StateMachine::exit in StateClose
\* unregisters the position, and the order is unlinked from what may be gone.
ClosingReturns ==
    /\ Handling({"on_enter_canceled", "on_exit"})
    /\ IF positions[Top.position].alive
       THEN /\ Unregister(Top.position)
            /\ owner' = Unlinked(TopFrame.id)
            /\ Survives(TopFrame.id)
       ELSE Die("unregistered_twice") /\ UNCHANGED << positions, orders, owner >>
    /\ Goto("done", NoPosition)
    /\ UNCHANGED << book, cash, shares, allowNegative, volumeLeft, values,
                    barNo, today, cursor, stack >>

-----------------------------------------------------------------------------
(***************************************************************************)
(* The announcement has returned to the call that made it.                 *)
(***************************************************************************)
ReturnsTo(caller) ==
    /\ Handling({"done"}) /\ Top.caller = caller
    /\ stack' = SubSeq(stack, 1, Len(stack) - 1)
    /\ handlers' = SubSeq(handlers, 1, Len(handlers) - 1)
    /\ UNCHANGED << book, cash, shares, allowNegative, volumeLeft, values,
                    barNo, today, cursor >>

\* Slip: registers the order in the map of the position only.
Registered_Unmapped(id, p) == owner

\* register_position_order
Registered(id, p) == [n \in DOMAIN owner \cup {id} |-> IF n = id THEN p ELSE owner[n]]

\* The rest of the constructor, submit_and_register_order, and register_position.
ReturnToEnter ==
    LET id == TopFrame.id
        p == Top.for
    IN  /\ ReturnsTo("enter")
        /\ \E kept \in KeepsPosition :
              positions' = [positions EXCEPT ![p].entry = id, ![p].active = {id},
                                ![p].made = {id}, ![p].alive = TRUE, ![p].kept = kept]
        /\ owner' = Registered(id, p)
        /\ fault' = IF IsActive(orders[id]) THEN fault ELSE "refused"
        /\ UNCHANGED orders

\* submit_exit_order and submit_and_register_order; the exit order of before,
\* if any, is released.
ReturnToExit ==
    LET id == TopFrame.id
        p == Top.for
    IN  /\ ReturnsTo("exit")
        /\ positions' = [positions EXCEPT ![p].exit = id, ![p].active = @ \cup {id},
                                          ![p].made = @ \cup {id}]
        /\ owner' = Registered(id, p)
        /\ orders' = Dropped({positions[p].exit} \ positions[p].active)
        /\ fault' = IF positions[p].state = "Open" THEN fault ELSE "refused"

ReturnToCancel ==
    /\ ReturnsTo("cancel")
    /\ UNCHANGED << orders, positions, owner, fault >>

-----------------------------------------------------------------------------
\* The exchange starts a walk; the strategy sees the bars when it is over.
Bars ==
    /\ \E bars \in ValueMaps, gap \in Gaps : OnBars(bars, today + gap)
    /\ UNCHANGED << positions, owner, handlers >>

\* A step of the walk, which goes on when its announcement has been handled.
WalkOn ==
    /\ stack # << >> => Top.step = "done"
    /\ \/ VisitOrder
       \/ ReturnAccepted
       \/ ReturnPartiallyFilled
       \/ ReturnFilled
       \/ ReturnCanceled
    /\ handlers' =
          IF stack' = << >> THEN << >>
          ELSE << Handler(orders'[cursor].filled - orders[cursor].filled,
                          "on_bars", NoPosition) >>
    /\ UNCHANGED << positions, owner >>

StrategyInit ==
    /\ Init
    /\ positions = << >>
    /\ owner = [id \in {} |-> NoPosition]
    /\ handlers = << >>

StrategyEnds ==
    /\ Terminated
    /\ UNCHANGED << positions, owner, handlers >>

Handlers ==
    \/ Overlook
    \/ Deliver
    \/ CallbackReturns
    \/ ClosingReturns
    \/ ReturnToEnter
    \/ ReturnToExit
    \/ ReturnToCancel

StrategyNext ==
    \/ User
    \/ Bars
    \/ WalkOn
    \/ Handlers
    \/ StrategyEnds

\* The walk and its handlers are one thread, and callbacks return.
StrategySpec ==
    StrategyInit /\ [][StrategyNext]_strategyVars /\ WF_strategyVars(WalkOn \/ Handlers)
=============================================================================
