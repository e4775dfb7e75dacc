--------------------------- MODULE StrategyProofs ---------------------------
(***************************************************************************)
(* The state of a position follows its orders and the map of the strategy   *)
(* has an owner for every order, for every orderly user and every value of  *)
(* the constants.                                                          *)
(*                                                                         *)
(* Between an event and the position that it is for stands the stack of     *)
(* announcements.  The invariant speaks of what positions have been told:   *)
(* Known is what a position knows to be executed of an order, and Lives     *)
(* whether it believes that the order can still trade.  Few steps change    *)
(* these two: telling a position does (Deliver), and executing and ending   *)
(* an order does not.                                                      *)
(***************************************************************************)
EXTENDS ExchangeStepProofs, StrategyProperties

EndEvents == {"Filled", "Canceled"}
FillEvents == {"Filled", "PartiallyFilled"}

Depth == 1..Len(handlers)

\* Nobody but on_order_updated has been told by the handler.
Pending(k) == handlers[k].step = "on_order_updated"

\* submit_order announces, and its caller does not have the order yet.
Making(k) == handlers[k].caller \in {"enter", "exit"}
InTheMaking(id) == \E k \in Depth : Making(k) /\ stack[k].id = id

\* What of an order was executed but not told, and what the position knows.
Untold(id) ==
    IF stack # << >> /\ stack[1].id = id /\ Pending(1) THEN handlers[1].quantity ELSE 0
Known(id) == orders[id].filled - Untold(id)

\* Whether the position thinks that the order can trade.
EndUntold(id) ==
    \E k \in Depth : stack[k].id = id /\ stack[k].event \in EndEvents /\ Pending(k)
Lives(id) == IsActive(orders[id]) \/ EndUntold(id)

\* The orders of a position.
EntersFor(id, side) == \E e \in Entries : e.side = side /\ orders[id].spec = EntrySpec(e)
ExitsFor(id, side) ==
    orders[id].spec.action = IF side = "Long" THEN "Sell" ELSE "BuyToCover"
-----------------------------------------------------------------------------
(***************************************************************************)
(* The invariant, while the program runs.                                  *)
(***************************************************************************)
\* An announcement and its handler.
FrameFits(k) ==
    LET frame == stack[k]
        handler == handlers[k]
    IN  /\ frame.id \in Ids
        /\ IF handler.caller = "on_bars" THEN k = 1 ELSE frame.by = "client"
        /\ Making(k) <=> frame.event = "Submitted"
        /\ Making(k) => handler.step \in {"on_order_updated", "done"}
        /\ handler.caller = "cancel" => frame.event = "Canceled"
        /\ frame.event \in FillEvents => k = 1
        /\ handler.quantity > 0 <=> frame.event \in FillEvents
        /\ handler.step = "on_enter" => frame.event \in FillEvents
        /\ handler.step = "on_exit" => frame.event = "Filled"
        /\ handler.step \in {"on_enter_canceled", "on_exit_canceled"} => frame.event = "Canceled"
        /\ handler.step \in {"on_enter_canceled", "on_exit"} =>
              /\ handler.position \in Positions
              /\ positions[handler.position].entry # NoOrder
              /\ positions[handler.position].state = "Close"
        /\ handler.step = "done" => k = Len(handlers)
        /\ frame.event \in EndEvents => ~IsActive(orders[frame.id])
        /\ frame.event = "PartiallyFilled" /\ Pending(k) => Lives(frame.id)
        /\ frame.event \notin {"Submitted", "Accepted"} /\ Pending(k) => frame.id \in DOMAIN owner

\* Two announcements, the second of which is made inside the first.
FramesFit(k, l) ==
    /\ {stack[k].event, stack[l].event} \subseteq EndEvents => stack[k].id # stack[l].id
    /\ Making(k) \/ Making(l) => stack[k].id # stack[l].id
    /\ Making(k) /\ Making(l) => handlers[k].for # handlers[l].for
    /\ Pending(k) =>
          /\ handlers[l].step \in {"on_order_updated", "on_enter_canceled", "done"}
          /\ handlers[l].caller \in {"enter", "cancel"}
          /\ handlers[l].caller = "cancel" =>
                \E p \in Positions : positions[p].entry = stack[l].id

\* An order that is being submitted, and the position it will belong to.
MakingFits(k) ==
    LET id == stack[k].id
        p == handlers[k].for
        position == positions[p]
    IN  Making(k) =>
          /\ orders[id].state = "Submitted"
          /\ id \notin DOMAIN owner /\ \A r \in Positions : id \notin positions[r].made
          /\ p \in Positions
          /\ handlers[k].caller = "enter" =>
                position.entry = NoOrder /\ EntersFor(id, position.side)
          /\ handlers[k].caller = "exit" =>
                /\ position.entry # NoOrder /\ position.state = "Open"
                /\ ~Lives(position.entry) /\ (position.exit # NoOrder => ~Lives(position.exit))
                /\ ExitsFor(id, position.side) /\ orders[id].spec.quantity = Held(position)

\* A position that enter has not registered yet.
Unregistered(p) ==
    /\ positions[p] = NewPosition(positions[p].side)
    /\ \E k \in Depth : handlers[k].caller = "enter" /\ handlers[k].for = p

\* A registered position and its orders.
OrdersFit(p) ==
    LET position == positions[p]
    IN  /\ position.entry \in position.made
        /\ position.exit \in position.made \cup {NoOrder} /\ position.exit # position.entry
        /\ EntersFor(position.entry, position.side)
        /\ position.exit # NoOrder =>
              ExitsFor(position.exit, position.side) /\ ~Lives(position.entry)
        /\ \A id \in position.made : Lives(id) => id \in {position.entry, position.exit}

\* A registered position and what it knows of them.
StateFits(p) ==
    LET position == positions[p]
        size == orders[position.entry].spec.quantity
    IN  /\ position.state = "Idle" =>
              /\ position.alive /\ position.shares = 0 /\ position.exit = NoOrder
              /\ Lives(position.entry) /\ Known(position.entry) = 0
        /\ position.state = "Open" =>
              /\ position.alive /\ Held(position) \in 1..size
              /\ Known(position.entry) > 0
              /\ position.exit # NoOrder /\ Lives(position.exit) =>
                    Held(position) =
                        orders[position.exit].spec.quantity - Known(position.exit)
        /\ position.state = "Close" =>
              position.shares = 0 /\ \A id \in position.made : ~Lives(id)

PositionFits(p) ==
    IF positions[p].entry = NoOrder THEN Unregistered(p) ELSE OrdersFit(p) /\ StateFits(p)

\* order_to_position_.
OwnersFit ==
    /\ \A id \in DOMAIN owner : id \in positions[owner[id]].made
    /\ \A id \in Ids : Lives(id) => InTheMaking(id) \/ id \in DOMAIN owner
    /\ \A id \in DOMAIN owner : IsActive(orders[id]) \/
          \E k \in Depth :
              stack[k].id = id /\ stack[k].event \in EndEvents /\ handlers[k].step # "done"

Handled ==
    /\ \A k \in Depth : FrameFits(k) /\ MakingFits(k)
    /\ \A k, l \in Depth : k < l => FramesFit(k, l)

Standing ==
    /\ \A p \in Positions : PositionFits(p)
    /\ \A p, r \in Positions : p # r => positions[p].made \cap positions[r].made = {}

Running == IInv /\ Handled /\ Standing /\ OwnersFit

StrategyInv == StrategyTypeOK /\ (fault = "none" => Running)
-----------------------------------------------------------------------------
(***************************************************************************)
(* Types.                                                                  *)
(***************************************************************************)
\* The elements of the two sequences, and how long they are.
LEMMA StrategyFacts ==
  ASSUME StrategyTypeOK, fault = "none", TypeOK
  PROVE  /\ orders \in Seq(Orders) /\ Len(orders) \in Nat
         /\ \A id \in Ids : orders[id] \in Orders
         /\ stack \in Seq(Frames) /\ Len(stack) \in Nat
         /\ \A k \in 1..Len(stack) : stack[k] \in Frames
         /\ positions \in Seq(PositionRecords) /\ Len(positions) \in Nat
         /\ \A p \in Positions : positions[p] \in PositionRecords
         /\ handlers \in Seq(HandlerRecords) /\ Len(handlers) \in Nat
         /\ Len(handlers) = Len(stack)
         /\ \A k \in Depth : handlers[k] \in HandlerRecords
         /\ (stack = << >> <=> Len(handlers) = 0)
<1>1. orders \in Seq(Orders) /\ Len(orders) \in Nat /\ \A id \in Ids : orders[id] \in Orders
  BY LenProperties, ElementOfSeq DEF TypeOK, Ids
<1>2. /\ stack \in Seq(Frames) /\ Len(stack) \in Nat
      /\ \A k \in 1..Len(stack) : stack[k] \in Frames
  BY LenProperties, ElementOfSeq DEF TypeOK
<1>3. /\ positions \in Seq(PositionRecords) /\ Len(positions) \in Nat
      /\ \A p \in Positions : positions[p] \in PositionRecords
  BY LenProperties, ElementOfSeq DEF StrategyTypeOK, Positions
<1>4. /\ handlers \in Seq(HandlerRecords) /\ Len(handlers) \in Nat
      /\ \A k \in Depth : handlers[k] \in HandlerRecords
  BY LenProperties, ElementOfSeq DEF StrategyTypeOK, Depth
<1>5. Len(handlers) = Len(stack)
  BY DEF StrategyTypeOK
<1>6. stack = << >> <=> Len(stack) = 0
  BY <1>2, EmptySeq
<1> QED BY <1>1, <1>2, <1>3, <1>4, <1>5, <1>6
-----------------------------------------------------------------------------
(***************************************************************************)
(* The exchange under a strategy: every step is one of its steps, or only   *)
(* changes who keeps an order.                                             *)
(***************************************************************************)
\* Nothing happens to an order but that a pointer to it may be released.
Forgets ==
    /\ orders' \in Seq(Orders) /\ Len(orders') = Len(orders)
    /\ \A id \in Ids : orders'[id] = [orders[id] EXCEPT !.kept = orders'[id].kept]

LEMMA DroppedForgets ==
  ASSUME orders \in Seq(Orders), NEW ids, orders' = Dropped(ids)
  PROVE  Forgets
<1>1. Len(orders) \in Nat /\ DOMAIN orders = Ids
  BY LenProperties DEF Ids
<1>2. \A id \in Ids : orders[id] \in Orders
  BY ElementOfSeq DEF Ids
<1> DEFINE o(id) == IF id \in ids THEN [orders[id] EXCEPT !.kept = FALSE] ELSE orders[id]
<1>3. orders' = [id \in 1..Len(orders) |-> o(id)]
  BY <1>1 DEF Dropped, Ids
<1>4. \A id \in Ids : o(id) \in Orders /\ o(id) = [orders[id] EXCEPT !.kept = o(id).kept]
  BY <1>2 DEF Orders
<1> HIDE DEF o
<1>5. orders' \in Seq(Orders) /\ Len(orders') = Len(orders)
  BY <1>1, <1>3, <1>4 DEF Ids
<1> QED BY <1>3, <1>4, <1>5 DEF Forgets, Ids

LEMMA SameForgets ==
  ASSUME orders \in Seq(Orders), orders' = orders
  PROVE  Forgets
<1>1. \A id \in Ids : orders[id] \in Orders
  BY ElementOfSeq DEF Ids
<1>2. \A id \in Ids : orders[id] = [orders[id] EXCEPT !.kept = orders[id].kept]
  BY <1>1 DEF Orders
<1> QED BY <1>2 DEF Forgets

\* The call of a client's returns.
Pops ==
    /\ stack # << >> /\ stack[Len(stack)].by = "client"
    /\ stack' = SubSeq(stack, 1, Len(stack) - 1)

\* What the exchange sees of a step that is the strategy's own.
Rests ==
    /\ fault = "none" /\ Forgets /\ (stack' = stack \/ Pops)
    /\ UNCHANGED << book, cash, shares, allowNegative, volumeLeft, values, barNo, today,
                    cursor, fault >>

LEMMA ForgetsFacts ==
  ASSUME TypeOK, Forgets
  PROVE  /\ Ids' = Ids
         /\ \A id \in Ids :
               /\ orders'[id].spec = orders[id].spec /\ orders'[id].state = orders[id].state
               /\ orders'[id].filled = orders[id].filled
               /\ orders'[id].accepted = orders[id].accepted
               /\ orders'[id].placed = orders[id].placed
               /\ orders'[id].inWalk = orders[id].inWalk
               /\ IsActive(orders'[id]) = IsActive(orders[id])
<1>1. \A id \in Ids : orders[id] \in Orders
  BY ElementOfSeq DEF TypeOK, Ids
<1>2. ASSUME NEW id \in Ids
      PROVE  /\ orders'[id].spec = orders[id].spec /\ orders'[id].state = orders[id].state
             /\ orders'[id].filled = orders[id].filled
             /\ orders'[id].accepted = orders[id].accepted
             /\ orders'[id].placed = orders[id].placed
             /\ orders'[id].inWalk = orders[id].inWalk
  <2>1. orders'[id] = [orders[id] EXCEPT !.kept = orders'[id].kept]
    BY DEF Forgets
  <2> DEFINE o == orders'[id]
             kept == orders'[id].kept
  <2>2. o = [orders[id] EXCEPT !.kept = kept] /\ orders[id] \in Orders
    BY <1>1, <2>1
  <2> HIDE DEF o, kept
  <2>3. /\ o.spec = orders[id].spec /\ o.state = orders[id].state
        /\ o.filled = orders[id].filled /\ o.accepted = orders[id].accepted
        /\ o.placed = orders[id].placed /\ o.inWalk = orders[id].inWalk
    BY <2>2 DEF Orders
  <2> QED BY <2>3 DEF o
<1>3. Ids' = Ids
  BY DEF Forgets, Ids
<1> QED BY <1>2, <1>3 DEF IsActive

LEMMA PopsFacts ==
  ASSUME TypeOK, Pops
  PROVE  /\ stack' \in Seq(Frames) /\ Len(stack) \in Nat \ {0} /\ Len(stack') = Len(stack) - 1
         /\ \A k \in 1..Len(stack) - 1 : stack'[k] = stack[k]
         /\ (stack' = << >> <=> Len(stack) = 1)
<1>1. Len(stack) \in Nat \ {0}
  BY EmptySeq, LenProperties DEF TypeOK, Pops
<1>2. /\ stack' \in Seq(Frames) /\ Len(stack') = Len(stack) - 1
      /\ \A k \in 1..Len(stack) - 1 : stack'[k] = stack[k]
  BY <1>1, PopFacts DEF TypeOK, Pops
<1> QED BY <1>1, <1>2, EmptySeq

\* A step of the strategy's own keeps what is known of the exchange.
LEMMA RestsInv ==
  ASSUME IInv, Rests
  PROVE  IInv'
<1> USE DEF IInv, Inv
<1>1. Ids' = Ids /\ orders' \in Seq(Orders)
  BY ForgetsFacts DEF Rests, Forgets
<1>2. /\ stack' \in Seq(Frames) /\ Len(stack') \in Nat /\ Len(stack) \in Nat
      /\ Len(stack') <= Len(stack)
      /\ \A k \in 1..Len(stack') : stack'[k] = stack[k]
  BY PopsFacts, LenProperties DEF Rests, TypeOK
<1>3. WalkFrame' = WalkFrame /\ (WalkFrame => stack'[1] = stack[1])
  <2>1. CASE stack' = stack
    BY <2>1 DEF WalkFrame
  <2>2. CASE Pops
    <3>1. stack' # << >> <=> Len(stack) > 1
      BY <2>2, PopsFacts
    <3>2. Len(stack) = 1 => ~WalkFrame
      BY <2>2 DEF Pops, WalkFrame
    <3> QED BY <1>2, <2>2, <3>1, <3>2, PopsFacts DEF WalkFrame
  <2> QED BY <2>1, <2>2 DEF Rests
<1>4. \A i \in Ids : Leaving(i)' = Leaving(i)
  BY <1>3 DEF Leaving, WalkFrame
<1>5. TypeOK'
  BY <1>1, <1>2 DEF TypeOK, Rests
<1>6. BookHoldsLiveOrders'
  BY <1>1, <1>4, ForgetsFacts DEF BookHoldsLiveOrders, Rests
<1>7. StateMatchesFill'
  BY <1>1, ForgetsFacts DEF StateMatchesFill, Rests, Remaining
<1>8. WalkStands'
  <2>1. cursor # NoCursor =>
           IF stack' = << >> THEN cursor \in book ELSE stack'[1].by = "on_bars"
    <3>1. CASE stack' = stack
      BY <3>1 DEF WalkStands, Rests
    <3>2. CASE Pops
      <4>1. cursor # NoCursor => WalkFrame
        BY <3>2 DEF WalkStands, WalkFrame, Rests, Pops
      <4> QED BY <1>3, <4>1 DEF WalkFrame
    <3> QED BY <3>1, <3>2 DEF Rests
  <2>2. \A k \in 1..Len(stack') : stack'[k].by = "on_bars" => k = 1
    BY <1>2 DEF WalkStands
  <2>3. WalkFrame => cursor \in Ids
    BY DEF WalkStands
  <2> QED BY <1>1, <1>3, <2>1, <2>2, <2>3, ForgetsFacts DEF WalkStands, Rests
<1>9. NoneInitial' /\ History'
  BY <1>1, ForgetsFacts DEF NoneInitial, History, Rests
<1> QED BY <1>5, <1>6, <1>7, <1>8, <1>9

\* submit_order, called by a position: a new order is announced to it.
LEMMA SubmitSteps ==
  ASSUME IInv, NEW spec \in OrderSpecs, SubmitOrder(spec, TRUE)
  PROVE  LET new == Len(orders) + 1
         IN  /\ IInv' /\ fault = "none" /\ fault' = "none"
             /\ new \notin Ids /\ Ids' = Ids \cup {new}
             /\ \A id \in Ids : orders'[id] = orders[id]
             /\ orders'[new].spec = spec /\ orders'[new].state = "Submitted"
             /\ orders'[new].filled = 0
             /\ Frame("Submitted", new, "client") \in Frames
             /\ stack' = Append(stack, Frame("Submitted", new, "client"))
<1> USE DEF IInv, Inv
<1> DEFINE id == Len(orders) + 1
           new == SwitchState(NewOrder(spec, TRUE), "Submitted")
<1>1. TRUE \in KeepsOrder
  BY RequestsAssumption
<1>2. Client
  BY <1>1 DEF Client
<1>3. IInv'
  BY <1>2, NextInv, HistoryKept DEF Next
<1>4. NewOrder(spec, TRUE) \in Orders /\ NewOrder(spec, TRUE).spec = spec
      /\ NewOrder(spec, TRUE).filled = 0 /\ NewOrder(spec, TRUE).state = "Initial"
  BY DEF NewOrder, Orders, TypeOK, States
<1>5. new \in Orders /\ new.spec = spec /\ new.state = "Submitted" /\ new.filled = 0
  <2> DEFINE o == NewOrder(spec, TRUE)
  <2>1. o \in Orders /\ o.spec = spec /\ o.filled = 0 /\ o.state = "Initial"
    BY <1>4
  <2> HIDE DEF o
  <2>2. /\ SwitchState(o, "Submitted") \in Orders /\ SwitchState(o, "Submitted").spec = spec
        /\ SwitchState(o, "Submitted").state = "Submitted"
        /\ SwitchState(o, "Submitted").filled = 0
    BY <2>1 DEF SwitchState, ValidStates, Orders, States
  <2> QED BY <2>2 DEF o
<1>6. orders' = Append(orders, new) /\ orders \in Seq(Orders) /\ Len(orders) \in Nat
  BY LenProperties DEF SubmitOrder, TypeOK
<1> HIDE DEF new
<1>7. /\ Len(orders') = id /\ orders'[id] = new
      /\ \A i \in Ids : orders'[i] = orders[i]
  BY <1>5, <1>6, AppendFacts DEF Ids
<1>8. id \notin Ids /\ Ids' = Ids \cup {id}
  BY <1>6, <1>7 DEF Ids
<1>9. stack' = Append(stack, Frame("Submitted", id, "client"))
  BY DEF SubmitOrder, AnnounceToCaller
<1>10. Frame("Submitted", id, "client") \in Frames
  BY <1>6 DEF Frame, Frames, Events
<1>11. fault = "none" /\ fault' = "none"
  BY DEF SubmitOrder, ClientRuns
<1> QED BY <1>3, <1>5, <1>7, <1>8, <1>9, <1>10, <1>11

\* cancel_order, called by a position: the order ends and that is announced.
LEMMA CancelSteps ==
  ASSUME IInv, NEW id, CancelOrder(id), fault' = "none"
  PROVE  /\ IInv' /\ fault = "none"
         /\ id \in Ids /\ IsActive(orders[id]) /\ Ids' = Ids
         /\ \A i \in Ids \ {id} : orders'[i] = orders[i]
         /\ orders'[id].spec = orders[id].spec /\ orders'[id].filled = orders[id].filled
         /\ orders'[id].state = "Canceled"
         /\ Frame("Canceled", id, "client") \in Frames
         /\ stack' = Append(stack, Frame("Canceled", id, "client"))
<1> USE DEF IInv, Inv
<1>1. id \in book /\ IsActive(orders[id]) /\ fault = "none"
  BY DEF CancelOrder, Cancellable, ClientRuns
<1>2. id \in Ids
  BY <1>1 DEF TypeOK
<1>3. Client
  BY <1>1 DEF Client
<1>4. IInv'
  BY <1>3, NextInv, HistoryKept DEF Next
<1>5. orders[id] \in Orders /\ orders \in Seq(Orders)
  BY <1>2, OrderTypes
<1>6. /\ orders' = [orders EXCEPT ![id] = SwitchState(@, "Canceled")]
      /\ stack' = AnnounceToCaller("Canceled", id)
  BY DEF CancelOrder, Die
<1> DEFINE o == [orders[id] EXCEPT !.state = "Canceled"]
<1>7. SwitchState(orders[id], "Canceled") = o /\ o \in Orders /\ o.spec = orders[id].spec
  BY <1>1, <1>5, SwitchToCanceled
<1>8. o.state = "Canceled" /\ o.filled = orders[id].filled
  BY <1>5 DEF Orders
<1> HIDE DEF o
<1>9. Len(orders') = Len(orders) /\ \A i \in Ids : orders'[i] = IF i = id THEN o ELSE orders[i]
  BY <1>2, <1>5, <1>6, <1>7, ReplaceOrder
<1>10. Frame("Canceled", id, "client") \in Frames
  BY <1>2, <1>5, LenProperties DEF Frame, Frames, Events, Ids
<1> QED BY <1>1, <1>2, <1>4, <1>6, <1>7, <1>8, <1>9, <1>10 DEF Ids, AnnounceToCaller

\* The walk of the exchange when the strategy has handled its announcement.
WalkGoesOn ==
    \/ VisitOrder
    \/ ReturnAccepted
    \/ ReturnPartiallyFilled
    \/ ReturnFilled
    \/ ReturnCanceled

\* An execution fills the order, or fills it partially.
LEMMA ExecutedState ==
  ASSUME Inv, Processing, FillOf(cursor).outcome = "fill", NEW hit \in BOOLEAN
  PROVE  AddInfo([orders[cursor] EXCEPT !.stopHit = hit],
                 FillOf(cursor).price, FillOf(cursor).quantity).state \in FillEvents
<1> DEFINE order == orders[cursor]
           fill == FillOf(cursor)
           touched == [order EXCEPT !.stopHit = hit]
<1>1. order \in Orders
  BY OrderTypes DEF Inv, Processing
<1>2. /\ touched \in Orders /\ touched.spec = order.spec /\ touched.state = order.state
      /\ touched.filled = order.filled
  BY <1>1 DEF Orders
<1>3. /\ order.spec.quantity \in Nat /\ order.filled \in Nat
      /\ fill.price \in Nat /\ fill.quantity \in 1..Remaining(order) /\ Remaining(order) \in Nat
  BY <1>1, ProcessingTypes DEF Orders
<1>4. touched.state \in {"Accepted", "PartiallyFilled"}
  BY <1>2 DEF Processing
<1> HIDE DEF order, fill, touched
<1>5. fill.quantity \in Nat \ {0} /\ touched.filled + fill.quantity <= touched.spec.quantity
  BY <1>2, <1>3 DEF Remaining
<1>6. LET t == AddInfo(touched, fill.price, fill.quantity)
      IN  t.state = IF t.filled = t.spec.quantity THEN "Filled" ELSE "PartiallyFilled"
  BY <1>2, <1>3, <1>4, <1>5, AddInfoEffect, Zenon
<1> QED BY <1>6 DEF FillEvents, order, fill, touched

\* process_order begins no announcement, or one of an end or an execution.
LEMMA ProcessStacks ==
  ASSUME Inv, Processing, ProcessOrder(cursor), fault' = "none"
  PROVE  \/ stack' = << >>
         \/ \E event \in FillEvents \cup {"Canceled"} : stack' = AnnounceFromWalk(event, cursor)
<1> DEFINE order == orders[cursor]
           fill == FillOf(cursor)
           touched == [order EXCEPT !.stopHit = StopHit(order, BarOf(cursor))]
<1>1. order \in Orders
  BY OrderTypes DEF Inv, Processing
<1>2. StopHit(order, BarOf(cursor)) \in BOOLEAN
  BY <1>1 DEF StopHit, Orders
<1>3. CASE Expire(cursor)
  BY <1>3 DEF Expire
<1>4. CASE Attempt(cursor)
  <2>1. \/ fill.outcome = "fill" /\ CommitOrderExecution(cursor, touched, fill)
        \/ stack' = << >>
        \/ Die(fill.outcome)
    BY <1>4 DEF Attempt, FillOf, BarOf, LeftFor
  <2>2. fill.outcome # "none"
    BY ProcessingTypes DEF Fills
  <2>3. CASE fill.outcome = "fill" /\ CommitOrderExecution(cursor, touched, fill)
    <3> DEFINE o == AddInfo(touched, fill.price, fill.quantity)
    <3>1. o.state \in FillEvents
      BY <1>2, <2>3, ExecutedState
    <3>2. stack' = AnnounceFromWalk(o.state, cursor)
      BY <2>3 DEF CommitOrderExecution
    <3> QED BY <3>1, <3>2
  <2> QED BY <2>1, <2>2, <2>3 DEF Die
<1> QED BY <1>3, <1>4 DEF ProcessOrder

\* What the walk's stack is before such a step, and after it.
LEMMA WalkStacks ==
  ASSUME Inv, WalkGoesOn, fault' = "none"
  PROVE  /\ fault = "none"
         /\ stack = << >> \/ (Len(stack) = 1 /\ stack[1].by = "on_bars")
         /\ \/ stack' = << >>
            \/ \E event \in FillEvents \cup {"Canceled"} :
                  /\ stack' = AnnounceFromWalk(event, cursor) /\ cursor \in Ids
                  /\ stack = << >> \/ stack[1].event = "Accepted"
            \/ stack' = AnnounceFromWalk("Accepted", cursor) /\ stack = << >> /\ cursor \in Ids
<1>1. CASE VisitOrder
  <2>1. fault = "none" /\ stack = << >> /\ cursor # NoCursor
    BY <1>1 DEF VisitOrder
  <2>2. cursor \in book /\ cursor \in Ids
    BY <2>1 DEF Inv, WalkStands, TypeOK
  <2>3. CASE stack' = AnnounceFromWalk("Accepted", cursor)
    BY <2>1, <2>2, <2>3
  <2>4. CASE /\ orders[cursor].spec.symbol \in DOMAIN values
             /\ orders[cursor].state \in {"Accepted", "PartiallyFilled"}
             /\ ProcessOrder(cursor)
    <3>1. Processing
      BY <2>1, <2>2, <2>4 DEF Processing
    <3> QED BY <2>1, <2>2, <2>4, <3>1, ProcessStacks
  <2>5. ~Die("no_symbol")
    BY DEF Die
  <2> QED BY <1>1, <2>3, <2>4, <2>5 DEF VisitOrder
<1>2. CASE ReturnAccepted
  <2>1. /\ fault = "none" /\ Len(stack) = 1 /\ stack[1].by = "on_bars"
        /\ stack[1].event = "Accepted"
    BY <1>2 DEF ReturnAccepted, WalkResumes
  <2>2. WalkFrame
    <3>1. Len(<< >>) = 0
      OBVIOUS
    <3> QED BY <2>1, <3>1 DEF WalkFrame
  <2>3. CASE IsActive(orders[cursor]) /\ ProcessOrder(cursor)
    <3>1. Processing
      BY <2>1, <2>2, <2>3
         DEF Processing, Inv, WalkStands, IsActive, BookHoldsLiveOrders
    <3> QED BY <2>1, <2>3, <3>1, ProcessStacks DEF Processing
  <2>4. CASE stack' = << >>
    BY <2>1, <2>4
  <2> QED BY <1>2, <2>3, <2>4 DEF ReturnAccepted
<1>3. CASE ReturnPartiallyFilled \/ ReturnFilled \/ ReturnCanceled
  BY <1>3 DEF ReturnPartiallyFilled, ReturnFilled, ReturnCanceled, WalkResumes
<1> QED BY <1>1, <1>2, <1>3 DEF WalkGoesOn

\* A step of the walk announces nothing and leaves what is known of the orders
\* alone, or announces what it has done to the order under the cursor.
LEMMA WalkSteps ==
  ASSUME IInv, WalkGoesOn, fault' = "none"
  PROVE  /\ IInv' /\ fault = "none" /\ Ids' = Ids
         /\ stack = << >> \/ (Len(stack) = 1 /\ stack[1].by = "on_bars")
         /\ \A id \in Ids : orders'[id].spec = orders[id].spec
         /\ \/ /\ stack' = << >>
               /\ \A id \in Ids : /\ orders'[id].state = orders[id].state
                                  /\ orders'[id].filled = orders[id].filled
            \/ /\ cursor \in Ids /\ IsActive(orders[cursor])
               /\ \A id \in Ids \ {cursor} : orders'[id] = orders[id]
               /\ \E event \in Events \ {"Submitted"} :
                     /\ stack' = AnnounceFromWalk(event, cursor)
                     /\ orders'[cursor].state = event
                     /\ IF event \in FillEvents THEN orders'[cursor].filled > orders[cursor].filled
                        ELSE orders'[cursor].filled = orders[cursor].filled
<1> USE DEF IInv, Inv
<1>1. [Next]_vars
  BY DEF Next, Walk, WalkGoesOn
<1>2. IInv' /\ StepOf
  BY <1>1, NextInv, HistoryKept, StepKinds
<1>3. /\ fault = "none" /\ orders \in Seq(Orders) /\ Len(orders) \in Nat
      /\ stack = << >> \/ (Len(stack) = 1 /\ stack[1].by = "on_bars")
  BY WalkStacks, LenProperties DEF TypeOK
<1>4. \A id \in Ids : orders[id] \in Orders
  BY <1>3, ElementOfSeq DEF Ids
<1>5. CASE stack' = << >>
  <2>1. (\E id \in Ids : LooksAt(id)) \/ Idles
    BY <1>2, <1>5 DEF StepOf, Places, Cancels, Accepts, ExecutesAs, Announces
  <2>2. CASE Idles
    BY <1>2, <1>3, <1>5, <2>2 DEF Idles, Ids
  <2>3. ASSUME NEW id \in Ids, LooksAt(id)
        PROVE  /\ Ids' = Ids
               /\ \A i \in Ids : /\ orders'[i].spec = orders[i].spec
                                 /\ orders'[i].state = orders[i].state
                                 /\ orders'[i].filled = orders[i].filled
    <3>1. PICK hit \in BOOLEAN : Becomes(id, [orders[id] EXCEPT !.stopHit = hit])
      BY <2>3 DEF LooksAt
    <3> DEFINE o == [orders[id] EXCEPT !.stopHit = hit]
    <3>2. o.spec = orders[id].spec /\ o.state = orders[id].state /\ o.filled = orders[id].filled
      BY <1>4 DEF Orders
    <3>3. Becomes(id, o)
      BY <3>1
    <3> HIDE DEF o
    <3> QED BY <1>3, <3>2, <3>3 DEF Becomes, Ids
  <2> QED BY <1>2, <1>3, <1>5, <2>1, <2>2, <2>3
<1>6. CASE \E event : stack' = AnnounceFromWalk(event, cursor) /\ stack' # << >>
  <2>1. cursor \in Ids
    BY <1>6, WalkStacks
  <2>2. PICK event \in FillEvents \cup {"Canceled", "Accepted"} :
           /\ stack' = AnnounceFromWalk(event, cursor)
           /\ stack = << >> \/ (stack[1].event = "Accepted" /\ event # "Accepted")
    BY <1>6, WalkStacks DEF FillEvents
  <2>3. Len(stack') = 1 /\ stack'[1].event = event /\ stack'[1].id = cursor
    BY <1>3, <2>1, <2>2, OneFrame DEF Events, FillEvents
  <2>4. ~Idles /\ \A id \in Ids : ~LooksAt(id)
    <3>0. Len(<< >>) = 0
      OBVIOUS
    <3>1. stack' # stack
      <4>1. CASE stack = << >>
        BY <1>6, <4>1
      <4>2. CASE stack # << >>
        BY <2>2, <2>3, <4>2
      <4> QED BY <4>1, <4>2
    <3>2. ~(Len(stack') < Len(stack))
      <4> DEFINE n == Len(stack)
                 m == Len(stack')
      <4>1. n = 0 \/ n = 1
        BY <1>3, <3>0
      <4>2. m = 1
        BY <2>3
      <4> HIDE DEF n, m
      <4>3. ~(m < n)
        BY <4>1, <4>2
      <4> QED BY <4>3 DEF n, m
    <3> QED BY <1>6, <3>1, <3>2 DEF Idles, NothingBegins, LooksAt
  <2>5. \A e, id : Announces(e, id) => e = event /\ id = cursor
    BY <2>3 DEF Announces
  <2>6. \A o \in Orders : ~Places(o)
    BY <2>2, <2>5 DEF Places, FillEvents
  <2>7. \/ Cancels(cursor)
        \/ Accepts(cursor)
        \/ \E o \in Orders : ExecutesAs(cursor, o)
    <3>1. \A id \in Ids : (Cancels(id) \/ Accepts(id)) => id = cursor
      BY <2>5 DEF Cancels, Accepts
    <3>2. \A id \in Ids, o \in Orders : ExecutesAs(id, o) => id = cursor
      BY DEF ExecutesAs
    <3> QED BY <1>2, <2>4, <2>6, <3>1, <3>2 DEF StepOf
  <2>8. \A o : Becomes(cursor, o) =>
           /\ Ids' = Ids /\ orders'[cursor] = o /\ o.spec = orders[cursor].spec
           /\ \A id \in Ids \ {cursor} : orders'[id] = orders[id]
    BY DEF Becomes, Ids
  <2>9. event \in Events \ {"Submitted"}
    BY DEF Events, FillEvents
  <2>10. CASE Cancels(cursor)
    <3> DEFINE o == [orders[cursor] EXCEPT !.state = "Canceled"]
    <3>1. o.state = "Canceled" /\ o.filled = orders[cursor].filled
      BY <1>4, <2>1 DEF Orders
    <3>2. Becomes(cursor, o) /\ IsActive(orders[cursor]) /\ event = "Canceled"
      BY <2>5, <2>10 DEF Cancels
    <3> HIDE DEF o
    <3> QED BY <1>2, <1>3, <2>1, <2>2, <2>8, <2>9, <3>1, <3>2 DEF FillEvents
  <2>11. CASE Accepts(cursor)
    <3> DEFINE o == [orders[cursor] EXCEPT !.state = "Accepted", !.accepted = today]
    <3>1. o.state = "Accepted" /\ o.filled = orders[cursor].filled
      BY <1>4, <2>1 DEF Orders
    <3>2. Becomes(cursor, o) /\ IsActive(orders[cursor]) /\ event = "Accepted"
      BY <2>5, <2>11 DEF Accepts, IsActive
    <3> HIDE DEF o
    <3> QED BY <1>2, <1>3, <2>1, <2>2, <2>8, <2>9, <3>1, <3>2 DEF FillEvents
  <2>12. ASSUME NEW o \in Orders, ExecutesAs(cursor, o)
         PROVE  /\ Ids' = Ids /\ IsActive(orders[cursor]) /\ orders'[cursor] = o
                /\ o.spec = orders[cursor].spec
                /\ \A id \in Ids \ {cursor} : orders'[id] = orders[id]
                /\ o.state = event /\ event \in FillEvents
                /\ o.filled > orders[cursor].filled
    <3>1. /\ Becomes(cursor, o) /\ o.state = event /\ FillOf(cursor).outcome = "fill"
          /\ o.filled = orders[cursor].filled + FillOf(cursor).quantity
          /\ o.state \in FillEvents /\ IsActive(orders[cursor])
      BY <2>5, <2>12 DEF ExecutesAs, FillEvents, IsActive
    <3>2. orders[cursor].filled \in Nat
      BY <1>4, <2>1 DEF Orders
    <3>3. Processing
      <4>1. cursor \in book
        BY <2>1, <3>1, <1>3 DEF BookHoldsLiveOrders
      <4>2. stack = << >> \/ WalkFrame
        BY <1>3 DEF WalkFrame
      <4> QED BY <1>3, <2>1, <2>12, <4>1, <4>2 DEF Processing, ExecutesAs
    <3>4. FillOf(cursor).quantity \in 1..Remaining(orders[cursor])
          /\ Remaining(orders[cursor]) \in Nat
      BY <3>1, <3>3, ProcessingTypes
    <3> QED BY <2>8, <3>1, <3>2, <3>4
  <2> QED BY <1>2, <1>3, <2>1, <2>2, <2>7, <2>9, <2>10, <2>11, <2>12
<1>7. stack' = << >> \/ \E event : stack' = AnnounceFromWalk(event, cursor) /\ stack' # << >>
  BY WalkStacks DEF AnnounceFromWalk
<1> QED BY <1>5, <1>6, <1>7
-----------------------------------------------------------------------------
(***************************************************************************)
(* The stack and its handlers.                                             *)
(***************************************************************************)
\* A call of a position's announces.
Pushes(event, id, caller, p) ==
    /\ stack' = Append(stack, Frame(event, id, "client"))
    /\ handlers' = Append(handlers, Handler(0, caller, p))

\* An announcement has been handled, and its caller goes on.
Returns ==
    /\ stack' = SubSeq(stack, 1, Len(stack) - 1)
    /\ handlers' = SubSeq(handlers, 1, Len(handlers) - 1)

\* What the lemmas below assume of the state, and what they use of it.
Typed == StrategyTypeOK /\ TypeOK /\ fault = "none"

LEMMA PushesFacts ==
  ASSUME Typed, NEW event, NEW id, Frame(event, id, "client") \in Frames,
         NEW caller, NEW p, Pushes(event, id, caller, p)
  PROVE  LET n == Len(handlers) + 1
         IN  /\ n \in Nat /\ n > 0 /\ Len(handlers') = n /\ Len(stack') = n
             /\ Depth' = Depth \cup {n} /\ n \notin Depth /\ \A k \in Depth : k < n
             /\ \A k \in Depth : handlers'[k] = handlers[k] /\ stack'[k] = stack[k]
             /\ handlers'[n] = Handler(0, caller, p)
             /\ stack'[n] = Frame(event, id, "client") /\ stack' # << >>
             /\ (stack # << >> => 1 \in Depth) /\ (stack = << >> => n = 1)
<1> DEFINE h == Handler(0, caller, p)
           S == HandlerRecords \cup {h}
<1>1. /\ Len(handlers) \in Nat /\ Len(stack) = Len(handlers) /\ stack \in Seq(Frames)
      /\ handlers \in Seq(HandlerRecords) /\ (stack = << >> <=> Len(handlers) = 0)
  BY StrategyFacts DEF Typed
<1>2. handlers \in Seq(S)
  BY <1>1, SeqMonotonic
<1>3. h \in S /\ handlers' = Append(handlers, h)
  BY DEF Pushes
<1> HIDE DEF h, S
<1>4. /\ Len(handlers') = Len(handlers) + 1 /\ handlers'[Len(handlers) + 1] = h
      /\ \A k \in 1..Len(handlers) : handlers'[k] = handlers[k]
  BY <1>2, <1>3, AppendFacts
<1>5. /\ Len(stack') = Len(stack) + 1 /\ stack'[Len(stack) + 1] = Frame(event, id, "client")
      /\ \A k \in 1..Len(stack) : stack'[k] = stack[k]
      /\ stack' # << >>
  BY <1>1, AppendFacts DEF Pushes
<1>6. Depth = 1..Len(handlers) /\ Depth' = 1..Len(handlers')
  BY DEF Depth
<1> QED BY <1>1, <1>4, <1>5, <1>6 DEF h

LEMMA ReturnsFacts ==
  ASSUME Typed, stack # << >>, Returns
  PROVE  LET n == Len(handlers)
         IN  /\ n \in Nat /\ n > 0 /\ Len(handlers') = n - 1 /\ Len(stack') = n - 1
             /\ handlers' \in Seq(HandlerRecords)
             /\ n \in Depth /\ n \notin Depth' /\ Depth = Depth' \cup {n}
             /\ \A k \in Depth' : k < n
             /\ \A k \in Depth' : handlers'[k] = handlers[k] /\ stack'[k] = stack[k]
             /\ (stack' # << >> => 1 \in Depth') /\ (stack' = << >> => n = 1)
<1>1. /\ Len(handlers) \in Nat /\ Len(stack) = Len(handlers) /\ stack \in Seq(Frames)
      /\ handlers \in Seq(HandlerRecords) /\ Len(handlers) # 0
  BY StrategyFacts DEF Typed
<1>2. /\ Len(handlers') = Len(handlers) - 1 /\ handlers' \in Seq(HandlerRecords)
      /\ \A k \in 1..Len(handlers) - 1 : handlers'[k] = handlers[k]
  BY <1>1, PopFacts DEF Returns
<1>3. /\ Len(stack') = Len(stack) - 1 /\ stack' \in Seq(Frames)
      /\ \A k \in 1..Len(stack) - 1 : stack'[k] = stack[k]
  BY <1>1, PopFacts DEF Returns
<1>4. Depth = 1..Len(handlers) /\ Depth' = 1..Len(handlers')
  BY DEF Depth
<1>5. stack' = << >> <=> Len(stack') = 0
  BY <1>3, EmptySeq
<1> QED BY <1>1, <1>2, <1>3, <1>4, <1>5

LEMMA GotoFacts ==
  ASSUME Typed, stack # << >>, UNCHANGED stack, NEW step, NEW p, Goto(step, p)
  PROVE  LET n == Len(handlers)
         IN  /\ n \in Nat /\ n > 0 /\ n \in Depth /\ Len(handlers') = n /\ Depth' = Depth
             /\ \A k \in Depth : k <= n /\ (k # n => handlers'[k] = handlers[k])
             /\ handlers'[n].step = step /\ handlers'[n].position = p
             /\ handlers'[n].quantity = handlers[n].quantity
             /\ handlers'[n].caller = handlers[n].caller /\ handlers'[n].for = handlers[n].for
             /\ handlers'[n] = [handlers[n] EXCEPT !.step = step, !.position = p]
             /\ 1 \in Depth
<1> DEFINE n == Len(handlers)
           h == [handlers[n] EXCEPT !.step = step, !.position = p]
           S == HandlerRecords \cup {h}
<1>1. /\ n \in Nat /\ n > 0 /\ handlers \in Seq(HandlerRecords)
      /\ \A k \in Depth : handlers[k] \in HandlerRecords
  BY StrategyFacts DEF Typed
<1>2. n \in Depth /\ \A k \in Depth : k <= n
  BY <1>1 DEF Depth
<1>3. handlers' = [handlers EXCEPT ![n] = h]
  BY DEF Goto
<1>4. handlers \in Seq(S) /\ h \in S
  BY <1>1, SeqMonotonic
<1>5. /\ h.step = step /\ h.position = p /\ h.quantity = handlers[n].quantity
      /\ h.caller = handlers[n].caller /\ h.for = handlers[n].for
  BY <1>1, <1>2 DEF HandlerRecords
<1> HIDE DEF h, S
<1>6. /\ Len(handlers') = Len(handlers)
      /\ \A k \in 1..Len(handlers) : handlers'[k] = IF k = n THEN h ELSE handlers[k]
  BY <1>1, <1>2, <1>3, <1>4, ExceptSeq DEF Depth
<1>7. Depth = 1..Len(handlers) /\ Depth' = 1..Len(handlers')
  BY DEF Depth
<1>8. /\ handlers'[n] = h /\ Len(handlers') = n /\ Depth' = Depth /\ 1 \in Depth
      /\ \A k \in Depth : k <= n /\ (k # n => handlers'[k] = handlers[k])
  BY <1>1, <1>2, <1>6, <1>7
<1>9. /\ handlers'[n].step = step /\ handlers'[n].position = p
      /\ handlers'[n].quantity = handlers[n].quantity
      /\ handlers'[n].caller = handlers[n].caller /\ handlers'[n].for = handlers[n].for
  BY <1>5, <1>8
<1>10. handlers'[n] = [handlers[n] EXCEPT !.step = step, !.position = p]
  BY <1>8 DEF h
<1> QED BY <1>1, <1>2, <1>8, <1>9, <1>10

\* The walk's own announcement and its handler are alone.
LEMMA BeginsFacts ==
  ASSUME NEW event \in Events, NEW id \in Ids, TypeOK, NEW quantity,
         stack' = AnnounceFromWalk(event, id),
         handlers' = << Handler(quantity, "on_bars", NoPosition) >>
  PROVE  /\ Depth' = {1} /\ Len(handlers') = 1 /\ Len(stack') = 1 /\ stack' # << >>
         /\ stack'[1].event = event /\ stack'[1].id = id /\ stack'[1].by = "on_bars"
         /\ handlers'[1] = Handler(quantity, "on_bars", NoPosition)
<1>1. /\ Len(stack') = 1 /\ stack' # << >>
      /\ stack'[1].event = event /\ stack'[1].id = id /\ stack'[1].by = "on_bars"
  BY OneFrame DEF TypeOK
<1> DEFINE h == Handler(quantity, "on_bars", NoPosition)
<1>2. handlers' = << h >>
  OBVIOUS
<1> HIDE DEF h
<1>3. Len(handlers') = 1 /\ handlers'[1] = h
  BY <1>2
<1>4. Depth' = {1}
  BY <1>3 DEF Depth
<1> QED BY <1>1, <1>3, <1>4 DEF h
-----------------------------------------------------------------------------
(***************************************************************************)
(* What the positions see.                                                 *)
(***************************************************************************)
\* A step of which a position learns nothing.
Unseen ==
    /\ Ids \subseteq Ids'
    /\ \A id \in Ids :
          /\ orders'[id].spec = orders[id].spec
          /\ IsActive(orders'[id]) => IsActive(orders[id])
          /\ Known(id)' = Known(id)
          /\ Lives(id)' <=> Lives(id)

\* To begin an announcement tells nobody of it.
LEMMA PushUnseen ==
  ASSUME Typed, NEW id, NEW event, NEW caller, NEW p,
         Frame(event, id, "client") \in Frames, Pushes(event, id, caller, p),
         Ids \subseteq Ids', \A i \in Ids \ {id} : orders'[i] = orders[i],
         \/ event = "Submitted" /\ id \notin Ids
         \/ /\ event = "Canceled" /\ id \in Ids /\ IsActive(orders[id])
            /\ orders'[id].spec = orders[id].spec /\ orders'[id].filled = orders[id].filled
            /\ orders'[id].state = "Canceled"
  PROVE  Unseen
<1> DEFINE n == Len(handlers) + 1
<1>1. /\ n > 0 /\ Depth' = Depth \cup {n} /\ n \notin Depth
      /\ \A k \in Depth : handlers'[k] = handlers[k] /\ stack'[k] = stack[k]
      /\ handlers'[n] = Handler(0, caller, p)
      /\ stack'[n] = Frame(event, id, "client") /\ stack' # << >>
      /\ (stack # << >> => 1 \in Depth) /\ (stack = << >> => n = 1)
  BY PushesFacts
<1>2. handlers'[n].step = "on_order_updated" /\ handlers'[n].quantity = 0
      /\ stack'[n].id = id /\ stack'[n].event = event
  BY <1>1 DEF Handler, Frame
<1> HIDE DEF n
<1>3. ASSUME NEW i \in Ids PROVE Untold(i)' = Untold(i)
  <2>1. CASE stack = << >>
    BY <1>1, <1>2, <2>1 DEF Untold
  <2>2. CASE stack # << >>
    BY <1>1, <2>2 DEF Untold, Pending
  <2> QED BY <2>1, <2>2
<1>4. ASSUME NEW i \in Ids
      PROVE  EndUntold(i)' <=> EndUntold(i) \/ (i = id /\ event = "Canceled")
  BY <1>1, <1>2 DEF EndUntold, Pending, EndEvents
<1>5. \A i \in Ids \ {id} : i \in Ids /\ IsActive(orders'[i]) = IsActive(orders[i])
                            /\ orders'[i].spec = orders[i].spec
  OBVIOUS
<1>6. id \in Ids => ~IsActive(orders'[id]) /\ IsActive(orders[id])
  BY DEF IsActive
<1>7. ASSUME NEW i \in Ids PROVE Known(i)' = Known(i)
  BY <1>3 DEF Known
<1>8. ASSUME NEW i \in Ids PROVE Lives(i)' <=> Lives(i)
  <2>1. CASE i = id
    BY <1>4, <1>6, <2>1 DEF Lives
  <2>2. CASE i # id
    BY <1>4, <1>5, <2>2 DEF Lives
  <2> QED BY <2>1, <2>2
<1> QED BY <1>5, <1>6, <1>7, <1>8 DEF Unseen

\* Nor does it to end one that has been handled.
LEMMA PopUnseen ==
  ASSUME Typed, stack # << >>, Returns, Forgets, ~Pending(Len(handlers))
  PROVE  Unseen
<1> DEFINE n == Len(handlers)
<1>1. /\ Depth = Depth' \cup {n} /\ n \in Depth /\ n \notin Depth' /\ n > 0
      /\ \A k \in Depth' : handlers'[k] = handlers[k] /\ stack'[k] = stack[k]
      /\ (stack' # << >> => 1 \in Depth') /\ (stack' = << >> => n = 1)
  BY ReturnsFacts
<1>2. Ids' = Ids /\ \A id \in Ids : /\ orders'[id].spec = orders[id].spec
                                    /\ orders'[id].filled = orders[id].filled
                                    /\ IsActive(orders'[id]) = IsActive(orders[id])
  BY ForgetsFacts DEF Typed
<1>3. ~Pending(n)
  OBVIOUS
<1> HIDE DEF n
<1>4. ASSUME NEW i \in Ids PROVE Untold(i)' = Untold(i)
  <2>1. CASE stack' = << >>
    BY <1>1, <1>3, <2>1 DEF Untold
  <2>2. CASE stack' # << >>
    BY <1>1, <2>2 DEF Untold, Pending
  <2> QED BY <2>1, <2>2
<1>5. ASSUME NEW i \in Ids PROVE EndUntold(i)' <=> EndUntold(i)
  BY <1>1, <1>3 DEF EndUntold, Pending
<1>6. ASSUME NEW i \in Ids PROVE (Lives(i)' <=> Lives(i)) /\ Known(i)' = Known(i)
  BY <1>2, <1>4, <1>5 DEF Lives, Known
<1> QED BY <1>2, <1>6 DEF Unseen

\* Nor what comes after the position was told, or if it is not told at all.
LEMMA GotoUnseen ==
  ASSUME Typed, Handled, stack # << >>, UNCHANGED stack, NEW step, NEW p, Goto(step, p),
         Forgets, step # "on_order_updated",
         ~Pending(Len(handlers)) \/ TopFrame.event \in {"Submitted", "Accepted"}
  PROVE  Unseen
<1> DEFINE n == Len(handlers)
<1>1. /\ n \in Depth /\ Depth' = Depth /\ 1 \in Depth
      /\ \A k \in Depth : k <= n /\ (k # n => handlers'[k] = handlers[k])
      /\ handlers'[n].step = step /\ handlers'[n].quantity = handlers[n].quantity
  BY GotoFacts
<1>2. Ids' = Ids /\ \A id \in Ids : /\ orders'[id].spec = orders[id].spec
                                    /\ orders'[id].filled = orders[id].filled
                                    /\ IsActive(orders'[id]) = IsActive(orders[id])
  BY ForgetsFacts DEF Typed
<1>3. Pending(n) => stack[n].event \notin EndEvents /\ handlers[n].quantity = 0
  <2>1. stack[n] = TopFrame /\ handlers[n] \in HandlerRecords
    BY <1>1, StrategyFacts DEF TopFrame, Typed
  <2>2. handlers[n].quantity \in Nat
    BY <2>1 DEF HandlerRecords
  <2>3. FrameFits(n)
    BY <1>1 DEF Handled
  <2> QED BY <2>1, <2>2, <2>3 DEF FrameFits, EndEvents, FillEvents
<1> HIDE DEF n
<1>4. ASSUME NEW i \in Ids PROVE Untold(i)' = Untold(i)
  <2>1. CASE n = 1
    BY <1>1, <1>3, <2>1 DEF Untold, Pending
  <2>2. CASE n # 1
    BY <1>1, <2>2 DEF Untold, Pending
  <2> QED BY <2>1, <2>2
<1>5. ASSUME NEW i \in Ids PROVE EndUntold(i)' <=> EndUntold(i)
  BY <1>1, <1>3 DEF EndUntold, Pending
<1>6. ASSUME NEW i \in Ids PROVE (Lives(i)' <=> Lives(i)) /\ Known(i)' = Known(i)
  BY <1>2, <1>4, <1>5 DEF Lives, Known
<1> QED BY <1>2, <1>6 DEF Unseen

\* The strategy's handlers follow the walk.
WalkHandled ==
    handlers' = IF stack' = << >> THEN << >>
                ELSE << Handler(orders'[cursor].filled - orders[cursor].filled,
                                "on_bars", NoPosition) >>

\* Nor what the walk does to the order under the cursor.
LEMMA WalkUnseen ==
  ASSUME IInv, Typed, WalkGoesOn, WalkHandled, fault' = "none",
         stack # << >> => handlers[Len(handlers)].step = "done"
  PROVE  Unseen
<1>1. /\ IInv' /\ Ids' = Ids
      /\ stack = << >> \/ (Len(stack) = 1 /\ stack[1].by = "on_bars")
      /\ \A id \in Ids : orders'[id].spec = orders[id].spec
  BY WalkSteps
<1>2. /\ Len(handlers) = Len(stack) /\ Len(handlers) \in Nat
      /\ (stack = << >> <=> Len(handlers) = 0)
  BY StrategyFacts DEF Typed
<1>3. \A k \in Depth : ~Pending(k) /\ k = 1
  BY <1>1, <1>2 DEF Depth, Pending
<1>4. \A i \in Ids : ~EndUntold(i) /\ Untold(i) = 0
  <2>1. \A i : ~EndUntold(i)
    BY <1>3 DEF EndUntold
  <2>2. stack # << >> => 1 \in Depth
    BY <1>1, <1>2 DEF Depth
  <2>3. \A i : Untold(i) = 0
    BY <1>3, <2>2 DEF Untold
  <2> QED BY <2>1, <2>3
<1>5. \A i \in Ids : orders[i].filled \in Nat /\ orders'[i].filled \in Nat
  <2>1. \A i \in Ids : orders[i] \in Orders
    BY StrategyFacts DEF Typed
  <2>2. \A i \in Ids : orders'[i] \in Orders
    BY <1>1, ElementOfSeq DEF IInv, Inv, TypeOK, Ids
  <2> QED BY <2>1, <2>2 DEF Orders
<1>6. CASE /\ stack' = << >>
           /\ \A id \in Ids : /\ orders'[id].state = orders[id].state
                              /\ orders'[id].filled = orders[id].filled
  <2>1. handlers' = << >>
    BY <1>6 DEF WalkHandled
  <2>2. Depth' = {}
    BY <2>1 DEF Depth
  <2>3. \A i \in Ids : ~EndUntold(i)' /\ Untold(i)' = 0
    BY <1>6, <2>2 DEF EndUntold, Untold
  <2> QED BY <1>1, <1>4, <1>6, <2>3 DEF Unseen, Known, Lives, IsActive
<1>7. CASE /\ cursor \in Ids /\ IsActive(orders[cursor])
           /\ \A id \in Ids \ {cursor} : orders'[id] = orders[id]
           /\ \E event \in Events \ {"Submitted"} :
                 /\ stack' = AnnounceFromWalk(event, cursor)
                 /\ orders'[cursor].state = event
                 /\ IF event \in FillEvents THEN orders'[cursor].filled > orders[cursor].filled
                    ELSE orders'[cursor].filled = orders[cursor].filled
  <2>1. PICK event \in Events \ {"Submitted"} :
                 /\ stack' = AnnounceFromWalk(event, cursor)
                 /\ orders'[cursor].state = event
    BY <1>7
  <2> DEFINE q == orders'[cursor].filled - orders[cursor].filled
  <2>2. stack' # << >>
    BY <2>1 DEF AnnounceFromWalk
  <2>3. handlers' = << Handler(q, "on_bars", NoPosition) >>
    BY <2>2 DEF WalkHandled
  <2>4. /\ Depth' = {1} /\ stack'[1].event = event /\ stack'[1].id = cursor
        /\ handlers'[1] = Handler(q, "on_bars", NoPosition)
    <3> HIDE DEF q
    <3> QED BY <1>7, <2>1, <2>3, BeginsFacts DEF Typed
  <2>5. handlers'[1].step = "on_order_updated" /\ handlers'[1].quantity = q
    <3> HIDE DEF q
    <3> QED BY <2>4 DEF Handler
  <2>6. \A i \in Ids : /\ EndUntold(i)' <=> i = cursor /\ event \in EndEvents
                       /\ Untold(i)' = IF i = cursor THEN q ELSE 0
    <3> HIDE DEF q
    <3> QED BY <2>2, <2>4, <2>5 DEF EndUntold, Untold, Pending
  <2>7. ASSUME NEW i \in Ids, i # cursor
        PROVE  /\ Known(i)' = Known(i) /\ (Lives(i)' <=> Lives(i))
               /\ (IsActive(orders'[i]) => IsActive(orders[i]))
    BY <1>4, <1>7, <2>6, <2>7 DEF Known, Lives
  <2>8. ASSUME NEW i \in Ids, i = cursor PROVE Known(i)' = Known(i)
    BY <1>4, <1>5, <1>7, <2>6, <2>8 DEF Known
  <2>9. ASSUME NEW i \in Ids, i = cursor PROVE Lives(i)' /\ Lives(i) /\ IsActive(orders[i])
    BY <1>7, <2>1, <2>6, <2>9 DEF Lives, IsActive, EndEvents
  <2> QED BY <1>1, <1>7, <2>7, <2>8, <2>9 DEF Unseen
<1> QED BY <1>6, <1>7, WalkSteps
-----------------------------------------------------------------------------
(***************************************************************************)
(* What a step leaves alone.                                               *)
(***************************************************************************)
\* What positions never undo.
Ages ==
    \A p \in Positions :
       /\ p \in Positions' /\ positions'[p].side = positions[p].side
       /\ positions[p].entry # NoOrder => positions'[p].entry = positions[p].entry
       /\ positions[p].state = "Close" => positions'[p].state = "Close"

\* An announcement that goes on as it was.
Stays(k) == k \in Depth' /\ stack'[k] = stack[k] /\ handlers'[k] = handlers[k]

\* It may have come further, but it is the same call.
GoesOn(k) ==
    /\ k \in Depth' /\ stack'[k] = stack[k]
    /\ handlers'[k].caller = handlers[k].caller /\ handlers'[k].for = handlers[k].for

LEMMA OldFrame ==
  ASSUME Handled, Ages, Ids \subseteq Ids', NEW k \in Depth, Stays(k),
         NEW id, id = stack[k].id, IsActive(orders'[id]) => IsActive(orders[id]),
         handlers[k].step = "done" => k = Len(handlers'),
         stack[k].event = "PartiallyFilled" /\ Pending(k) /\ Lives(id) => Lives(id)',
         stack[k].event \notin {"Submitted", "Accepted"} /\ Pending(k) /\ id \in DOMAIN owner =>
            id \in DOMAIN owner'
  PROVE  FrameFits(k)'
<1>1. FrameFits(k)
  BY DEF Handled
<1>2. stack'[k] = stack[k] /\ handlers'[k] = handlers[k]
  BY DEF Stays
<1>3. ASSUME handlers[k].step \in {"on_enter_canceled", "on_exit"}
      PROVE  /\ handlers[k].position \in Positions'
             /\ positions'[handlers[k].position].entry # NoOrder
             /\ positions'[handlers[k].position].state = "Close"
  BY <1>1, <1>3 DEF FrameFits, Ages
<1> QED BY <1>1, <1>2, <1>3 DEF FrameFits, Pending, Making

LEMMA OldPair ==
  ASSUME Handled, Ages, NEW k \in Depth, NEW l \in Depth, k < l, Stays(k), Stays(l),
         \A p \in Positions : \A j \in Depth : positions[p].entry = stack[j].id =>
            positions'[p].entry = positions[p].entry
  PROVE  FramesFit(k, l)'
<1>1. FramesFit(k, l)
  BY DEF Handled
<1>2. /\ stack'[k] = stack[k] /\ handlers'[k] = handlers[k]
      /\ stack'[l] = stack[l] /\ handlers'[l] = handlers[l]
  BY DEF Stays
<1>3. (\E p \in Positions : positions[p].entry = stack[l].id) =>
         \E p \in Positions' : positions'[p].entry = stack[l].id
  BY DEF Ages
<1> QED BY <1>1, <1>2, <1>3 DEF FramesFit, Pending, Making

\* The order and the position that a call is about.
LEMMA OldMaking ==
  ASSUME Handled, NEW k \in Depth, GoesOn(k), NEW id, id = stack[k].id,
         NEW p, p = handlers[k].for,
         Making(k) =>
            /\ orders'[id].state = orders[id].state /\ orders'[id].spec = orders[id].spec
            /\ id \notin DOMAIN owner' /\ \A r \in Positions' : id \notin positions'[r].made
            /\ p \in Positions' /\ positions'[p].side = positions[p].side
            /\ positions'[p].entry = positions[p].entry
            /\ positions'[p].exit = positions[p].exit
            /\ positions'[p].state = positions[p].state
            /\ positions'[p].shares = positions[p].shares
            /\ handlers[k].caller = "exit" =>
                  \A i \in {positions[p].entry, positions[p].exit} :
                     i # NoOrder /\ ~Lives(i) => ~(Lives(i)')
  PROVE  MakingFits(k)'
<1>1. MakingFits(k)
  BY DEF Handled
<1>2. /\ stack'[k] = stack[k]
      /\ handlers'[k].caller = handlers[k].caller /\ handlers'[k].for = handlers[k].for
  BY DEF GoesOn
<1>3. Making(k)' = Making(k)
  BY <1>2 DEF Making
<1> SUFFICES ASSUME Making(k) PROVE MakingFits(k)'
  BY <1>3 DEF MakingFits
<1>4. \A side : EntersFor(id, side) => EntersFor(id, side)'
  BY DEF EntersFor
<1>5. \A side : ExitsFor(id, side) => ExitsFor(id, side)'
  BY DEF ExitsFor
<1>6. Held(positions'[p]) = Held(positions[p])
  BY DEF Held
<1>0. PICK side, entry, exit :
         side = positions[p].side /\ entry = positions[p].entry /\ exit = positions[p].exit
  OBVIOUS
<1>7. CASE handlers[k].caller = "enter"
  <2>1. positions[p].entry = NoOrder /\ EntersFor(id, side)
    BY <1>0, <1>1, <1>7 DEF MakingFits
  <2>2. EntersFor(id, side)'
    BY <1>4, <2>1
  <2> QED BY <1>0, <1>1, <1>2, <1>7, <2>1, <2>2 DEF MakingFits
<1>8. CASE handlers[k].caller = "exit"
  <2>1. /\ positions[p].entry # NoOrder /\ positions[p].state = "Open"
        /\ ~Lives(positions[p].entry)
        /\ positions[p].exit # NoOrder => ~Lives(positions[p].exit)
        /\ ExitsFor(id, side) /\ orders[id].spec.quantity = Held(positions[p])
    BY <1>0, <1>1, <1>8 DEF MakingFits
  <2>2. ~(Lives(entry)') /\ (exit # NoOrder => ~(Lives(exit)'))
    BY <1>0, <1>8, <2>1
  <2>3. ExitsFor(id, side)'
    BY <1>5, <2>1
  <2> QED BY <1>0, <1>1, <1>2, <1>6, <1>8, <2>1, <2>2, <2>3 DEF MakingFits, Held
<1> QED BY <1>7, <1>8 DEF Making

\* A position that does not notice.
LEMMA OldPosition ==
  ASSUME Standing, NEW p \in Positions, p \in Positions',
         positions[p] \in PositionRecords,
         \A id \in positions[p].made :
            /\ orders'[id].spec = orders[id].spec
            /\ Known(id)' = Known(id) /\ (Lives(id)' <=> Lives(id)),
         positions'[p].side = positions[p].side, positions'[p].entry = positions[p].entry,
         positions'[p].exit = positions[p].exit, positions'[p].made = positions[p].made,
         positions'[p].shares = positions[p].shares, positions'[p].state = positions[p].state,
         positions[p].state # "Close" => positions'[p].alive = positions[p].alive,
         positions[p].entry = NoOrder =>
            /\ positions'[p] = positions[p]
            /\ \E k \in Depth' : handlers'[k].caller = "enter" /\ handlers'[k].for = p
  PROVE  PositionFits(p)'
<1>1. PositionFits(p)
  BY DEF Standing
<1>2. CASE positions[p].entry = NoOrder
  BY <1>1, <1>2 DEF PositionFits, Unregistered
<1>3. CASE positions[p].entry # NoOrder
  <2>1. OrdersFit(p) /\ StateFits(p)
    BY <1>1, <1>3 DEF PositionFits
  <2>2. PICK entry, exit : entry = positions[p].entry /\ exit = positions[p].exit
    OBVIOUS
  <2>3. entry \in positions[p].made /\ (exit # NoOrder => exit \in positions[p].made)
    BY <2>1, <2>2 DEF OrdersFit
  <2>4. /\ (Lives(entry)' <=> Lives(entry)) /\ Known(entry)' = Known(entry)
        /\ orders'[entry].spec = orders[entry].spec
        /\ exit # NoOrder => /\ (Lives(exit)' <=> Lives(exit)) /\ Known(exit)' = Known(exit)
                             /\ orders'[exit].spec = orders[exit].spec
    BY <2>3
  <2>5. positions'[p].entry = entry /\ positions'[p].exit = exit
    BY <2>2
  <2>6. Held(positions'[p]) = Held(positions[p])
    BY DEF Held
  <2>7. OrdersFit(p)'
    BY <2>1, <2>2, <2>3, <2>4, <2>5 DEF OrdersFit, EntersFor, ExitsFor
  <2>8. StateFits(p)'
    BY <2>1, <2>2, <2>3, <2>4, <2>5, <2>6 DEF StateFits
  <2> QED BY <1>3, <2>7, <2>8 DEF PositionFits
<1> QED BY <1>2, <1>3
-----------------------------------------------------------------------------
(***************************************************************************)
(* The user's calls.                                                       *)
(***************************************************************************)
LEMMA RecordsGrow ==
  ASSUME Ids \subseteq Ids', Positions \subseteq Positions'
  PROVE  /\ PositionRecords \subseteq PositionRecords'
         /\ HandlerRecords \subseteq HandlerRecords'
<1>1. SUBSET Ids \subseteq SUBSET Ids'
  OBVIOUS
<1>2. PositionRecords \subseteq PositionRecords'
  BY <1>1 DEF PositionRecords
<1>3. HandlerRecords \subseteq HandlerRecords'
  BY DEF HandlerRecords
<1> QED BY <1>2, <1>3

\* A callback is running, and who exits or cancels an exit does it when all has
\* been told.
LEMMA Undisturbed ==
  ASSUME Typed, Handled, Orderly, NEW call, May(call)
  PROVE  /\ stack # << >> => handlers[Len(handlers)].step # "done"
         /\ call \in {"exit", "cancel_exit"} => \A k \in Depth : ~Pending(k)
<1>1. /\ Len(handlers) \in Nat /\ (stack = << >> <=> Len(handlers) = 0)
  BY StrategyFacts DEF Typed
<1>2. CASE stack = << >>
  <2>1. Depth = {}
    BY <1>1, <1>2 DEF Depth
  <2> QED BY <1>2, <2>1
<1>3. CASE stack # << >>
  <2> DEFINE n == Len(handlers)
             step == handlers[n].step
  <2>1. n \in Depth /\ \A k \in Depth : k # n => k < n
    BY <1>1, <1>3 DEF Depth
  <2>2. << step, call >> \in Calls
    BY <1>3 DEF May, Top
  <2>3. step \in Callbacks
    BY <2>2, UserAssumption
  <2>4. step # "done"
    BY <2>3 DEF Callbacks
  <2>5. ASSUME call \in {"exit", "cancel_exit"}, NEW k \in Depth PROVE ~Pending(k)
    <3>1. step \notin {"on_order_updated", "on_enter_canceled"}
      BY <2>2, <2>5 DEF Orderly
    <3>2. CASE k = n
      BY <3>1, <3>2 DEF Pending
    <3>3. CASE k # n
      <4>1. FramesFit(k, n)
        BY <2>1, <3>3 DEF Handled
      <4> QED BY <2>4, <3>1, <4>1 DEF FramesFit
    <3> QED BY <3>2, <3>3
  <2> QED BY <2>4, <2>5
<1> QED BY <1>2, <1>3

\* The order of a registered position.
LEMMA OrderOfPosition ==
  ASSUME Typed, Standing, NEW p \in Positions, positions[p].entry # NoOrder,
         NEW id, id # NoOrder, id = positions[p].entry \/ id = positions[p].exit
  PROVE  id \in positions[p].made /\ id \in Ids
<1>1. OrdersFit(p)
  BY DEF Standing, PositionFits
<1>2. positions[p] \in PositionRecords
  BY StrategyFacts DEF Typed
<1>3. id \in positions[p].made
  BY <1>1 DEF OrdersFit
<1> QED BY <1>2, <1>3 DEF PositionRecords

\* What a call leaves alone when it is pushed on the others.
LEMMA PushKeepsFrames ==
  ASSUME Typed, Handled, NEW id, NEW event, NEW caller, NEW p,
         Frame(event, id, "client") \in Frames, Pushes(event, id, caller, p),
         stack # << >> => handlers[Len(handlers)].step # "done",
         Unseen, Ages, UNCHANGED owner,
         \A r \in Positions : positions'[r] = positions[r]
  PROVE  /\ \A k \in Depth : Stays(k) /\ FrameFits(k)'
         /\ \A k, l \in Depth : k < l => FramesFit(k, l)'
<1>1. /\ Len(handlers) \in Nat /\ (stack = << >> <=> Len(handlers) = 0)
      /\ \A k \in Depth : k \in Depth' /\ handlers'[k] = handlers[k] /\ stack'[k] = stack[k]
  BY PushesFacts, StrategyFacts DEF Typed
<1>2. \A k \in Depth : Stays(k)
  BY <1>1 DEF Stays
<1>3. ASSUME NEW k \in Depth PROVE FrameFits(k)'
  <2>1. handlers[k].step # "done"
    <3>1. FrameFits(k) /\ stack # << >>
      BY <1>1 DEF Handled, Depth
    <3> QED BY <3>1 DEF FrameFits
  <2>2. PICK i : i = stack[k].id
    OBVIOUS
  <2>3. i \in Ids
    BY <2>2 DEF Handled, FrameFits
  <2>4. Ids \subseteq Ids' /\ (IsActive(orders'[i]) => IsActive(orders[i]))
        /\ (Lives(i) => Lives(i)')
    BY <2>3 DEF Unseen
  <2>5. i \in DOMAIN owner => i \in DOMAIN owner'
    OBVIOUS
  <2> QED BY <1>2, <2>1, <2>2, <2>4, <2>5, OldFrame
<1>4. ASSUME NEW k \in Depth, NEW l \in Depth, k < l PROVE FramesFit(k, l)'
  BY <1>2, <1>4, OldPair
<1> QED BY <1>2, <1>3, <1>4

\* The types after a call that announces something to positions of before.
LEMMA PushTypes ==
  ASSUME StrategyTypeOK, Ids' = Ids, Positions' = Positions, UNCHANGED << positions, owner >>,
         NEW caller \in {"enter", "exit", "cancel"}, NEW p \in Positions \cup {NoPosition},
         Announced(caller, p), fault' \in StrategyFaults,
         fault' = "none" => Len(handlers') = Len(stack')
  PROVE  StrategyTypeOK'
<1>1. PositionRecords' = PositionRecords /\ HandlerRecords' = HandlerRecords
  BY DEF PositionRecords, HandlerRecords
<1> DEFINE h == Handler(0, caller, p)
<1>2. h \in HandlerRecords
  BY DEF Handler, HandlerRecords, Callbacks
<1>3. handlers \in Seq(HandlerRecords) /\ handlers' = Append(handlers, h)
  BY DEF StrategyTypeOK, Announced
<1> HIDE DEF h
<1>4. handlers' \in Seq(HandlerRecords)
  BY <1>2, <1>3, AppendProperties
<1> QED BY <1>1, <1>4 DEF StrategyTypeOK

\* A cancellation by the user.
LEMMA CancelRuns ==
  ASSUME StrategyTypeOK, fault = "none", Running, Orderly,
         NEW call, May(call), NEW p \in Positions, positions[p].entry # NoOrder,
         NEW id, id # NoOrder,
         \/ id = positions[p].entry
         \/ id = positions[p].exit /\ call \in {"exit", "cancel_exit"},
         Cancel(id)
  PROVE  StrategyTypeOK' /\ (fault' = "none" => Running')
<1>1. Typed /\ IInv /\ Handled /\ Standing /\ OwnersFit
  BY DEF Typed, Running, IInv, Inv
<1>2. CancelOrder(id) /\ Announced("cancel", NoPosition) /\ UNCHANGED << positions, owner >>
  BY DEF Cancel
<1>3. id \in positions[p].made /\ id \in Ids
  BY <1>1, OrderOfPosition
<1>4. /\ Len(handlers) \in Nat /\ Len(handlers) = Len(stack) /\ orders \in Seq(Orders)
      /\ \A k \in Depth : stack[k] \in Frames /\ handlers[k] \in HandlerRecords
      /\ \A r \in Positions : positions[r] \in PositionRecords
  BY <1>1, StrategyFacts DEF Typed, Depth
<1>5. ASSUME fault' = "none"
      PROVE  /\ IInv' /\ IsActive(orders[id]) /\ Ids' = Ids
             /\ \A i \in Ids \ {id} : orders'[i] = orders[i]
             /\ orders'[id].spec = orders[id].spec /\ orders'[id].filled = orders[id].filled
             /\ orders'[id].state = "Canceled"
             /\ Frame("Canceled", id, "client") \in Frames
             /\ Pushes("Canceled", id, "cancel", NoPosition)
  BY <1>1, <1>2, <1>5, CancelSteps DEF Pushes, Announced
<1>6. StrategyTypeOK'
  <2>1. Ids' = Ids
    <3>1. orders' = orders \/ orders' = [orders EXCEPT ![id] = SwitchState(@, "Canceled")]
      BY <1>2 DEF CancelOrder
    <3>2. Len(orders') = Len(orders)
      BY <1>4, <3>1, <1>3, ReplaceOrder, SwitchToCanceled, OrderTypes, <1>1
         DEF IInv, Inv, Ids, CancelOrder, Cancellable
    <3> QED BY <3>2 DEF Ids
  <2>2. Positions' = Positions
    BY <1>2 DEF Positions
  <2>3. fault' \in StrategyFaults
    BY <1>2 DEF CancelOrder, Die, StrategyTypeOK, StrategyFaults, Faults
  <2>4. fault' = "none" => Len(handlers') = Len(stack')
    BY <1>1, <1>5, PushesFacts
  <2> QED BY <1>2, <2>1, <2>2, <2>3, <2>4, PushTypes
<1> SUFFICES ASSUME fault' = "none" PROVE Running'
  BY <1>6
<1>0. PICK n : n = Len(handlers) + 1
  OBVIOUS
<1>7. /\ n > 0 /\ n \in Nat /\ Len(handlers') = n
      /\ Depth' = Depth \cup {n} /\ n \notin Depth /\ \A k \in Depth : k < n
      /\ \A k \in Depth : handlers'[k] = handlers[k] /\ stack'[k] = stack[k]
      /\ stack'[n].id = id /\ stack'[n].event = "Canceled" /\ stack'[n].by = "client"
      /\ handlers'[n].caller = "cancel" /\ handlers'[n].quantity = 0
      /\ handlers'[n].step = "on_order_updated"
  <2>1. /\ n > 0 /\ n \in Nat /\ Len(handlers') = n
        /\ Depth' = Depth \cup {n} /\ n \notin Depth /\ \A k \in Depth : k < n
        /\ \A k \in Depth : handlers'[k] = handlers[k] /\ stack'[k] = stack[k]
        /\ handlers'[n] = Handler(0, "cancel", NoPosition)
        /\ stack'[n] = Frame("Canceled", id, "client")
    BY <1>0, <1>1, <1>5, PushesFacts
  <2> QED BY <2>1 DEF Handler, Frame
<1>8. Unseen
  BY <1>1, <1>3, <1>5, PushUnseen
<1>9. Positions' = Positions /\ positions' = positions /\ owner' = owner
  BY <1>2 DEF Positions
<1>10. Ages
  BY <1>9 DEF Ages
<1>11. /\ stack # << >> => handlers[Len(handlers)].step # "done"
       /\ call \in {"exit", "cancel_exit"} => \A k \in Depth : ~Pending(k)
  BY <1>1, Undisturbed
<1>12. /\ \A k \in Depth : Stays(k) /\ FrameFits(k)'
       /\ \A k, l \in Depth : k < l => FramesFit(k, l)'
  BY <1>1, <1>5, <1>8, <1>9, <1>10, <1>11, PushKeepsFrames
<1>13. Lives(id) /\ IsActive(orders[id]) /\ ~IsActive(orders'[id])
  BY <1>5 DEF Lives, IsActive
<1>14. \A k \in Depth : Making(k) => stack[k].id # id
  BY <1>1, <1>3 DEF Handled, MakingFits
<1>15. id \in DOMAIN owner
  BY <1>1, <1>3, <1>13, <1>14 DEF OwnersFit, InTheMaking
<1>16. FrameFits(n)'
  BY <1>3, <1>5, <1>7, <1>9, <1>13, <1>15
     DEF FrameFits, Pending, Making, FillEvents, EndEvents
<1>17. \A k \in Depth' : MakingFits(k)'
  <2>1. MakingFits(n)'
    BY <1>7 DEF MakingFits, Making
  <2>2. ASSUME NEW k \in Depth PROVE MakingFits(k)'
    <3>1. PICK i, r : i = stack[k].id /\ r = handlers[k].for
      OBVIOUS
    <3>2. i \in Ids
      BY <1>1, <3>1 DEF Handled, FrameFits
    <3>3. Making(k) => /\ i # id /\ i \notin DOMAIN owner
                       /\ \A q \in Positions : i \notin positions[q].made
                       /\ r \in Positions
      BY <1>1, <1>14, <3>1 DEF Handled, MakingFits
    <3>4. Making(k) => orders'[i] = orders[i]
      BY <1>5, <3>2, <3>3
    <3>5. Making(k) => \A j \in {positions[r].entry, positions[r].exit} :
                          j # NoOrder /\ ~Lives(j) => ~(Lives(j)')
      <4>1. Making(k) => positions[r] \in PositionRecords
        BY <1>4, <3>3
      <4>2. Making(k) => \A j \in {positions[r].entry, positions[r].exit} \ {NoOrder} : j \in Ids
        BY <4>1 DEF PositionRecords
      <4> QED BY <1>8, <4>2 DEF Unseen
    <3> QED BY <1>1, <1>9, <1>12, <3>1, <3>3, <3>4, <3>5, OldMaking DEF GoesOn, Stays
  <2> QED BY <1>7, <2>1, <2>2
<1>18. Handled'
  <2>1. ASSUME NEW k \in Depth PROVE FramesFit(k, n)'
    <3>1. stack[k].event \in EndEvents => stack[k].id # id
      BY <1>1, <1>13 DEF Handled, FrameFits
    <3>2. ~Making(n)' /\ Making(k)' = Making(k) /\ Pending(k)' = Pending(k)
      BY <1>7 DEF Making, Pending
    <3>3. Pending(k) => positions[p].entry = id
      BY <1>11
    <3> QED BY <1>7, <1>9, <1>14, <3>1, <3>2, <3>3 DEF FramesFit
  <2>2. \A k, l \in Depth' : k < l => FramesFit(k, l)'
    <3>1. \A k \in Depth : ~(n < k)
      BY <1>7, <1>4 DEF Depth
    <3>2. ~(n < n)
      BY <1>7
    <3> QED BY <1>7, <1>12, <2>1, <3>1, <3>2
  <2>3. \A k \in Depth' : FrameFits(k)'
    BY <1>7, <1>12, <1>16
  <2> QED BY <1>17, <2>2, <2>3 DEF Handled
<1>19. Standing'
  <2>1. ASSUME NEW r \in Positions PROVE PositionFits(r)'
    <3>1. positions[r].made \subseteq Ids
      BY <1>4 DEF PositionRecords
    <3>2. \A i \in positions[r].made :
             /\ orders'[i].spec = orders[i].spec
             /\ Known(i)' = Known(i) /\ (Lives(i)' <=> Lives(i))
      BY <1>8, <3>1 DEF Unseen
    <3>3. positions[r].entry = NoOrder =>
             \E k \in Depth' : handlers'[k].caller = "enter" /\ handlers'[k].for = r
      BY <1>1, <1>7 DEF Standing, PositionFits, Unregistered
    <3> QED BY <1>1, <1>4, <1>9, <3>2, <3>3, OldPosition
  <2> QED BY <1>1, <1>9, <2>1 DEF Standing
<1>20. OwnersFit'
  <2>1. ASSUME NEW i \in Ids', Lives(i)' PROVE InTheMaking(i)' \/ i \in DOMAIN owner'
    <3>1. i \in Ids /\ Lives(i)
      BY <1>5, <1>8, <2>1 DEF Unseen
    <3>2. InTheMaking(i) => InTheMaking(i)'
      BY <1>7 DEF InTheMaking, Making
    <3> QED BY <1>1, <1>9, <3>1, <3>2 DEF OwnersFit
  <2>2. ASSUME NEW i \in DOMAIN owner
        PROVE  IsActive(orders'[i]) \/
                  \E k \in Depth' : /\ stack'[k].id = i /\ stack'[k].event \in EndEvents
                                    /\ handlers'[k].step # "done"
    <3>1. CASE i = id
      BY <1>7, <3>1 DEF EndEvents
    <3>2. CASE i # id
      <4>1. i \in Ids
        BY DEF StrategyTypeOK
      <4> QED BY <1>1, <1>5, <1>7, <3>2, <4>1 DEF OwnersFit
    <3> QED BY <3>1, <3>2
  <2> QED BY <1>1, <1>9, <2>1, <2>2 DEF OwnersFit
<1> QED BY <1>5, <1>18, <1>19, <1>20 DEF Running

\* What a position asks of the exchange to sell what it has.
LEMMA ExitSpecFits ==
  ASSUME Typed, Standing, NEW p \in Positions, positions[p].entry # NoOrder,
         positions[p].state = "Open", NEW x \in Exits
  PROVE  LET spec == ExitSpec(positions[p], x)
         IN  /\ spec \in OrderSpecs /\ spec.quantity = Held(positions[p])
             /\ spec.action = IF positions[p].side = "Long" THEN "Sell" ELSE "BuyToCover"
<1> DEFINE position == positions[p]
           entry == orders[position.entry].spec
           n == Held(position)
<1>1. OrdersFit(p) /\ StateFits(p)
  BY DEF Standing, PositionFits
<1>2. PICK e \in Entries : e.side = position.side /\ entry = EntrySpec(e)
  BY <1>1 DEF OrdersFit, EntersFor
<1>3. entry.quantity = e.quantity
  BY <1>2 DEF EntrySpec
<1>4. n \in 1..e.quantity
  BY <1>1, <1>3 DEF StateFits
<1>5. e.quantity \in 1..Word - 1 /\ Word \in Nat
  BY EntriesAssumption, PrecisionAssumption
<1> HIDE DEF n
<1>6. n % Word = n
  BY <1>4, <1>5
<1>7. ExitSpec(position, x) = ExitRequest(e.side, EntrySpec(e), n, x)
  BY <1>2, <1>6 DEF ExitSpec, n
<1>8. ExitRequest(e.side, EntrySpec(e), n, x) \in Requests
  <2> DEFINE R(f) == {EntrySpec(f)} \cup
                     {ExitRequest(f.side, EntrySpec(f), m, y) : m \in 1..f.quantity, y \in Exits}
  <2>1. ExitRequest(e.side, EntrySpec(e), n, x) \in R(e)
    BY <1>4
  <2>2. Requests = UNION {R(f) : f \in Entries}
    BY DEF Requests
  <2> HIDE DEF R
  <2> QED BY <2>1, <2>2
<1>9. /\ ExitRequest(e.side, EntrySpec(e), n, x).quantity = n
      /\ ExitRequest(e.side, EntrySpec(e), n, x).action =
            IF e.side = "Long" THEN "Sell" ELSE "BuyToCover"
  BY DEF ExitRequest
<1> QED BY <1>2, <1>7, <1>8, <1>9, RequestsAssumption DEF n

LEMMA NewPositionFields ==
  ASSUME NEW side
  PROVE  /\ NewPosition(side).entry = NoOrder /\ NewPosition(side).made = {}
         /\ NewPosition(side).side = side /\ NewPosition(side).alive = FALSE
         /\ NewPosition(side).kept = FALSE /\ NewPosition(side).shares = 0
         /\ NewPosition(side) = NewPosition(NewPosition(side).side)
  BY DEF NewPosition

\* A new order for a position: of a new one, or the exit of one of before.
LEMMA SubmitRuns ==
  ASSUME StrategyTypeOK, fault = "none", Running, Orderly, StrategyTypeOK',
         NEW call \in {"enter", "exit"}, May(call),
         NEW spec \in OrderSpecs, SubmitOrder(spec, TRUE),
         NEW p \in Positions', Announced(call, p), UNCHANGED owner,
         \A r \in Positions : r \in Positions' /\ positions'[r] = positions[r],
         \A r \in Positions' \ Positions :
            r = p /\ call = "enter" /\ \E side : positions'[r] = NewPosition(side),
         call = "enter" =>
            /\ p \notin Positions
            /\ \E e \in Entries : e.side = positions'[p].side /\ spec = EntrySpec(e),
         call = "exit" =>
            /\ p \in Positions /\ positions[p].entry # NoOrder /\ positions[p].state = "Open"
            /\ ~Works(positions[p].entry) /\ ~Works(positions[p].exit)
            /\ spec.action = IF positions[p].side = "Long" THEN "Sell" ELSE "BuyToCover"
            /\ spec.quantity = Held(positions[p])
  PROVE  Running'
<1>1. Typed /\ IInv /\ Handled /\ Standing /\ OwnersFit
  BY DEF Typed, Running, IInv, Inv
<1>0. \A r \in Positions' \ Positions :
         /\ positions'[r].entry = NoOrder /\ positions'[r].made = {}
         /\ positions'[r] = NewPosition(positions'[r].side)
  <2>1. ASSUME NEW r \in Positions' \ Positions, NEW side, positions'[r] = NewPosition(side)
        PROVE  /\ positions'[r].entry = NoOrder /\ positions'[r].made = {}
               /\ positions'[r] = NewPosition(positions'[r].side)
    <3>1. /\ NewPosition(side).entry = NoOrder /\ NewPosition(side).made = {}
          /\ NewPosition(side) = NewPosition(NewPosition(side).side)
      BY NewPositionFields
    <3> QED BY <2>1, <3>1
  <2> QED BY <2>1
<1>2. PICK id, n : id = Len(orders) + 1 /\ n = Len(handlers) + 1
  OBVIOUS
<1>3. /\ IInv' /\ id \notin Ids /\ Ids' = Ids \cup {id}
      /\ \A i \in Ids : orders'[i] = orders[i]
      /\ orders'[id].spec = spec /\ orders'[id].state = "Submitted" /\ orders'[id].filled = 0
      /\ Frame("Submitted", id, "client") \in Frames
      /\ Pushes("Submitted", id, call, p)
  BY <1>1, <1>2, SubmitSteps DEF Pushes, Announced
<1>4. /\ Len(handlers) \in Nat /\ Len(handlers) = Len(stack)
      /\ \A r \in Positions : positions[r] \in PositionRecords
  BY <1>1, StrategyFacts DEF Typed
<1>5. /\ n > 0 /\ n \in Nat /\ Len(handlers') = n
      /\ Depth' = Depth \cup {n} /\ n \notin Depth /\ \A k \in Depth : k < n
      /\ \A k \in Depth : handlers'[k] = handlers[k] /\ stack'[k] = stack[k]
      /\ stack'[n].id = id /\ stack'[n].event = "Submitted" /\ stack'[n].by = "client"
      /\ handlers'[n].caller = call /\ handlers'[n].quantity = 0
      /\ handlers'[n].step = "on_order_updated" /\ handlers'[n].for = p
  <2>1. /\ n > 0 /\ n \in Nat /\ Len(handlers') = n
        /\ Depth' = Depth \cup {n} /\ n \notin Depth /\ \A k \in Depth : k < n
        /\ \A k \in Depth : handlers'[k] = handlers[k] /\ stack'[k] = stack[k]
        /\ handlers'[n] = Handler(0, call, p)
        /\ stack'[n] = Frame("Submitted", id, "client")
    BY <1>1, <1>2, <1>3, PushesFacts
  <2> QED BY <2>1 DEF Handler, Frame
<1>6. Unseen
  BY <1>1, <1>3, PushUnseen
<1>7. Ages
  BY DEF Ages
<1>8. /\ stack # << >> => handlers[Len(handlers)].step # "done"
      /\ call = "exit" => \A k \in Depth : ~Pending(k)
  BY <1>1, Undisturbed
<1>9. /\ \A k \in Depth : Stays(k) /\ FrameFits(k)'
      /\ \A k, l \in Depth : k < l => FramesFit(k, l)'
  BY <1>1, <1>3, <1>6, <1>7, <1>8, PushKeepsFrames
<1>10. \A k \in Depth : stack[k].id \in Ids
  BY <1>1 DEF Handled, FrameFits
<1>11. \A k \in Depth : call = "exit" => ~Making(k)
  <2>1. ASSUME NEW k \in Depth, call = "exit", Making(k) PROVE FALSE
    <3>1. stack # << >>
      BY <1>4, StrategyFacts, <1>1 DEF Depth, Typed
    <3>2. handlers[k].step = "done" /\ k = Len(handlers)
      BY <1>1, <1>8, <2>1 DEF Handled, FrameFits, Pending
    <3> QED BY <1>8, <3>1, <3>2
  <2> QED BY <2>1
<1>12. \A k \in Depth : Making(k) => handlers[k].for \in Positions
  BY <1>1 DEF Handled, MakingFits
<1>13. id \notin DOMAIN owner /\ \A r \in Positions' : id \notin positions'[r].made
  <2>1. \A r \in Positions : positions[r].made \subseteq Ids
    BY <1>4 DEF PositionRecords
  <2>2. \A r \in Positions' \ Positions : positions'[r].made = {}
    BY <1>0
  <2> QED BY <1>3, <2>1, <2>2 DEF StrategyTypeOK
<1>14. FrameFits(n)'
  BY <1>3, <1>5 DEF FrameFits, Pending, Making, FillEvents, EndEvents
<1>15. MakingFits(n)'
  <2>1. CASE call = "enter"
    <3>1. positions'[p].entry = NoOrder
      BY <2>1, <1>0
    <3>2. EntersFor(id, positions[p].side)'
      BY <1>3, <2>1 DEF EntersFor
    <3> QED BY <1>3, <1>5, <1>13, <2>1, <3>1, <3>2 DEF MakingFits
  <2>2. CASE call = "exit"
    <3>1. PICK entry, exit : entry = positions[p].entry /\ exit = positions[p].exit
      OBVIOUS
    <3>2. entry \in Ids /\ exit \in Ids \cup {NoOrder} /\ positions'[p] = positions[p]
      BY <1>4, <2>2, <3>1 DEF PositionRecords
    <3>3. \A i \in Ids : EndUntold(i) => FALSE
      BY <1>8, <2>2 DEF EndUntold
    <3>4. ~Lives(entry) /\ (exit # NoOrder => ~Lives(exit))
      BY <2>2, <3>1, <3>2, <3>3 DEF Lives, Works
    <3>5. ~(Lives(entry)') /\ (exit # NoOrder => ~(Lives(exit)'))
      BY <1>6, <3>2, <3>4 DEF Unseen
    <3>6. ExitsFor(id, positions[p].side)'
      BY <1>3, <2>2 DEF ExitsFor
    <3> QED BY <1>3, <1>5, <1>13, <2>2, <3>1, <3>2, <3>5, <3>6 DEF MakingFits
  <2> QED BY <2>1, <2>2
<1>16. ASSUME NEW k \in Depth PROVE MakingFits(k)'
  <2>1. PICK i, r : i = stack[k].id /\ r = handlers[k].for
    OBVIOUS
  <2>2. i \in Ids
    BY <1>10, <2>1
  <2>3. Making(k) => /\ i \notin DOMAIN owner /\ r \in Positions
                     /\ \A q \in Positions : i \notin positions[q].made
    BY <1>1, <2>1 DEF Handled, MakingFits
  <2>4. Making(k) => \A q \in Positions' : i \notin positions'[q].made
    BY <2>3, <1>0
  <2>5. Making(k) => \A j \in {positions[r].entry, positions[r].exit} :
                        j # NoOrder /\ ~Lives(j) => ~(Lives(j)')
    <3>1. Making(k) => positions[r] \in PositionRecords
      BY <1>4, <2>3
    <3>2. Making(k) => \A j \in {positions[r].entry, positions[r].exit} \ {NoOrder} : j \in Ids
      BY <3>1 DEF PositionRecords
    <3> QED BY <1>6, <3>2 DEF Unseen
  <2> QED BY <1>1, <1>3, <1>9, <2>1, <2>2, <2>3, <2>4, <2>5, OldMaking DEF GoesOn, Stays
<1>17. Handled'
  <2>1. ASSUME NEW k \in Depth PROVE FramesFit(k, n)'
    <3>1. stack'[k].id # id
      BY <1>3, <1>5, <1>10
    <3>2. Making(n)' /\ Making(k)' = Making(k) /\ Pending(k)' = Pending(k)
      BY <1>5 DEF Making, Pending
    <3>3. Making(k) => handlers[k].for # p
      BY <1>11, <1>12
    <3>4. Pending(k) => call = "enter"
      BY <1>8
    <3> QED BY <1>5, <3>1, <3>2, <3>3, <3>4 DEF FramesFit
  <2>2. \A k, l \in Depth' : k < l => FramesFit(k, l)'
    <3>1. \A k \in Depth : ~(n < k)
      BY <1>4, <1>5 DEF Depth
    <3>2. ~(n < n)
      BY <1>5
    <3> QED BY <1>5, <1>9, <2>1, <3>1, <3>2
  <2>3. \A k \in Depth' : FrameFits(k)' /\ MakingFits(k)'
    BY <1>5, <1>9, <1>14, <1>15, <1>16
  <2> QED BY <2>2, <2>3 DEF Handled
<1>18. Standing'
  <2>1. ASSUME NEW r \in Positions PROVE PositionFits(r)'
    <3>1. positions[r].made \subseteq Ids
      BY <1>4 DEF PositionRecords
    <3>2. \A i \in positions[r].made :
             /\ orders'[i].spec = orders[i].spec
             /\ Known(i)' = Known(i) /\ (Lives(i)' <=> Lives(i))
      BY <1>6, <3>1 DEF Unseen
    <3>3. positions[r].entry = NoOrder =>
             \E k \in Depth' : handlers'[k].caller = "enter" /\ handlers'[k].for = r
      BY <1>1, <1>5 DEF Standing, PositionFits, Unregistered
    <3> QED BY <1>1, <1>4, <3>2, <3>3, OldPosition
  <2>2. ASSUME NEW r \in Positions' \ Positions PROVE PositionFits(r)'
    <3>1. positions'[r].entry = NoOrder
      BY <1>0
    <3>2. n \in Depth' /\ handlers'[n].caller = "enter" /\ handlers'[n].for = r
      BY <1>5
    <3> QED BY <1>0, <3>1, <3>2 DEF PositionFits, Unregistered
  <2>3. \A q, r \in Positions' : q # r => positions'[q].made \cap positions'[r].made = {}
    <3>1. \A r \in Positions' \ Positions : positions'[r].made = {}
      BY <1>0
    <3> QED BY <1>1, <3>1 DEF Standing
  <2> QED BY <2>1, <2>2, <2>3 DEF Standing
<1>19. OwnersFit'
  <2>1. ASSUME NEW i \in Ids', Lives(i)' PROVE InTheMaking(i)' \/ i \in DOMAIN owner'
    <3>1. CASE i = id
      BY <1>5, <3>1 DEF InTheMaking, Making
    <3>2. CASE i # id
      <4>1. i \in Ids /\ Lives(i)
        BY <1>3, <1>6, <2>1, <3>2 DEF Unseen
      <4>2. InTheMaking(i) => InTheMaking(i)'
        BY <1>5 DEF InTheMaking, Making
      <4> QED BY <1>1, <4>1, <4>2 DEF OwnersFit
    <3> QED BY <3>1, <3>2
  <2>2. ASSUME NEW i \in DOMAIN owner
        PROVE  /\ i \in positions'[owner[i]].made
               /\ IsActive(orders'[i]) \/
                  \E k \in Depth' : /\ stack'[k].id = i /\ stack'[k].event \in EndEvents
                                    /\ handlers'[k].step # "done"
    <3>1. i \in Ids /\ owner[i] \in Positions
      BY DEF StrategyTypeOK
    <3> QED BY <1>1, <1>3, <1>5, <3>1 DEF OwnersFit
  <2> QED BY <2>1, <2>2 DEF OwnersFit
<1> QED BY <1>3, <1>17, <1>18, <1>19 DEF Running
-----------------------------------------------------------------------------
(***************************************************************************)
(* A step that changes no position's view of its orders.                   *)
(***************************************************************************)
\* All of a position that its orders have to do with.
AsWas(p) ==
    /\ positions'[p].side = positions[p].side /\ positions'[p].entry = positions[p].entry
    /\ positions'[p].exit = positions[p].exit /\ positions'[p].made = positions[p].made
    /\ positions'[p].shares = positions[p].shares /\ positions'[p].state = positions[p].state
    /\ positions[p].state # "Close" => positions'[p].alive = positions[p].alive
    /\ positions[p].entry = NoOrder => positions'[p] = positions[p]

LEMMA StandingKept ==
  ASSUME Typed, Standing, Unseen, Positions' = Positions, \A p \in Positions : AsWas(p),
         \A k \in Depth : handlers[k].caller = "enter" => GoesOn(k)
  PROVE  Standing' /\ Ages
<1>1. ASSUME NEW p \in Positions PROVE PositionFits(p)'
  <2>1. positions[p] \in PositionRecords
    BY StrategyFacts DEF Typed
  <2>2. positions[p].made \subseteq Ids
    BY <2>1 DEF PositionRecords
  <2>3. \A id \in positions[p].made :
           /\ orders'[id].spec = orders[id].spec
           /\ Known(id)' = Known(id) /\ (Lives(id)' <=> Lives(id))
    BY <2>2 DEF Unseen
  <2>4. positions[p].entry = NoOrder =>
           \E k \in Depth' : handlers'[k].caller = "enter" /\ handlers'[k].for = p
    BY DEF Standing, PositionFits, Unregistered, GoesOn
  <2> QED BY <2>1, <2>3, <2>4, OldPosition DEF AsWas
<1>2. Ages
  BY DEF Ages, AsWas
<1> QED BY <1>1, <1>2 DEF Standing, AsWas

LEMMA MakingKept ==
  ASSUME Typed, Handled, Unseen, Positions' = Positions, \A p \in Positions : AsWas(p),
         NEW k \in Depth, GoesOn(k), DOMAIN owner' \subseteq DOMAIN owner,
         \A i \in Ids : orders'[i].state = orders[i].state
  PROVE  MakingFits(k)'
<1>1. PICK id, p : id = stack[k].id /\ p = handlers[k].for
  OBVIOUS
<1>2. id \in Ids /\ orders'[id].state = orders[id].state /\ orders'[id].spec = orders[id].spec
  BY <1>1 DEF Handled, FrameFits, Unseen
<1>3. Making(k) => /\ id \notin DOMAIN owner' /\ p \in Positions
                   /\ \A r \in Positions : id \notin positions'[r].made
  BY <1>1 DEF Handled, MakingFits, AsWas
<1>4. Making(k) => \A i \in {positions[p].entry, positions[p].exit} :
                      i # NoOrder /\ ~Lives(i) => ~(Lives(i)')
  <2>1. p \in Positions => positions[p] \in PositionRecords
    BY StrategyFacts DEF Typed
  <2>2. Making(k) => \A i \in {positions[p].entry, positions[p].exit} \ {NoOrder} : i \in Ids
    BY <1>3, <2>1 DEF PositionRecords
  <2> QED BY <2>2 DEF Unseen
<1> QED BY <1>1, <1>2, <1>3, <1>4, OldMaking DEF AsWas

LEMMA SameUnseen ==
  ASSUME Typed, Forgets, UNCHANGED << stack, handlers >>
  PROVE  Unseen
<1>1. Ids' = Ids /\ \A id \in Ids : /\ orders'[id].spec = orders[id].spec
                                    /\ orders'[id].filled = orders[id].filled
                                    /\ IsActive(orders'[id]) = IsActive(orders[id])
  BY ForgetsFacts DEF Typed
<1>2. ASSUME NEW i \in Ids
      PROVE  Untold(i)' = Untold(i) /\ (EndUntold(i)' <=> EndUntold(i))
  BY DEF Untold, EndUntold, Pending, Depth
<1>3. ASSUME NEW i \in Ids PROVE (Lives(i)' <=> Lives(i)) /\ Known(i)' = Known(i)
  BY <1>1, <1>2 DEF Lives, Known
<1> QED BY <1>1, <1>3 DEF Unseen

\* The strategy lets go of a position.
LEMMA UnregisterFacts ==
  ASSUME Typed, NEW p \in Positions, positions[p].state = "Close",
         positions[p].entry # NoOrder, Unregister(p)
  PROVE  /\ Forgets /\ positions' \in Seq(PositionRecords) /\ Positions' = Positions
         /\ \A r \in Positions : AsWas(r) /\ (r # p => positions'[r] = positions[r])
         /\ positions'[p].alive = FALSE
<1>1. /\ positions \in Seq(PositionRecords) /\ orders \in Seq(Orders)
      /\ \A r \in Positions : positions[r] \in PositionRecords
  BY StrategyFacts DEF Typed
<1> DEFINE new == [positions[p] EXCEPT !.alive = FALSE]
<1>2. /\ new \in PositionRecords /\ new.side = positions[p].side
      /\ new.entry = positions[p].entry /\ new.exit = positions[p].exit
      /\ new.made = positions[p].made /\ new.shares = positions[p].shares
      /\ new.state = positions[p].state /\ new.alive = FALSE
  BY <1>1 DEF PositionRecords
<1>3. positions' = [positions EXCEPT ![p] = new]
  BY DEF Unregister
<1> HIDE DEF new
<1>4. /\ positions' \in Seq(PositionRecords) /\ Len(positions') = Len(positions)
      /\ \A r \in Positions : positions'[r] = IF r = p THEN new ELSE positions[r]
  BY <1>1, <1>2, <1>3, ExceptSeq DEF Positions
<1>5. Forgets
  BY <1>1, DroppedForgets, SameForgets DEF Unregister
<1>6. \A r \in Positions : AsWas(r)
  BY <1>2, <1>4 DEF AsWas
<1> QED BY <1>2, <1>4, <1>5, <1>6 DEF Positions

\* A step that no handler takes and that no position notices.
LEMMA LetsBe ==
  ASSUME StrategyTypeOK, fault = "none", Running, IInv', Forgets,
         UNCHANGED << stack, handlers, owner >>,
         Positions' = Positions, \A p \in Positions : AsWas(p)
  PROVE  Running'
<1>1. Typed /\ IInv /\ Handled /\ Standing /\ OwnersFit
  BY DEF Typed, Running, IInv, Inv
<1>2. Unseen
  BY <1>1, SameUnseen
<1>3. Depth' = Depth /\ \A k \in Depth : Stays(k) /\ GoesOn(k)
  BY DEF Depth, Stays, GoesOn
<1>4. Standing' /\ Ages
  BY <1>1, <1>2, <1>3, StandingKept
<1>5. Ids' = Ids /\ \A i \in Ids : /\ orders'[i].state = orders[i].state
                                  /\ IsActive(orders'[i]) = IsActive(orders[i])
  BY <1>1, ForgetsFacts DEF Typed
<1>6. ASSUME NEW k \in Depth PROVE FrameFits(k)' /\ MakingFits(k)'
  <2>1. MakingFits(k)'
    BY <1>1, <1>2, <1>3, <1>5, MakingKept
  <2>2. PICK i : i = stack[k].id
    OBVIOUS
  <2>3. i \in Ids /\ (handlers[k].step = "done" => k = Len(handlers'))
    BY <1>1, <2>2 DEF Handled, FrameFits
  <2>4. (IsActive(orders'[i]) => IsActive(orders[i])) /\ (Lives(i) => Lives(i)')
    BY <1>2, <2>3 DEF Unseen
  <2>5. FrameFits(k)'
    BY <1>1, <1>3, <1>4, <1>5, <2>2, <2>3, <2>4, OldFrame
  <2> QED BY <2>1, <2>5
<1>7. ASSUME NEW k \in Depth, NEW l \in Depth, k < l PROVE FramesFit(k, l)'
  BY <1>1, <1>3, <1>4, <1>7, OldPair DEF AsWas
<1>8. Handled'
  BY <1>3, <1>6, <1>7 DEF Handled
<1>9. OwnersFit'
  <2>1. ASSUME NEW i \in Ids', Lives(i)' PROVE InTheMaking(i)' \/ i \in DOMAIN owner'
    <3>1. i \in Ids /\ Lives(i)
      BY <1>2, <1>5, <2>1 DEF Unseen
    <3>2. InTheMaking(i)' <=> InTheMaking(i)
      BY DEF InTheMaking, Making, Depth
    <3> QED BY <1>1, <3>1, <3>2 DEF OwnersFit
  <2>2. ASSUME NEW i \in DOMAIN owner
        PROVE  /\ i \in positions'[owner[i]].made
               /\ IsActive(orders'[i]) \/
                  \E k \in Depth' : /\ stack'[k].id = i /\ stack'[k].event \in EndEvents
                                    /\ handlers'[k].step # "done"
    <3>1. i \in Ids /\ owner[i] \in Positions
      BY DEF StrategyTypeOK
    <3> QED BY <1>1, <1>3, <1>5, <3>1 DEF OwnersFit, AsWas
  <2> QED BY <2>1, <2>2 DEF OwnersFit
<1> QED BY <1>4, <1>8, <1>9 DEF Running

\* The exchange shows new bars.
LEMMA BarsRuns ==
  ASSUME StrategyTypeOK, fault = "none", Running, Bars
  PROVE  StrategyTypeOK' /\ Running'
<1>1. PICK bars \in ValueMaps, gap \in Gaps : OnBars(bars, today + gap)
  BY DEF Bars
<1>2. Next
  BY <1>1 DEF Next
<1>3. IInv'
  BY <1>2, NextInv, HistoryKept DEF Running, IInv
<1>4. UNCHANGED << orders, stack, fault, positions, owner, handlers >>
  BY <1>1 DEF OnBars, Bars
<1>5. Forgets
  BY <1>4, SameForgets DEF Running, IInv, Inv, TypeOK
<1>6. Positions' = Positions /\ \A p \in Positions : AsWas(p)
  BY <1>4 DEF Positions, AsWas
<1>7. StrategyTypeOK'
  BY <1>4 DEF StrategyTypeOK, PositionRecords, HandlerRecords, Ids, Positions
<1> QED BY <1>3, <1>4, <1>5, <1>6, <1>7, LetsBe

\* exit, of a closed position.
LEMMA CloseRuns ==
  ASSUME StrategyTypeOK, fault = "none", Running,
         NEW p \in Positions, positions[p].entry # NoOrder, positions[p].state = "Close",
         IF positions[p].alive
         THEN Unregister(p) /\ fault' = fault
         ELSE Die("unregistered_twice") /\ UNCHANGED << positions, orders >>,
         UNCHANGED << book, cash, shares, allowNegative, volumeLeft, values,
                      barNo, today, cursor, stack, owner, handlers >>
  PROVE  StrategyTypeOK' /\ (fault' = "none" => Running')
<1>1. Typed /\ IInv
  BY DEF Typed, Running, IInv, Inv
<1>2. CASE positions[p].alive
  <2>1. Unregister(p) /\ fault' = fault
    BY <1>2
  <2>2. /\ Forgets /\ positions' \in Seq(PositionRecords) /\ Positions' = Positions
        /\ \A r \in Positions : AsWas(r)
    BY <1>1, <2>1, UnregisterFacts
  <2>3. Rests
    BY <2>1, <2>2 DEF Rests
  <2>4. IInv'
    BY <1>1, <2>3, RestsInv
  <2>5. Ids' = Ids
    BY <1>1, <2>2, ForgetsFacts DEF Typed
  <2>6. StrategyTypeOK'
    BY <2>1, <2>2, <2>5 DEF StrategyTypeOK, PositionRecords, HandlerRecords
  <2> QED BY <2>2, <2>4, <2>6, LetsBe
<1>3. CASE ~positions[p].alive
  <2>1. fault' = "unregistered_twice" /\ UNCHANGED << positions, orders >>
    BY <1>3 DEF Die
  <2>2. StrategyTypeOK'
    BY <2>1 DEF StrategyTypeOK, PositionRecords, HandlerRecords, Ids, Positions, StrategyFaults
  <2> QED BY <2>1, <2>2
<1> QED BY <1>2, <1>3

\* A position that the user can reach has an entry order.
LEMMA ReachableHasEntry ==
  ASSUME Standing, NEW p \in Reachable
  PROVE  p \in Positions /\ positions[p].entry # NoOrder
<1>1. p \in Positions /\ (positions[p].alive \/ positions[p].kept)
  BY DEF Reachable, Exists
<1>2. CASE positions[p].entry = NoOrder
  <2>1. positions[p] = NewPosition(positions[p].side)
    BY <1>1, <1>2 DEF Standing, PositionFits, Unregistered
  <2>2. ~NewPosition(positions[p].side).alive /\ ~NewPosition(positions[p].side).kept
    BY NewPositionFields
  <2> QED BY <1>1, <2>1, <2>2
<1> QED BY <1>1, <1>2

LEMMA EnterRuns ==
  ASSUME StrategyTypeOK, fault = "none", Running, Orderly, NEW e \in Entries, Enter(e)
  PROVE  StrategyTypeOK' /\ Running'
<1>1. Typed /\ IInv
  BY DEF Typed, Running, IInv, Inv
<1>2. /\ May("enter") /\ SubmitOrder(EntrySpec(e), TRUE)
      /\ positions' = Append(positions, NewPosition(e.side)) /\ UNCHANGED owner
  BY DEF Enter
<1>3. EntrySpec(e) \in OrderSpecs
  <2>1. EntrySpec(e) \in Requests
    BY DEF Requests
  <2> QED BY <2>1, RequestsAssumption
<1>4. PICK p : p = Len(positions) + 1
  OBVIOUS
<1>5. Announced("enter", p)
  BY <1>4 DEF Enter
<1>6. /\ Ids \subseteq Ids' /\ fault' = "none"
      /\ Frame("Submitted", Len(orders) + 1, "client") \in Frames
      /\ stack' = Append(stack, Frame("Submitted", Len(orders) + 1, "client"))
  BY <1>1, <1>2, <1>3, SubmitSteps
<1>7. /\ positions \in Seq(PositionRecords) /\ Len(positions) \in Nat
      /\ handlers \in Seq(HandlerRecords) /\ Len(handlers) = Len(stack)
      /\ Len(handlers) \in Nat
  BY <1>1, StrategyFacts DEF Typed
<1> DEFINE new == NewPosition(e.side)
           S == PositionRecords \cup {new}
<1>8. new \in PositionRecords'
  <2>1. e.side \in Sides
    BY EntriesAssumption
  <2> QED BY <2>1 DEF NewPosition, PositionRecords
<1>9. positions \in Seq(S) /\ new \in S /\ positions' = Append(positions, new)
  BY <1>2, <1>7, SeqMonotonic
<1>10. \E side : new = NewPosition(side)
  OBVIOUS
<1>11. new.side = e.side
  BY NewPositionFields
<1> HIDE DEF new, S
<1>12. /\ Len(positions') = p /\ positions'[p] = new
       /\ \A r \in Positions : positions'[r] = positions[r]
  BY <1>4, <1>9, AppendFacts DEF Positions
<1>13. Positions' = Positions \cup {p} /\ p \notin Positions
  BY <1>4, <1>7, <1>12 DEF Positions
<1>14. PositionRecords \subseteq PositionRecords' /\ HandlerRecords \subseteq HandlerRecords'
  BY <1>6, <1>13, RecordsGrow
<1>15. positions' \in Seq(PositionRecords')
  <2>1. positions \in Seq(PositionRecords')
    BY <1>7, <1>14, SeqMonotonic
  <2> QED BY <1>8, <1>9, <2>1, AppendProperties
<1>16. handlers' \in Seq(HandlerRecords') /\ Len(handlers') = Len(handlers) + 1
  <2>1. handlers \in Seq(HandlerRecords')
    BY <1>7, <1>14, SeqMonotonic
  <2>2. Handler(0, "enter", p) \in HandlerRecords'
    BY <1>13 DEF Handler, HandlerRecords, Callbacks
  <2>3. handlers' = Append(handlers, Handler(0, "enter", p))
    BY <1>5 DEF Announced
  <2> QED BY <2>1, <2>2, <2>3, AppendProperties
<1>17. StrategyTypeOK'
  <2>1. Len(stack') = Len(stack) + 1
    BY <1>1, <1>6, AppendProperties DEF IInv, Inv, TypeOK
  <2> QED BY <1>2, <1>6, <1>7, <1>13, <1>15, <1>16, <2>1 DEF StrategyTypeOK, StrategyFaults
<1> QED BY <1>2, <1>3, <1>5, <1>10, <1>11, <1>12, <1>13, <1>17, SubmitRuns

LEMMA ExitRuns ==
  ASSUME StrategyTypeOK, fault = "none", Running, Orderly,
         NEW p \in Reachable, NEW x \in Exits, Exit(p, x)
  PROVE  StrategyTypeOK' /\ (fault' = "none" => Running')
<1>1. Typed /\ IInv /\ Standing
  BY DEF Typed, Running, IInv, Inv
<1>2. p \in Positions /\ positions[p].entry # NoOrder
  BY <1>1, ReachableHasEntry
<1>3. May("exit")
  BY DEF Exit
<1>4. CASE Works(positions[p].entry) /\ Cancel(positions[p].entry)
  <2>1. PICK id : id = positions[p].entry
    OBVIOUS
  <2> QED BY <1>2, <1>3, <1>4, <2>1, CancelRuns
<1>5. CASE /\ CanExit(p) /\ positions[p].state = "Open" /\ ~Works(positions[p].entry)
           /\ SubmitOrder(ExitSpec(positions[p], x), TRUE)
           /\ Announced("exit", p) /\ UNCHANGED << positions, owner >>
  <2>1. PICK spec : spec = ExitSpec(positions[p], x)
    OBVIOUS
  <2>2. /\ spec \in OrderSpecs /\ spec.quantity = Held(positions[p])
        /\ spec.action = IF positions[p].side = "Long" THEN "Sell" ELSE "BuyToCover"
    BY <1>1, <1>2, <1>5, <2>1, ExitSpecFits
  <2>3. ~Works(positions[p].exit)
    BY <1>5 DEF CanExit
  <2>4. SubmitOrder(spec, TRUE)
    BY <1>5, <2>1
  <2>5. /\ fault' = "none" /\ Ids' = Ids \cup {Len(orders) + 1}
        /\ stack' = Append(stack, Frame("Submitted", Len(orders) + 1, "client"))
        /\ Frame("Submitted", Len(orders) + 1, "client") \in Frames
    BY <1>1, <2>2, <2>4, SubmitSteps
  <2>6. Positions' = Positions
    BY <1>5 DEF Positions
  <2>7. /\ positions \in Seq(PositionRecords) /\ handlers \in Seq(HandlerRecords)
        /\ Len(handlers) = Len(stack) /\ stack \in Seq(Frames)
    BY <1>1, StrategyFacts DEF Typed
  <2>8. PositionRecords \subseteq PositionRecords' /\ HandlerRecords \subseteq HandlerRecords'
    BY <2>5, <2>6, RecordsGrow
  <2>9. positions' \in Seq(PositionRecords')
    BY <1>5, <2>7, <2>8, SeqMonotonic
  <2>10. handlers' \in Seq(HandlerRecords') /\ Len(handlers') = Len(handlers) + 1
    <3>1. handlers \in Seq(HandlerRecords')
      BY <2>7, <2>8, SeqMonotonic
    <3>2. Handler(0, "exit", p) \in HandlerRecords'
      BY <1>2, <2>6 DEF Handler, HandlerRecords, Callbacks
    <3>3. handlers' = Append(handlers, Handler(0, "exit", p))
      BY <1>5 DEF Announced
    <3> QED BY <3>1, <3>2, <3>3, AppendProperties
  <2>11. StrategyTypeOK'
    <3>1. Len(stack') = Len(stack) + 1
      BY <2>5, <2>7, AppendProperties
    <3> QED BY <1>5, <2>5, <2>6, <2>7, <2>9, <2>10, <3>1 DEF StrategyTypeOK, StrategyFaults
  <2> QED BY <1>2, <1>3, <1>5, <2>2, <2>3, <2>4, <2>6, <2>11, SubmitRuns
<1>6. CASE /\ positions[p].state = "Close"
           /\ IF positions[p].alive
              THEN Unregister(p) /\ fault' = fault
              ELSE Die("unregistered_twice") /\ UNCHANGED << positions, orders >>
           /\ UNCHANGED << book, cash, shares, allowNegative, volumeLeft, values,
                           barNo, today, cursor, stack, owner, handlers >>
  BY <1>2, <1>6, CloseRuns
<1> QED BY <1>4, <1>5, <1>6 DEF Exit

LEMMA UserRuns ==
  ASSUME StrategyTypeOK, fault = "none", Running, Orderly, User
  PROVE  StrategyTypeOK' /\ (fault' = "none" => Running')
<1>1. ASSUME NEW e \in Entries, Enter(e) PROVE StrategyTypeOK' /\ Running'
  BY <1>1, EnterRuns
<1>2. ASSUME NEW p \in Reachable, CancelEntry(p)
      PROVE  StrategyTypeOK' /\ (fault' = "none" => Running')
  <2>1. p \in Positions /\ positions[p].entry # NoOrder
    BY ReachableHasEntry DEF Running
  <2>2. PICK id : id = positions[p].entry
    OBVIOUS
  <2>3. May("cancel_entry") /\ Cancel(id)
    BY <1>2, <2>2 DEF CancelEntry
  <2> QED BY <2>1, <2>2, <2>3, CancelRuns
<1>3. ASSUME NEW p \in Reachable, CancelExit(p)
      PROVE  StrategyTypeOK' /\ (fault' = "none" => Running')
  <2>1. p \in Positions /\ positions[p].entry # NoOrder
    BY ReachableHasEntry DEF Running
  <2>2. PICK id : id = positions[p].exit
    OBVIOUS
  <2>3. May("cancel_exit") /\ Cancel(id) /\ id # NoOrder
    BY <1>3, <2>2 DEF CancelExit, Works
  <2> QED BY <2>1, <2>2, <2>3, CancelRuns
<1>4. ASSUME NEW p \in Reachable, NEW x \in Exits, Exit(p, x)
      PROVE  StrategyTypeOK' /\ (fault' = "none" => Running')
  BY <1>4, ExitRuns
<1> QED BY <1>1, <1>2, <1>3, <1>4 DEF User
-----------------------------------------------------------------------------
(***************************************************************************)
(* The walk of the exchange.                                               *)
(***************************************************************************)
LEMMA IdsStay ==
  ASSUME TypeOK, StepOf
  PROVE  Ids \subseteq Ids'
<1>1. Len(orders) \in Nat
  BY LenProperties DEF TypeOK
<1>2. Len(orders') = Len(orders) \/ Len(orders') = Len(orders) + 1
  <2>1. \A o : Places(o) => Len(orders') = Len(orders) + 1
    BY AppendProperties DEF Places, TypeOK
  <2> QED BY <2>1 DEF StepOf, Idles, Cancels, Accepts, LooksAt, ExecutesAs, Becomes
<1> QED BY <1>1, <1>2 DEF Ids

\* A walk that dies executes nothing.
LEMMA WalkDies ==
  ASSUME WalkGoesOn, fault' # "none"
  PROVE  stack' = << >> \/ UNCHANGED << orders, stack >>
<1>1. fault = "none"
  BY DEF WalkGoesOn, VisitOrder, ReturnAccepted, ReturnPartiallyFilled, ReturnFilled,
         ReturnCanceled, WalkResumes
<1>2. ASSUME ProcessOrder(cursor) PROVE stack' = << >> \/ UNCHANGED << orders, stack >>
  BY <1>1, <1>2 DEF ProcessOrder, Expire, Attempt, CommitOrderExecution
<1>3. CASE VisitOrder
  BY <1>1, <1>2, <1>3 DEF VisitOrder
<1>4. CASE ReturnAccepted
  BY <1>2, <1>4 DEF ReturnAccepted
<1>5. CASE ReturnPartiallyFilled \/ ReturnFilled \/ ReturnCanceled
  BY <1>5 DEF ReturnPartiallyFilled, ReturnFilled, ReturnCanceled
<1> QED BY <1>3, <1>4, <1>5 DEF WalkGoesOn

LEMMA WalkOnRuns ==
  ASSUME StrategyTypeOK, fault = "none", Running, WalkOn
  PROVE  StrategyTypeOK' /\ (fault' = "none" => Running')
<1>1. Typed /\ IInv /\ Handled /\ Standing /\ OwnersFit
  BY DEF Typed, Running, IInv, Inv
<1>2. /\ WalkGoesOn /\ WalkHandled /\ UNCHANGED << positions, owner >>
      /\ stack # << >> => handlers[Len(handlers)].step = "done"
  BY DEF WalkOn, WalkGoesOn, WalkHandled, Top
<1>3. Next
  BY <1>2 DEF WalkGoesOn, Next, Walk
<1>4. IInv' /\ StepOf
  BY <1>1, <1>3, NextInv, HistoryKept, StepKinds DEF IInv
<1>5. Ids \subseteq Ids'
  BY <1>4, IdsStay, <1>1 DEF Typed
<1>6. /\ Positions' = Positions /\ \A p \in Positions : AsWas(p)
  BY <1>2 DEF Positions, AsWas
<1>7. /\ \A i \in Ids : orders[i] \in Orders /\ orders[i].filled \in Nat
      /\ \A i \in Ids' : orders'[i].filled \in Nat
  <2>1. \A i \in Ids' : orders'[i] \in Orders
    BY <1>4, ElementOfSeq DEF IInv, Inv, TypeOK, Ids
  <2>2. \A i \in Ids : orders[i] \in Orders
    BY <1>1, StrategyFacts DEF Typed
  <2> QED BY <2>1, <2>2 DEF Orders
<1>8. stack' # << >> =>
         /\ cursor \in Ids /\ orders'[cursor].filled - orders[cursor].filled \in Nat
         /\ Len(stack') = 1
  <2>1. CASE fault' = "none"
    <3>1. ASSUME stack' # << >>
          PROVE  /\ cursor \in Ids /\ orders'[cursor].filled >= orders[cursor].filled
                 /\ Len(stack') = 1
      <4>1. PICK event \in Events \ {"Submitted"} :
               /\ cursor \in Ids /\ stack' = AnnounceFromWalk(event, cursor)
               /\ IF event \in FillEvents THEN orders'[cursor].filled > orders[cursor].filled
                  ELSE orders'[cursor].filled = orders[cursor].filled
        BY <1>1, <1>2, <2>1, <3>1, WalkSteps
      <4>2. Len(stack') = 1
        BY <1>1, <4>1, OneFrame DEF Typed, TypeOK
      <4>3. orders'[cursor].filled \in Nat /\ orders[cursor].filled \in Nat
        BY <1>5, <1>7, <4>1
      <4> QED BY <4>1, <4>2, <4>3
    <3>2. cursor \in Ids => orders'[cursor].filled \in Nat /\ orders[cursor].filled \in Nat
      BY <1>5, <1>7
    <3> QED BY <3>1, <3>2
  <2>2. CASE fault' # "none" /\ stack' # << >>
    <3>1. UNCHANGED << orders, stack >>
      BY <1>2, <2>2, WalkDies
    <3>2. Len(stack) = 1 /\ cursor \in Ids
      <4>1. stack # << >> /\ ~VisitOrder
        BY <2>2, <3>1 DEF VisitOrder
      <4>2. Len(stack) = 1 /\ stack[1].by = "on_bars"
        BY <1>2, <4>1
           DEF WalkGoesOn, ReturnAccepted, ReturnPartiallyFilled, ReturnFilled,
               ReturnCanceled, WalkResumes
      <4> QED BY <1>1, <4>1, <4>2 DEF IInv, Inv, WalkStands, WalkFrame
    <3>3. orders[cursor].filled \in Nat
      BY <1>7, <3>2
    <3> QED BY <3>1, <3>2, <3>3
  <2> QED BY <2>1, <2>2
<1>9. StrategyTypeOK'
  <2>1. PositionRecords \subseteq PositionRecords'
    BY <1>5, <1>6, RecordsGrow
  <2>2. positions' \in Seq(PositionRecords')
    <3>1. positions \in Seq(PositionRecords)
      BY <1>1, StrategyFacts DEF Typed
    <3> QED BY <1>2, <2>1, <3>1, SeqMonotonic
  <2>3. /\ handlers' \in Seq(HandlerRecords')
        /\ Len(handlers') = IF stack' = << >> THEN 0 ELSE 1
    <3>1. CASE stack' = << >>
      BY <1>2, <3>1 DEF WalkHandled
    <3>2. CASE stack' # << >>
      <4> DEFINE h == Handler(orders'[cursor].filled - orders[cursor].filled,
                              "on_bars", NoPosition)
      <4>1. h \in HandlerRecords'
        BY <1>8, <3>2 DEF Handler, HandlerRecords, Callbacks
      <4>2. handlers' = << h >>
        BY <1>2, <3>2 DEF WalkHandled
      <4> HIDE DEF h
      <4>3. handlers' \in Seq(HandlerRecords') /\ Len(handlers') = 1
        BY <4>1, <4>2
      <4> QED BY <3>2, <4>3
    <3> QED BY <3>1, <3>2
  <2>4. fault' \in StrategyFaults
    BY <1>4 DEF IInv, Inv, TypeOK, StrategyFaults
  <2>5. Len(handlers') = Len(stack')
    <3>1. stack' = << >> => Len(stack') = 0
      OBVIOUS
    <3> QED BY <1>8, <2>3, <3>1
  <2> QED BY <1>2, <1>5, <1>6, <2>2, <2>3, <2>4, <2>5 DEF StrategyTypeOK
<1> SUFFICES ASSUME fault' = "none" PROVE Running'
  BY <1>9
<1>10. Unseen
  BY <1>1, <1>2, WalkUnseen
<1>11. \A k \in Depth : k = 1 /\ ~Making(k) /\ handlers[k].step = "done"
  <2>1. stack = << >> \/ (Len(stack) = 1 /\ stack[1].by = "on_bars")
    BY <1>1, <1>2, WalkSteps
  <2>2. ASSUME NEW k \in Depth
        PROVE  k = 1 /\ Len(handlers) = 1 /\ stack # << >> /\ stack[1].by = "on_bars"
    <3>1. Len(handlers) = Len(stack) /\ (stack = << >> <=> Len(handlers) = 0)
      BY <1>1, StrategyFacts DEF Typed
    <3>2. k \in 1..Len(handlers)
      BY DEF Depth
    <3> QED BY <2>1, <3>1, <3>2
  <2>3. ASSUME NEW k \in Depth PROVE ~Making(k)
    <3>1. FrameFits(k) /\ stack[k].by # "client"
      BY <1>1, <2>2 DEF Handled
    <3> QED BY <3>1 DEF FrameFits, Making
  <2> QED BY <1>2, <2>2, <2>3
<1>12. Standing'
  BY <1>1, <1>6, <1>10, <1>11, StandingKept DEF Making
<1>13. \A i \in DOMAIN owner : i \in Ids /\ IsActive(orders[i]) /\ owner[i] \in Positions
                              /\ i \in positions[owner[i]].made
  BY <1>1, <1>11 DEF OwnersFit, StrategyTypeOK
<1>14. \A i \in Ids : Lives(i) => i \in DOMAIN owner
  BY <1>1, <1>11 DEF OwnersFit, InTheMaking
<1>15. CASE /\ stack' = << >>
            /\ \A id \in Ids : /\ orders'[id].state = orders[id].state
                               /\ orders'[id].filled = orders[id].filled
  <2>1. Depth' = {}
    BY <1>2, <1>15 DEF WalkHandled, Depth
  <2>2. Handled'
    BY <2>1 DEF Handled
  <2>3. OwnersFit'
    <3>1. Ids' = Ids
      BY <1>1, <1>2, WalkSteps
    <3>2. \A i \in Ids' : Lives(i)' => i \in DOMAIN owner'
      BY <1>2, <1>10, <1>14, <3>1 DEF Unseen
    <3>3. \A i \in DOMAIN owner' : i \in positions'[owner'[i]].made /\ IsActive(orders'[i])
      BY <1>2, <1>13, <1>15 DEF IsActive
    <3> QED BY <3>2, <3>3 DEF OwnersFit
  <2> QED BY <1>4, <1>12, <2>2, <2>3 DEF Running
<1>16. CASE /\ cursor \in Ids /\ IsActive(orders[cursor])
            /\ \A id \in Ids \ {cursor} : orders'[id] = orders[id]
            /\ \E event \in Events \ {"Submitted"} :
                  /\ stack' = AnnounceFromWalk(event, cursor)
                  /\ orders'[cursor].state = event
                  /\ IF event \in FillEvents THEN orders'[cursor].filled > orders[cursor].filled
                     ELSE orders'[cursor].filled = orders[cursor].filled
  <2>1. PICK event \in Events \ {"Submitted"} :
                  /\ stack' = AnnounceFromWalk(event, cursor)
                  /\ orders'[cursor].state = event
                  /\ IF event \in FillEvents THEN orders'[cursor].filled > orders[cursor].filled
                     ELSE orders'[cursor].filled = orders[cursor].filled
    BY <1>16
  <2>2. PICK id, q : id = cursor /\ q = orders'[cursor].filled - orders[cursor].filled
    OBVIOUS
  <2>3. stack' # << >> /\ handlers' = << Handler(q, "on_bars", NoPosition) >>
    BY <1>2, <2>1, <2>2 DEF AnnounceFromWalk, WalkHandled
  <2>4. /\ Depth' = {1} /\ Len(handlers') = 1
        /\ stack'[1].event = event /\ stack'[1].id = id /\ stack'[1].by = "on_bars"
        /\ handlers'[1] = Handler(q, "on_bars", NoPosition)
    BY <1>1, <1>16, <2>1, <2>2, <2>3, BeginsFacts DEF Typed
  <2>5. /\ handlers'[1].step = "on_order_updated" /\ handlers'[1].quantity = q
        /\ handlers'[1].caller = "on_bars"
    BY <2>4 DEF Handler
  <2>6. q > 0 <=> event \in FillEvents
    <3>1. orders[cursor].filled \in Nat /\ orders'[cursor].filled \in Nat
      BY <1>5, <1>7, <1>16
    <3> QED BY <2>1, <2>2, <3>1
  <2>7. id \in Ids' /\ id \in DOMAIN owner'
    BY <1>2, <1>5, <1>14, <1>16, <2>2 DEF Lives
  <2>8. (event \in EndEvents <=> ~IsActive(orders'[id])) /\ (IsActive(orders'[id]) => Lives(id)')
    BY <2>1, <2>2 DEF IsActive, EndEvents, Lives
  <2>9. Handled'
    <3>1. FrameFits(1)'
      BY <2>1, <2>4, <2>5, <2>6, <2>7, <2>8
         DEF FrameFits, Pending, Making, FillEvents, EndEvents
    <3>2. MakingFits(1)'
      BY <2>5 DEF MakingFits, Making
    <3> QED BY <2>4, <3>1, <3>2 DEF Handled
  <2>10. OwnersFit'
    <3>1. Ids' = Ids
      BY <1>1, <1>2, WalkSteps
    <3>2. \A i \in Ids' : Lives(i)' => i \in DOMAIN owner'
      BY <1>2, <1>10, <1>14, <3>1 DEF Unseen
    <3>3. ASSUME NEW i \in DOMAIN owner'
          PROVE  /\ i \in positions'[owner'[i]].made
                 /\ IsActive(orders'[i]) \/
                    \E k \in Depth' : /\ stack'[k].id = i /\ stack'[k].event \in EndEvents
                                      /\ handlers'[k].step # "done"
      <4>1. CASE i = id
        BY <1>2, <1>13, <2>4, <2>5, <2>8, <4>1
      <4>2. CASE i # id
        BY <1>2, <1>13, <1>16, <2>2, <4>2
      <4> QED BY <4>1, <4>2
    <3> QED BY <3>2, <3>3 DEF OwnersFit
  <2> QED BY <1>4, <1>12, <2>9, <2>10 DEF Running
<1> QED BY <1>1, <1>2, <1>15, <1>16, WalkSteps
-----------------------------------------------------------------------------
(***************************************************************************)
(* Handlers.                                                               *)
(***************************************************************************)
LEMMA GotoTypes ==
  ASSUME Typed, stack # << >>, NEW step \in (Callbacks \ {"on_bars"}) \cup {"done"},
         NEW p \in Positions \cup {NoPosition}, Goto(step, p),
         Ids' = Ids, Positions' = Positions
  PROVE  handlers' \in Seq(HandlerRecords') /\ Len(handlers') = Len(handlers)
<1> DEFINE n == Len(handlers)
           h == [handlers[n] EXCEPT !.step = step, !.position = p]
<1>1. n \in Nat /\ n # 0 /\ handlers \in Seq(HandlerRecords)
  BY StrategyFacts DEF Typed
<1>2. n \in Depth /\ handlers[n] \in HandlerRecords
  BY <1>1, StrategyFacts DEF Typed, Depth
<1>3. h \in HandlerRecords
  BY <1>2 DEF HandlerRecords
<1>4. handlers' = [handlers EXCEPT ![n] = h]
  BY DEF Goto
<1> HIDE DEF h
<1>5. handlers' \in Seq(HandlerRecords) /\ Len(handlers') = Len(handlers)
  BY <1>1, <1>2, <1>3, <1>4, ExceptSeq DEF Depth
<1>6. HandlerRecords' = HandlerRecords
  BY DEF HandlerRecords
<1> QED BY <1>5, <1>6

\* An order leaves the map when no announcement in progress needs it there.
Releases(id) ==
    \/ owner' = owner /\ TopFrame.event \notin EndEvents
    \/ /\ owner' = Unlinked(id)
       /\ ~IsActive(orders[id]) =>
             /\ ~Lives(id)
             /\ \A k \in Depth : stack[k].id = id /\ Pending(k) =>
                                    stack[k].event \in {"Submitted", "Accepted"}

\* A handler is done.
LEMMA DoneRuns ==
  ASSUME StrategyTypeOK, fault = "none", Running, stack # << >>,
         UNCHANGED stack, NEW q, Goto("done", q), Rests,
         Positions' = Positions, \A p \in Positions : AsWas(p),
         ~Pending(Len(handlers)) \/ TopFrame.event \in {"Submitted", "Accepted"},
         NEW id, id = TopFrame.id, Releases(id)
  PROVE  Running'
<1>1. Typed /\ IInv /\ Handled /\ Standing /\ OwnersFit
  BY DEF Typed, Running, IInv, Inv
<1>2. PICK n : n = Len(handlers)
  OBVIOUS
<1>3. /\ n \in Depth /\ Len(handlers') = n /\ Depth' = Depth
      /\ \A k \in Depth : k <= n /\ (k # n => handlers'[k] = handlers[k])
      /\ handlers'[n].step = "done" /\ handlers'[n].quantity = handlers[n].quantity
      /\ handlers'[n].caller = handlers[n].caller /\ handlers'[n].for = handlers[n].for
  BY <1>1, <1>2, GotoFacts
<1>4. stack[n] = TopFrame /\ stack' = stack
  BY <1>1, <1>2, StrategyFacts DEF TopFrame, Typed
<1>5. Forgets /\ IInv'
  BY <1>1, RestsInv DEF Rests
<1>6. Unseen
  BY <1>1, <1>5, GotoUnseen
<1>7. /\ \A k \in Depth : GoesOn(k) /\ (k # n => Stays(k))
  BY <1>3, <1>4 DEF GoesOn, Stays
<1>8. Standing' /\ Ages
  BY <1>1, <1>6, <1>7, StandingKept
<1>9. Ids' = Ids /\ \A i \in Ids : /\ orders'[i].state = orders[i].state
                                  /\ IsActive(orders'[i]) = IsActive(orders[i])
  BY <1>1, <1>5, ForgetsFacts DEF Typed
<1>10. /\ DOMAIN owner' \subseteq DOMAIN owner
       /\ \A i \in DOMAIN owner' : owner'[i] = owner[i]
       /\ \A i \in DOMAIN owner \ DOMAIN owner' :
             /\ ~Lives(i) /\ ~IsActive(orders[i])
             /\ \A k \in Depth : stack[k].id = i /\ Pending(k) =>
                                    stack[k].event \in {"Submitted", "Accepted"}
       /\ id \in DOMAIN owner' => IsActive(orders[id]) \/ TopFrame.event \notin EndEvents
  BY DEF Releases, Unlinked
<1>11. ASSUME NEW k \in Depth PROVE MakingFits(k)'
  BY <1>1, <1>6, <1>7, <1>9, <1>10, MakingKept
<1>12. ASSUME NEW k \in Depth PROVE FrameFits(k)'
  <2>1. PICK i : i = stack[k].id
    OBVIOUS
  <2>2. FrameFits(k) /\ i \in Ids
    BY <1>1, <2>1 DEF Handled, FrameFits
  <2>3. (IsActive(orders'[i]) => IsActive(orders[i])) /\ (Lives(i) => Lives(i)')
    BY <1>6, <2>2 DEF Unseen
  <2>4. CASE k # n
    <3>1. handlers[k].step # "done"
      BY <1>2, <2>2, <2>4 DEF FrameFits
    <3>2. stack[k].event \notin {"Submitted", "Accepted"} /\ Pending(k) /\ i \in DOMAIN owner =>
             i \in DOMAIN owner'
      BY <1>10, <2>1
    <3> QED BY <1>1, <1>7, <1>8, <1>9, <2>1, <2>3, <2>4, <3>1, <3>2, OldFrame
  <2>5. CASE k = n
    BY <1>3, <1>4, <1>9, <2>1, <2>2, <2>3, <2>5 DEF FrameFits, Pending, Making
  <2> QED BY <2>4, <2>5
<1>13. ASSUME NEW k \in Depth, NEW l \in Depth, k < l PROVE FramesFit(k, l)'
  <2>1. k # n
    <3>1. l \in Nat /\ k \in Nat /\ n \in Nat /\ l <= n
      BY <1>1, <1>2, <1>3, StrategyFacts DEF Typed, Depth
    <3> QED BY <1>13, <3>1
  <2>2. CASE l # n
    BY <1>1, <1>7, <1>8, <1>13, <2>1, <2>2, OldPair DEF AsWas
  <2>3. CASE l = n
    <3>1. FramesFit(k, n)
      BY <1>1, <1>13, <2>3 DEF Handled
    <3>2. (\E p \in Positions : positions[p].entry = stack[n].id) =>
             \E p \in Positions' : positions'[p].entry = stack[n].id
      BY DEF AsWas
    <3> QED BY <1>3, <1>4, <2>1, <2>3, <3>1, <3>2 DEF FramesFit, Pending, Making
  <2> QED BY <2>2, <2>3
<1>14. Handled'
  BY <1>3, <1>11, <1>12, <1>13 DEF Handled
<1>15. OwnersFit'
  <2>1. ASSUME NEW i \in Ids', Lives(i)' PROVE InTheMaking(i)' \/ i \in DOMAIN owner'
    <3>1. i \in Ids /\ Lives(i)
      BY <1>6, <1>9, <2>1 DEF Unseen
    <3>2. InTheMaking(i) => InTheMaking(i)'
      BY <1>7 DEF InTheMaking, Making, GoesOn
    <3> QED BY <1>1, <1>10, <3>1, <3>2 DEF OwnersFit
  <2>2. ASSUME NEW i \in DOMAIN owner'
        PROVE  /\ i \in positions'[owner'[i]].made
               /\ IsActive(orders'[i]) \/
                  \E k \in Depth' : /\ stack'[k].id = i /\ stack'[k].event \in EndEvents
                                    /\ handlers'[k].step # "done"
    <3>1. i \in DOMAIN owner /\ i \in Ids /\ owner[i] \in Positions /\ owner'[i] = owner[i]
      BY <1>10 DEF StrategyTypeOK
    <3>2. i \in positions'[owner'[i]].made
      BY <1>1, <3>1 DEF OwnersFit, AsWas
    <3>3. IsActive(orders[i]) \/
             \E k \in Depth : /\ stack[k].id = i /\ stack[k].event \in EndEvents
                              /\ handlers[k].step # "done"
      BY <1>1, <3>1 DEF OwnersFit
    <3>4. ASSUME NEW k \in Depth, stack[k].id = i, stack[k].event \in EndEvents, 
                 handlers[k].step # "done", ~IsActive(orders[i])
          PROVE  k # n
      BY <1>4, <1>10, <3>4
    <3> QED BY <1>3, <1>4, <1>9, <3>1, <3>2, <3>3, <3>4
  <2> QED BY <2>1, <2>2 DEF OwnersFit
<1> QED BY <1>5, <1>8, <1>14, <1>15 DEF Running

\* The handler that is running.
LEMMA TopFacts ==
  ASSUME Typed, Handled, stack # << >>
  PROVE  LET n == Len(handlers)
         IN  /\ n \in Depth /\ \A k \in Depth : k = n \/ k < n
             /\ Top = handlers[n] /\ TopFrame = stack[n]
             /\ FrameFits(n) /\ stack[n].id \in Ids
             /\ handlers[n] \in HandlerRecords
             /\ \A k \in Depth : k # n => FramesFit(k, n) /\ FrameFits(k)
<1>1. /\ Len(handlers) \in Nat /\ Len(handlers) = Len(stack) /\ Len(handlers) # 0
      /\ \A k \in Depth : handlers[k] \in HandlerRecords
  BY StrategyFacts DEF Typed
<1>2. Len(handlers) \in Depth /\ \A k \in Depth : k = Len(handlers) \/ k < Len(handlers)
  BY <1>1 DEF Depth
<1> QED BY <1>1, <1>2 DEF Handled, FrameFits, Top, TopFrame

\* When nothing is pending that ends the order, its end is no secret.
LEMMA EndTold ==
  ASSUME Typed, Handled, stack # << >>, ~Pending(Len(handlers)), Top.step # "done"
  PROVE  LET id == TopFrame.id
         IN  ~IsActive(orders[id]) =>
                /\ ~Lives(id)
                /\ \A k \in Depth : stack[k].id = id /\ Pending(k) =>
                                       stack[k].event \in {"Submitted", "Accepted"}
<1> DEFINE n == Len(handlers)
           id == TopFrame.id
<1>1. /\ n \in Depth /\ \A k \in Depth : k = n \/ k < n
      /\ Top = handlers[n] /\ TopFrame = stack[n]
      /\ FrameFits(n) /\ handlers[n] \in HandlerRecords
      /\ \A k \in Depth : k # n => FramesFit(k, n) /\ FrameFits(k)
  BY TopFacts
<1>2. ASSUME NEW k \in Depth, Pending(k)
      PROVE  k # n /\ handlers[n].step = "on_enter_canceled" /\ stack[n].event = "Canceled"
  <2>1. k # n
    BY <1>2
  <2> QED BY <1>1, <1>2, <2>1 DEF FrameFits, FramesFit, Pending
<1>3. \A k \in Depth : Pending(k) /\ stack[k].id = id => stack[k].event \notin EndEvents
  <2>1. ASSUME NEW k \in Depth, Pending(k), stack[k].id = id
        PROVE  stack[k].event \notin EndEvents
    <3>1. FramesFit(k, n) /\ stack[n].event \in EndEvents
      BY <1>1, <1>2, <2>1 DEF EndEvents
    <3> QED BY <1>1, <2>1, <3>1 DEF FramesFit
  <2> QED BY <2>1
<1>4. ~IsActive(orders[id]) => ~Lives(id)
  BY <1>3 DEF Lives, EndUntold
<1>5. ASSUME ~IsActive(orders[id]), NEW k \in Depth, Pending(k), stack[k].id = id
      PROVE  stack[k].event \in {"Submitted", "Accepted"}
  <2>1. FrameFits(k) /\ stack[k].event \notin EndEvents
    BY <1>1, <1>2, <1>3, <1>5
  <2>2. stack[k].event # "PartiallyFilled"
    BY <1>4, <1>5, <2>1 DEF FrameFits
  <2>3. stack[k].event \in Events
    <3>1. stack[k] \in Frames
      BY StrategyFacts DEF Typed, Depth
    <3> QED BY <3>1 DEF Frames
  <2> QED BY <2>1, <2>2, <2>3 DEF Events, EndEvents
<1> QED BY <1>4, <1>5

\* An event of an order that has no position of its own any more.
LEMMA UnmappedEvent ==
  ASSUME Typed, Handled, Standing, OwnersFit, stack # << >>,
         Top.step = "on_order_updated", ~Mapped(TopFrame.id)
  PROVE  TopFrame.event \in {"Submitted", "Accepted"}
<1> DEFINE n == Len(handlers)
           id == TopFrame.id
<1>1. /\ n \in Depth /\ Top = handlers[n] /\ TopFrame = stack[n] /\ FrameFits(n)
      /\ stack[n].id \in Ids
  BY TopFacts
<1>2. Pending(n)
  BY <1>1 DEF Pending
<1>3. SUFFICES ASSUME TopFrame.event \notin {"Submitted", "Accepted"} PROVE FALSE
  OBVIOUS
<1>4. id \in DOMAIN owner
  BY <1>1, <1>2, <1>3 DEF FrameFits
<1>5. TopFrame.event \in EndEvents \/ TopFrame.event = "PartiallyFilled"
  <2>1. stack[n] \in Frames
    BY <1>1, StrategyFacts DEF Typed, Depth
  <2> QED BY <1>1, <1>3, <2>1 DEF Frames, Events, EndEvents
<1>6. Lives(id)
  BY <1>1, <1>2, <1>5 DEF FrameFits, Lives, EndUntold
<1>7. PICK p \in Positions : p = owner[id]
  BY <1>4 DEF StrategyTypeOK, Typed
<1>8. id \in positions[p].made /\ ~positions[p].alive
  BY <1>4, <1>7 DEF OwnersFit, Mapped
<1>9. positions[p].entry # NoOrder
  <2>1. SUFFICES ASSUME positions[p].entry = NoOrder PROVE FALSE
    OBVIOUS
  <2>2. positions[p] = NewPosition(positions[p].side)
    BY <2>1 DEF Standing, PositionFits, Unregistered
  <2>3. NewPosition(positions[p].side).made = {}
    BY NewPositionFields
  <2>4. positions[p].made = {}
    BY <2>2, <2>3
  <2> QED BY <1>8, <2>4
<1>10. StateFits(p) /\ positions[p].state \in {"Idle", "Open", "Close"}
  <2>1. positions[p] \in PositionRecords
    BY StrategyFacts DEF Typed
  <2> QED BY <1>9, <2>1 DEF Standing, PositionFits, PositionRecords
<1> QED BY <1>6, <1>8, <1>10 DEF StateFits

\* An event that no position is told of is one that none needs to know.
LEMMA OverlookRuns ==
  ASSUME StrategyTypeOK, fault = "none", Running, Overlook
  PROVE  StrategyTypeOK' /\ (fault' = "none" => Running')
<1>1. Typed /\ IInv /\ Handled /\ Standing /\ OwnersFit
  BY DEF Typed, Running, IInv, Inv
<1>2. /\ stack # << >> /\ Top.step = "on_order_updated" /\ Goto("done", NoPosition)
      /\ UNCHANGED << orders, book, cash, shares, allowNegative, volumeLeft, values,
                      barNo, today, cursor, stack, positions, owner >>
      /\ fault' \in {fault, "freed"} /\ ~Mapped(TopFrame.id)
  BY DEF Overlook, Handling, Survives
<1>3. Positions' = Positions /\ Ids' = Ids /\ \A p \in Positions : AsWas(p)
  BY <1>2 DEF Positions, Ids, AsWas
<1>4. handlers' \in Seq(HandlerRecords') /\ Len(handlers') = Len(handlers)
  BY <1>1, <1>2, <1>3, GotoTypes
<1>5. StrategyTypeOK'
  BY <1>2, <1>3, <1>4, <1>1, StrategyFacts
     DEF StrategyTypeOK, StrategyFaults, Faults, PositionRecords, Typed
<1> SUFFICES ASSUME fault' = "none" PROVE Running'
  BY <1>5
<1>6. Rests
  BY <1>1, <1>2, SameForgets DEF Rests, IInv, Inv, TypeOK
<1>7. TopFrame.event \in {"Submitted", "Accepted"}
  BY <1>1, <1>2, UnmappedEvent
<1>8. PICK id : id = TopFrame.id
  OBVIOUS
<1>9. Releases(id)
  BY <1>2, <1>7 DEF Releases, EndEvents
<1> QED BY <1>2, <1>3, <1>6, <1>7, <1>8, <1>9, DoneRuns

\* on_enter and on_exit_canceled.
LEMMA CallbackReturnsRuns ==
  ASSUME StrategyTypeOK, fault = "none", Running, CallbackReturns
  PROVE  StrategyTypeOK' /\ (fault' = "none" => Running')
<1>1. Typed /\ IInv /\ Handled
  BY DEF Typed, Running, IInv, Inv
<1>2. /\ stack # << >> /\ Top.step \in {"on_enter", "on_exit_canceled"}
      /\ Goto("done", NoPosition) /\ owner' = Unlinked(TopFrame.id)
      /\ UNCHANGED << orders, book, cash, shares, allowNegative, volumeLeft, values,
                      barNo, today, cursor, stack, positions >>
      /\ fault' \in {fault, "freed"}
  BY DEF CallbackReturns, Handling, Survives
<1>3. Positions' = Positions /\ Ids' = Ids /\ \A p \in Positions : AsWas(p)
  BY <1>2 DEF Positions, Ids, AsWas
<1>4. handlers' \in Seq(HandlerRecords') /\ Len(handlers') = Len(handlers)
  BY <1>1, <1>2, <1>3, GotoTypes
<1>5. StrategyTypeOK'
  <2>1. DOMAIN owner' \subseteq DOMAIN owner /\ \A i \in DOMAIN owner' : owner'[i] = owner[i]
    BY <1>2 DEF Unlinked
  <2> QED BY <1>1, <1>2, <1>3, <1>4, <2>1, StrategyFacts
          DEF StrategyTypeOK, StrategyFaults, Faults, PositionRecords, Typed
<1> SUFFICES ASSUME fault' = "none" PROVE Running'
  BY <1>5
<1>6. Rests
  BY <1>1, <1>2, SameForgets DEF Rests, IInv, Inv, TypeOK
<1>7. PICK id : id = TopFrame.id
  OBVIOUS
<1>8. ~Pending(Len(handlers))
  BY <1>2 DEF Pending, Top
<1>9. Releases(id)
  BY <1>1, <1>2, <1>7, <1>8, EndTold DEF Releases
<1> QED BY <1>2, <1>3, <1>6, <1>7, <1>8, <1>9, DoneRuns

\* on_enter_canceled and on_exit, when the position leaves.
LEMMA ClosingReturnsRuns ==
  ASSUME StrategyTypeOK, fault = "none", Running, ClosingReturns
  PROVE  StrategyTypeOK' /\ (fault' = "none" => Running')
<1>1. Typed /\ IInv /\ Handled
  BY DEF Typed, Running, IInv, Inv
<1>2. PICK p : p = Top.position
  OBVIOUS
<1>3. /\ stack # << >> /\ Top.step \in {"on_enter_canceled", "on_exit"}
      /\ Goto("done", NoPosition)
      /\ UNCHANGED << book, cash, shares, allowNegative, volumeLeft, values,
                      barNo, today, cursor, stack >>
      /\ IF positions[p].alive
         THEN /\ Unregister(p)
              /\ owner' = Unlinked(TopFrame.id)
              /\ fault' \in {fault, "freed"}
         ELSE fault' = "unregistered_twice" /\ UNCHANGED << positions, orders, owner >>
  BY <1>2 DEF ClosingReturns, Handling, Survives, Die
<1>4. p \in Positions /\ positions[p].entry # NoOrder /\ positions[p].state = "Close"
  BY <1>1, <1>2, <1>3, TopFacts DEF FrameFits
<1>5. CASE positions[p].alive
  <2>1. Unregister(p) /\ owner' = Unlinked(TopFrame.id) /\ fault' \in {fault, "freed"}
    BY <1>3, <1>5
  <2>2. /\ Forgets /\ positions' \in Seq(PositionRecords) /\ Positions' = Positions
        /\ \A r \in Positions : AsWas(r)
    BY <1>1, <1>4, <2>1, UnregisterFacts
  <2>3. Ids' = Ids
    BY <1>1, <2>2, ForgetsFacts DEF Typed
  <2>4. handlers' \in Seq(HandlerRecords') /\ Len(handlers') = Len(handlers)
    BY <1>1, <1>3, <2>2, <2>3, GotoTypes
  <2>5. StrategyTypeOK'
    <3>1. DOMAIN owner' \subseteq DOMAIN owner /\ \A i \in DOMAIN owner' : owner'[i] = owner[i]
      BY <2>1 DEF Unlinked
    <3> QED BY <1>1, <1>3, <2>1, <2>2, <2>3, <2>4, <3>1, StrategyFacts
            DEF StrategyTypeOK, StrategyFaults, Faults, PositionRecords, Typed
  <2> SUFFICES ASSUME fault' = "none" PROVE Running'
    BY <2>5
  <2>6. Rests
    BY <1>3, <2>1, <2>2 DEF Rests
  <2>7. PICK id : id = TopFrame.id
    OBVIOUS
  <2>8. ~Pending(Len(handlers))
    BY <1>3 DEF Pending, Top
  <2>9. Releases(id)
    BY <1>1, <1>3, <2>1, <2>7, <2>8, EndTold DEF Releases
  <2> QED BY <1>3, <2>2, <2>6, <2>7, <2>8, <2>9, DoneRuns
<1>6. CASE ~positions[p].alive
  <2>1. fault' = "unregistered_twice" /\ UNCHANGED << positions, orders, owner >>
    BY <1>3, <1>6
  <2>2. Positions' = Positions /\ Ids' = Ids
    BY <2>1 DEF Positions, Ids
  <2>3. handlers' \in Seq(HandlerRecords')
    BY <1>1, <1>3, <2>2, GotoTypes
  <2> QED BY <2>1, <2>2, <2>3 DEF StrategyTypeOK, StrategyFaults, PositionRecords
<1> QED BY <1>5, <1>6
-----------------------------------------------------------------------------
(***************************************************************************)
(* Calls that return.                                                      *)
(***************************************************************************)
LEMMA PopKeepsFrames ==
  ASSUME Typed, Handled, stack # << >>, Returns, Unseen, Ages,
         DOMAIN owner \subseteq DOMAIN owner'
  PROVE  LET n == Len(handlers)
         IN  /\ n \in Depth /\ Depth = Depth' \cup {n} /\ n \notin Depth'
             /\ Top = handlers[n] /\ TopFrame = stack[n]
             /\ \A k \in Depth' : k \in Depth /\ k < n /\ Stays(k) /\ FrameFits(k)'
                                  /\ handlers[k].step # "done"
             /\ \A k, l \in Depth' : k < l => FramesFit(k, l)'
<1> DEFINE n == Len(handlers)
<1>1. /\ n \in Depth /\ Top = handlers[n] /\ TopFrame = stack[n]
  BY TopFacts
<1>2. /\ n \in Nat /\ Len(handlers') = n - 1 /\ Depth = Depth' \cup {n} /\ n \notin Depth'
      /\ \A k \in Depth' : k < n
      /\ \A k \in Depth' : handlers'[k] = handlers[k] /\ stack'[k] = stack[k]
  BY ReturnsFacts
<1>3. \A k \in Depth' : k \in Depth /\ Stays(k) /\ k # n
  BY <1>2 DEF Stays
<1>4. ASSUME NEW k \in Depth' PROVE FrameFits(k)' /\ handlers[k].step # "done"
  <2>1. FrameFits(k) /\ handlers[k].step # "done"
    BY <1>3 DEF Handled, FrameFits
  <2>2. PICK i : i = stack[k].id
    OBVIOUS
  <2>3. i \in Ids
    BY <2>1, <2>2 DEF FrameFits
  <2>4. Ids \subseteq Ids' /\ (IsActive(orders'[i]) => IsActive(orders[i]))
        /\ (Lives(i) => Lives(i)')
    BY <2>3 DEF Unseen
  <2> QED BY <1>3, <2>1, <2>2, <2>4, OldFrame
<1>5. ASSUME NEW k \in Depth', NEW l \in Depth', k < l PROVE FramesFit(k, l)'
  <2>1. \A j \in Depth : stack[j].id # NoOrder
    <3>1. NoOrder \notin Ids
      BY StrategyFacts DEF Ids, NoOrder, Typed
    <3> QED BY <3>1 DEF Handled, FrameFits
  <2>2. \A r \in Positions : \A j \in Depth : positions[r].entry = stack[j].id =>
           positions'[r].entry = positions[r].entry
    BY <2>1 DEF Ages
  <2> QED BY <1>3, <1>5, <2>2, OldPair
<1> QED BY <1>1, <1>2, <1>3, <1>4, <1>5

LEMMA ReturnsRests ==
  ASSUME Typed, Handled, stack # << >>, Returns, Top.caller # "on_bars"
  PROVE  Pops
BY TopFacts DEF Returns, FrameFits, Pops, TopFrame, StrategyTypeOK, Typed

LEMMA ReturnTypes ==
  ASSUME Typed, stack # << >>, Returns, Ids' = Ids, Positions' = Positions
  PROVE  handlers' \in Seq(HandlerRecords') /\ Len(handlers') = Len(stack')
BY ReturnsFacts DEF HandlerRecords

LEMMA ReturnToCancelRuns ==
  ASSUME StrategyTypeOK, fault = "none", Running, ReturnToCancel
  PROVE  StrategyTypeOK' /\ Running'
<1>1. Typed /\ IInv /\ Handled /\ Standing /\ OwnersFit
  BY DEF Typed, Running, IInv, Inv
<1>2. /\ stack # << >> /\ Top.step = "done" /\ Top.caller = "cancel" /\ Returns
      /\ UNCHANGED << book, cash, shares, allowNegative, volumeLeft, values,
                      barNo, today, cursor, orders, positions, owner, fault >>
  BY DEF ReturnToCancel, ReturnsTo, Handling, Returns
<1>3. Positions' = Positions /\ Ids' = Ids /\ \A p \in Positions : AsWas(p)
  BY <1>2 DEF Positions, Ids, AsWas
<1>4. StrategyTypeOK'
  BY <1>1, <1>2, <1>3, ReturnTypes DEF StrategyTypeOK, PositionRecords
<1>5. Forgets
  BY <1>2, SameForgets, <1>1 DEF IInv, Inv, TypeOK
<1>6. IInv'
  BY <1>1, <1>2, <1>5, ReturnsRests, RestsInv DEF Rests
<1>7. ~Pending(Len(handlers))
  BY <1>2 DEF Pending, Top
<1>8. Unseen
  BY <1>1, <1>2, <1>5, <1>7, PopUnseen
<1>9. Ages
  BY <1>3 DEF Ages, AsWas
<1>10. PICK n : n = Len(handlers)
  OBVIOUS
<1>11. /\ n \in Depth /\ Depth = Depth' \cup {n} /\ n \notin Depth'
       /\ Top = handlers[n] /\ TopFrame = stack[n]
       /\ \A k \in Depth' : k \in Depth /\ k < n /\ Stays(k) /\ FrameFits(k)'
                            /\ handlers[k].step # "done"
       /\ \A k, l \in Depth' : k < l => FramesFit(k, l)'
  BY <1>1, <1>2, <1>8, <1>9, <1>10, PopKeepsFrames
<1>12. \A k \in Depth : Making(k) => k \in Depth' /\ GoesOn(k)
  BY <1>2, <1>11 DEF Making, GoesOn, Stays
<1>13. Standing'
  BY <1>1, <1>3, <1>8, <1>12, StandingKept DEF Making
<1>14. ASSUME NEW k \in Depth' PROVE MakingFits(k)'
  <2>1. k \in Depth /\ GoesOn(k)
    BY <1>11 DEF GoesOn, Stays
  <2> QED BY <1>1, <1>2, <1>3, <1>8, <2>1, MakingKept
<1>15. Handled'
  BY <1>11, <1>14 DEF Handled
<1>16. OwnersFit'
  <2>1. ASSUME NEW i \in Ids', Lives(i)' PROVE InTheMaking(i)' \/ i \in DOMAIN owner'
    <3>1. i \in Ids /\ Lives(i)
      BY <1>3, <1>8, <2>1 DEF Unseen
    <3>2. InTheMaking(i) => InTheMaking(i)'
      BY <1>12 DEF InTheMaking, Making, GoesOn
    <3> QED BY <1>1, <1>2, <3>1, <3>2 DEF OwnersFit
  <2>2. ASSUME NEW i \in DOMAIN owner
        PROVE  /\ i \in positions[owner[i]].made
               /\ IsActive(orders[i]) \/
                  \E k \in Depth' : /\ stack'[k].id = i /\ stack'[k].event \in EndEvents
                                    /\ handlers'[k].step # "done"
    BY <1>1, <1>2, <1>11 DEF OwnersFit, Stays
  <2> QED BY <1>2, <2>1, <2>2 DEF OwnersFit
<1> QED BY <1>4, <1>6, <1>13, <1>15, <1>16 DEF Running

\* What the order is when submit_order has returned it.
LEMMA NewOrderFacts ==
  ASSUME Typed, IInv, Handled, stack # << >>, Top.step = "done",
         Top.caller \in {"enter", "exit"}
  PROVE  LET id == TopFrame.id
             p == Top.for
         IN  /\ id \in Ids /\ p \in Positions /\ IsActive(orders[id])
             /\ Lives(id) /\ Known(id) = 0
             /\ id \notin DOMAIN owner /\ \A r \in Positions : id \notin positions[r].made
             /\ Top.caller = "enter" =>
                   positions[p].entry = NoOrder /\ EntersFor(id, positions[p].side)
             /\ Top.caller = "exit" =>
                   /\ positions[p].entry # NoOrder /\ positions[p].state = "Open"
                   /\ ~Lives(positions[p].entry)
                   /\ positions[p].exit # NoOrder => ~Lives(positions[p].exit)
                   /\ ExitsFor(id, positions[p].side)
                   /\ orders[id].spec.quantity = Held(positions[p])
<1> DEFINE n == Len(handlers)
           id == TopFrame.id
<1>1. /\ n \in Depth /\ \A k \in Depth : k = n \/ k < n
      /\ Top = handlers[n] /\ TopFrame = stack[n] /\ stack[n].id \in Ids
      /\ \A k \in Depth : k # n => FramesFit(k, n)
  BY TopFacts
<1>2. Making(n) /\ MakingFits(n)
  BY <1>1 DEF Making, Handled
<1>3. orders[id].state = "Submitted"
  BY <1>1, <1>2 DEF MakingFits
<1>4. orders[id].filled = 0
  BY <1>1, <1>3 DEF IInv, Inv, StateMatchesFill
<1>5. Untold(id) = 0
  <2>1. ASSUME stack[1].id = id, Pending(1), 1 \in Depth PROVE FALSE
    <3>1. 1 # n
      BY <1>1, <2>1 DEF Pending
    <3>2. FramesFit(1, n)
      BY <1>1, <2>1, <3>1
    <3> QED BY <1>1, <1>2, <2>1, <3>2 DEF FramesFit
  <2>2. 1 \in Depth
    BY StrategyFacts DEF Typed, Depth
  <2> QED BY <2>1, <2>2 DEF Untold
<1>6. IsActive(orders[id])
  BY <1>3 DEF IsActive
<1> QED BY <1>1, <1>2, <1>4, <1>5, <1>6 DEF MakingFits, Lives, Known

\* A new order is registered.
LEMMA RegisterRuns ==
  ASSUME StrategyTypeOK, fault = "none", Running, stack # << >>, Top.step = "done",
         Top.caller \in {"enter", "exit"}, Returns, Rests, Positions' = Positions,
         NEW id, NEW p, id = TopFrame.id, p = Top.for, owner' = Registered(id, p),
         \A r \in Positions \ {p} : positions'[r] = positions[r],
         positions'[p].made = positions[p].made \cup {id},
         positions'[p].side = positions[p].side, positions'[p].state = positions[p].state,
         positions[p].entry # NoOrder => positions'[p].entry = positions[p].entry,
         PositionFits(p)'
  PROVE  Running'
<1>1. Typed /\ IInv /\ Handled /\ Standing /\ OwnersFit
  BY DEF Typed, Running, IInv, Inv
<1>2. Forgets /\ IInv'
  BY <1>1, RestsInv DEF Rests
<1>3. ~Pending(Len(handlers))
  BY DEF Pending, Top
<1>4. Unseen
  BY <1>1, <1>2, <1>3, PopUnseen
<1>5. Ages
  BY DEF Ages
<1>6. /\ id \in Ids /\ p \in Positions /\ IsActive(orders[id])
      /\ id \notin DOMAIN owner /\ \A r \in Positions : id \notin positions[r].made
  BY <1>1, NewOrderFacts
<1>7. DOMAIN owner' = DOMAIN owner \cup {id} /\ owner'[id] = p
      /\ \A i \in DOMAIN owner : owner'[i] = owner[i]
  BY <1>6 DEF Registered
<1>8. PICK n : n = Len(handlers)
  OBVIOUS
<1>9. /\ n \in Depth /\ Depth = Depth' \cup {n} /\ n \notin Depth'
      /\ Top = handlers[n] /\ TopFrame = stack[n]
      /\ \A k \in Depth' : k \in Depth /\ k < n /\ Stays(k) /\ FrameFits(k)'
                           /\ handlers[k].step # "done"
      /\ \A k, l \in Depth' : k < l => FramesFit(k, l)'
  BY <1>1, <1>4, <1>5, <1>7, <1>8, PopKeepsFrames
<1>10. Making(n)
  BY <1>9 DEF Making
<1>11. Ids' = Ids /\ \A i \in Ids : /\ orders'[i].state = orders[i].state
                                   /\ IsActive(orders'[i]) = IsActive(orders[i])
  BY <1>1, <1>2, ForgetsFacts DEF Typed
<1>12. \A r \in Positions : positions[r] \in PositionRecords
  BY <1>1, StrategyFacts DEF Typed
<1>13. ASSUME NEW k \in Depth' PROVE MakingFits(k)'
  <2>1. PICK i, r : i = stack[k].id /\ r = handlers[k].for
    OBVIOUS
  <2>2. i \in Ids /\ orders'[i].state = orders[i].state /\ orders'[i].spec = orders[i].spec
    BY <1>1, <1>4, <1>9, <1>11, <2>1 DEF Handled, FrameFits, Unseen
  <2>3. Making(k) => /\ i \notin DOMAIN owner /\ r \in Positions
                     /\ \A q \in Positions : i \notin positions[q].made
    BY <1>1, <1>9, <2>1 DEF Handled, MakingFits
  <2>4. Making(k) => i # id /\ r # p
    BY <1>1, <1>9, <1>10, <2>1 DEF Handled, FramesFit
  <2>5. Making(k) => i \notin DOMAIN owner' /\ \A q \in Positions' : i \notin positions'[q].made
    <3>1. Making(k) => \A q \in Positions \ {p} : i \notin positions'[q].made
      BY <2>3
    <3>2. Making(k) => i \notin positions'[p].made
      BY <1>6, <2>3, <2>4
    <3> QED BY <1>7, <2>3, <2>4, <3>1, <3>2
  <2>6. Making(k) => \A j \in {positions[r].entry, positions[r].exit} :
                        j # NoOrder /\ ~Lives(j) => ~(Lives(j)')
    <3>1. Making(k) => \A j \in {positions[r].entry, positions[r].exit} \ {NoOrder} : j \in Ids
      BY <1>12, <2>3 DEF PositionRecords
    <3> QED BY <1>4, <3>1 DEF Unseen
  <2> QED BY <1>1, <1>9, <2>1, <2>2, <2>3, <2>4, <2>5, <2>6, OldMaking DEF GoesOn, Stays
<1>14. Handled'
  BY <1>9, <1>13 DEF Handled
<1>15. Standing'
  <2>1. ASSUME NEW r \in Positions \ {p} PROVE PositionFits(r)'
    <3>1. positions[r].made \subseteq Ids
      BY <1>12 DEF PositionRecords
    <3>2. \A i \in positions[r].made :
             /\ orders'[i].spec = orders[i].spec
             /\ Known(i)' = Known(i) /\ (Lives(i)' <=> Lives(i))
      BY <1>4, <3>1 DEF Unseen
    <3>3. positions[r].entry = NoOrder =>
             \E k \in Depth' : handlers'[k].caller = "enter" /\ handlers'[k].for = r
      BY <1>1, <1>9 DEF Standing, PositionFits, Unregistered, Stays
    <3> QED BY <1>1, <1>12, <3>2, <3>3, OldPosition
  <2>2. \A q, r \in Positions : q # r => positions'[q].made \cap positions'[r].made = {}
    BY <1>1, <1>6 DEF Standing
  <2> QED BY <2>1, <2>2 DEF Standing
<1>16. OwnersFit'
  <2>1. ASSUME NEW i \in Ids', Lives(i)' PROVE InTheMaking(i)' \/ i \in DOMAIN owner'
    <3>1. i \in Ids /\ Lives(i)
      BY <1>4, <1>11, <2>1 DEF Unseen
    <3>2. InTheMaking(i) /\ i # id => InTheMaking(i)'
      BY <1>9 DEF InTheMaking, Making, Stays
    <3> QED BY <1>1, <1>7, <3>1, <3>2 DEF OwnersFit
  <2>2. ASSUME NEW i \in DOMAIN owner'
        PROVE  /\ i \in positions'[owner'[i]].made
               /\ IsActive(orders'[i]) \/
                  \E k \in Depth' : /\ stack'[k].id = i /\ stack'[k].event \in EndEvents
                                    /\ handlers'[k].step # "done"
    <3>1. CASE i = id
      BY <1>6, <1>7, <1>11, <3>1
    <3>2. CASE i # id
      <4>1. i \in DOMAIN owner /\ i \in Ids /\ owner[i] \in Positions /\ owner'[i] = owner[i]
        BY <1>7, <3>2 DEF StrategyTypeOK
      <4>2. i \in positions'[owner'[i]].made
        BY <1>1, <4>1 DEF OwnersFit
      <4> QED BY <1>1, <1>9, <1>11, <4>1, <4>2 DEF OwnersFit, Stays
    <3> QED BY <3>1, <3>2
  <2> QED BY <2>1, <2>2 DEF OwnersFit
<1> QED BY <1>2, <1>14, <1>15, <1>16 DEF Running

\* What enter does to its position, once its order is submitted.
LEMMA EnteredFacts ==
  ASSUME Typed, IInv, Handled, Standing, ReturnToEnter
  PROVE  LET id == TopFrame.id
             p == Top.for
             was == positions[p]
             new == positions'[p]
         IN  /\ stack # << >> /\ Top.step = "done" /\ Top.caller = "enter" /\ Returns
             /\ UNCHANGED << book, cash, shares, allowNegative, volumeLeft, values,
                             barNo, today, cursor, orders >>
             /\ owner' = Registered(id, p) /\ fault' = fault
             /\ id \in Ids /\ id # NoOrder /\ p \in Positions /\ IsActive(orders[id])
             /\ Lives(id) /\ Known(id) = 0
             /\ was.entry = NoOrder /\ EntersFor(id, was.side)
             /\ was.made = {} /\ was.state = "Idle"
             /\ new.side = was.side /\ new.entry = id /\ new.exit = NoOrder
             /\ new.made = {id} /\ new.shares = 0 /\ new.state = "Idle" /\ new.alive = TRUE
             /\ positions' \in Seq(PositionRecords) /\ Positions' = Positions /\ Ids' = Ids
             /\ \A r \in Positions \ {p} : positions'[r] = positions[r]
<1>1. PICK id, p : id = TopFrame.id /\ p = Top.for
  OBVIOUS
<1>2. /\ stack # << >> /\ Top.step = "done" /\ Top.caller = "enter" /\ Returns
      /\ UNCHANGED << book, cash, shares, allowNegative, volumeLeft, values,
                      barNo, today, cursor, orders >>
      /\ owner' = Registered(id, p)
      /\ fault' = IF IsActive(orders[id]) THEN fault ELSE "refused"
  BY <1>1 DEF ReturnToEnter, ReturnsTo, Handling, Returns
<1>3. PICK kept \in KeepsPosition :
         positions' = [positions EXCEPT ![p].entry = id, ![p].active = {id},
                           ![p].made = {id}, ![p].alive = TRUE, ![p].kept = kept]
  BY <1>1 DEF ReturnToEnter
<1>4. /\ id \in Ids /\ p \in Positions /\ IsActive(orders[id]) /\ Lives(id) /\ Known(id) = 0
      /\ positions[p].entry = NoOrder /\ EntersFor(id, positions[p].side)
  BY <1>1, <1>2, NewOrderFacts
<1>5. positions \in Seq(PositionRecords) /\ positions[p] \in PositionRecords
  BY <1>4, StrategyFacts DEF Typed
<1> DEFINE new == [positions[p] EXCEPT !.entry = id, !.active = {id}, !.made = {id},
                                       !.alive = TRUE, !.kept = kept]
<1>6. PICK side : side = positions[p].side
  OBVIOUS
<1>7. positions[p] = NewPosition(side)
  BY <1>4, <1>6 DEF Standing, PositionFits, Unregistered
<1>8. kept \in BOOLEAN
  BY UserAssumption
<1>9. /\ new \in PositionRecords /\ new.side = side /\ new.entry = id /\ new.exit = NoOrder
      /\ new.made = {id} /\ new.shares = 0 /\ new.state = "Idle" /\ new.alive = TRUE
      /\ positions[p].made = {} /\ positions[p].state = "Idle"
  <2>1. new \in PositionRecords
    BY <1>4, <1>5, <1>8 DEF PositionRecords
  <2> QED BY <1>7, <2>1 DEF NewPosition
<1>10. positions' = [positions EXCEPT ![p] = new]
  BY <1>3
<1> HIDE DEF new
<1>11. /\ positions' \in Seq(PositionRecords) /\ Len(positions') = Len(positions)
       /\ \A r \in Positions : positions'[r] = IF r = p THEN new ELSE positions[r]
  BY <1>4, <1>5, <1>9, <1>10, ExceptSeq DEF Positions
<1>12. Positions' = Positions /\ Ids' = Ids /\ fault' = fault
  BY <1>2, <1>4, <1>11 DEF Positions, Ids
<1>13. id # NoOrder
  BY <1>4, StrategyFacts DEF Ids, NoOrder, Typed
<1> QED BY <1>1, <1>2, <1>4, <1>6, <1>9, <1>11, <1>12, <1>13

LEMMA ReturnToEnterRuns ==
  ASSUME StrategyTypeOK, fault = "none", Running, ReturnToEnter
  PROVE  StrategyTypeOK' /\ Running'
<1>1. Typed /\ IInv /\ Handled /\ Standing
  BY DEF Typed, Running, IInv, Inv
<1>2. PICK id, p : id = TopFrame.id /\ p = Top.for
  OBVIOUS
<1>3. /\ stack # << >> /\ Top.step = "done" /\ Top.caller = "enter" /\ Returns
      /\ UNCHANGED << book, cash, shares, allowNegative, volumeLeft, values,
                      barNo, today, cursor, orders >>
      /\ owner' = Registered(id, p)
  BY <1>1, <1>2, EnteredFacts
<1>4. /\ id \in Ids /\ p \in Positions /\ IsActive(orders[id]) /\ Lives(id) /\ Known(id) = 0
      /\ positions[p].entry = NoOrder /\ EntersFor(id, positions[p].side)
  BY <1>1, <1>2, EnteredFacts
<1>5. PICK side, new : side = positions[p].side /\ new = positions'[p]
  OBVIOUS
<1>6. /\ new.side = side /\ new.entry = id /\ new.exit = NoOrder
      /\ new.made = {id} /\ new.shares = 0 /\ new.state = "Idle" /\ new.alive = TRUE
      /\ positions[p].made = {} /\ positions[p].state = "Idle"
  BY <1>1, <1>2, <1>5, EnteredFacts
<1>7. /\ positions' \in Seq(PositionRecords)
      /\ \A r \in Positions : positions'[r] = IF r = p THEN new ELSE positions[r]
  BY <1>1, <1>2, <1>5, EnteredFacts
<1>8. Positions' = Positions /\ Ids' = Ids /\ fault' = fault
  BY <1>1, <1>2, EnteredFacts
<1>9. StrategyTypeOK'
  <2>1. /\ DOMAIN owner' = DOMAIN owner \cup {id}
        /\ \A i \in DOMAIN owner' : owner'[i] = IF i = id THEN p ELSE owner[i]
    BY <1>3 DEF Registered
  <2>2. PositionRecords' = PositionRecords
    BY <1>8 DEF PositionRecords
  <2>3. handlers' \in Seq(HandlerRecords') /\ Len(handlers') = Len(stack')
    BY <1>1, <1>3, <1>8, ReturnTypes
  <2> QED BY <1>4, <1>7, <1>8, <2>1, <2>2, <2>3 DEF StrategyTypeOK
<1>10. Forgets
  BY <1>3, SameForgets, <1>1 DEF IInv, Inv, TypeOK
<1>11. Rests
  BY <1>1, <1>3, <1>8, <1>10, ReturnsRests DEF Rests
<1>12. ~Pending(Len(handlers))
  BY <1>3 DEF Pending, Top
<1>13. Unseen
  BY <1>1, <1>3, <1>10, <1>12, PopUnseen
<1>14. Lives(id)' /\ Known(id)' = 0 /\ orders'[id].spec = orders[id].spec
  BY <1>4, <1>13 DEF Unseen
<1>15. EntersFor(id, side)'
  BY <1>4, <1>5, <1>14 DEF EntersFor
<1>16. id # NoOrder
  BY <1>4, StrategyFacts, <1>1 DEF Ids, NoOrder, Typed
<1>17. PositionFits(p)'
  <2>1. OrdersFit(p)'
    BY <1>4, <1>6, <1>7, <1>15, <1>16 DEF OrdersFit
  <2>2. StateFits(p)'
    BY <1>4, <1>6, <1>7, <1>14 DEF StateFits
  <2> QED BY <1>4, <1>6, <1>7, <1>16, <2>1, <2>2 DEF PositionFits
<1>18. Running'
  BY <1>2, <1>3, <1>4, <1>5, <1>6, <1>7, <1>8, <1>11, <1>17, RegisterRuns
<1> QED BY <1>9, <1>18

\* What exit does to its position, once its order is submitted.
LEMMA ExitedFacts ==
  ASSUME Typed, IInv, Handled, Standing, ReturnToExit
  PROVE  LET id == TopFrame.id
             p == Top.for
             was == positions[p]
             new == positions'[p]
         IN  /\ stack # << >> /\ Top.step = "done" /\ Top.caller = "exit" /\ Returns
             /\ UNCHANGED << book, cash, shares, allowNegative, volumeLeft, values,
                             barNo, today, cursor >>
             /\ Forgets /\ owner' = Registered(id, p) /\ fault' = fault
             /\ id \in Ids /\ p \in Positions /\ Lives(id) /\ Known(id) = 0
             /\ \A r \in Positions : id \notin positions[r].made
             /\ was \in PositionRecords /\ was.entry # NoOrder /\ was.state = "Open"
             /\ ~Lives(was.entry) /\ (was.exit # NoOrder => ~Lives(was.exit))
             /\ ExitsFor(id, was.side) /\ orders[id].spec.quantity = Held(was)
             /\ new.side = was.side /\ new.entry = was.entry /\ new.exit = id
             /\ new.made = was.made \cup {id} /\ new.shares = was.shares
             /\ new.state = was.state /\ new.alive = was.alive
             /\ positions' \in Seq(PositionRecords) /\ Positions' = Positions /\ Ids' = Ids
             /\ \A r \in Positions \ {p} : positions'[r] = positions[r]
<1>1. PICK id, p : id = TopFrame.id /\ p = Top.for
  OBVIOUS
<1>2. /\ stack # << >> /\ Top.step = "done" /\ Top.caller = "exit" /\ Returns
      /\ UNCHANGED << book, cash, shares, allowNegative, volumeLeft, values,
                      barNo, today, cursor >>
      /\ positions' = [positions EXCEPT ![p].exit = id, ![p].active = @ \cup {id},
                                        ![p].made = @ \cup {id}]
      /\ orders' = Dropped({positions[p].exit} \ positions[p].active)
      /\ owner' = Registered(id, p)
      /\ fault' = IF positions[p].state = "Open" THEN fault ELSE "refused"
  BY <1>1 DEF ReturnToExit, ReturnsTo, Handling, Returns
<1>3. /\ id \in Ids /\ p \in Positions /\ Lives(id) /\ Known(id) = 0
      /\ \A r \in Positions : id \notin positions[r].made
      /\ positions[p].entry # NoOrder /\ positions[p].state = "Open"
      /\ ~Lives(positions[p].entry)
      /\ positions[p].exit # NoOrder => ~Lives(positions[p].exit)
      /\ ExitsFor(id, positions[p].side)
      /\ orders[id].spec.quantity = Held(positions[p])
  BY <1>1, <1>2, NewOrderFacts
<1>4. positions \in Seq(PositionRecords) /\ positions[p] \in PositionRecords
  BY <1>3, StrategyFacts DEF Typed
<1> DEFINE new == [positions[p] EXCEPT !.exit = id, !.active = @ \cup {id},
                                       !.made = @ \cup {id}]
<1>5. PICK was : was = positions[p]
  OBVIOUS
<1>6. /\ new \in PositionRecords /\ new.side = was.side /\ new.entry = was.entry
      /\ new.exit = id /\ new.made = was.made \cup {id} /\ new.shares = was.shares
      /\ new.state = was.state /\ new.alive = was.alive
  BY <1>3, <1>4, <1>5 DEF PositionRecords
<1>7. positions' = [positions EXCEPT ![p] = new]
  BY <1>2
<1> HIDE DEF new
<1>8. /\ positions' \in Seq(PositionRecords) /\ Len(positions') = Len(positions)
      /\ \A r \in Positions : positions'[r] = IF r = p THEN new ELSE positions[r]
  BY <1>3, <1>4, <1>6, <1>7, ExceptSeq DEF Positions
<1>9. Forgets
  BY <1>2, DroppedForgets DEF IInv, Inv, TypeOK
<1>10. Positions' = Positions /\ Ids' = Ids /\ fault' = fault
  BY <1>2, <1>3, <1>8, <1>9, ForgetsFacts DEF Positions, Typed
<1> QED BY <1>1, <1>2, <1>3, <1>4, <1>5, <1>6, <1>8, <1>9, <1>10

LEMMA ReturnToExitRuns ==
  ASSUME StrategyTypeOK, fault = "none", Running, ReturnToExit
  PROVE  StrategyTypeOK' /\ Running'
<1>1. Typed /\ IInv /\ Handled /\ Standing
  BY DEF Typed, Running, IInv, Inv
<1>2. PICK id, p : id = TopFrame.id /\ p = Top.for
  OBVIOUS
<1>3. /\ stack # << >> /\ Top.step = "done" /\ Top.caller = "exit" /\ Returns
      /\ UNCHANGED << book, cash, shares, allowNegative, volumeLeft, values,
                      barNo, today, cursor >>
      /\ owner' = Registered(id, p)
  BY <1>1, <1>2, ExitedFacts
<1>4. /\ id \in Ids /\ p \in Positions /\ Lives(id) /\ Known(id) = 0
      /\ \A r \in Positions : id \notin positions[r].made
      /\ positions[p].entry # NoOrder /\ positions[p].state = "Open"
      /\ ~Lives(positions[p].entry)
      /\ positions[p].exit # NoOrder => ~Lives(positions[p].exit)
      /\ ExitsFor(id, positions[p].side)
      /\ orders[id].spec.quantity = Held(positions[p])
  BY <1>1, <1>2, ExitedFacts
<1>5. positions[p] \in PositionRecords
  BY <1>1, <1>2, ExitedFacts
<1>6. PICK side, entry, exit, made, new :
         /\ side = positions[p].side /\ entry = positions[p].entry
         /\ exit = positions[p].exit /\ made = positions[p].made /\ new = positions'[p]
  OBVIOUS
<1>7. /\ new.side = side /\ new.entry = entry /\ new.exit = id
      /\ new.made = made \cup {id} /\ new.shares = positions[p].shares
      /\ new.state = positions[p].state /\ new.alive = positions[p].alive
  BY <1>1, <1>2, <1>6, ExitedFacts
<1>8. /\ positions' \in Seq(PositionRecords)
      /\ \A r \in Positions : positions'[r] = IF r = p THEN new ELSE positions[r]
  BY <1>1, <1>2, <1>6, ExitedFacts
<1>9. Forgets
  BY <1>1, ExitedFacts
<1>10. Positions' = Positions /\ Ids' = Ids /\ fault' = fault
  BY <1>1, ExitedFacts
<1>11. StrategyTypeOK'
  <2>1. /\ DOMAIN owner' = DOMAIN owner \cup {id}
        /\ \A i \in DOMAIN owner' : owner'[i] = IF i = id THEN p ELSE owner[i]
    BY <1>3 DEF Registered
  <2>2. PositionRecords' = PositionRecords
    BY <1>10 DEF PositionRecords
  <2>3. handlers' \in Seq(HandlerRecords') /\ Len(handlers') = Len(stack')
    BY <1>1, <1>3, <1>10, ReturnTypes
  <2> QED BY <1>4, <1>8, <1>10, <2>1, <2>2, <2>3 DEF StrategyTypeOK
<1>12. Rests
  BY <1>1, <1>3, <1>9, <1>10, ReturnsRests DEF Rests
<1>13. ~Pending(Len(handlers))
  BY <1>3 DEF Pending, Top
<1>14. Unseen
  BY <1>1, <1>3, <1>9, <1>13, PopUnseen
<1>15. OrdersFit(p) /\ StateFits(p)
  BY <1>1, <1>4 DEF Standing, PositionFits
<1>16. /\ entry \in made /\ made \subseteq Ids /\ id \notin made /\ EntersFor(entry, side)
       /\ \A i \in made : ~Lives(i)
  <2>1. made \subseteq Ids /\ NoOrder \notin Ids
    BY <1>1, <1>5, <1>6, StrategyFacts DEF PositionRecords, Ids, NoOrder, Typed
  <2>2. /\ entry \in made /\ EntersFor(entry, side)
        /\ \A i \in made : Lives(i) => i \in {entry, exit}
    BY <1>6, <1>15 DEF OrdersFit
  <2>3. ~Lives(entry) /\ (exit # NoOrder => ~Lives(exit)) /\ id \notin made
    BY <1>4, <1>6
  <2>4. ASSUME NEW i \in made PROVE ~Lives(i)
    <3>1. i # NoOrder
      BY <2>1
    <3> QED BY <2>2, <2>3, <3>1
  <2> QED BY <2>1, <2>2, <2>3, <2>4
<1>17. /\ Lives(id)' /\ Known(id)' = 0 /\ orders'[id].spec = orders[id].spec
       /\ orders'[entry].spec = orders[entry].spec /\ Known(entry)' = Known(entry)
       /\ \A i \in made : ~(Lives(i)')
  BY <1>4, <1>14, <1>16 DEF Unseen
<1>18. EntersFor(entry, side)' /\ ExitsFor(id, side)'
  BY <1>4, <1>6, <1>16, <1>17 DEF EntersFor, ExitsFor
<1>19. Held(new) = Held(positions[p])
  BY <1>6, <1>7 DEF Held
<1>20. PositionFits(p)'
  <2>1. positions'[p] = new /\ ~(Lives(entry)')
    BY <1>4, <1>8, <1>16, <1>17
  <2>2. OrdersFit(p)'
    BY <1>7, <1>16, <1>17, <1>18, <2>1 DEF OrdersFit
  <2>3. Held(new) \in 1..orders[entry].spec.quantity /\ Known(entry) > 0
        /\ positions[p].alive
    BY <1>4, <1>6, <1>15, <1>19 DEF StateFits
  <2>4. Held(new) = orders'[id].spec.quantity - Known(id)'
    BY <1>4, <1>17, <1>19, <2>3
  <2>5. StateFits(p)'
    BY <1>4, <1>7, <1>17, <2>1, <2>3, <2>4 DEF StateFits
  <2> QED BY <1>4, <1>6, <1>7, <2>1, <2>2, <2>5 DEF PositionFits
<1>21. Running'
  BY <1>2, <1>3, <1>4, <1>6, <1>7, <1>8, <1>10, <1>12, <1>20, RegisterRuns
<1> QED BY <1>11, <1>21
-----------------------------------------------------------------------------
(***************************************************************************)
(* A position is told of an event.                                         *)
(***************************************************************************)
\* What it is told of an order changes, and nothing it knows of others.
LEMMA ToldViews ==
  ASSUME Typed, Handled, stack # << >>, UNCHANGED << stack, orders >>,
         NEW step, step # "on_order_updated", NEW p, Goto(step, p),
         Pending(Len(handlers)), TopFrame.event \notin {"Submitted", "Accepted"},
         NEW id, id = TopFrame.id
  PROVE  /\ id \in Ids /\ Lives(id)
         /\ \A i \in Ids \ {id} : Known(i)' = Known(i) /\ (Lives(i)' <=> Lives(i))
         /\ Known(id)' = Known(id) + Top.quantity
         /\ Lives(id)' <=> IsActive(orders[id])
         /\ TopFrame.event \in FillEvents =>
               Len(handlers) = 1 /\ Known(id)' = orders[id].filled
<1> DEFINE n == Len(handlers)
<1>1. /\ n \in Depth /\ Depth' = Depth /\ 1 \in Depth
      /\ \A k \in Depth : k <= n /\ (k # n => handlers'[k] = handlers[k])
      /\ handlers'[n].step = step /\ handlers'[n].quantity = handlers[n].quantity
  BY GotoFacts
<1>2. /\ Top = handlers[n] /\ TopFrame = stack[n] /\ FrameFits(n) /\ stack[n].id \in Ids
      /\ handlers[n] \in HandlerRecords
      /\ \A k \in Depth : k # n => FramesFit(k, n)
  BY TopFacts
<1>3. stack[n].event \in {"PartiallyFilled", "Filled", "Canceled"}
  <2>1. stack[n] \in Frames
    BY <1>1, StrategyFacts DEF Typed, Depth
  <2> QED BY <1>2, <2>1 DEF Frames, Events
<1>4. handlers[n].quantity \in Nat /\ (handlers[n].quantity > 0 <=> stack[n].event \in FillEvents)
  BY <1>2 DEF HandlerRecords, FrameFits
<1>5. stack[n].event \in FillEvents => n = 1
  BY <1>2 DEF FrameFits
<1>6. orders[id].filled \in Nat /\ Ids' = Ids
  BY <1>2, StrategyFacts DEF Typed, Orders, Ids
<1>7. Lives(id)
  BY <1>1, <1>2, <1>3 DEF FrameFits, Lives, EndUntold, EndEvents
<1>8. Pending(n) /\ stack[n].id = id
  BY <1>2
<1> HIDE DEF n
<1>9. ASSUME NEW i \in Ids, i # id
      PROVE  Untold(i)' = Untold(i) /\ (EndUntold(i)' <=> EndUntold(i))
  <2>1. EndUntold(i)' <=> EndUntold(i)
    BY <1>1, <1>8, <1>9 DEF EndUntold, Pending
  <2>2. Untold(i)' = Untold(i)
    BY <1>1, <1>8, <1>9 DEF Untold, Pending
  <2> QED BY <2>1, <2>2
<1>10. Untold(id) = Untold(id)' + handlers[n].quantity
  <2>1. CASE n = 1
    <3>1. Untold(id) = handlers[n].quantity /\ Untold(id)' = 0
      BY <1>1, <1>8, <2>1 DEF Untold, Pending
    <3> QED BY <1>4, <3>1
  <2>2. CASE n # 1
    <3>1. Untold(id)' = Untold(id) /\ handlers[n].quantity = 0
      BY <1>1, <1>4, <1>5, <2>2 DEF Untold, Pending
    <3>2. Untold(id) \in Nat
      <4>1. handlers[1] \in HandlerRecords
        BY <1>1, StrategyFacts DEF Typed
      <4> QED BY <4>1 DEF Untold, HandlerRecords
    <3> QED BY <3>1, <3>2
  <2> QED BY <2>1, <2>2
<1>11. Untold(id) \in Nat /\ Untold(id)' \in Nat
  <2>1. handlers[1] \in HandlerRecords
    BY <1>1, StrategyFacts DEF Typed
  <2>2. handlers'[1].quantity = handlers[1].quantity
    BY <1>1
  <2> QED BY <2>1, <2>2 DEF Untold, HandlerRecords
<1>12. ~EndUntold(id)'
  <2>1. SUFFICES ASSUME NEW k \in Depth, stack[k].id = id, stack[k].event \in EndEvents,
                        Pending(k)', Pending(k), k # n
                 PROVE  FALSE
    BY <1>1 DEF EndUntold, Pending
  <2>2. FramesFit(k, n)
    BY <1>2, <2>1
  <2>3. CASE stack[n].event \in EndEvents
    BY <1>8, <2>1, <2>2, <2>3 DEF FramesFit
  <2>4. CASE stack[n].event \in FillEvents
    <3>1. n = 1 /\ k <= n /\ k \in Nat /\ k # 0
      BY <1>1, <1>5, <2>4 DEF Depth
    <3> QED BY <2>1, <3>1
  <2> QED BY <1>3, <2>3, <2>4 DEF EndEvents, FillEvents
<1>13. Known(id)' = Known(id) + handlers[n].quantity
  BY <1>4, <1>6, <1>10, <1>11 DEF Known
<1>14. stack[n].event \in FillEvents => n = 1 /\ Known(id)' = orders[id].filled
  <2>1. n = 1 => Untold(id)' = 0
    BY <1>1, <1>8 DEF Untold, Pending
  <2> QED BY <1>5, <1>6, <2>1 DEF Known
<1>15. ASSUME NEW i \in Ids, i # id PROVE Known(i)' = Known(i) /\ (Lives(i)' <=> Lives(i))
  BY <1>9, <1>15 DEF Known, Lives
<1> QED BY <1>2, <1>7, <1>12, <1>13, <1>14, <1>15 DEF Lives, n

\* The position has been told, and the handler goes on to the user or is done.
LEMMA ToldRuns ==
  ASSUME StrategyTypeOK, fault = "none", Running, stack # << >>,
         UNCHANGED << stack, orders >>, Rests,
         NEW step \in {"on_enter", "on_enter_canceled", "on_exit", "on_exit_canceled", "done"},
         NEW p \in Positions, Goto(step, p),
         Pending(Len(handlers)), TopFrame.event \notin {"Submitted", "Accepted"},
         NEW id, id = TopFrame.id, id \in {positions[p].entry, positions[p].exit},
         positions[p].entry # NoOrder, positions[p].state # "Close",
         Positions' = Positions, \A r \in Positions \ {p} : positions'[r] = positions[r],
         positions'[p].side = positions[p].side, positions'[p].entry = positions[p].entry,
         positions'[p].made = positions[p].made,
         PositionFits(p)',
         owner' = IF step = "done" THEN Unlinked(id) ELSE owner,
         step = "on_enter" => TopFrame.event \in FillEvents,
         step = "on_exit" => TopFrame.event = "Filled",
         step \in {"on_enter_canceled", "on_exit_canceled"} => TopFrame.event = "Canceled",
         step \in {"on_enter_canceled", "on_exit"} => positions'[p].state = "Close",
         \A k \in Depth : k # Len(handlers) /\ Pending(k) =>
            /\ step = "on_enter_canceled"
            /\ stack[k].event = "PartiallyFilled" => stack[k].id # id
  PROVE  Running'
<1>1. Typed /\ IInv /\ Handled /\ Standing /\ OwnersFit
  BY DEF Typed, Running, IInv, Inv
<1>2. PICK n : n = Len(handlers)
  OBVIOUS
<1>3. /\ n \in Depth /\ Depth' = Depth /\ Len(handlers') = n
      /\ \A k \in Depth : k <= n /\ (k # n => handlers'[k] = handlers[k])
      /\ handlers'[n].step = step /\ handlers'[n].position = p
      /\ handlers'[n].quantity = handlers[n].quantity
      /\ handlers'[n].caller = handlers[n].caller /\ handlers'[n].for = handlers[n].for
  <2>1. UNCHANGED stack
    OBVIOUS
  <2>2. LET m == Len(handlers)
        IN  /\ m \in Depth /\ Len(handlers') = m /\ Depth' = Depth
            /\ \A k \in Depth : k <= m /\ (k # m => handlers'[k] = handlers[k])
            /\ handlers'[m].step = step /\ handlers'[m].position = p
            /\ handlers'[m].quantity = handlers[m].quantity
            /\ handlers'[m].caller = handlers[m].caller /\ handlers'[m].for = handlers[m].for
    BY ONLY <1>1, stack # << >>, Goto(step, p), <2>1, GotoFacts
  <2> QED BY <1>2, <2>2
<1>4. /\ Top = handlers[n] /\ TopFrame = stack[n] /\ FrameFits(n) /\ id \in Ids
      /\ \A k \in Depth : k = n \/ k < n
  BY <1>1, <1>2, TopFacts
<1>5. /\ Lives(id)
      /\ \A i \in Ids \ {id} : Known(i)' = Known(i) /\ (Lives(i)' <=> Lives(i))
      /\ Lives(id)' <=> IsActive(orders[id])
  BY <1>1, ToldViews
<1>6. IInv' /\ Ids' = Ids
  BY <1>1, RestsInv DEF Ids
<1>7. \A r \in Positions : positions[r] \in PositionRecords /\ positions[r].made \subseteq Ids
  <2>1. \A r \in Positions : positions[r] \in PositionRecords
    BY <1>1, StrategyFacts DEF Typed
  <2> QED BY <2>1 DEF PositionRecords
<1>8. OrdersFit(p) /\ id # NoOrder /\ id \in positions[p].made
  <2>1. OrdersFit(p)
    BY <1>1 DEF Standing, PositionFits
  <2>2. id # NoOrder
    BY <1>1, <1>4, StrategyFacts DEF Ids, NoOrder, Typed
  <2> QED BY <2>1, <2>2 DEF OrdersFit
<1>9. \A r \in Positions : id \in positions[r].made => r = p
  BY <1>1, <1>8 DEF Standing
<1>10. \A i \in Ids : Lives(i)' => Lives(i)
  BY <1>5
<1>11. \A k \in Depth : GoesOn(k) /\ (k # n => Stays(k))
  BY <1>3, <1>4 DEF GoesOn, Stays
<1>12. Ages
  BY DEF Ages
<1>13. ASSUME NEW k \in Depth, Making(k)
       PROVE  stack[k].id # id /\ handlers[k].for \in Positions \ {p}
  <2>1. PICK i, q : i = stack[k].id /\ q = handlers[k].for
    OBVIOUS
  <2>2. MakingFits(k)
    BY <1>1 DEF Handled
  <2>3. \A r \in Positions : i \notin positions[r].made
    BY <1>13, <2>1, <2>2 DEF MakingFits
  <2>4. q \in Positions
    BY <1>13, <2>1, <2>2 DEF MakingFits
  <2>5. handlers[k].caller = "enter" => positions[q].entry = NoOrder
    BY <1>13, <2>1, <2>2 DEF MakingFits
  <2>6. handlers[k].caller = "exit" =>
           /\ ~Lives(positions[q].entry)
           /\ positions[q].exit # NoOrder => ~Lives(positions[q].exit)
    BY <1>13, <2>1, <2>2 DEF MakingFits
  <2>7. q # p
    BY <1>5, <1>8, <1>13, <2>5, <2>6 DEF Making
  <2> QED BY <1>8, <2>1, <2>3, <2>4, <2>7
<1>14. ASSUME NEW k \in Depth PROVE MakingFits(k)'
  <2>1. PICK i, q : i = stack[k].id /\ q = handlers[k].for
    OBVIOUS
  <2>2. Making(k) => MakingFits(k) /\ i # id /\ q \in Positions \ {p} /\ positions'[q] = positions[q]
    BY <1>1, <1>13, <2>1 DEF Handled
  <2>3. Making(k) => i \notin DOMAIN owner /\ \A r \in Positions : i \notin positions[r].made
    BY <2>1, <2>2 DEF MakingFits
  <2>4. Making(k) => i \notin DOMAIN owner' /\ \A r \in Positions : i \notin positions'[r].made
    <3>1. DOMAIN owner' \subseteq DOMAIN owner
      BY DEF Unlinked
    <3>2. \A r \in Positions : positions'[r].made = positions[r].made
      OBVIOUS
    <3> QED BY <2>3, <3>1, <3>2
  <2>5. Making(k) => \A j \in {positions[q].entry, positions[q].exit} :
                        j # NoOrder /\ ~Lives(j) => ~(Lives(j)')
    <3>1. Making(k) => \A j \in {positions[q].entry, positions[q].exit} : j # NoOrder => j \in Ids
      BY <1>7, <2>2 DEF PositionRecords
    <3> QED BY <1>10, <3>1
  <2> QED BY <1>1, <1>11, <2>1, <2>2, <2>4, <2>5, OldMaking
<1>15. ASSUME NEW k \in Depth PROVE FrameFits(k)'
  <2>1. PICK i : i = stack[k].id
    OBVIOUS
  <2>2. FrameFits(k) /\ i \in Ids
    BY <1>1, <2>1 DEF Handled, FrameFits
  <2>3. CASE k # n
    <3>1. handlers[k].step # "done"
      BY <1>2, <2>2, <2>3 DEF FrameFits
    <3>2. stack[k].event = "PartiallyFilled" /\ Pending(k) /\ Lives(i) => Lives(i)'
      BY <1>2, <1>5, <2>1, <2>2, <2>3
    <3>3. Pending(k) /\ i \in DOMAIN owner => i \in DOMAIN owner'
      BY <1>2, <2>3
    <3> QED BY <1>1, <1>6, <1>11, <1>12, <2>1, <2>3, <3>1, <3>2, <3>3, OldFrame
  <2>4. CASE k = n
    <3>1. handlers'[k].step # "on_order_updated" /\ ~(Pending(k)')
      BY <1>3, <2>4 DEF Pending
    <3>2. Making(n) <=> Making(n)'
      BY <1>3 DEF Making
    <3>3. ~Making(n)
      BY <1>4 DEF FrameFits
    <3>4. step \in {"on_enter_canceled", "on_exit"} =>
             /\ p \in Positions' /\ positions'[p].entry # NoOrder
             /\ positions'[p].state = "Close"
      OBVIOUS
    <3>5. /\ handlers'[n].quantity > 0 <=> handlers[n].quantity > 0
          /\ handlers'[n].step = "on_enter" => stack'[n].event \in FillEvents
          /\ handlers'[n].step = "on_exit" => stack'[n].event = "Filled"
          /\ handlers'[n].step \in {"on_enter_canceled", "on_exit_canceled"} =>
                stack'[n].event = "Canceled"
      BY <1>3, <1>4
    <3>6. handlers'[n].step \in {"on_enter_canceled", "on_exit"} =>
             /\ handlers'[n].position \in Positions'
             /\ positions'[handlers'[n].position].entry # NoOrder
             /\ positions'[handlers'[n].position].state = "Close"
      BY <1>3, <3>4
    <3> QED BY <1>3, <1>4, <1>6, <2>4, <3>1, <3>2, <3>3, <3>5, <3>6 DEF FrameFits
  <2> QED BY <2>3, <2>4
<1>16. ASSUME NEW k \in Depth, NEW l \in Depth, k < l PROVE FramesFit(k, l)'
  <2>1. k # n
    <3>1. l \in Nat /\ k \in Nat /\ n \in Nat /\ l <= n
      BY <1>1, <1>2, <1>3, StrategyFacts DEF Typed, Depth
    <3> QED BY <1>16, <3>1
  <2>2. CASE l # n
    BY <1>1, <1>11, <1>12, <1>16, <2>1, <2>2, OldPair DEF Ages
  <2>3. CASE l = n
    <3>1. FramesFit(k, n)
      BY <1>1, <1>16, <2>3 DEF Handled
    <3>2. (\E r \in Positions : positions[r].entry = stack[n].id) =>
             \E r \in Positions' : positions'[r].entry = stack[n].id
      <4>1. \A r \in Positions : positions'[r].entry = positions[r].entry
        OBVIOUS
      <4> QED BY <4>1
    <3>3. Pending(k) => step = "on_enter_canceled"
      BY <1>2, <2>1
    <3> QED BY <1>3, <1>4, <2>1, <2>3, <3>1, <3>2, <3>3 DEF FramesFit, Pending, Making
  <2> QED BY <2>2, <2>3
<1>17. Handled'
  BY <1>3, <1>14, <1>15, <1>16 DEF Handled
<1>18. Standing'
  <2>1. ASSUME NEW r \in Positions, r # p PROVE PositionFits(r)'
    <3>1. positions'[r] = positions[r] /\ positions[r] \in PositionRecords
          /\ positions[r].made \subseteq Ids /\ id \notin positions[r].made
      BY <1>7, <1>9, <2>1
    <3>2. positions[r].entry = NoOrder =>
             \E k \in Depth' : handlers'[k].caller = "enter" /\ handlers'[k].for = r
      BY <1>1, <1>11 DEF Standing, PositionFits, Unregistered, GoesOn
    <3>3. \A i \in positions[r].made :
             /\ orders'[i].spec = orders[i].spec
             /\ Known(i)' = Known(i) /\ (Lives(i)' <=> Lives(i))
      BY <1>5, <3>1
    <3> QED BY <1>1, <3>1, <3>2, <3>3, OldPosition
  <2>2. \A r \in Positions : positions'[r].made = positions[r].made
    OBVIOUS
  <2> QED BY <1>1, <2>1, <2>2 DEF Standing
<1>19. OwnersFit'
  <2>1. /\ DOMAIN owner' \subseteq DOMAIN owner
        /\ \A i \in DOMAIN owner' : owner'[i] = owner[i]
        /\ \A i \in DOMAIN owner : i # id \/ IsActive(orders[id]) => i \in DOMAIN owner'
        /\ id \in DOMAIN owner' => IsActive(orders[id]) \/ step # "done"
    BY DEF Unlinked
  <2>2. ASSUME NEW i \in Ids', Lives(i)' PROVE InTheMaking(i)' \/ i \in DOMAIN owner'
    <3>1. i \in Ids /\ Lives(i) /\ (i # id \/ IsActive(orders[id]))
      BY <1>5, <1>6, <2>2
    <3>2. InTheMaking(i) => InTheMaking(i)'
      BY <1>11 DEF InTheMaking, Making, GoesOn
    <3> QED BY <1>1, <2>1, <3>1, <3>2 DEF OwnersFit
  <2>3. ASSUME NEW i \in DOMAIN owner'
        PROVE  /\ i \in positions'[owner'[i]].made
               /\ IsActive(orders'[i]) \/
                  \E k \in Depth' : /\ stack'[k].id = i /\ stack'[k].event \in EndEvents
                                    /\ handlers'[k].step # "done"
    <3>1. i \in DOMAIN owner /\ i \in Ids /\ owner[i] \in Positions /\ owner'[i] = owner[i]
      BY <2>1 DEF StrategyTypeOK
    <3>2. i \in positions'[owner'[i]].made
      <4>1. \A r \in Positions : positions'[r].made = positions[r].made
        OBVIOUS
      <4> QED BY <1>1, <3>1, <4>1 DEF OwnersFit
    <3>3. IsActive(orders[i]) \/
             \E k \in Depth : /\ stack[k].id = i /\ stack[k].event \in EndEvents
                              /\ handlers[k].step # "done"
      BY <1>1, <3>1 DEF OwnersFit
    <3>4. ~IsActive(orders[i]) /\ i = id => step # "done"
      BY <2>1
    <3> QED BY <1>3, <1>4, <3>1, <3>2, <3>3, <3>4
  <2> QED BY <2>2, <2>3 DEF OwnersFit
<1> QED BY <1>6, <1>17, <1>18, <1>19 DEF Running

\* What a position counts of an execution.
LEMMA CountedFacts ==
  ASSUME Typed, NEW p \in Positions, NEW frame, frame.id \in Ids, NEW quantity \in Nat
  PROVE  LET was == positions[p]
             c == Counted(was, frame, quantity)
         IN  /\ c \in PositionRecords /\ c.side = was.side /\ c.entry = was.entry
             /\ c.exit = was.exit /\ c.made = was.made /\ c.state = was.state
             /\ c.alive = was.alive
             /\ quantity = 0 => c.shares = was.shares
             /\ Held(was) \in Int /\ (c.shares = 0 <=> Held(c) = 0)
             /\ EntersFor(frame.id, was.side) => Held(c) = Held(was) + quantity
             /\ ExitsFor(frame.id, was.side) => Held(c) = Held(was) - quantity
<1> DEFINE was == positions[p]
           c == Counted(was, frame, quantity)
           spec == orders[frame.id].spec
<1>1. was \in PositionRecords
  BY StrategyFacts DEF Typed
<1>2. /\ c \in PositionRecords /\ c.side = was.side /\ c.entry = was.entry
      /\ c.exit = was.exit /\ c.made = was.made /\ c.state = was.state
      /\ c.alive = was.alive
      /\ c.shares = IF Buys(spec) THEN was.shares + quantity ELSE was.shares - quantity
  <2> DEFINE active == IF IsActive(orders[frame.id]) THEN was.active ELSE was.active \ {frame.id}
             n == IF Buys(spec) THEN was.shares + quantity ELSE was.shares - quantity
  <2>1. active \subseteq Ids /\ n \in Int
    BY <1>1 DEF PositionRecords
  <2>2. c = [was EXCEPT !.active = active, !.shares = n]
    BY <1>1 DEF Counted, PositionRecords
  <2> HIDE DEF c, was, active, n
  <2>3. /\ c \in PositionRecords /\ c.side = was.side /\ c.entry = was.entry
        /\ c.exit = was.exit /\ c.made = was.made /\ c.state = was.state
        /\ c.alive = was.alive /\ c.shares = n
    BY <1>1, <2>1, <2>2 DEF PositionRecords
  <2> QED BY <2>3 DEF n
<1>3. was.shares \in Int /\ was.side \in {"Long", "Short"}
  BY <1>1 DEF PositionRecords, Sides
<1>4. EntersFor(frame.id, was.side) => (Buys(spec) <=> was.side = "Long")
  BY <1>3 DEF EntersFor, EntrySpec, Buys, BuyActions
<1>5. ExitsFor(frame.id, was.side) => (Buys(spec) <=> was.side # "Long")
  BY <1>3 DEF ExitsFor, Buys, BuyActions
<1> HIDE DEF was, c, spec
<1> QED BY <1>2, <1>3, <1>4, <1>5 DEF Held, was, c, spec

\* What the state machine makes of an event when it does not die of it.
Reacts(c, frame, r) ==
    LET exits == frame.id = c.exit
    IN  /\ c.state = "Idle" =>
              \/ frame.event \in FillEvents /\ r.state = "Open" /\ r.callback = "on_enter"
              \/ /\ frame.event = "Canceled" /\ orders[c.entry].filled = 0
                 /\ r.state = "Close" /\ r.callback = "on_enter_canceled"
              \/ /\ frame.event \notin FillEvents \cup {"Canceled"}
                 /\ r.state = "Idle" /\ r.callback = "none"
        /\ c.state = "Open" =>
              /\ c.exit # NoOrder
              /\ \/ /\ exits /\ frame.event = "Filled" /\ c.shares = 0
                    /\ r.state = "Close" /\ r.callback = "on_exit"
                 \/ /\ exits /\ frame.event = "Canceled" /\ c.shares # 0
                    /\ r.state = "Open" /\ r.callback = "on_exit_canceled"
                 \/ /\ ~(exits /\ frame.event = "Filled" /\ c.shares = 0)
                    /\ ~(exits /\ frame.event = "Canceled")
                    /\ r.state = "Open" /\ r.callback = "none"
        /\ c.state # "Close"

LEMMA ReactFacts ==
  ASSUME NEW c, NEW frame, c.state \in {"Idle", "Open", "Close"}, frame.id # NoOrder
  PROVE  LET r == React(c, frame)
         IN  /\ r.state \in {"Idle", "Open", "Close"}
             /\ r.callback \in {"on_enter", "on_enter_canceled", "on_exit",
                                "on_exit_canceled", "none"}
             /\ r.fault \in {"none", "null_exit_order", "closed_position", "entry_filled",
                             "no_shares"}
             /\ r.fault = "none" => Reacts(c, frame, r)
<1> USE DEF Reacts
<1>1. CASE c.state = "Idle"
  BY <1>1 DEF React, ReactIdle, Reaction, Ignores, Fails, FillEvents
<1>2. CASE c.state = "Open"
  <2> DEFINE r == React(c, frame)
  <2>1. r = ReactOpen(c, frame)
    BY <1>2 DEF React
  <2>2. CASE c.exit = NoOrder
    <3>1. r = Fails(c, "null_exit_order")
      BY <2>1, <2>2 DEF ReactOpen
    <3> QED BY <1>2, <3>1 DEF Fails
  <2>3. CASE c.exit # NoOrder /\ frame.id = c.exit /\ frame.event = "Filled" /\ c.shares = 0
    <3>1. r = Reaction("Close", "on_exit")
      BY <2>1, <2>3 DEF ReactOpen
    <3> QED BY <1>2, <2>3, <3>1 DEF Reaction
  <2>4. CASE c.exit # NoOrder /\ frame.id = c.exit /\ frame.event = "Canceled"
    <3>1. r = IF c.shares # 0 THEN Reaction("Open", "on_exit_canceled")
              ELSE Fails(c, "no_shares")
      BY <2>1, <2>4 DEF ReactOpen
    <3> QED BY <1>2, <2>4, <3>1 DEF Reaction, Fails
  <2>5. CASE /\ c.exit # NoOrder
             /\ ~(frame.id = c.exit /\ frame.event = "Filled" /\ c.shares = 0)
             /\ ~(frame.id = c.exit /\ frame.event = "Canceled")
    <3>1. r = Ignores(c)
      BY <2>1, <2>5 DEF ReactOpen
    <3> QED BY <1>2, <2>5, <3>1 DEF Reaction, Ignores
  <2> QED BY <2>2, <2>3, <2>4, <2>5
<1>3. CASE c.state = "Close"
  BY <1>3 DEF React, Fails
<1> QED BY <1>1, <1>2, <1>3

\* Nothing but the walk's own announcement waits below an execution.
LEMMA WaitsBelow ==
  ASSUME Typed, Handled, Standing, stack # << >>, Pending(Len(handlers)),
         TopFrame.event \notin {"Submitted", "Accepted"},
         NEW k \in Depth, k # Len(handlers), Pending(k)
  PROVE  /\ TopFrame.event = "Canceled"
         /\ \E p \in Positions : positions[p].entry = TopFrame.id
<1> DEFINE n == Len(handlers)
<1>1. /\ n \in Depth /\ k < n /\ FrameFits(n) /\ FramesFit(k, n) /\ TopFrame = stack[n]
  BY TopFacts
<1>2. handlers[n].caller = "cancel"
  BY <1>1 DEF FrameFits, FramesFit, Making
<1> QED BY <1>1, <1>2 DEF FrameFits, FramesFit

\* A position is told of an event, counts it and reacts.
LEMMA DeliverFacts ==
  ASSUME StrategyTypeOK, fault = "none", Running, Deliver
  PROVE  LET id == TopFrame.id
             p == owner[id]
             was == positions[p]
             q == Top.quantity
             c == Counted(was, TopFrame, q)
             r == React(c, TopFrame)
             new == [c EXCEPT !.state = r.state]
         IN  /\ StrategyTypeOK'
             /\ stack # << >> /\ Top.step = "on_order_updated"
             /\ UNCHANGED << orders, book, cash, shares, allowNegative, volumeLeft, values,
                             barNo, today, cursor, stack >>
             /\ id \in Ids /\ id # NoOrder /\ id \in DOMAIN owner /\ q \in Nat
             /\ p \in Positions /\ was \in PositionRecords /\ was.alive
             /\ was.entry # NoOrder /\ id \in was.made
             /\ r.callback \in {"on_enter", "on_enter_canceled", "on_exit",
                                "on_exit_canceled", "none"}
             /\ r.fault = "none" => Reacts(c, TopFrame, r)
             /\ fault' = "none" => r.fault = "none"
             /\ c.side = was.side /\ c.entry = was.entry /\ c.exit = was.exit
             /\ c.made = was.made /\ c.state = was.state
             /\ q = 0 => c.shares = was.shares
             /\ Held(was) \in Int /\ (c.shares = 0 <=> Held(c) = 0)
             /\ EntersFor(id, was.side) => Held(c) = Held(was) + q
             /\ ExitsFor(id, was.side) => Held(c) = Held(was) - q
             /\ new.side = was.side /\ new.entry = was.entry /\ new.exit = was.exit
             /\ new.made = was.made /\ new.state = r.state /\ new.alive
             /\ new.shares = c.shares /\ Held(new) = Held(c)
             /\ Positions' = Positions /\ Ids' = Ids
             /\ \A s \in Positions : positions'[s] = IF s = p THEN new ELSE positions[s]
             /\ owner' = IF r.callback = "none" THEN Unlinked(id) ELSE owner
             /\ Goto(IF r.callback = "none" THEN "done" ELSE r.callback, p)
<1>1. Typed /\ IInv /\ Handled /\ Standing /\ OwnersFit
  BY DEF Typed, Running, IInv, Inv
<1>2. PICK id, p : id = TopFrame.id /\ p = owner[TopFrame.id]
  OBVIOUS
<1>3. PICK c : c = Counted(positions[p], TopFrame, Top.quantity)
  OBVIOUS
<1>4. PICK r : r = React(c, TopFrame)
  OBVIOUS
<1>5. PICK step : step = IF r.callback = "none" THEN "done" ELSE r.callback
  OBVIOUS
<1>6. /\ stack # << >> /\ Top.step = "on_order_updated"
      /\ id \in DOMAIN owner /\ positions[p].alive
      /\ UNCHANGED << orders, book, cash, shares, allowNegative, volumeLeft, values,
                      barNo, today, cursor, stack >>
      /\ positions' = [positions EXCEPT ![p] = [c EXCEPT !.state = r.state]]
      /\ owner' = IF r.callback = "none" THEN Unlinked(id) ELSE owner
      /\ Goto(step, p)
      /\ IF r.fault = "none" THEN fault' \in {fault, "freed"} ELSE fault' = r.fault
  BY <1>2, <1>3, <1>4, <1>5 DEF Deliver, Handling, Mapped, Survives, Die
<1>7. PICK n : n = Len(handlers)
  OBVIOUS
<1>8. /\ n \in Depth /\ Top = handlers[n] /\ TopFrame = stack[n] /\ FrameFits(n)
      /\ id \in Ids /\ handlers[n] \in HandlerRecords /\ stack[n] \in Frames
      /\ \A k \in Depth : k = n \/ k < n
  BY <1>1, <1>2, <1>6, <1>7, TopFacts, StrategyFacts DEF Typed, Depth
<1>9. id # NoOrder
  BY <1>1, <1>8, StrategyFacts DEF Ids, NoOrder, Typed
<1>10. p \in Positions /\ id \in positions[p].made /\ positions[p].entry # NoOrder
  <2>1. p \in Positions /\ id \in positions[p].made
    BY <1>1, <1>2, <1>6 DEF OwnersFit, StrategyTypeOK
  <2> QED BY <1>1, <2>1, NewPositionFields DEF Standing, PositionFits, Unregistered
<1>11. positions[p] \in PositionRecords /\ positions \in Seq(PositionRecords)
  BY <1>1, <1>10, StrategyFacts DEF Typed
<1>12. PICK was, q : was = positions[p] /\ q = Top.quantity
  OBVIOUS
<1>13. q \in Nat
  BY <1>8, <1>12 DEF HandlerRecords
<1>14. /\ c \in PositionRecords /\ c.side = was.side /\ c.entry = was.entry
       /\ c.exit = was.exit /\ c.made = was.made /\ c.state = was.state
       /\ c.alive = was.alive
       /\ q = 0 => c.shares = was.shares
       /\ Held(was) \in Int /\ (c.shares = 0 <=> Held(c) = 0)
       /\ EntersFor(id, was.side) => Held(c) = Held(was) + q
       /\ ExitsFor(id, was.side) => Held(c) = Held(was) - q
  BY <1>1, <1>2, <1>3, <1>8, <1>10, <1>12, <1>13, CountedFacts
<1>15. was.state \in {"Idle", "Open", "Close"}
  BY <1>11, <1>12 DEF PositionRecords
<1>16. /\ r.state \in {"Idle", "Open", "Close"}
       /\ r.callback \in {"on_enter", "on_enter_canceled", "on_exit",
                          "on_exit_canceled", "none"}
       /\ r.fault \in {"none", "null_exit_order", "closed_position", "entry_filled",
                       "no_shares"}
       /\ r.fault = "none" => Reacts(c, TopFrame, r)
  <2>1. c.state \in {"Idle", "Open", "Close"} /\ TopFrame.id # NoOrder
    BY <1>2, <1>9, <1>14, <1>15
  <2> QED BY <1>4, <2>1, ReactFacts
<1> DEFINE new == [c EXCEPT !.state = r.state]
<1>17. /\ new \in PositionRecords /\ new.side = was.side /\ new.entry = was.entry
       /\ new.exit = was.exit /\ new.made = was.made /\ new.state = r.state
       /\ new.alive = was.alive /\ new.shares = c.shares /\ Held(new) = Held(c)
  BY <1>14, <1>16 DEF PositionRecords, Held
<1>18. positions' = [positions EXCEPT ![p] = new]
  BY <1>6
<1>19. new = [c EXCEPT !.state = r.state]
  OBVIOUS
<1> HIDE DEF new
<1>20. /\ positions' \in Seq(PositionRecords) /\ Len(positions') = Len(positions)
       /\ \A s \in Positions : positions'[s] = IF s = p THEN new ELSE positions[s]
  BY <1>10, <1>11, <1>17, <1>18, ExceptSeq DEF Positions
<1>21. Positions' = Positions /\ Ids' = Ids
  BY <1>6, <1>20 DEF Positions, Ids
<1>22. step \in {"on_enter", "on_enter_canceled", "on_exit", "on_exit_canceled", "done"}
  BY <1>5, <1>16
<1>23. handlers' \in Seq(HandlerRecords') /\ Len(handlers') = Len(handlers)
  <2>1. step \in (Callbacks \ {"on_bars"}) \cup {"done"}
    BY <1>22 DEF Callbacks
  <2> QED BY <1>1, <1>6, <1>10, <1>21, <2>1, GotoTypes
<1>24. StrategyTypeOK'
  <2>1. DOMAIN owner' \subseteq DOMAIN owner /\ \A i \in DOMAIN owner' : owner'[i] = owner[i]
    BY <1>6 DEF Unlinked
  <2>2. fault' \in StrategyFaults
    BY <1>6, <1>16 DEF StrategyFaults, Faults
  <2>3. PositionRecords' = PositionRecords
    BY <1>21 DEF PositionRecords
  <2>4. Len(handlers') = Len(stack')
    BY <1>1, <1>6, <1>23, StrategyFacts DEF Typed
  <2> QED BY <1>20, <1>21, <1>23, <2>1, <2>2, <2>3, <2>4 DEF StrategyTypeOK
<1>25. fault' = "none" => r.fault = "none"
  BY <1>6, <1>16
<1>26. was.alive /\ new.alive
  BY <1>6, <1>12, <1>17
<1>27. /\ r.callback \in {"on_enter", "on_enter_canceled", "on_exit",
                         "on_exit_canceled", "none"}
       /\ Goto(IF r.callback = "none" THEN "done" ELSE r.callback, p)
       /\ \A s \in Positions : positions'[s] = IF s = p THEN new ELSE positions[s]
  BY <1>5, <1>6, <1>16, <1>20
<1>28. /\ id = TopFrame.id /\ p = owner[id] /\ was = positions[p] /\ q = Top.quantity
       /\ c = Counted(was, TopFrame, q) /\ r = React(c, TopFrame)
  BY <1>2, <1>3, <1>4, <1>12
<1>29. /\ id \in Ids /\ id # NoOrder /\ id \in DOMAIN owner /\ q \in Nat
       /\ p \in Positions /\ was \in PositionRecords /\ was.entry # NoOrder
       /\ id \in was.made
  BY <1>6, <1>8, <1>9, <1>10, <1>11, <1>12, <1>13
<1>30. /\ new.side = was.side /\ new.entry = was.entry /\ new.exit = was.exit
       /\ new.made = was.made /\ new.state = r.state /\ new.shares = c.shares
       /\ Held(new) = Held(c)
  BY <1>17
<1> QED BY ONLY <1>6, <1>14, <1>16, <1>19, <1>21, <1>24, <1>25, <1>26, <1>27, <1>28, <1>29,
                <1>30

\* on_order_updated has returned, and the position is told of the event.
LEMMA DeliverRuns ==
  ASSUME StrategyTypeOK, fault = "none", Running, Deliver
  PROVE  StrategyTypeOK' /\ (fault' = "none" => Running')
<1>1. Typed /\ IInv /\ Handled /\ Standing /\ OwnersFit
  BY DEF Typed, Running, IInv, Inv
<1>2. PICK id, p : id = TopFrame.id /\ p = owner[TopFrame.id]
  OBVIOUS
<1>3. PICK was, q : was = positions[p] /\ q = Top.quantity
  OBVIOUS
<1>4. PICK c : c = Counted(was, TopFrame, q)
  OBVIOUS
<1>5. PICK r : r = React(c, TopFrame)
  OBVIOUS
<1>6. PICK new : new = [c EXCEPT !.state = r.state]
  OBVIOUS
<1>7. PICK step : step = IF r.callback = "none" THEN "done" ELSE r.callback
  OBVIOUS
<1>8. /\ StrategyTypeOK'
      /\ stack # << >> /\ Top.step = "on_order_updated"
      /\ UNCHANGED << orders, book, cash, shares, allowNegative, volumeLeft, values,
                      barNo, today, cursor, stack >>
      /\ id \in Ids /\ id # NoOrder /\ id \in DOMAIN owner /\ q \in Nat
      /\ p \in Positions /\ was \in PositionRecords /\ was.alive
      /\ was.entry # NoOrder /\ id \in was.made
      /\ r.callback \in {"on_enter", "on_enter_canceled", "on_exit",
                         "on_exit_canceled", "none"}
      /\ r.fault = "none" => Reacts(c, TopFrame, r)
      /\ fault' = "none" => r.fault = "none"
      /\ c.side = was.side /\ c.entry = was.entry /\ c.exit = was.exit
      /\ c.made = was.made /\ c.state = was.state
      /\ q = 0 => c.shares = was.shares
      /\ Held(was) \in Int /\ (c.shares = 0 <=> Held(c) = 0)
      /\ EntersFor(id, was.side) => Held(c) = Held(was) + q
      /\ ExitsFor(id, was.side) => Held(c) = Held(was) - q
      /\ new.side = was.side /\ new.entry = was.entry /\ new.exit = was.exit
      /\ new.made = was.made /\ new.state = r.state /\ new.alive
      /\ new.shares = c.shares /\ Held(new) = Held(c)
      /\ Positions' = Positions /\ Ids' = Ids
      /\ \A s \in Positions : positions'[s] = IF s = p THEN new ELSE positions[s]
      /\ owner' = IF r.callback = "none" THEN Unlinked(id) ELSE owner
      /\ Goto(step, p)
  BY <1>2, <1>3, <1>4, <1>5, <1>6, <1>7, DeliverFacts
<1> SUFFICES ASSUME fault' = "none" PROVE Running'
  BY <1>8
<1>9. PICK event : event = TopFrame.event
  OBVIOUS
<1>10. PICK n : n = Len(handlers)
  OBVIOUS
<1>11. /\ n \in Depth /\ Top = handlers[n] /\ TopFrame = stack[n] /\ FrameFits(n)
       /\ handlers[n] \in HandlerRecords /\ stack[n] \in Frames
       /\ \A k \in Depth : k = n \/ k < n
  BY <1>1, <1>8, <1>10, TopFacts, StrategyFacts DEF Typed, Depth
<1>12. was.state \in {"Idle", "Open", "Close"}
  BY <1>8 DEF PositionRecords
<1>13. /\ r.fault = "none" /\ was.state # "Close"
       /\ was.state = "Idle" =>
             \/ event \in FillEvents /\ r.state = "Open" /\ r.callback = "on_enter"
             \/ /\ event = "Canceled" /\ orders[was.entry].filled = 0
                /\ r.state = "Close" /\ r.callback = "on_enter_canceled"
             \/ /\ event \notin FillEvents \cup {"Canceled"}
                /\ r.state = "Idle" /\ r.callback = "none"
       /\ was.state = "Open" =>
             /\ was.exit # NoOrder
             /\ \/ /\ id = was.exit /\ event = "Filled" /\ c.shares = 0
                   /\ r.state = "Close" /\ r.callback = "on_exit"
                \/ /\ id = was.exit /\ event = "Canceled" /\ c.shares # 0
                   /\ r.state = "Open" /\ r.callback = "on_exit_canceled"
                \/ /\ ~(id = was.exit /\ event = "Filled" /\ c.shares = 0)
                   /\ ~(id = was.exit /\ event = "Canceled")
                   /\ r.state = "Open" /\ r.callback = "none"
  BY <1>2, <1>8, <1>9 DEF Reacts
<1>14. step \in {"on_enter", "on_enter_canceled", "on_exit", "on_exit_canceled", "done"}
  BY <1>7, <1>8
<1>15. Rests
  <2>1. UNCHANGED orders /\ stack' = stack /\ UNCHANGED fault
    BY <1>8
  <2> QED BY <1>1, <1>8, <2>1, SameForgets DEF Rests, IInv, Inv, TypeOK
<1>16. Pending(n)
  BY <1>8, <1>11 DEF Pending
<1>17. event # "Submitted"
  BY <1>1, <1>2, <1>8, <1>9, <1>11 DEF FrameFits, Handled, MakingFits
<1>18. CASE event = "Accepted"
  <2>1. q = 0 /\ n = 1 /\ \A k \in Depth : k = n
    <3>1. q = 0 /\ n = 1
      BY <1>8, <1>11, <1>3, <1>9, <1>18
         DEF FrameFits, Making, FillEvents, HandlerRecords
    <3> QED BY <1>10, <3>1 DEF Depth
  <2>2. IsActive(orders[id])
    BY <1>1, <1>2, <1>8, <1>11, <1>9, <1>18, <2>1 DEF OwnersFit, EndEvents
  <2>3. step = "done" /\ r.state = was.state
    BY <1>7, <1>12, <1>13, <1>18 DEF FillEvents
  <2>4. new.shares = was.shares
    BY <1>8, <2>1
  <2>5. \A s \in Positions : AsWas(s)
    <3>1. ASSUME NEW s \in Positions, s # p PROVE AsWas(s)
      <4>1. positions'[s] = positions[s]
        BY <1>8, <3>1
      <4> QED BY <4>1 DEF AsWas
    <3>2. AsWas(p)
      <4>1. positions'[p] = new /\ positions[p] = was
        BY <1>3, <1>8
      <4>2. /\ new.side = was.side /\ new.entry = was.entry /\ new.exit = was.exit
            /\ new.made = was.made /\ new.state = was.state /\ new.shares = was.shares
            /\ new.alive /\ was.alive /\ was.entry # NoOrder
        BY <1>8, <2>3, <2>4
      <4>3. was.state # "Close" => positions'[p].alive = was.alive
        <5>1. was.alive \in BOOLEAN /\ positions'[p].alive
          BY <1>8, <4>1, <4>2 DEF PositionRecords
        <5>2. StrategyTypeOK' /\ p \in Positions'
          BY <1>8
        <5>3. positions'[p] \in PositionRecords'
          BY <5>2, ElementOfSeq DEF StrategyTypeOK, Positions
        <5> QED BY <4>2, <5>1, <5>3 DEF PositionRecords
      <4> QED BY ONLY <4>1, <4>2, <4>3 DEF AsWas
    <3> QED BY <3>1, <3>2
  <2>6. Releases(id)
    BY <1>2, <1>8, <1>9, <1>18, <2>2 DEF Releases, Unlinked, EndEvents
  <2>7. Goto("done", p) /\ UNCHANGED stack
    BY <1>8, <2>3
  <2>8. TopFrame.event \in {"Submitted", "Accepted"}
    BY <1>9, <1>18
  <2> QED BY <1>2, <1>8, <1>15, <2>5, <2>6, <2>7, <2>8, DoneRuns
<1>19. CASE event # "Accepted"
  <2>1. event \in {"PartiallyFilled", "Filled", "Canceled"}
    BY <1>8, <1>11, <1>9, <1>17, <1>19 DEF Frames, Events
  <2>2. /\ Lives(id)
        /\ \A i \in Ids \ {id} : Known(i)' = Known(i) /\ (Lives(i)' <=> Lives(i))
        /\ Known(id)' = Known(id) + q
        /\ Lives(id)' <=> IsActive(orders[id])
        /\ event \in FillEvents => n = 1 /\ Known(id)' = orders[id].filled
    <3>1. UNCHANGED << stack, orders >> /\ step # "on_order_updated"
      BY <1>8, <1>14
    <3>2. TopFrame.event \notin {"Submitted", "Accepted"} /\ Pending(Len(handlers))
      BY <1>10, <1>9, <1>16, <1>17, <1>19
    <3> QED BY <1>1, <1>2, <1>8, <1>10, <1>3, <1>9, <3>1, <3>2, ToldViews
  <2>3. \A i \in Ids : Lives(i)' => Lives(i)
    BY <2>2
  <2>4. PICK entry, exit, made, side :
           entry = was.entry /\ exit = was.exit /\ made = was.made /\ side = was.side
    OBVIOUS
  <2>5. /\ entry \in made /\ exit \in made \cup {NoOrder} /\ exit # entry
        /\ EntersFor(entry, side)
        /\ exit # NoOrder => ExitsFor(exit, side) /\ ~Lives(entry)
        /\ \A i \in made : Lives(i) => i \in {entry, exit}
    BY <1>1, <1>8, <1>3, <2>4 DEF Standing, PositionFits, OrdersFit
  <2>6. made \subseteq Ids /\ id \in {entry, exit} /\ entry \in Ids
    BY <1>8, <1>3, <2>2, <2>4, <2>5 DEF PositionRecords
  <2>7. PICK size : size = orders[entry].spec.quantity
    OBVIOUS
  <2>8. /\ was.state = "Idle" =>
              was.shares = 0 /\ exit = NoOrder /\ Lives(entry) /\ Known(entry) = 0
        /\ was.state = "Open" =>
              /\ Held(was) \in 1..size /\ Known(entry) > 0
              /\ exit # NoOrder /\ Lives(exit) =>
                    Held(was) = orders[exit].spec.quantity - Known(exit)
    BY <1>1, <1>8, <1>3, <2>4, <2>7 DEF Standing, PositionFits, StateFits
  <2>9. /\ positions'[p] = new /\ new.side = side /\ new.entry = entry /\ new.exit = exit
        /\ new.made = made /\ new.state = r.state /\ new.alive
        /\ new.shares = c.shares /\ Held(new) = Held(c)
    BY <1>8, <1>3, <2>4
  <2>10. \A i : orders'[i] = orders[i]
    BY <1>8
  <2>11. OrdersFit(p)'
    <3>1. EntersFor(entry, side)' /\ (exit # NoOrder => ExitsFor(exit, side)')
      BY <2>5, <2>10 DEF EntersFor, ExitsFor
    <3>2. exit # NoOrder => ~(Lives(entry)')
      BY <2>3, <2>5, <2>6
    <3>3. \A i \in made : Lives(i)' => i \in {entry, exit}
      BY <2>3, <2>5, <2>6
    <3> QED BY <2>5, <2>9, <3>1, <3>2, <3>3 DEF OrdersFit
  <2>12. q > 0 <=> event \in FillEvents
    BY <1>8, <1>11, <1>3, <1>9 DEF FrameFits
  <2>13. event \in EndEvents => ~IsActive(orders[id])
    BY <1>2, <1>8, <1>11, <1>9 DEF FrameFits
  <2>14. /\ orders[id].filled \in 0..orders[id].spec.quantity
         /\ orders[id].spec.quantity \in Nat /\ orders[id].filled \in Nat
         /\ IsActive(orders[id]) => orders[id].filled # orders[id].spec.quantity
    <3>1. orders[id] \in Orders
      BY <1>1, <1>8, <1>11, StrategyFacts DEF Typed
    <3>2. /\ orders[id].filled \in 0..orders[id].spec.quantity
          /\ orders[id].state = "Filled" <=> Remaining(orders[id]) = 0
      BY <1>1, <1>8, <1>11 DEF IInv, Inv, StateMatchesFill
    <3>3. orders[id].spec.quantity \in Nat
      BY <3>1, SpecsAssumption DEF Orders
    <3> QED BY <3>2, <3>3 DEF Remaining, IsActive
  <2>15. ASSUME NEW k \in Depth, k # n, Pending(k)
         PROVE  event = "Canceled" /\ id = entry
    <3>1. event = "Canceled" /\ \E s \in Positions : positions[s].entry = id
      BY <1>1, <1>2, <1>8, <1>10, <1>9, <1>16, <1>17, <1>19, <2>15, WaitsBelow
    <3>2. PICK s \in Positions : positions[s].entry = id
      BY <3>1
    <3>3. id \in positions[s].made
      BY <1>1, <1>8, <3>2 DEF Standing, PositionFits, OrdersFit
    <3>4. s = p
      BY <1>1, <1>3, <1>8, <3>2, <3>3 DEF Standing
    <3> QED BY <1>3, <2>4, <3>1, <3>2, <3>4
  <2>16. ASSUME PositionFits(p)',
                step = "on_enter" => event \in FillEvents,
                step = "on_exit" => event = "Filled",
                step \in {"on_enter_canceled", "on_exit_canceled"} => event = "Canceled",
                step \in {"on_enter_canceled", "on_exit"} => new.state = "Close",
                \A k \in Depth : k # n /\ Pending(k) =>
                   /\ step = "on_enter_canceled"
                   /\ stack[k].event = "PartiallyFilled" => stack[k].id # id
         PROVE  Running'
    <3>1. UNCHANGED << stack, orders >> /\ stack # << >> /\ Goto(step, p)
      BY <1>8
    <3>2. Pending(Len(handlers)) /\ TopFrame.event \notin {"Submitted", "Accepted"}
      BY <1>10, <1>9, <1>16, <1>17, <1>19
    <3>3. id \in {positions[p].entry, positions[p].exit}
      BY <1>3, <2>4, <2>6
    <3>4. positions[p].state # "Close"
      BY <1>3, <1>13
    <3>5. \A s \in Positions \ {p} : positions'[s] = positions[s]
      BY <1>8
    <3>6. /\ positions'[p].side = positions[p].side /\ positions'[p].entry = positions[p].entry
          /\ positions'[p].made = positions[p].made
      BY <1>3, <2>4, <2>9
    <3>7. owner' = IF step = "done" THEN Unlinked(id) ELSE owner
      BY <1>7, <1>8, <1>13
    <3>8. /\ step = "on_enter" => TopFrame.event \in FillEvents
          /\ step = "on_exit" => TopFrame.event = "Filled"
          /\ step \in {"on_enter_canceled", "on_exit_canceled"} => TopFrame.event = "Canceled"
          /\ step \in {"on_enter_canceled", "on_exit"} => positions'[p].state = "Close"
      BY <1>9, <2>9, <2>16
    <3>9. \A k \in Depth : k # Len(handlers) /\ Pending(k) =>
             /\ step = "on_enter_canceled"
             /\ stack[k].event = "PartiallyFilled" => stack[k].id # id
      BY <1>10, <2>16
    <3>10. PositionFits(p)'
      BY <2>16
    <3> HIDE <2>16
    <3> QED BY <1>2, <1>8, <1>14, <1>15, <3>1, <3>2, <3>3, <3>4, <3>5, <3>6, <3>7, <3>8, <3>9, <3>10, ToldRuns
  <2>17. CASE was.state = "Idle"
    <3>1. id = entry /\ exit = NoOrder /\ Known(id) = 0 /\ Held(was) = 0
      BY <1>8, <2>6, <2>8, <2>17 DEF Held
    <3>2. Held(new) = q /\ (q = 0 => new.shares = 0)
      BY <1>8, <2>4, <2>5, <2>8, <2>9, <2>17, <3>1
    <3>3. CASE event \in FillEvents
      <4>1. r.state = "Open" /\ step = "on_enter" /\ event # "Canceled"
        BY <1>7, <1>13, <2>17, <3>3 DEF FillEvents
      <4>2. Held(new) \in 1..size /\ Known(entry)' > 0
        BY <1>8, <2>2, <2>7, <2>12, <2>14, <3>1, <3>2, <3>3
      <4>3. StateFits(p)'
        BY <2>7, <2>9, <2>10, <3>1, <4>1, <4>2 DEF StateFits
      <4>4. PositionFits(p)'
        BY <2>9, <2>11, <3>1, <1>8, <4>3 DEF PositionFits
      <4> QED BY <2>15, <2>16, <3>3, <4>1, <4>4
    <3>4. CASE event = "Canceled"
      <4>1. r.state = "Close" /\ step = "on_enter_canceled" /\ orders[id].filled = 0
        BY <1>7, <1>13, <2>4, <2>17, <3>1, <3>4 DEF FillEvents
      <4>2. new.shares = 0
        BY <1>8, <2>12, <3>2, <3>4 DEF FillEvents
      <4>3. \A i \in made : ~(Lives(i)')
        BY <2>2, <2>5, <2>6, <2>13, <3>1, <3>4, StrategyFacts, <1>1
           DEF EndEvents, Ids, NoOrder, Typed
      <4>4. StateFits(p)'
        BY <2>9, <4>1, <4>2, <4>3 DEF StateFits
      <4>5. PositionFits(p)'
        BY <2>9, <2>11, <3>1, <1>8, <4>4 DEF PositionFits
      <4>6. ASSUME NEW k \in Depth, Pending(k), stack[k].event = "PartiallyFilled",
                   stack[k].id = id
            PROVE  FALSE
        <5>1. FrameFits(k) /\ handlers[k] \in HandlerRecords
          BY <1>1, StrategyFacts DEF Handled, Typed
        <5>2. k = 1 /\ handlers[k].quantity \in Nat /\ handlers[k].quantity > 0
          BY <4>6, <5>1 DEF FrameFits, FillEvents, HandlerRecords
        <5>3. Untold(id) > 0
          BY <1>8, <4>6, <5>2 DEF Untold
        <5>4. Untold(id) \in Nat
          BY <1>8, <4>6, <5>2 DEF Untold
        <5> QED BY <3>1, <4>1, <5>3, <5>4 DEF Known
      <4> QED BY <2>9, <2>15, <2>16, <3>4, <4>1, <4>5, <4>6
    <3> QED BY <2>1, <3>3, <3>4 DEF FillEvents
  <2>18. CASE was.state = "Open"
    <3>1. exit # NoOrder /\ id = exit /\ id # entry /\ ~Lives(entry)
      BY <1>13, <2>2, <2>4, <2>5, <2>6, <2>18
    <3>2. /\ Held(new) = Held(was) - q /\ Held(was) \in 1..size /\ Known(entry) > 0
          /\ Held(was) = orders[id].spec.quantity - Known(id)
      BY <1>8, <2>2, <2>4, <2>5, <2>8, <2>9, <2>18, <3>1
    <3>3. Known(entry)' > 0 /\ size \in Nat
      <4>1. orders[entry] \in Orders
        BY <1>1, <2>6, StrategyFacts DEF Typed
      <4>2. Known(entry)' = Known(entry)
        BY <2>2, <2>6, <3>1
      <4>3. size \in Nat
        BY <2>7, <4>1, SpecsAssumption DEF Orders
      <4> QED BY <3>2, <4>2, <4>3
    <3>4. Known(id) \in Int
      <4>1. handlers[1] \in HandlerRecords
        <5>1. 1 \in Depth
          BY <1>1, <1>8, StrategyFacts DEF Typed, Depth
        <5> QED BY <1>1, <5>1, StrategyFacts DEF Typed
      <4> QED BY <2>14, <4>1 DEF Known, Untold, HandlerRecords
    <3>5. Held(new) = orders[id].spec.quantity - Known(id)'
      BY <1>8, <2>2, <2>14, <3>2, <3>4
    <3>6. \A k \in Depth : k # n => ~Pending(k)
      BY <2>15, <3>1
    <3>7. CASE Held(new) \in 1..size /\ r.state = "Open"
      <4>1. StateFits(p)'
        BY <2>7, <2>9, <2>10, <3>1, <3>3, <3>5, <3>7 DEF StateFits
      <4>2. PositionFits(p)'
        BY <1>8, <2>6, <2>9, <2>11, <4>1, <1>3, <2>4 DEF PositionFits
      <4>3. step # "on_enter" /\ step # "on_enter_canceled" /\ step # "on_exit"
            /\ (step = "on_exit_canceled" => event = "Canceled")
        BY <1>7, <1>13, <2>18, <3>7
      <4> QED BY <2>16, <3>6, <4>2, <4>3
    <3>8. CASE event = "Canceled"
      <4>1. r.state = "Open" /\ q = 0
        BY <1>8, <1>13, <2>4, <2>12, <2>18, <3>1, <3>8 DEF FillEvents
      <4> QED BY <3>2, <3>3, <3>7, <4>1
    <3>9. CASE event \in FillEvents /\ c.shares # 0
      <4>1. r.state = "Open"
        BY <1>13, <2>18, <3>9
      <4>2. Held(new) # 0 /\ Held(new) = orders[id].spec.quantity - orders[id].filled
        BY <1>8, <2>2, <2>9, <3>5, <3>9
      <4>3. Held(new) \in 1..size
        BY <1>8, <2>14, <3>2, <3>3, <4>2
      <4> QED BY <3>7, <4>1, <4>3
    <3>10. CASE event \in FillEvents /\ c.shares = 0
      <4>1. n = 1 /\ \A k \in Depth : k = n
        <5>1. n = 1
          BY <2>2, <3>10
        <5>2. Depth = 1..n
          BY <1>10 DEF Depth
        <5> QED BY <5>1, <5>2
      <4>2. event = "Filled"
        <5>1. SUFFICES ASSUME event = "PartiallyFilled" PROVE FALSE
          BY <3>10 DEF FillEvents
        <5>2. IsActive(orders[id])
          BY <1>8, <1>11, <1>9, <2>2, <4>1, <5>1 DEF Lives, EndUntold, EndEvents
        <5>3. Held(new) = 0 /\ Held(new) = orders[id].spec.quantity - orders[id].filled
          BY <1>8, <2>2, <2>9, <3>5, <3>10
        <5> QED BY <2>14, <5>2, <5>3
      <4>3. r.state = "Close" /\ step = "on_exit"
        BY <1>7, <1>13, <2>4, <2>18, <3>1, <3>10, <4>2
      <4>4. \A i \in made : ~(Lives(i)')
        BY <2>2, <2>3, <2>5, <2>6, <2>13, <3>1, <4>2 DEF EndEvents
      <4>5. StateFits(p)'
        BY <2>9, <3>10, <4>3, <4>4 DEF StateFits
      <4>6. PositionFits(p)'
        BY <1>8, <1>3, <2>4, <2>9, <2>11, <4>5 DEF PositionFits
      <4> QED BY <2>9, <2>16, <3>6, <3>10, <4>2, <4>3, <4>6
    <3> QED BY <2>1, <3>8, <3>9, <3>10 DEF FillEvents
  <2> QED BY <1>12, <1>13, <2>17, <2>18
<1> QED BY <1>18, <1>19
-----------------------------------------------------------------------------
(***************************************************************************)
(* The invariant holds at first and every step keeps it.                   *)
(***************************************************************************)
LEMMA StartsRunning ==
  ASSUME StrategyInit
  PROVE  StrategyInv
<1>1. /\ fault = "none" /\ stack = << >> /\ orders = << >>
      /\ positions = << >> /\ DOMAIN owner = {} /\ handlers = << >>
  BY DEF StrategyInit, Init
<1>2. Depth = {} /\ Positions = {} /\ Ids = {}
  BY <1>1 DEF Depth, Positions, Ids
<1>3. IInv
  <2>1. NoneInitial /\ History
    BY <1>2 DEF NoneInitial, History
  <2> QED BY <2>1, InitInv DEF IInv, StrategyInit
<1>4. StrategyTypeOK
  BY <1>1, <1>2, EmptySeq DEF StrategyTypeOK, StrategyFaults, Faults
<1>5. Handled /\ Standing
  BY <1>2 DEF Handled, Standing
<1>6. OwnersFit
  BY <1>1, <1>2 DEF OwnersFit
<1> QED BY <1>3, <1>4, <1>5, <1>6 DEF StrategyInv, Running

\* Whatever acts, the program runs.
LEMMA NobodyActs ==
  ASSUME fault # "none", StrategyNext
  PROVE  StrategyEnds
<1>1. ~User
  BY DEF User, Enter, CancelEntry, CancelExit, Exit, May, ClientRuns
<1>2. ~Bars
  BY DEF Bars, OnBars
<1>3. ~WalkOn
  BY DEF WalkOn, VisitOrder, ReturnAccepted, ReturnPartiallyFilled, ReturnFilled,
         ReturnCanceled, WalkResumes
<1>4. ~Handlers
  BY DEF Handlers, Overlook, Deliver, CallbackReturns, ClosingReturns, ReturnToEnter,
         ReturnToExit, ReturnToCancel, ReturnsTo, Handling
<1> QED BY <1>1, <1>2, <1>3, <1>4 DEF StrategyNext

LEMMA StutterRuns ==
  ASSUME StrategyInv, UNCHANGED strategyVars
  PROVE  StrategyInv'
<1>1. UNCHANGED << orders, book, cash, shares, allowNegative, volumeLeft, values, barNo,
                   today, cursor, stack, fault, positions, owner, handlers >>
  BY DEF strategyVars, vars
<1>2. Ids' = Ids /\ Positions' = Positions
  BY <1>1 DEF Ids, Positions
<1>3. StrategyTypeOK'
  BY <1>1, <1>2 DEF StrategyInv, StrategyTypeOK, PositionRecords, HandlerRecords
<1> SUFFICES ASSUME fault = "none" PROVE Running'
  BY <1>1, <1>3 DEF StrategyInv
<1>4. Typed /\ IInv /\ Running
  BY DEF Typed, Running, IInv, Inv, StrategyInv
<1>5. Rests /\ Forgets
  BY <1>1, <1>4, SameForgets DEF Rests, IInv, Inv, TypeOK
<1>6. IInv'
  BY <1>4, <1>5, RestsInv
<1>7. \A p \in Positions : AsWas(p)
  BY <1>1 DEF AsWas
<1> QED BY <1>1, <1>2, <1>4, <1>5, <1>6, <1>7, LetsBe DEF Typed

LEMMA NextRuns ==
  ASSUME Orderly, StrategyInv, [StrategyNext]_strategyVars
  PROVE  StrategyInv'
<1>1. CASE UNCHANGED strategyVars
  BY <1>1, StutterRuns
<1>2. CASE StrategyEnds
  BY <1>2, StutterRuns DEF StrategyEnds, Terminated, strategyVars
<1>3. CASE fault = "none" /\ StrategyNext
  <2>1. StrategyTypeOK /\ Running
    BY <1>3 DEF StrategyInv
  <2>2. CASE User
    BY <1>3, <2>1, <2>2, UserRuns DEF StrategyInv
  <2>3. CASE Bars
    BY <1>3, <2>1, <2>3, BarsRuns DEF StrategyInv
  <2>4. CASE WalkOn
    BY <1>3, <2>1, <2>4, WalkOnRuns DEF StrategyInv
  <2>5. CASE Handlers
    <3>1. CASE Overlook
      BY <1>3, <2>1, <3>1, OverlookRuns DEF StrategyInv
    <3>2. CASE Deliver
      BY <1>3, <2>1, <3>2, DeliverRuns DEF StrategyInv
    <3>3. CASE CallbackReturns
      BY <1>3, <2>1, <3>3, CallbackReturnsRuns DEF StrategyInv
    <3>4. CASE ClosingReturns
      BY <1>3, <2>1, <3>4, ClosingReturnsRuns DEF StrategyInv
    <3>5. CASE ReturnToEnter
      BY <1>3, <2>1, <3>5, ReturnToEnterRuns DEF StrategyInv
    <3>6. CASE ReturnToExit
      BY <1>3, <2>1, <3>6, ReturnToExitRuns DEF StrategyInv
    <3>7. CASE ReturnToCancel
      BY <1>3, <2>1, <3>7, ReturnToCancelRuns DEF StrategyInv
    <3> QED BY <2>5, <3>1, <3>2, <3>3, <3>4, <3>5, <3>6, <3>7 DEF Handlers
  <2> QED BY <1>2, <1>3, <2>2, <2>3, <2>4, <2>5 DEF StrategyNext
<1> QED BY <1>1, <1>2, <1>3, NobodyActs

LEMMA AlwaysRunning ==
  ASSUME Orderly
  PROVE  StrategySpec => []StrategyInv
<1>1. StrategyInit => StrategyInv
  BY StartsRunning
<1>2. StrategyInv /\ [StrategyNext]_strategyVars => StrategyInv'
  BY NextRuns
<1> QED BY <1>1, <1>2, PTL DEF StrategySpec
-----------------------------------------------------------------------------
(***************************************************************************)
(* What positions, their states and the map are between announcements.      *)
(***************************************************************************)
\* Positions, order_to_position_ and the handlers in progress have their types:
\* every id in them is that of an order or a position there is, and a call of
\* on_order_event_ is in progress for every announcement.
THEOREM PositionsTyped ==
  ASSUME Orderly
  PROVE  StrategySpec => []StrategyTypeOK
<1>1. StrategyInv => StrategyTypeOK
  BY DEF StrategyInv
<1> QED BY <1>1, AlwaysRunning, PTL

\* Between announcements a position knows all of its orders.
LEMMA QuietFacts ==
  ASSUME StrategyInv, Quiet
  PROVE  /\ StrategyTypeOK /\ IInv /\ Handled /\ Standing /\ OwnersFit
         /\ \A id \in Ids : ~InTheMaking(id) /\ (Lives(id) <=> IsActive(orders[id]))
                            /\ Known(id) = orders[id].filled
         /\ \A p \in Positions : /\ positions[p].state \in {"Idle", "Open", "Close"}
                                 /\ OrdersFit(p) /\ StateFits(p)
                                 /\ positions[p].entry \in Ids
<1>1. fault = "none" /\ stack = << >> /\ StrategyTypeOK /\ Running
  BY DEF StrategyInv, Quiet
<1>2. IInv /\ Handled /\ Standing /\ OwnersFit /\ Typed
  BY <1>1 DEF Running, Typed, IInv, Inv
<1>3. Depth = {}
  BY <1>1, <1>2, StrategyFacts DEF Depth, Typed
<1>4. ASSUME NEW id \in Ids
      PROVE  ~InTheMaking(id) /\ (Lives(id) <=> IsActive(orders[id]))
             /\ Known(id) = orders[id].filled
  <2>1. orders[id].filled \in Nat
    BY <1>2, StrategyFacts DEF Typed, Orders
  <2> QED BY <1>1, <1>3, <2>1 DEF InTheMaking, Lives, EndUntold, Known, Untold
<1>5. ASSUME NEW p \in Positions
      PROVE  /\ positions[p].state \in {"Idle", "Open", "Close"}
             /\ OrdersFit(p) /\ StateFits(p) /\ positions[p].entry \in Ids
  <2>1. positions[p] \in PositionRecords
    BY <1>2, StrategyFacts DEF Typed
  <2>2. OrdersFit(p) /\ StateFits(p)
    BY <1>2, <1>3 DEF Standing, PositionFits, Unregistered
  <2> QED BY <2>1, <2>2 DEF PositionRecords, OrdersFit
<1> QED BY <1>1, <1>2, <1>4, <1>5

\* The state machine of a position is where its entry order is: Idle while the
\* order works with nothing executed, Open once something was, Close when it
\* ended without, although it is only told so in nested announcements.
THEOREM StatesFollowEntries ==
  ASSUME Orderly
  PROVE  StrategySpec => []StateFollowsEntry
<1>1. ASSUME StrategyInv PROVE StateFollowsEntry
  <2> SUFFICES ASSUME Quiet, NEW p \in Positions
               PROVE  LET entry == orders[positions[p].entry]
                      IN  /\ positions[p].state = "Idle" <=> IsActive(entry) /\ entry.filled = 0
                          /\ positions[p].state = "Open" => entry.filled > 0
    BY DEF StateFollowsEntry
  <2>1. PICK entry : entry = positions[p].entry
    OBVIOUS
  <2>2. /\ (Lives(entry) <=> IsActive(orders[entry])) /\ Known(entry) = orders[entry].filled
        /\ positions[p].state \in {"Idle", "Open", "Close"}
        /\ OrdersFit(p) /\ StateFits(p)
    BY <1>1, <2>1, QuietFacts
  <2>3. positions[p].state = "Idle" => Lives(entry) /\ Known(entry) = 0
    BY <2>1, <2>2 DEF StateFits
  <2>4. positions[p].state = "Open" => Known(entry) > 0
    BY <2>1, <2>2 DEF StateFits
  <2>5. positions[p].state = "Close" => ~Lives(entry)
    BY <2>1, <2>2 DEF StateFits, OrdersFit
  <2>6. Known(entry) > 0 => Known(entry) # 0
    OBVIOUS
  <2> QED BY <2>1, <2>2, <2>3, <2>4, <2>5, <2>6
<1>2. StrategyInv => StateFollowsEntry
  BY <1>1
<1> QED BY <1>2, AlwaysRunning, PTL

\* order_to_position_ has exactly the orders that can trade, each under the
\* registered position that made it: no event of an order is lost to a position,
\* and no order is left behind.
THEOREM EveryOrderHasAnOwner ==
  ASSUME Orderly
  PROVE  StrategySpec => []OrdersHaveOwners
<1>1. ASSUME StrategyInv PROVE OrdersHaveOwners
  <2> SUFFICES ASSUME Quiet
               PROVE  /\ DOMAIN owner = {id \in Ids : IsActive(orders[id])}
                      /\ \A id \in DOMAIN owner : /\ positions[owner[id]].alive
                                                  /\ id \in positions[owner[id]].made
    BY DEF OrdersHaveOwners
  <2>1. StrategyTypeOK /\ OwnersFit /\ Depth = {}
    <3>1. StrategyTypeOK /\ OwnersFit /\ Typed
      BY <1>1, QuietFacts DEF Typed, Quiet, IInv, Inv
    <3> QED BY <3>1, StrategyFacts DEF Depth, Quiet, Typed
  <2>2. ASSUME NEW id \in DOMAIN owner
        PROVE  /\ id \in Ids /\ IsActive(orders[id])
               /\ positions[owner[id]].alive /\ id \in positions[owner[id]].made
    <3>1. id \in Ids /\ owner[id] \in Positions
      BY <2>1 DEF StrategyTypeOK
    <3>2. IsActive(orders[id]) /\ id \in positions[owner[id]].made
      BY <2>1 DEF OwnersFit
    <3>3. Lives(id)
      BY <3>2 DEF Lives
    <3>4. positions[owner[id]].alive
      <4>1. PICK p \in Positions : p = owner[id]
        BY <3>1
      <4>2. StateFits(p) /\ positions[p].state \in {"Idle", "Open", "Close"}
        BY <1>1, QuietFacts
      <4> QED BY <3>2, <3>3, <4>1, <4>2 DEF StateFits
    <3> QED BY <3>1, <3>2, <3>4
  <2>3. ASSUME NEW id \in Ids, IsActive(orders[id]) PROVE id \in DOMAIN owner
    BY <1>1, <2>1, <2>3, QuietFacts DEF OwnersFit, Lives
  <2> QED BY <2>2, <2>3
<1>2. StrategyInv => OrdersHaveOwners
  BY <1>1
<1> QED BY <1>2, AlwaysRunning, PTL

\* The exchange is what it promises to be under a strategy, whose callbacks place
\* and cancel orders inside its announcements and whose positions let go of them:
\* the book has the live orders, their states tell what was executed, and the
\* walk knows where it is.
THEOREM ExchangeUnderStrategy ==
  ASSUME Orderly
  PROVE  StrategySpec => [](fault = "none" => /\ BookHoldsLiveOrders /\ StateMatchesFill
                                              /\ WalkStands)
<1>1. StrategyInv => (fault = "none" => /\ BookHoldsLiveOrders /\ StateMatchesFill
                                        /\ WalkStands)
  BY DEF StrategyInv, Running, IInv, Inv
<1> QED BY <1>1, AlwaysRunning, PTL
-----------------------------------------------------------------------------
(***************************************************************************)
(* A position has the shares of its fills.                                 *)
(*                                                                         *)
(* It learns of executions in Deliver alone: everywhere else what it knows, *)
(* summed over the orders it made, and what it counts stay as they are.     *)
(***************************************************************************)
\* What a sum in the properties is a sum of.
LEMMA ExecutedTotal ==
  ASSUME TypeOK, NEW ids \in SUBSET Ids, NEW actions
  PROVE  Executed(ids, actions) =
            Total([id \in ids |-> IF orders[id].spec.action \in actions
                                  THEN orders[id].filled ELSE 0], ids)
<1> DEFINE n(id) == IF orders[id].spec.action \in actions THEN orders[id].filled ELSE 0
           f == [id \in ids |-> n(id)]
           P(h) == h = [s \in SUBSET ids |->
                          IF s = {} THEN 0
                          ELSE LET x == First(s) IN n(x) + h[s \ {x}]]
<1>1. Executed(ids, actions) = (CHOOSE h : P(h))[ids]
  BY DEF Executed, MapThenSumSet, MapThenFoldSet, First
<1>2. ASSUME NEW s \in SUBSET ids, s # {} PROVE n(First(s)) = f[First(s)]
  BY <1>2, FirstFacts
<1>3. \A h : P(h) <=> SumsUp(h, f, ids)
  BY <1>2 DEF SumsUp
<1>4. IsFiniteSet(ids) /\ \A y \in ids : f[y] \in Int
  <2>1. \A id \in Ids : orders[id].filled \in Nat
    BY OrderTypes DEF Orders
  <2>2. IsFiniteSet(ids)
    BY IdsFinite
  <2> QED BY <2>1, <2>2
<1> HIDE DEF P, f
<1>5. \E h : SumsUp(h, f, ids)
  BY <1>4, SumExists
<1>6. P(CHOOSE h : P(h))
  BY <1>3, <1>5
<1>7. PICK i : SumsUp(i, f, ids) /\ Total(f, ids) = i[ids]
  BY <1>4, TotalFacts
<1>8. ASSUME NEW g, P(g), NEW k, SumsUp(k, f, ids) PROVE g[ids] = k[ids]
  BY <1>3, <1>4, <1>8, SumSame
<1> QED BY <1>1, <1>6, <1>7, <1>8 DEF f

\* What a position knows that its orders of these actions executed.
KnownOf(ids, actions) ==
    [id \in ids |-> IF orders[id].spec.action \in actions THEN Known(id) ELSE 0]

\* The shares of a position are what it knows to be bought less what it knows to be
\* sold, also while announcements are in progress.
SharesFit(p) ==
    LET ids == positions[p].made
    IN  positions[p].shares =
            Total(KnownOf(ids, BuyActions), ids) - Total(KnownOf(ids, SellActions), ids)

\* The invariant, next to StrategyInv.
SharesInv == fault = "none" => \A p \in Positions : SharesFit(p)

\* No position learns anything, or gains or loses an order.
Deaf ==
    /\ Ids \subseteq Ids'
    /\ \A id \in Ids : orders'[id].spec = orders[id].spec /\ Known(id)' = Known(id)

\* The numbers that are summed.
LEMMA KnownNumbers ==
  ASSUME Typed
  PROVE  \A id \in Ids : Known(id) \in Int
<1>1. ASSUME NEW id \in Ids PROVE orders[id].filled \in Nat
  BY StrategyFacts DEF Typed, Orders
<1>3. stack # << >> => handlers[1].quantity \in Nat
  <2>1. stack # << >> => 1 \in Depth
    BY StrategyFacts DEF Typed, Depth
  <2> QED BY <2>1, StrategyFacts DEF Typed, HandlerRecords
<1>4. \A id : Untold(id) \in Nat
  BY <1>3 DEF Untold
<1> QED BY <1>1, <1>4 DEF Known

\* Sums of a position that learns nothing.
LEMMA DeafPosition ==
  ASSUME Typed, Deaf, NEW p \in Positions, SharesFit(p),
         positions'[p].made = positions[p].made, positions'[p].shares = positions[p].shares
  PROVE  SharesFit(p)'
<1> DEFINE ids == positions[p].made
<1>1. ids \subseteq Ids
  BY StrategyFacts DEF Typed, PositionRecords
<1>2. ASSUME NEW actions PROVE KnownOf(ids, actions)' = KnownOf(ids, actions)
  BY <1>1 DEF KnownOf, Deaf
<1> QED BY <1>2 DEF SharesFit

\* No position learns anything, and the only new ones have no orders yet.
LEMMA DeafShares ==
  ASSUME Typed, Deaf, \A p \in Positions : SharesFit(p),
         \A p \in Positions' :
            \/ /\ p \in Positions /\ positions'[p].made = positions[p].made
               /\ positions'[p].shares = positions[p].shares
            \/ positions'[p].made = {} /\ positions'[p].shares = 0
  PROVE  \A p \in Positions' : SharesFit(p)'
<1>1. ASSUME NEW p \in Positions', positions'[p].made = {}, positions'[p].shares = 0
      PROVE  SharesFit(p)'
  <2>1. PICK f, g : f = KnownOf({}, BuyActions)' /\ g = KnownOf({}, SellActions)'
    OBVIOUS
  <2>2. Total(f, {}) = 0 /\ Total(g, {}) = 0
    BY TotalNone
  <2> QED BY <1>1, <2>1, <2>2 DEF SharesFit
<1> QED BY <1>1, DeafPosition

\* A position is told of quantity shares of one of its orders.
LEMMA ToldShares ==
  ASSUME Typed, NEW p \in Positions, SharesFit(p), NEW id \in positions[p].made,
         NEW quantity \in Int, orders' = orders,
         \A i \in Ids \ {id} : Known(i)' = Known(i), Known(id)' = Known(id) + quantity,
         positions'[p].made = positions[p].made,
         positions'[p].shares = IF Buys(orders[id].spec) THEN positions[p].shares + quantity
                                ELSE positions[p].shares - quantity
  PROVE  SharesFit(p)'
<1> DEFINE ids == positions[p].made
           Sum(actions) == Total(KnownOf(ids, actions), ids)
           Later(actions) == Total(KnownOf(ids, actions)', ids)
<1>1. ids \subseteq Ids /\ id \in Ids /\ positions[p].shares \in Int
  BY StrategyFacts DEF Typed, PositionRecords
<1>2. IsFiniteSet(ids)
  BY <1>1, IdsFinite DEF Typed
<1>3. \A i \in Ids : Known(i) \in Int /\ Known(i)' \in Int
  BY KnownNumbers
<1>4. ASSUME NEW actions
      PROVE  /\ Sum(actions) \in Int
             /\ Later(actions) = Sum(actions) + (IF orders[id].spec.action \in actions
                                                 THEN quantity ELSE 0)
  <2>1. PICK f, g : f = KnownOf(ids, actions) /\ g = KnownOf(ids, actions)'
    OBVIOUS
  <2>2. /\ \A i \in ids : f[i] \in Int /\ g[i] \in Int
        /\ \A i \in ids \ {id} : g[i] = f[i]
        /\ g[id] = f[id] + (IF orders[id].spec.action \in actions THEN quantity ELSE 0)
    BY <1>1, <1>3, <2>1 DEF KnownOf
  <2>3. Total(g, ids) = Total(f, ids) + (g[id] - f[id])
    BY <1>2, <2>2, TotalChange
  <2>4. Total(f, ids) \in Int
    BY <1>2, <2>2, TotalFacts
  <2> QED BY <2>1, <2>2, <2>3, <2>4
<1>5. orders[id].spec.action \in BuyActions \cup SellActions
  <2>1. orders[id] \in Orders
    BY <1>1, StrategyFacts DEF Typed
  <2>2. orders[id].spec.action \in Actions
    BY <2>1, SpecsAssumption DEF Orders
  <2> QED BY <2>2 DEF Actions, BuyActions, SellActions
<1>6. BuyActions \cap SellActions = {}
  BY DEF BuyActions, SellActions
<1>7. positions'[p].shares = Later(BuyActions) - Later(SellActions)
  <2>1. positions[p].shares = Sum(BuyActions) - Sum(SellActions)
    BY DEF SharesFit
  <2> HIDE DEF Sum, Later
  <2> QED BY <1>1, <1>4, <1>5, <1>6, <2>1 DEF Buys
<1> QED BY <1>7 DEF SharesFit

\* A new order of a position, of which it knows no execution.
LEMMA MoreShares ==
  ASSUME Typed, Deaf, NEW p \in Positions, SharesFit(p), NEW id \in Ids,
         id \notin positions[p].made, Known(id) = 0,
         positions'[p].made = positions[p].made \cup {id},
         positions'[p].shares = positions[p].shares
  PROVE  SharesFit(p)'
<1> DEFINE ids == positions[p].made
           Sum(actions) == Total(KnownOf(ids, actions), ids)
           Later(actions) == Total(KnownOf(ids \cup {id}, actions)', ids \cup {id})
<1>1. ids \subseteq Ids
  BY StrategyFacts DEF Typed, PositionRecords
<1>2. IsFiniteSet(ids)
  BY <1>1, IdsFinite DEF Typed
<1>3. \A i \in Ids : Known(i) \in Int /\ Known(i)' = Known(i)
  BY KnownNumbers DEF Deaf
<1>4. ASSUME NEW actions PROVE Later(actions) = Sum(actions)
  <2>1. PICK f, g : f = KnownOf(ids, actions) /\ g = KnownOf(ids \cup {id}, actions)'
    OBVIOUS
  <2>2. /\ \A i \in ids : f[i] \in Int /\ g[i] = f[i]
        /\ \A i \in ids \cup {id} : g[i] \in Int
        /\ g[id] = 0
    <3>1. g[id] = 0
      BY <1>3, <2>1 DEF KnownOf
    <3>2. \A i \in ids : f[i] \in Int /\ g[i] = f[i]
      BY <1>1, <1>3, <2>1 DEF KnownOf, Deaf
    <3> QED BY <3>1, <3>2
  <2>3. Total(g, ids \cup {id}) = g[id] + Total(f, ids)
    <3>1. id \notin ids
      OBVIOUS
    <3> HIDE DEF ids
    <3>2. \A i \in ids \cup {id} : g[i] \in Int
      BY <2>2
    <3> QED BY <1>2, <2>2, <3>1, <3>2, TotalMore
  <2>4. Total(f, ids) \in Int
    BY <1>2, <2>2, TotalFacts
  <2> QED BY <2>1, <2>2, <2>3, <2>4
<1>5. positions'[p].shares = Later(BuyActions) - Later(SellActions)
  <2> HIDE DEF Later
  <2> QED BY <1>4 DEF SharesFit
<1> QED BY <1>5 DEF SharesFit
-----------------------------------------------------------------------------
\* What the strategy's own steps leave unseen.
LEMMA CancelIsUnseen ==
  ASSUME Typed, IInv, fault' = "none", NEW id, Cancel(id)
  PROVE  Unseen
<1>1. /\ id \in Ids /\ IsActive(orders[id]) /\ Ids' = Ids
      /\ \A i \in Ids \ {id} : orders'[i] = orders[i]
      /\ orders'[id].spec = orders[id].spec /\ orders'[id].filled = orders[id].filled
      /\ orders'[id].state = "Canceled"
      /\ Frame("Canceled", id, "client") \in Frames
      /\ Pushes("Canceled", id, "cancel", NoPosition)
  BY CancelSteps DEF Cancel, Pushes, Announced
<1> QED BY <1>1, PushUnseen

LEMMA SubmitIsUnseen ==
  ASSUME Typed, IInv, NEW spec \in OrderSpecs, SubmitOrder(spec, TRUE),
         NEW call, NEW p, Announced(call, p)
  PROVE  Unseen
<1>1. PICK id : id = Len(orders) + 1
  OBVIOUS
<1>2. /\ id \notin Ids /\ Ids' = Ids \cup {id}
      /\ \A i \in Ids : orders'[i] = orders[i]
      /\ Frame("Submitted", id, "client") \in Frames
      /\ Pushes("Submitted", id, call, p)
  BY <1>1, SubmitSteps DEF Pushes, Announced
<1> QED BY <1>2, PushUnseen

\* Who sees nothing learns nothing.
LEMMA UnseenDeaf ==
  ASSUME Unseen
  PROVE  Deaf
BY DEF Unseen, Deaf

\* The shares of positions whose records keep them.
LEMMA UnseenShares ==
  ASSUME Typed, Unseen, \A p \in Positions : SharesFit(p),
         Positions' = Positions, \A p \in Positions : AsWas(p)
  PROVE  \A p \in Positions' : SharesFit(p)'
BY UnseenDeaf, DeafShares DEF AsWas

\* Records that are not touched.
LEMMA SamePositionsAsWas ==
  ASSUME positions' = positions
  PROVE  Positions' = Positions /\ \A p \in Positions : AsWas(p)
BY DEF Positions, AsWas

\* The user places and cancels orders.
LEMMA UserShares ==
  ASSUME StrategyTypeOK, fault = "none", fault' = "none", Running, User,
         \A p \in Positions : SharesFit(p)
  PROVE  \A p \in Positions' : SharesFit(p)'
<1>1. Typed /\ IInv /\ Standing
  BY DEF Typed, Running, IInv, Inv
<1>2. ASSUME NEW e \in Entries, Enter(e) PROVE \A p \in Positions' : SharesFit(p)'
  <2>1. EntrySpec(e) \in OrderSpecs
    <3>1. EntrySpec(e) \in Requests
      BY DEF Requests
    <3> QED BY <3>1, RequestsAssumption
  <2>2. Unseen
    BY <1>1, <1>2, <2>1, SubmitIsUnseen DEF Enter
  <2>3. PICK new : /\ positions' = Append(positions, new)
                   /\ new.made = {} /\ new.shares = 0
    BY <1>2, NewPositionFields DEF Enter
  <2> DEFINE S == PositionRecords \cup {new}
  <2>4. positions \in Seq(S) /\ new \in S /\ Len(positions) \in Nat
    BY <1>1, StrategyFacts, SeqMonotonic DEF Typed
  <2> HIDE DEF S
  <2>5. /\ Len(positions') = Len(positions) + 1 /\ positions'[Len(positions) + 1] = new
        /\ \A p \in Positions : positions'[p] = positions[p]
    BY <2>3, <2>4, AppendFacts DEF Positions
  <2>6. Positions' = Positions \cup {Len(positions) + 1}
    BY <2>4, <2>5 DEF Positions
  <2> QED BY <1>1, <2>2, <2>3, <2>5, <2>6, UnseenDeaf, DeafShares
<1>3. ASSUME NEW id, Cancel(id) PROVE \A p \in Positions' : SharesFit(p)'
  <2>1. positions' = positions
    BY <1>3 DEF Cancel
  <2> QED BY <1>1, <1>3, <2>1, CancelIsUnseen, SamePositionsAsWas, UnseenShares
<1>4. ASSUME NEW p \in Reachable, NEW x \in Exits, Exit(p, x)
      PROVE  \A r \in Positions' : SharesFit(r)'
  <2>1. p \in Positions /\ positions[p].entry # NoOrder
    BY <1>1, ReachableHasEntry
  <2>2. CASE Cancel(positions[p].entry)
    BY <1>3, <2>2
  <2>3. CASE /\ positions[p].state = "Open" /\ SubmitOrder(ExitSpec(positions[p], x), TRUE)
             /\ Announced("exit", p) /\ UNCHANGED << positions, owner >>
    <3>1. PICK spec \in OrderSpecs : SubmitOrder(spec, TRUE)
      BY <1>1, <2>1, <2>3, ExitSpecFits
    <3>2. Unseen
      BY <1>1, <2>3, <3>1, SubmitIsUnseen
    <3>3. positions' = positions
      BY <2>3
    <3> QED BY <1>1, <3>2, <3>3, SamePositionsAsWas, UnseenShares
  <2>4. CASE /\ positions[p].state = "Close"
             /\ IF positions[p].alive
                THEN Unregister(p) /\ fault' = fault
                ELSE Die("unregistered_twice") /\ UNCHANGED << positions, orders >>
             /\ UNCHANGED << stack, handlers >>
    <3>1. Unregister(p)
      BY <2>4 DEF Die
    <3>2. Forgets /\ Positions' = Positions /\ \A r \in Positions : AsWas(r)
      BY <1>1, <2>1, <2>4, <3>1, UnregisterFacts
    <3>3. Unseen
      BY <1>1, <2>4, <3>2, SameUnseen
    <3> QED BY <1>1, <3>2, <3>3, UnseenShares
  <2>5. UNCHANGED << book, cash, shares, allowNegative, volumeLeft, values,
                     barNo, today, cursor, stack, owner, handlers >>
           => UNCHANGED << stack, handlers >>
    OBVIOUS
  <2> QED BY <1>4, <2>2, <2>3, <2>4, <2>5 DEF Exit
<1> QED BY <1>2, <1>3, <1>4 DEF User, CancelEntry, CancelExit

\* The exchange gets bars and walks its book: executions are announced later.
LEMMA ExchangeShares ==
  ASSUME StrategyTypeOK, fault = "none", fault' = "none", Running, Bars \/ WalkOn,
         \A p \in Positions : SharesFit(p)
  PROVE  \A p \in Positions' : SharesFit(p)'
<1>1. Typed /\ IInv
  BY DEF Typed, Running, IInv, Inv
<1>2. Unseen
  <2>1. CASE Bars
    <3>1. UNCHANGED << orders, stack, handlers >>
      BY <2>1 DEF Bars, OnBars
    <3> QED BY <1>1, <3>1, SameForgets, SameUnseen DEF IInv, Inv, TypeOK
  <2>2. CASE WalkOn
    <3>1. WalkGoesOn /\ WalkHandled /\ (stack # << >> => handlers[Len(handlers)].step = "done")
      BY <2>2 DEF WalkOn, WalkGoesOn, WalkHandled, Top
    <3> QED BY <1>1, <3>1, WalkUnseen
  <2> QED BY <2>1, <2>2
<1>3. positions' = positions
  BY DEF Bars, WalkOn
<1> QED BY <1>1, <1>2, <1>3, SamePositionsAsWas, UnseenShares

\* A call returns, and enter and exit keep the order they have placed.
LEMMA ReturnShares ==
  ASSUME StrategyTypeOK, fault = "none", fault' = "none", Running,
         ReturnToEnter \/ ReturnToExit \/ ReturnToCancel,
         \A p \in Positions : SharesFit(p)
  PROVE  \A p \in Positions' : SharesFit(p)'
<1>1. Typed /\ IInv /\ Handled /\ Standing
  BY DEF Typed, Running, IInv, Inv
<1>2. ASSUME stack # << >>, Top.step = "done", Returns, Forgets PROVE Unseen
  <2>1. ~Pending(Len(handlers))
    BY <1>2 DEF Pending, Top
  <2> QED BY <1>1, <1>2, <2>1, PopUnseen
<1>3. CASE ReturnToCancel
  <2>1. stack # << >> /\ Top.step = "done" /\ Returns /\ orders' = orders
    BY <1>3 DEF ReturnToCancel, ReturnsTo, Handling, Returns
  <2>2. Unseen
    BY <1>1, <1>2, <2>1, SameForgets DEF IInv, Inv, TypeOK
  <2>3. positions' = positions
    BY <1>3 DEF ReturnToCancel
  <2> QED BY <1>1, <2>2, <2>3, SamePositionsAsWas, UnseenShares
<1>4. ASSUME ReturnToEnter \/ ReturnToExit
      PROVE  \E id \in Ids, p \in Positions :
                /\ stack # << >> /\ Top.step = "done" /\ Returns /\ Forgets
                /\ Known(id) = 0 /\ id \notin positions[p].made
                /\ positions'[p].made = positions[p].made \cup {id}
                /\ positions'[p].shares = positions[p].shares /\ Positions' = Positions
                /\ \A r \in Positions \ {p} : positions'[r] = positions[r]
  <2>1. CASE ReturnToEnter
    <3>1. PICK id, p : id = TopFrame.id /\ p = Top.for
      OBVIOUS
    <3>2. /\ stack # << >> /\ Top.step = "done" /\ Returns /\ orders' = orders
          /\ id \in Ids /\ p \in Positions /\ Known(id) = 0 /\ Positions' = Positions
          /\ positions[p].entry = NoOrder /\ positions[p].made = {}
          /\ positions'[p].made = {id} /\ positions'[p].shares = 0
          /\ \A r \in Positions \ {p} : positions'[r] = positions[r]
      BY <1>1, <2>1, <3>1, EnteredFacts
    <3>3. positions[p].shares = 0
      <4>1. positions[p] = NewPosition(positions[p].side)
        BY <1>1, <3>2 DEF Standing, PositionFits, Unregistered
      <4>2. NewPosition(positions[p].side).shares = 0
        BY NewPositionFields
      <4> QED BY <4>1, <4>2
    <3>4. Forgets
      BY <1>1, <3>2, SameForgets DEF IInv, Inv, TypeOK
    <3> QED BY <3>2, <3>3, <3>4
  <2>2. CASE ReturnToExit
    <3>1. PICK id, p : id = TopFrame.id /\ p = Top.for
      OBVIOUS
    <3>2. /\ stack # << >> /\ Top.step = "done" /\ Returns /\ Forgets
          /\ id \in Ids /\ p \in Positions /\ Known(id) = 0 /\ Positions' = Positions
          /\ \A r \in Positions : id \notin positions[r].made
          /\ positions'[p].made = positions[p].made \cup {id}
          /\ positions'[p].shares = positions[p].shares
          /\ \A r \in Positions \ {p} : positions'[r] = positions[r]
      BY <1>1, <2>2, <3>1, ExitedFacts
    <3> QED BY <3>2
  <2> QED BY <1>4, <2>1, <2>2
<1>5. CASE ReturnToEnter \/ ReturnToExit
  <2>1. PICK id \in Ids, p \in Positions :
           /\ stack # << >> /\ Top.step = "done" /\ Returns /\ Forgets
           /\ Known(id) = 0 /\ id \notin positions[p].made
           /\ positions'[p].made = positions[p].made \cup {id}
           /\ positions'[p].shares = positions[p].shares /\ Positions' = Positions
           /\ \A r \in Positions \ {p} : positions'[r] = positions[r]
    BY <1>4, <1>5
  <2>2. Deaf
    BY <1>2, <2>1, UnseenDeaf
  <2>3. SharesFit(p)'
    BY <1>1, <2>1, <2>2, MoreShares
  <2>4. ASSUME NEW r \in Positions \ {p} PROVE SharesFit(r)'
    BY <1>1, <2>1, <2>2, <2>4, DeafPosition
  <2> QED BY <2>1, <2>3, <2>4
<1> QED BY <1>3, <1>5

\* on_order_event_ without a position to tell.
LEMMA HandlerShares ==
  ASSUME StrategyTypeOK, fault = "none", fault' = "none", Running,
         Overlook \/ CallbackReturns \/ ClosingReturns,
         \A p \in Positions : SharesFit(p)
  PROVE  \A p \in Positions' : SharesFit(p)'
<1>1. Typed /\ IInv /\ Handled /\ Standing /\ OwnersFit
  BY DEF Typed, Running, IInv, Inv
<1>2. /\ stack # << >> /\ Goto("done", NoPosition) /\ UNCHANGED stack
      /\ ~Pending(Len(handlers)) \/ TopFrame.event \in {"Submitted", "Accepted"}
  <2>1. CASE Overlook
    <3>1. /\ stack # << >> /\ Goto("done", NoPosition) /\ UNCHANGED stack
          /\ Top.step = "on_order_updated" /\ ~Mapped(TopFrame.id)
      BY <2>1 DEF Overlook, Handling
    <3> QED BY <1>1, <3>1, UnmappedEvent
  <2>2. CASE CallbackReturns \/ ClosingReturns
    <3>1. /\ stack # << >> /\ Goto("done", NoPosition) /\ UNCHANGED stack
          /\ Top.step # "on_order_updated"
      BY <2>2 DEF CallbackReturns, ClosingReturns, Handling
    <3> QED BY <3>1 DEF Pending, Top
  <2> QED BY <2>1, <2>2
<1>3. Forgets /\ Positions' = Positions /\ \A p \in Positions : AsWas(p)
  <2>1. CASE Overlook \/ CallbackReturns
    <3>1. orders' = orders /\ positions' = positions
      BY <2>1 DEF Overlook, CallbackReturns
    <3> QED BY <1>1, <3>1, SameForgets, SamePositionsAsWas DEF IInv, Inv, TypeOK
  <2>2. CASE ClosingReturns
    <3>1. PICK p : p = Top.position
      OBVIOUS
    <3>2. /\ stack # << >> /\ Top.step \in {"on_enter_canceled", "on_exit"}
          /\ positions[p].alive /\ Unregister(p)
      BY <2>2, <3>1 DEF ClosingReturns, Handling, Die
    <3>3. p \in Positions /\ positions[p].entry # NoOrder /\ positions[p].state = "Close"
      BY <1>1, <3>1, <3>2, TopFacts DEF FrameFits
    <3> QED BY <1>1, <3>2, <3>3, UnregisterFacts
  <2> QED BY <2>1, <2>2
<1>4. Unseen
  BY <1>1, <1>2, <1>3, GotoUnseen
<1> QED BY <1>1, <1>3, <1>4, UnseenShares

\* What on_order_event adds.
LEMMA CountedShares ==
  ASSUME Typed, NEW p \in Positions, NEW frame, NEW quantity \in Nat
  PROVE  Counted(positions[p], frame, quantity).shares =
            IF Buys(orders[frame.id].spec) THEN positions[p].shares + quantity
            ELSE positions[p].shares - quantity
<1>1. positions[p] \in PositionRecords
  BY StrategyFacts DEF Typed
<1> QED BY <1>1 DEF Counted, PositionRecords

\* A position is told of an execution.  No other has the order.
LEMMA DeliverShares ==
  ASSUME StrategyTypeOK, fault = "none", fault' = "none", Running, Deliver,
         \A p \in Positions : SharesFit(p)
  PROVE  \A p \in Positions' : SharesFit(p)'
<1>1. Typed /\ IInv /\ Handled /\ Standing
  BY DEF Typed, Running, IInv, Inv
<1>2. PICK id, p, q, c, step :
         /\ id = TopFrame.id /\ p = owner[id] /\ q = Top.quantity
         /\ c = Counted(positions[p], TopFrame, q)
         /\ step = IF React(c, TopFrame).callback = "none" THEN "done"
                   ELSE React(c, TopFrame).callback
  OBVIOUS
<1>3. /\ stack # << >> /\ Top.step = "on_order_updated" /\ orders' = orders /\ stack' = stack
      /\ id \in Ids /\ q \in Nat /\ p \in Positions /\ id \in positions[p].made
      /\ Positions' = Positions /\ Goto(step, p) /\ step # "on_order_updated"
      /\ positions'[p].made = positions[p].made /\ positions'[p].shares = c.shares
      /\ \A s \in Positions \ {p} : positions'[s] = positions[s]
  BY <1>2, DeliverFacts
<1>4. c.shares = IF Buys(orders[id].spec) THEN positions[p].shares + q
                 ELSE positions[p].shares - q
  BY <1>1, <1>2, <1>3, CountedShares
<1>5. /\ \A i \in Ids \ {id} : Known(i)' = Known(i)
      /\ Known(id)' = Known(id) + q
  <2>1. CASE TopFrame.event \in {"Submitted", "Accepted"}
    <3>1. Forgets
      BY <1>1, <1>3, SameForgets DEF IInv, Inv, TypeOK
    <3>2. Unseen
      BY <1>1, <1>3, <2>1, <3>1, GotoUnseen
    <3>3. q = 0
      BY <1>1, <1>2, <1>3, <2>1, TopFacts DEF FrameFits, FillEvents
    <3>4. Known(id) \in Int
      BY <1>1, <1>3, KnownNumbers
    <3> QED BY <1>3, <3>2, <3>3, <3>4 DEF Unseen
  <2>2. CASE TopFrame.event \notin {"Submitted", "Accepted"}
    <3>1. Pending(Len(handlers))
      BY <1>3 DEF Pending, Top
    <3> QED BY <1>1, <1>2, <1>3, <2>2, <3>1, ToldViews
  <2> QED BY <2>1, <2>2
<1>6. SharesFit(p)'
  BY <1>1, <1>3, <1>4, <1>5, ToldShares
<1>7. ASSUME NEW r \in Positions \ {p} PROVE SharesFit(r)'
  <2>1. positions[r].made \subseteq Ids \ {id}
    <3>1. positions[r].made \subseteq Ids
      BY <1>1, StrategyFacts DEF Typed, PositionRecords
    <3>2. positions[p].made \cap positions[r].made = {}
      BY <1>1, <1>3 DEF Standing
    <3> QED BY <1>3, <3>1, <3>2
  <2>2. ASSUME NEW actions
        PROVE  KnownOf(positions[r].made, actions)' = KnownOf(positions[r].made, actions)
    BY <1>3, <1>5, <2>1 DEF KnownOf
  <2>3. SharesFit(r)
    OBVIOUS
  <2> QED BY <1>3, <2>2, <2>3 DEF SharesFit
<1> QED BY <1>3, <1>6, <1>7

\* Every step keeps the invariant.
LEMMA NextShares ==
  ASSUME StrategyInv, SharesInv, [StrategyNext]_strategyVars
  PROVE  SharesInv'
<1>1. CASE UNCHANGED strategyVars \/ StrategyEnds
  <2>1. UNCHANGED << fault, orders, stack, handlers, positions >>
    BY <1>1 DEF StrategyEnds, Terminated, strategyVars, vars
  <2>2. CASE fault = "none"
    <3>1. Typed
      BY <2>2 DEF StrategyInv, Typed, Running, IInv, Inv
    <3>2. Unseen
      BY <2>1, <3>1, SameForgets, SameUnseen DEF Typed, TypeOK
    <3> QED BY <2>1, <2>2, <3>1, <3>2, SamePositionsAsWas, UnseenShares DEF SharesInv
  <2> QED BY <2>1, <2>2 DEF SharesInv
<1>2. CASE fault' = "none" /\ fault = "none" /\ StrategyNext
  <2>1. StrategyTypeOK /\ Running /\ \A p \in Positions : SharesFit(p)
    BY <1>2 DEF StrategyInv, SharesInv
  <2>2. \A p \in Positions' : SharesFit(p)'
    <3>1. CASE User
      BY <1>2, <2>1, <3>1, UserShares
    <3>2. CASE Bars \/ WalkOn
      BY <1>2, <2>1, <3>2, ExchangeShares
    <3>3. CASE Handlers
      BY <1>2, <2>1, <3>3, HandlerShares, DeliverShares, ReturnShares DEF Handlers
    <3>4. CASE StrategyEnds
      BY <1>1, <1>2, <3>4 DEF SharesInv
    <3> QED BY <1>2, <3>1, <3>2, <3>3, <3>4 DEF StrategyNext
  <2> QED BY <2>2 DEF SharesInv
<1>3. CASE fault' # "none"
  BY <1>3 DEF SharesInv
<1> QED BY <1>1, <1>2, <1>3, NobodyActs

\* Between announcements a position knows everything.
LEMMA QuietShares ==
  ASSUME StrategyInv, SharesInv, Quiet
  PROVE  \A p \in Positions : positions[p].shares = Bought(positions[p])
<1>1. StrategyTypeOK /\ IInv /\ fault = "none" /\ \A id \in Ids : Known(id) = orders[id].filled
  BY QuietFacts DEF Quiet
<1>2. TypeOK /\ Typed
  BY <1>1 DEF Typed, IInv, Inv
<1> SUFFICES ASSUME NEW p \in Positions PROVE positions[p].shares = Bought(positions[p])
  OBVIOUS
<1>3. PICK ids : ids = positions[p].made
  OBVIOUS
<1>4. ids \subseteq Ids
  BY <1>2, <1>3, StrategyFacts DEF Typed, PositionRecords
<1>5. ASSUME NEW actions PROVE Executed(ids, actions) = Total(KnownOf(ids, actions), ids)
  <2>1. KnownOf(ids, actions) = [id \in ids |-> IF orders[id].spec.action \in actions
                                                THEN orders[id].filled ELSE 0]
    BY <1>1, <1>4 DEF KnownOf
  <2> QED BY <1>2, <1>4, <2>1, ExecutedTotal
<1>6. SharesFit(p)
  BY <1>1 DEF SharesInv
<1> QED BY <1>3, <1>5, <1>6 DEF SharesFit, Bought

\* Between announcements a position has exactly the shares that its orders bought
\* less those that they sold, the orders of canceled and replaced exits included:
\* no fill is counted twice, in the wrong direction, or lost to an announcement
\* that was made while the position was busy with another.
THEOREM SharesAreFills ==
  ASSUME Orderly
  PROVE  StrategySpec => []SharesFollowFills
<1>1. StrategyInit => SharesInv
  BY DEF StrategyInit, SharesInv, Positions
<1>2. StrategyInv /\ SharesInv /\ [StrategyNext]_strategyVars => SharesInv'
  BY NextShares
<1>3. StrategyInv /\ SharesInv => SharesFollowFills
  BY QuietShares DEF SharesFollowFills
<1> QED BY <1>1, <1>2, <1>3, AlwaysRunning, PTL DEF StrategySpec
-----------------------------------------------------------------------------
(***************************************************************************)
(* Every registered position is a holding.                                 *)
(***************************************************************************)
\* The program dies.
LEMMA HoldingsDie ==
  ASSUME fault = "none", fault' # "none"
  PROVE  H!Next
BY DEF H!Next, H!Die

\* A step that the holdings do not see.
LEMMA HoldingsStay ==
  ASSUME StrategyTypeOK, fault = "none", fault' = "none", Running,
         Registers' = Registers, \A p \in Registers : positions'[p] = positions[p],
         \A id \in Ids : orders'[id].spec = orders[id].spec
  PROVE  UNCHANGED H!state
<1>1. Typed /\ Standing
  BY DEF Typed, Running, IInv, Inv
<1>2. ASSUME NEW p \in Registers PROVE HoldingOf(positions[p])' = HoldingOf(positions[p])
  <2>1. p \in Positions /\ positions[p].entry # NoOrder
    BY DEF Registers
  <2>2. positions[p].entry \in Ids
    BY <1>1, <2>1, OrderOfPosition
  <2> QED BY <2>2 DEF HoldingOf, Phase, Held
<1> QED BY <1>2 DEF H!state

\* One holding changes, as its position does.
LEMMA HoldingBecomes ==
  ASSUME fault = "none", fault' = "none", Registers' = Registers,
         NEW p \in Registers, NEW phase, NEW held, NEW size,
         size = orders[positions[p].entry].spec.quantity,
         HoldingOf(positions[p])' = [phase |-> phase, size |-> size, held |-> held],
         \A r \in Registers \ {p} : HoldingOf(positions[r])' = HoldingOf(positions[r])
  PROVE  H!Becomes(p, phase, held)
<1>1. PICK a, b : HoldingOf(positions[p]) = [phase |-> a, size |-> size, held |-> b]
  BY DEF HoldingOf
<1>2. [[phase |-> a, size |-> size, held |-> b] EXCEPT !.phase = phase, !.held = held]
      = [phase |-> phase, size |-> size, held |-> held]
  <2> DEFINE h0 == [phase |-> a, size |-> size, held |-> b]
             h1 == [h0 EXCEPT !.phase = phase]
             h2 == [h1 EXCEPT !.held = held]
  <2>1. h1 = [phase |-> phase, size |-> size, held |-> b]
    OBVIOUS
  <2> HIDE DEF h1
  <2>2. h2 = [phase |-> phase, size |-> size, held |-> held]
    BY <2>1
  <2>3. [h0 EXCEPT !.phase = phase, !.held = held] = h2
    BY DEF h1
  <2> HIDE DEF h0, h2
  <2> QED BY <2>2, <2>3 DEF h0
<1>3. HoldingOf(positions[p])' = [HoldingOf(positions[p]) EXCEPT !.phase = phase, !.held = held]
  BY <1>1, <1>2
<1> QED BY <1>3 DEF H!Becomes

\* The others are left alone.
LEMMA OtherHoldings ==
  ASSUME StrategyTypeOK, fault = "none", Running, Positions' = Positions,
         NEW p \in Positions, \A r \in Positions \ {p} : positions'[r] = positions[r],
         (positions'[p].entry # NoOrder) = (positions[p].entry # NoOrder),
         \A id \in Ids : orders'[id].spec = orders[id].spec
  PROVE  /\ Registers' = Registers
         /\ \A r \in Registers \ {p} : HoldingOf(positions[r])' = HoldingOf(positions[r])
<1>1. Typed /\ Standing
  BY DEF Typed, Running, IInv, Inv
<1>2. Registers' = Registers
  BY DEF Registers
<1>3. ASSUME NEW r \in Registers \ {p} PROVE HoldingOf(positions[r])' = HoldingOf(positions[r])
  <2>1. r \in Positions /\ positions[r].entry # NoOrder /\ positions'[r] = positions[r]
    BY <1>3 DEF Registers
  <2>2. positions[r].entry \in Ids
    BY <1>1, <2>1, OrderOfPosition
  <2> QED BY <2>1, <2>2 DEF HoldingOf, Phase, Held
<1> QED BY <1>2, <1>3

\* A closed position leaves.
LEMMA HoldingLeaves ==
  ASSUME StrategyTypeOK, fault = "none", fault' = "none", Running,
         NEW p \in Positions, positions[p].entry # NoOrder, positions[p].state = "Close",
         positions[p].alive, Unregister(p)
  PROVE  H!Next
<1>1. Typed /\ Standing
  BY DEF Typed, Running, IInv, Inv
<1>2. /\ Forgets /\ Positions' = Positions
      /\ \A r \in Positions : AsWas(r) /\ (r # p => positions'[r] = positions[r])
      /\ positions'[p].alive = FALSE
  BY <1>1, UnregisterFacts
<1>3. \A id \in Ids : orders'[id].spec = orders[id].spec
  BY <1>1, <1>2, ForgetsFacts DEF Typed
<1>4. PICK entry, size : entry = positions[p].entry /\ size = orders[entry].spec.quantity
  OBVIOUS
<1>5. positions[p].shares = 0
  BY <1>1 DEF Standing, PositionFits, StateFits
<1>6. /\ entry \in Ids /\ entry # NoOrder /\ positions'[p].entry = entry
      /\ positions'[p].state = "Close" /\ positions'[p].shares = 0
      /\ orders'[entry].spec.quantity = size
  BY <1>1, <1>2, <1>3, <1>4, <1>5, OrderOfPosition DEF AsWas
<1>7. /\ Registers' = Registers /\ p \in Registers
      /\ \A r \in Registers \ {p} : HoldingOf(positions[r])' = HoldingOf(positions[r])
  <2>1. p \in Registers
    BY DEF Registers
  <2>2. (positions'[p].entry # NoOrder) = (positions[p].entry # NoOrder)
    BY <1>4, <1>6
  <2> QED BY <1>2, <1>3, <2>1, <2>2, OtherHoldings
<1>8. HoldingOf(positions[p]).phase = "closed"
  BY DEF HoldingOf, Phase
<1>9. HoldingOf(positions[p])' = [phase |-> "left", size |-> size, held |-> 0]
  BY <1>2, <1>6 DEF HoldingOf, Phase, Held
<1>10. H!Becomes(p, "left", 0)
  BY <1>4, <1>7, <1>9, HoldingBecomes
<1>11. H!Leave(p)
  BY <1>7, <1>8, <1>10 DEF H!Leave
<1> QED BY <1>7, <1>11 DEF H!Next

\* A step that leaves the positions alone.
LEMMA SamePositions ==
  ASSUME StrategyTypeOK, fault = "none", fault' = "none", Running, positions' = positions,
         \A id \in Ids : orders'[id].spec = orders[id].spec
  PROVE  UNCHANGED H!state
<1>1. Registers' = Registers
  BY DEF Registers, Positions
<1> QED BY <1>1, HoldingsStay

\* enter registers its position.
LEMMA EnteringHolds ==
  ASSUME StrategyTypeOK, fault = "none", fault' = "none", Running, ReturnToEnter
  PROVE  H!Next
<1>1. Typed /\ IInv /\ Handled /\ Standing
  BY DEF Typed, Running, IInv, Inv
<1>2. PICK id, p, size : id = TopFrame.id /\ p = Top.for /\ size = orders[id].spec.quantity
  OBVIOUS
<1>3. /\ orders' = orders /\ id \in Ids /\ id # NoOrder /\ p \in Positions
      /\ positions[p].entry = NoOrder /\ Positions' = Positions
      /\ \A r \in Positions \ {p} : positions'[r] = positions[r]
  BY <1>1, <1>2, EnteredFacts
<1>4. /\ positions'[p].entry = id /\ positions'[p].shares = 0 /\ positions'[p].state = "Idle"
  BY <1>1, <1>2, EnteredFacts
<1>5. Registers' = Registers \cup {p} /\ p \notin Registers
  BY <1>3, <1>4 DEF Registers
<1>6. ASSUME NEW r \in Registers PROVE HoldingOf(positions[r])' = HoldingOf(positions[r])
  <2>1. positions'[r] = positions[r]
    BY <1>3, <1>5 DEF Registers
  <2> QED BY <1>3, <2>1 DEF HoldingOf, Phase, Held
<1>7. HoldingOf(positions[p])' = [phase |-> "ordered", size |-> size, held |-> 0]
  BY <1>2, <1>3, <1>4 DEF HoldingOf, Phase, Held
<1>8. size \in Nat
  <2>1. orders[id] \in Orders
    BY <1>1, <1>3, StrategyFacts DEF Typed
  <2> QED BY <1>2, <2>1, SpecsAssumption DEF Orders
<1>9. PICK holdings, later :
         /\ holdings = IF fault = "none" THEN [r \in Registers |-> HoldingOf(positions[r])] ELSE << >>
         /\ later = (IF fault = "none" THEN [r \in Registers |-> HoldingOf(positions[r])] ELSE << >>)'
  OBVIOUS
<1>10. /\ holdings = [r \in Registers |-> HoldingOf(positions[r])]
       /\ later = [r \in Registers |-> HoldingOf(positions[r])]'
  BY <1>9
<1>11. DOMAIN later = Registers \cup {p} /\ DOMAIN holdings = Registers
  BY <1>5, <1>10
<1>12. later[p] = [phase |-> "ordered", size |-> size, held |-> 0]
  BY <1>5, <1>7, <1>10
<1>13. \E r \in DOMAIN later \ DOMAIN holdings :
          /\ later[r].size \in Nat
          /\ later = [q \in DOMAIN holdings \cup {r} |->
                         IF q = r THEN [phase |-> "ordered", size |-> later[r].size, held |-> 0]
                         ELSE holdings[q]]
  <2>1. p \in DOMAIN later \ DOMAIN holdings /\ later[p].size = size
    BY <1>5, <1>11, <1>12
  <2>2. later = [q \in DOMAIN holdings \cup {p} |->
                   IF q = p THEN [phase |-> "ordered", size |-> later[p].size, held |-> 0]
                   ELSE holdings[q]]
    BY <1>5, <1>6, <1>10, <1>11, <1>12, <2>1
  <2> QED BY <1>8, <2>1, <2>2
<1> DEFINE h == IF fault = "none" THEN [r \in Registers |-> HoldingOf(positions[r])] ELSE << >>
<1>14. \E r \in DOMAIN h' \ DOMAIN h :
          /\ h'[r].size \in Nat
          /\ h' = [q \in DOMAIN h \cup {r} |->
                     IF q = r THEN [phase |-> "ordered", size |-> h'[r].size, held |-> 0]
                     ELSE h[q]]
  <2>1. h = holdings /\ h' = later
    BY <1>9
  <2> HIDE DEF h
  <2> QED BY ONLY <1>13, <2>1
<1>15. H!Enter
  BY ONLY <1>14 DEF H!Enter
<1> QED BY <1>15 DEF H!Next

\* exit puts it up for sale, for the first time or again.
LEMMA ExitingHolds ==
  ASSUME StrategyTypeOK, fault = "none", fault' = "none", Running, ReturnToExit
  PROVE  H!Next \/ UNCHANGED H!state
<1>1. Typed /\ IInv /\ Handled /\ Standing
  BY DEF Typed, Running, IInv, Inv
<1>2. PICK id, p, was, new :
         id = TopFrame.id /\ p = Top.for /\ was = positions[p] /\ new = positions'[p]
  OBVIOUS
<1>3. /\ Forgets /\ id \in Ids /\ id # NoOrder /\ p \in Positions /\ Positions' = Positions
      /\ was \in PositionRecords /\ was.entry # NoOrder /\ was.state = "Open"
      /\ \A r \in Positions \ {p} : positions'[r] = positions[r]
  <2>1. NoOrder \notin Ids
    BY <1>1, StrategyFacts DEF Ids, NoOrder, Typed
  <2> QED BY <1>1, <1>2, <2>1, ExitedFacts
<1>4. /\ new.side = was.side /\ new.entry = was.entry /\ new.exit = id
      /\ new.shares = was.shares /\ new.state = was.state
  BY <1>1, <1>2, ExitedFacts
<1>5. \A i \in Ids : orders'[i].spec = orders[i].spec
  BY <1>1, <1>3, ForgetsFacts DEF Typed
<1>6. /\ Registers' = Registers /\ p \in Registers
      /\ \A r \in Registers \ {p} : HoldingOf(positions[r])' = HoldingOf(positions[r])
  <2>1. p \in Registers
    BY <1>2, <1>3 DEF Registers
  <2>2. (positions'[p].entry # NoOrder) = (positions[p].entry # NoOrder)
    BY <1>2, <1>3, <1>4
  <2> QED BY <1>3, <1>5, <2>1, <2>2, OtherHoldings
<1>7. PICK entry, size, held :
         entry = was.entry /\ size = orders[entry].spec.quantity /\ held = Held(was)
  OBVIOUS
<1>8. orders'[entry].spec.quantity = size
  <2>1. entry \in Ids
    BY <1>1, <1>2, <1>3, <1>7, OrderOfPosition
  <2> QED BY <1>5, <1>7, <2>1
<1>9. HoldingOf(positions[p])' = [phase |-> "for sale", size |-> size, held |-> held]
  BY <1>2, <1>3, <1>4, <1>7, <1>8 DEF HoldingOf, Phase, Held
<1>10. CASE was.exit = NoOrder
  <2>1. HoldingOf(positions[p]).phase = "held" /\ HoldingOf(positions[p]).held = held
    BY <1>2, <1>3, <1>7, <1>10 DEF HoldingOf, Phase
  <2>2. H!Becomes(p, "for sale", held)
    BY <1>2, <1>6, <1>7, <1>9, HoldingBecomes
  <2>3. H!TurnAround(p)
    BY <1>6, <2>1, <2>2 DEF H!TurnAround
  <2> QED BY <1>6, <2>3 DEF H!Next
<1>11. CASE was.exit # NoOrder
  <2>1. HoldingOf(positions[p]) = [phase |-> "for sale", size |-> size, held |-> held]
    BY <1>2, <1>3, <1>7, <1>11 DEF HoldingOf, Phase
  <2> QED BY <1>6, <1>9, <2>1 DEF H!state
<1> QED BY <1>10, <1>11

\* A position is told of an event: it acquires, gives up or disposes of shares,
\* or nothing happens to what it holds.
LEMMA DeliveringHolds ==
  ASSUME StrategyTypeOK, fault = "none", fault' = "none", Running, Running', Deliver
  PROVE  H!Next \/ UNCHANGED H!state
<1>1. Typed /\ Handled /\ Standing /\ Standing'
  BY DEF Typed, Running, IInv, Inv
<1>2. PICK id, p, q : id = TopFrame.id /\ p = owner[id] /\ q = Top.quantity
  OBVIOUS
<1>3. PICK was, c, r, new :
         /\ was = positions[p] /\ c = Counted(was, TopFrame, q)
         /\ r = React(c, TopFrame) /\ new = positions'[p]
  OBVIOUS
<1>4. /\ stack # << >> /\ Top.step = "on_order_updated" /\ UNCHANGED << orders, stack >>
      /\ id \in Ids /\ q \in Nat /\ p \in Positions /\ was \in PositionRecords
      /\ was.entry # NoOrder /\ id \in was.made /\ Reacts(c, TopFrame, r)
      /\ c.side = was.side /\ c.exit = was.exit /\ c.state = was.state
      /\ (q = 0 => c.shares = was.shares) /\ Held(was) \in Int
      /\ (ExitsFor(id, was.side) => Held(c) = Held(was) - q)
      /\ Positions' = Positions
      /\ \A s \in Positions \ {p} : positions'[s] = positions[s]
  BY <1>2, <1>3, DeliverFacts
<1>5. /\ new.side = was.side /\ new.entry = was.entry /\ new.exit = was.exit
      /\ new.state = r.state /\ new.alive /\ new.shares = c.shares /\ Held(new) = Held(c)
  BY <1>2, <1>3, DeliverFacts
<1>6. orders' = orders
  BY <1>4
<1>7. /\ Registers' = Registers /\ p \in Registers
      /\ \A s \in Registers \ {p} : HoldingOf(positions[s])' = HoldingOf(positions[s])
  <2>1. p \in Registers
    BY <1>3, <1>4 DEF Registers
  <2>2. (positions'[p].entry # NoOrder) = (positions[p].entry # NoOrder)
    BY <1>3, <1>4, <1>5
  <2> QED BY <1>4, <1>6, <2>1, <2>2, OtherHoldings
<1>8. PICK entry, size : entry = was.entry /\ size = orders[entry].spec.quantity
  OBVIOUS
<1>9. /\ OrdersFit(p)
      /\ was.state = "Idle" => was.shares = 0 /\ was.exit = NoOrder
      /\ was.state = "Open" => Held(was) \in 1..size
  BY <1>1, <1>3, <1>4, <1>8 DEF Standing, PositionFits, StateFits
<1>10. /\ new.state = "Idle" => new.shares = 0
       /\ new.state = "Open" => Held(new) \in 1..size
       /\ new.state = "Close" => new.shares = 0
  <2>1. StateFits(p)'
    BY <1>1, <1>3, <1>4, <1>5 DEF Standing, PositionFits
  <2> QED BY <1>3, <1>5, <1>6, <1>8, <2>1 DEF StateFits
<1>11. /\ HoldingOf(positions[p]) = [phase |-> Phase(was), size |-> size, held |-> Held(was)]
       /\ HoldingOf(positions[p])' = [phase |-> Phase(new), size |-> size, held |-> Held(new)]
  BY <1>3, <1>5, <1>6, <1>8 DEF HoldingOf, Phase, Held
<1>12. /\ HoldingOf(positions[p]).phase = Phase(was)
       /\ HoldingOf(positions[p]).size = size /\ HoldingOf(positions[p]).held = Held(was)
  BY <1>11
<1>13. H!Becomes(p, Phase(new), Held(new))
  BY <1>3, <1>7, <1>8, <1>11, HoldingBecomes
<1>14. Phase(new) = Phase(was) /\ Held(new) = Held(was) => UNCHANGED H!state
  BY <1>7, <1>11 DEF H!state
<1>15. new.shares = 0 => Held(new) = 0
  BY <1>2, <1>3, <1>5, DeliverFacts
<1>16. CASE was.state = "Idle"
  <2>1. Phase(was) = "ordered" /\ Held(was) = 0 /\ new.exit = NoOrder
    BY <1>5, <1>9, <1>16 DEF Phase, Held
  <2>2. CASE new.state = "Idle"
    BY <1>10, <1>14, <1>15, <2>1, <2>2 DEF Phase
  <2>3. CASE new.state = "Open"
    <3>1. Phase(new) = "held"
      BY <2>1, <2>3 DEF Phase
    <3>2. H!Acquire(p)
      BY <1>7, <1>10, <1>12, <1>13, <2>1, <2>3, <3>1 DEF H!Acquire
    <3> QED BY <1>7, <3>2 DEF H!Next
  <2>4. CASE new.state = "Close"
    <3>1. Phase(new) = "closed" /\ Held(new) = 0
      BY <1>5, <1>10, <1>15, <2>4 DEF Phase
    <3>2. H!GiveUp(p)
      BY <1>7, <1>12, <1>13, <2>1, <3>1 DEF H!GiveUp
    <3> QED BY <1>7, <3>2 DEF H!Next
  <2> QED BY <1>4, <1>5, <1>16, <2>2, <2>3, <2>4 DEF Reacts
<1>17. CASE was.state = "Open"
  <2>1. was.exit # NoOrder /\ new.state \in {"Open", "Close"}
    BY <1>4, <1>5, <1>17 DEF Reacts
  <2>2. Phase(was) = "for sale"
    BY <1>17, <2>1 DEF Phase
  <2>3. CASE new.state = "Open" /\ q = 0
    <3>1. Phase(new) = "for sale" /\ Held(new) = Held(was)
      BY <1>4, <1>5, <2>1, <2>3 DEF Phase, Held
    <3> QED BY <1>14, <2>2, <3>1
  <2>4. CASE new.state = "Open" /\ q # 0
    <3>1. id = was.exit
      <4>1. PICK n : n = Len(handlers)
        OBVIOUS
      <4>2. /\ n \in Depth /\ Top = handlers[n] /\ TopFrame = stack[n] /\ FrameFits(n)
        BY <1>1, <1>4, <4>1, TopFacts
      <4>3. Pending(n) /\ TopFrame.event \in FillEvents
        BY <1>2, <1>4, <2>4, <4>2 DEF Pending, FrameFits
      <4>4. Lives(id)
        BY <1>2, <4>2, <4>3 DEF FrameFits, Lives, EndUntold, FillEvents, EndEvents
      <4> QED BY <1>3, <1>4, <1>9, <2>1, <4>4 DEF OrdersFit
    <3>2. Held(new) = Held(was) - q
      BY <1>3, <1>4, <1>5, <1>9, <2>1, <3>1 DEF OrdersFit
    <3>3. Phase(new) = "for sale"
      BY <1>5, <2>1, <2>4 DEF Phase
    <3>4. size \in Nat
      <4>1. entry \in Ids
        BY <1>1, <1>3, <1>4, <1>8, OrderOfPosition
      <4>2. orders[entry] \in Orders
        BY <1>1, <4>1, StrategyFacts DEF Typed
      <4> QED BY <1>8, <4>2, SpecsAssumption DEF Orders
    <3>5. Held(new) \in 0 .. Held(was) - 1 /\ Held(new) # 0
      BY <1>4, <1>9, <1>10, <1>17, <2>4, <3>2, <3>4
    <3>6. H!Dispose(p)
      BY <1>7, <1>12, <1>13, <2>2, <3>3, <3>5 DEF H!Dispose
    <3> QED BY <1>7, <3>6 DEF H!Next
  <2>5. CASE new.state = "Close"
    <3>1. Phase(new) = "closed" /\ Held(new) = 0
      BY <1>5, <1>10, <1>15, <2>5 DEF Phase
    <3>2. 0 \in 0 .. Held(was) - 1
      BY <1>4, <1>9, <1>17
    <3>3. H!Dispose(p)
      BY <1>7, <1>12, <1>13, <2>2, <3>1, <3>2 DEF H!Dispose
    <3> QED BY <1>7, <3>3 DEF H!Next
  <2> QED BY <2>1, <2>3, <2>4, <2>5
<1>18. was.state # "Close" /\ was.state \in {"Idle", "Open", "Close"}
  BY <1>4 DEF Reacts, PositionRecords
<1> QED BY <1>16, <1>17, <1>18

\* An order of a position is cancelled.
LEMMA CancellingHolds ==
  ASSUME StrategyTypeOK, fault = "none", fault' = "none", Running, NEW id, Cancel(id)
  PROVE  UNCHANGED H!state
<1>1. /\ id \in Ids /\ orders'[id].spec = orders[id].spec
      /\ \A i \in Ids \ {id} : orders'[i] = orders[i]
  BY CancelSteps DEF Cancel, Running
<1>2. positions' = positions
  BY DEF Cancel
<1> QED BY <1>1, <1>2, SamePositions

\* What the user does.
LEMMA UsersHold ==
  ASSUME StrategyTypeOK, fault = "none", fault' = "none", Running, User
  PROVE  H!Next \/ UNCHANGED H!state
<1>1. Typed /\ IInv /\ Standing
  BY DEF Typed, Running, IInv, Inv
<1>2. ASSUME NEW e \in Entries, Enter(e) PROVE UNCHANGED H!state
  <2>1. EntrySpec(e) \in OrderSpecs
    <3>1. EntrySpec(e) \in Requests
      BY DEF Requests
    <3> QED BY <3>1, RequestsAssumption
  <2>2. \A id \in Ids : orders'[id] = orders[id]
    BY <1>1, <1>2, <2>1, SubmitSteps DEF Enter
  <2>3. PICK new : positions' = Append(positions, new) /\ new.entry = NoOrder
    BY <1>2, NewPositionFields DEF Enter
  <2> DEFINE S == PositionRecords \cup {new}
  <2>4. positions \in Seq(S) /\ new \in S /\ Len(positions) \in Nat
    BY <1>1, StrategyFacts, SeqMonotonic DEF Typed
  <2> HIDE DEF S
  <2>5. /\ Len(positions') = Len(positions) + 1 /\ positions'[Len(positions) + 1] = new
        /\ \A p \in Positions : positions'[p] = positions[p]
    BY <2>3, <2>4, AppendFacts DEF Positions
  <2>6. Positions' = Positions \cup {Len(positions) + 1}
    BY <2>4, <2>5 DEF Positions
  <2>7. Registers' = Registers /\ \A p \in Registers : positions'[p] = positions[p]
    BY <2>3, <2>5, <2>6 DEF Registers
  <2> QED BY <2>2, <2>7, HoldingsStay
<1>3. ASSUME NEW p, CancelEntry(p) \/ CancelExit(p) PROVE UNCHANGED H!state
  <2>1. PICK id : Cancel(id)
    BY <1>3 DEF CancelEntry, CancelExit
  <2> QED BY <2>1, CancellingHolds
<1>4. ASSUME NEW p \in Reachable, NEW x \in Exits, Exit(p, x)
      PROVE  H!Next \/ UNCHANGED H!state
  <2>1. p \in Positions /\ positions[p].entry # NoOrder
    BY <1>1, ReachableHasEntry
  <2>2. CASE Cancel(positions[p].entry)
    <3>1. PICK id : Cancel(id)
      BY <2>2
    <3> QED BY <3>1, CancellingHolds
  <2>3. CASE /\ positions[p].state = "Open" /\ SubmitOrder(ExitSpec(positions[p], x), TRUE)
             /\ UNCHANGED << positions, owner >>
    <3>1. PICK spec \in OrderSpecs : SubmitOrder(spec, TRUE)
      BY <1>1, <2>1, <2>3, ExitSpecFits
    <3>2. \A id \in Ids : orders'[id] = orders[id]
      BY <1>1, <3>1, SubmitSteps
    <3>3. positions' = positions
      BY <2>3
    <3> QED BY <3>2, <3>3, SamePositions
  <2>4. CASE /\ positions[p].state = "Close"
             /\ IF positions[p].alive
                THEN Unregister(p) /\ fault' = fault
                ELSE Die("unregistered_twice") /\ UNCHANGED << positions, orders >>
    <3>1. positions[p].alive /\ Unregister(p)
      BY <2>4 DEF Die
    <3> QED BY <2>1, <2>4, <3>1, HoldingLeaves
  <2> QED BY <1>4, <2>2, <2>3, <2>4 DEF Exit
<1> QED BY <1>2, <1>3, <1>4 DEF User

\* What the exchange does.
LEMMA ExchangeHolds ==
  ASSUME StrategyTypeOK, fault = "none", fault' = "none", Running, Bars \/ WalkOn
  PROVE  UNCHANGED H!state
<1>1. positions' = positions
  BY DEF Bars, WalkOn
<1>2. CASE Bars
  <2>1. orders' = orders
    BY <1>2 DEF Bars, OnBars
  <2> QED BY <1>1, <2>1, SamePositions
<1>3. CASE WalkOn
  <2>1. WalkGoesOn /\ IInv
    BY <1>3 DEF WalkOn, WalkGoesOn, Running
  <2>2. \A id \in Ids : orders'[id].spec = orders[id].spec
    BY <2>1, WalkSteps
  <2> QED BY <1>1, <2>2, SamePositions
<1> QED BY <1>2, <1>3

\* What handlers do.
LEMMA HandlersHold ==
  ASSUME StrategyTypeOK, fault = "none", fault' = "none", Running, Running', Handlers
  PROVE  H!Next \/ UNCHANGED H!state
<1>1. CASE Overlook \/ CallbackReturns \/ ReturnToCancel
  <2>1. UNCHANGED << orders, positions >>
    BY <1>1 DEF Overlook, CallbackReturns, ReturnToCancel
  <2>2. orders' = orders /\ positions' = positions
    BY <2>1
  <2> QED BY <2>2, SamePositions
<1>2. CASE Deliver
  BY <1>2, DeliveringHolds
<1>3. CASE ClosingReturns
  <2>1. Typed /\ Handled
    BY DEF Typed, Running, IInv, Inv
  <2>2. PICK p : p = Top.position
    OBVIOUS
  <2>3. /\ stack # << >> /\ Top.step \in {"on_enter_canceled", "on_exit"}
        /\ positions[p].alive /\ Unregister(p)
    BY <1>3, <2>2 DEF ClosingReturns, Handling, Die
  <2>4. p \in Positions /\ positions[p].entry # NoOrder /\ positions[p].state = "Close"
    BY <2>1, <2>2, <2>3, TopFacts DEF FrameFits
  <2> QED BY <2>3, <2>4, HoldingLeaves
<1>4. CASE ReturnToEnter
  BY <1>4, EnteringHolds
<1>5. CASE ReturnToExit
  BY <1>5, ExitingHolds
<1> QED BY <1>1, <1>2, <1>3, <1>4, <1>5 DEF Handlers

\* Every step of the strategy is one of its holdings or none.
LEMMA NextHolds ==
  ASSUME StrategyInv, StrategyInv', [StrategyNext]_strategyVars
  PROVE  [H!Next]_H!state
<1>1. CASE UNCHANGED << fault, orders, positions >>
  <2>1. fault' = fault /\ orders' = orders /\ positions' = positions
    BY <1>1
  <2>2. Registers' = Registers
    BY <2>1 DEF Registers, Positions
  <2>3. \A p \in Registers : HoldingOf(positions[p])' = HoldingOf(positions[p])
    BY <2>1 DEF HoldingOf, Phase, Held
  <2> QED BY <2>1, <2>2, <2>3 DEF H!state
<1>2. CASE UNCHANGED strategyVars \/ StrategyEnds
  <2>1. UNCHANGED << fault, orders, positions >>
    BY <1>2 DEF StrategyEnds, Terminated, strategyVars, vars
  <2> QED BY <1>1, <2>1
<1>3. CASE fault = "none" /\ fault' # "none"
  BY <1>3, HoldingsDie
<1>4. CASE fault = "none" /\ fault' = "none" /\ StrategyNext
  <2>1. StrategyTypeOK /\ Running /\ Running'
    BY <1>4 DEF StrategyInv
  <2>2. CASE User
    BY <1>4, <2>1, <2>2, UsersHold
  <2>3. CASE Bars \/ WalkOn
    BY <1>4, <2>1, <2>3, ExchangeHolds
  <2>4. CASE Handlers
    BY <1>4, <2>1, <2>4, HandlersHold
  <2> QED BY <1>2, <1>4, <2>2, <2>3, <2>4 DEF StrategyNext
<1> QED BY <1>2, <1>3, <1>4, NobodyActs

\* Every position the strategy registers is a holding, which is bought once, is
\* put up for sale, sold only as far as it is held and left when it is closed,
\* whatever the user and the exchange do while its announcements are on their way.
THEOREM PositionsAreHoldings ==
  ASSUME Orderly
  PROVE  StrategySpec => ImplementsHolding
<1>1. StrategyInit => H!Init
  <2> SUFFICES ASSUME StrategyInit PROVE H!Init
    OBVIOUS
  <2>1. fault = "none" /\ positions = << >>
    BY DEF StrategyInit, Init
  <2>2. Registers = {}
    BY <2>1 DEF Registers, Positions
  <2>3. [p \in Registers |-> HoldingOf(positions[p])] = << >>
    BY <2>2
  <2> QED BY <2>1, <2>3 DEF H!Init
<1>2. StrategyInv /\ StrategyInv' /\ [StrategyNext]_strategyVars => [H!Next]_H!state
  BY NextHolds
<1> QED BY <1>1, <1>2, AlwaysRunning, PTL DEF StrategySpec, ImplementsHolding, H!Spec
=============================================================================
