------------------------- MODULE ExchangeStepProofs -------------------------
(***************************************************************************)
(* What a step of the exchange may do to an order, for every value of the   *)
(* constants: the action properties of ExchangeProperties, and that the     *)
(* exchange implements the Brokerage.                                      *)
(*                                                                         *)
(* All of it rests on one lemma, StepKinds, which sorts the steps by what   *)
(* becomes of the orders: nothing, or one is placed, cancelled, accepted,   *)
(* looked at or executed.                                                  *)
(***************************************************************************)
EXTENDS ExchangeProofs, ExchangeAccount, FiniteSetTheorems

\* Order id becomes o, and no other order changes.
Becomes(id, o) ==
    /\ o \in Orders /\ o.spec = orders[id].spec
    /\ Len(orders') = Len(orders) /\ orders'[id] = o
    /\ \A i \in Ids \ {id} : orders'[i] = orders[i]

\* The last announcement that was begun in this step is this one.
Announces(event, id) ==
    /\ stack' # << >> /\ stack' # stack /\ Len(stack') >= Len(stack)
    /\ stack'[Len(stack')].event = event /\ stack'[Len(stack')].id = id

\* No announcement begins.
NothingBegins == stack' = stack \/ stack' = << >> \/ Len(stack') < Len(stack)

\* Only the start of a walk, which counts the bars, gives symbols their volume.
Idles ==
    /\ orders' = orders /\ UNCHANGED << cash, shares >> /\ NothingBegins
    /\ UNCHANGED volumeLeft \/ barNo' # barNo

Places(o) ==
    /\ o \in Orders /\ Len(orders) < MaxOrders
    /\ o.state = "Submitted" /\ o.filled = 0 /\ o.paid = 0 /\ o.accepted = 0
    /\ o.placed = barNo /\ o.inWalk = (cursor # NoCursor)
    /\ orders' = Append(orders, o)
    /\ UNCHANGED << cash, shares, volumeLeft, barNo, today, cursor >>
    /\ Announces("Submitted", Len(orders) + 1)

Cancels(id) ==
    /\ IsActive(orders[id]) /\ orders[id].state # "Initial"
    /\ Becomes(id, [orders[id] EXCEPT !.state = "Canceled"])
    /\ UNCHANGED << cash, shares, volumeLeft, barNo, today >>
    /\ Announces("Canceled", id)

Accepts(id) ==
    /\ orders[id].state = "Submitted"
    /\ Becomes(id, [orders[id] EXCEPT !.state = "Accepted", !.accepted = today])
    /\ UNCHANGED << cash, shares, volumeLeft, barNo, today >>
    /\ Announces("Accepted", id)

\* A fill attempt that executes nothing may find the stop hit.
LooksAt(id) ==
    /\ orders[id].state \in {"Accepted", "PartiallyFilled"}
    /\ \E hit \in BOOLEAN : Becomes(id, [orders[id] EXCEPT !.stopHit = hit])
    /\ UNCHANGED << cash, shares, volumeLeft, barNo, today >>
    /\ stack' = << >>

\* The order's bar, the volume it finds and the fill that this makes.
BarOf(id) == values[orders[id].spec.symbol]
LeftFor(id) == volumeLeft[orders[id].spec.symbol]
FillOf(id) == Process(orders[id], BarOf(id), LeftFor(id))

\* The execution of order id, which came to be after it.
ExecutesAs(id, o) ==
    LET spec == orders[id].spec
    IN  /\ id = cursor /\ orders[id].state \in {"Accepted", "PartiallyFilled"}
        /\ spec.symbol \in DOMAIN values /\ LeftFor(id) \in Nat
        /\ ~Expired(orders[id])
        /\ FillOf(id).outcome = "fill" /\ Affordable(spec, FillOf(id))
        /\ Becomes(id, o)
        /\ o.filled = orders[id].filled + FillOf(id).quantity
        /\ o.paid = orders[id].paid + FillOf(id).price * FillOf(id).quantity
        /\ o.state = IF o.filled = spec.quantity THEN "Filled" ELSE "PartiallyFilled"
        /\ o.accepted = orders[id].accepted /\ o.placed = orders[id].placed
        /\ o.inWalk = orders[id].inWalk
        /\ cash' = CashAfter(spec, FillOf(id))
        /\ shares' \in SharesAfter(spec, FillOf(id).quantity)
        /\ volumeLeft' = OnOrderFilled(spec.symbol, FillOf(id).quantity)
        /\ UNCHANGED << barNo, today, cursor >>
        /\ Announces(o.state, id)

-----------------------------------------------------------------------------
(***************************************************************************)
(* The kinds of steps.                                                     *)
(***************************************************************************)
\* Replacing an order by one of the same specification.
LEMMA BecomesFacts ==
  ASSUME orders \in Seq(Orders), NEW id \in Ids, NEW o \in Orders,
         o.spec = orders[id].spec, orders' = [orders EXCEPT ![id] = o]
  PROVE  Becomes(id, o)
<1>1. /\ Len(orders') = Len(orders)
      /\ \A i \in Ids : orders'[i] = IF i = id THEN o ELSE orders[i]
  BY ReplaceOrder
<1> QED BY <1>1 DEF Becomes

\* The elements of the list of orders, and their specifications.
LEMMA OrderTypes ==
  ASSUME TypeOK, NEW id \in Ids
  PROVE  orders[id] \in Orders /\ orders \in Seq(Orders) /\ orders[id].spec \in OrderSpecs
<1>1. orders[id] \in Orders /\ orders \in Seq(Orders)
  BY ElementOfSeq DEF TypeOK, Ids
<1> QED BY <1>1 DEF Orders

\* An announcement nested in others, or alone, is the last that was begun.
LEMMA NestedAnnounces ==
  ASSUME NEW event \in Events, NEW id \in Nat \ {0}, stack \in Seq(Frames),
         stack' = AnnounceToCaller(event, id)
  PROVE  Announces(event, id)
<1> DEFINE frame == Frame(event, id, "client")
<1>1. frame \in Frames /\ frame.event = event /\ frame.id = id
  BY DEF Frame, Frames
<1>2. stack' = Append(stack, frame)
  BY DEF AnnounceToCaller
<1> HIDE DEF frame
<1> QED BY <1>1, <1>2, AppendFacts DEF Announces

\* An announcement of the walk, made when it stands before an order or after
\* the acceptance.
LEMMA WalkAnnounces ==
  ASSUME NEW event \in Events, NEW id \in Ids, orders \in Seq(Orders),
         stack' = AnnounceFromWalk(event, id),
         stack = << >> \/ (Len(stack) = 1 /\ stack[1].event # event)
  PROVE  Announces(event, id)
<1>1. /\ stack' \in Seq(Frames) /\ Len(stack') = 1 /\ stack' # << >>
      /\ stack'[1].event = event /\ stack'[1].id = id
  BY OneFrame
<1>2. CASE stack = << >>
  BY <1>1, <1>2 DEF Announces
<1>3. CASE Len(stack) = 1 /\ stack[1].event # event
  BY <1>1, <1>3 DEF Announces
<1> QED BY <1>2, <1>3

\* submit_order places an order.
LEMMA SubmitPlaces ==
  ASSUME Inv, NEW spec \in OrderSpecs, NEW kept \in KeepsOrder, SubmitOrder(spec, kept)
  PROVE  \E o \in Orders : Places(o)
<1> DEFINE new == NewOrder(spec, kept)
           o == SwitchState(new, "Submitted")
<1>1. new \in Orders /\ new.state = "Initial" /\ new.filled = 0 /\ new.paid = 0
      /\ new.accepted = 0 /\ new.placed = barNo /\ new.inWalk = (cursor # NoCursor)
  BY BoundsAssumption DEF NewOrder, Orders, Inv, TypeOK, States, SubmitOrder, ClientRuns
<1>2. o = [new EXCEPT !.state = "Submitted"]
  <2> HIDE DEF new
  <2> QED BY <1>1 DEF SwitchState, ValidStates
<1> HIDE DEF new
<1>3. /\ o \in Orders /\ o.state = "Submitted" /\ o.filled = 0 /\ o.paid = 0
      /\ o.accepted = 0 /\ o.placed = barNo /\ o.inWalk = (cursor # NoCursor)
  BY <1>1, <1>2 DEF Orders, States
<1>4. Announces("Submitted", Len(orders) + 1)
  <2>1. Len(orders) + 1 \in Nat \ {0}
    BY LenProperties DEF Inv, TypeOK
  <2> QED BY <2>1, NestedAnnounces DEF Inv, TypeOK, SubmitOrder, Events
<1>5. /\ orders' = Append(orders, o) /\ Len(orders) < MaxOrders
      /\ UNCHANGED << cash, shares, volumeLeft, barNo, today, cursor >>
  BY DEF SubmitOrder, new
<1> QED BY <1>3, <1>4, <1>5 DEF Places

\* A switch to Canceled that Order::state_table allows.
LEMMA SwitchToCanceled ==
  ASSUME NEW o \in Orders, IsActive(o)
  PROVE  /\ SwitchState(o, "Canceled") = [o EXCEPT !.state = "Canceled"]
         /\ [o EXCEPT !.state = "Canceled"] \in Orders
         /\ [o EXCEPT !.state = "Canceled"].spec = o.spec
BY DEF SwitchState, ValidStates, IsActive, Orders, States

\* A registered order has been submitted: no order is ever in its first state.
NoneInitial == \A id \in Ids : orders[id].state # "Initial"

\* cancel_order cancels, or dies in the attempt.
LEMMA CancelCancels ==
  ASSUME Inv, NoneInitial, NEW id \in book, CancelOrder(id)
  PROVE  Idles \/ (id \in Ids /\ Cancels(id))
<1>1. /\ id \in Ids /\ IsActive(orders[id])
      /\ UNCHANGED << cash, shares, volumeLeft, barNo, today >>
  BY DEF CancelOrder, Cancellable, Inv, TypeOK
<1>2. orders[id] \in Orders /\ orders \in Seq(Orders)
  BY <1>1, OrderTypes DEF Inv
<1>3. CASE /\ orders' = [orders EXCEPT ![id] = SwitchState(@, "Canceled")]
           /\ stack' = AnnounceToCaller("Canceled", id)
  <2>1. Becomes(id, [orders[id] EXCEPT !.state = "Canceled"])
    BY <1>1, <1>2, <1>3, SwitchToCanceled, BecomesFacts
  <2>2. Announces("Canceled", id)
    <3>1. id \in Nat \ {0}
      BY <1>1, <1>2, LenProperties DEF Ids
    <3> QED BY <1>3, <3>1, NestedAnnounces DEF Inv, TypeOK, Events
  <2> QED BY <1>1, <2>1, <2>2 DEF Cancels, NoneInitial
<1>4. CASE UNCHANGED << orders, stack >>
  BY <1>1, <1>4 DEF Idles, NothingBegins
<1> QED BY <1>3, <1>4 DEF CancelOrder

\* Order::add_info leaves the dates of an order alone.
LEMMA AddInfoKeeps ==
  ASSUME NEW order \in Orders, NEW price \in Nat, NEW n \in Nat
  PROVE  LET o == AddInfo(order, price, n)
         IN  o.accepted = order.accepted /\ o.placed = order.placed /\ o.inWalk = order.inWalk
<1> DEFINE added == [order EXCEPT !.filled = @ + n, !.paid = @ + price * n]
           Same(o) == o.accepted = order.accepted /\ o.placed = order.placed
                      /\ o.inWalk = order.inWalk
<1>1. Same(added) /\ added \in Orders
  <2>1. price * n \in Nat
    OBVIOUS
  <2> DEFINE amount == price * n
  <2> HIDE DEF amount
  <2>2. amount \in Nat
    BY <2>1 DEF amount
  <2>3. [order EXCEPT !.filled = @ + n, !.paid = @ + amount] \in Orders
    BY <2>2, AddedTypes
  <2>4. Same([order EXCEPT !.filled = @ + n, !.paid = @ + amount])
    BY DEF Orders
  <2> QED BY <2>3, <2>4 DEF amount
<1> HIDE DEF added
<1>2. ASSUME NEW new \in States
      PROVE  Same(SwitchState(added, new))
  BY <1>1 DEF SwitchState, Orders
<1> HIDE DEF Same
<1>3. Same(AddInfo(order, price, n))
  BY <1>2 DEF AddInfo, added, States
<1> QED BY <1>3 DEF Same

\* The walk announces nothing, or the acceptance of the order under its cursor.
WalkIsFree == stack = << >> \/ (Len(stack) = 1 /\ stack[1].event = "Accepted")

\* An order that the walk expires is cancelled.
LEMMA ExpireCancels ==
  ASSUME Inv, Processing, WalkIsFree, Expire(cursor), UNCHANGED << barNo, today >>
  PROVE  Cancels(cursor)
<1> USE DEF Inv, Processing
<1>1. orders[cursor] \in Orders /\ orders \in Seq(Orders) /\ IsActive(orders[cursor])
  BY OrderTypes DEF IsActive
<1>2. Becomes(cursor, [orders[cursor] EXCEPT !.state = "Canceled"])
  BY <1>1, SwitchToCanceled, BecomesFacts DEF Expire
<1>3. Announces("Canceled", cursor)
  BY <1>1, WalkAnnounces DEF Expire, WalkIsFree, Events
<1> QED BY <1>1, <1>2, <1>3 DEF Cancels, Expire

\* What the walk knows of the order it is about to process.
LEMMA ProcessingTypes ==
  ASSUME Inv, Processing
  PROVE  /\ values \in ValueMaps
         /\ orders[cursor].spec.symbol \in DOMAIN values
         /\ LeftFor(cursor) \in Nat
         /\ BarOf(cursor).open \in Nat /\ BarOf(cursor).high \in Nat
         /\ BarOf(cursor).low \in Nat /\ BarOf(cursor).close \in Nat
         /\ orders[cursor].spec.quantity \in Nat \ {0}
         /\ Remaining(orders[cursor]) \in Nat
         /\ FillOf(cursor).outcome \in Fills
         /\ FillOf(cursor).price \in Nat /\ FillOf(cursor).quantity \in Nat
         /\ FillOf(cursor).outcome = "fill" =>
               FillOf(cursor).quantity \in 1..Remaining(orders[cursor])
<1> DEFINE order == orders[cursor]
<1>1. order \in Orders /\ order.spec \in OrderSpecs
  BY OrderTypes DEF Inv, Processing
<1>2. order.spec.symbol \in DOMAIN values
  BY DEF Processing
<1>3. values \in ValueMaps
  <2>1. DOMAIN [s \in {} |-> 0] = {}
    OBVIOUS
  <2> QED BY <1>2, <2>1 DEF Inv, TypeOK
<1>4. /\ BarOf(cursor).open \in Nat /\ BarOf(cursor).high \in Nat
      /\ BarOf(cursor).low \in Nat /\ BarOf(cursor).close \in Nat
      /\ LeftFor(cursor) \in Nat
  BY <1>2, <1>3, BarTypes DEF Inv, TypeOK, WalkStands, BarOf, LeftFor
<1>5. order.spec.quantity \in Nat \ {0} /\ Remaining(order) \in Nat
  BY <1>1, SpecsAssumption DEF Inv, StateMatchesFill, Remaining, Orders, Processing
<1> HIDE DEF order
<1>6. LET fill == Process(order, BarOf(cursor), LeftFor(cursor))
      IN  /\ fill.outcome \in Fills
          /\ fill.price \in Nat /\ fill.quantity \in Nat
          /\ fill.outcome = "fill" =>
                /\ fill.quantity \in 1..Remaining(order)
                /\ 4 * fill.quantity <= LeftFor(cursor)
                /\ order.spec.aon => fill.quantity = Remaining(order)
  BY <1>1, <1>4, <1>5, FillBounds, Zenon
<1> QED BY <1>2, <1>3, <1>4, <1>5, <1>6 DEF FillOf, order

\* A fill attempt executes the order, or looks at it, or the program dies.
LEMMA AttemptKinds ==
  ASSUME Inv, Processing, WalkIsFree, ~Expired(orders[cursor]), Attempt(cursor),
         UNCHANGED << barNo, today >>
  PROVE  Idles \/ LooksAt(cursor) \/ \E o \in Orders : ExecutesAs(cursor, o)
<1> USE DEF Inv, Processing
<1> DEFINE order == orders[cursor]
           fill == FillOf(cursor)
           touched == [order EXCEPT !.stopHit = StopHit(order, BarOf(cursor))]
<1>1. order \in Orders /\ orders \in Seq(Orders) /\ order.spec \in OrderSpecs
  BY OrderTypes
<1>2. StopHit(order, BarOf(cursor)) \in BOOLEAN
  BY <1>1 DEF StopHit, Orders
<1>3. /\ touched \in Orders /\ touched.spec = order.spec /\ touched.state = order.state
      /\ touched.filled = order.filled /\ touched.paid = order.paid
      /\ touched.accepted = order.accepted /\ touched.placed = order.placed
      /\ touched.inWalk = order.inWalk
  BY <1>1, <1>2 DEF Orders
<1>4. \/ /\ fill.outcome = "fill" /\ Affordable(order.spec, fill)
         /\ CommitOrderExecution(cursor, touched, fill)
      \/ /\ orders' = [orders EXCEPT ![cursor] = touched]
         /\ UNCHANGED << book, cash, shares, volumeLeft >>
         /\ stack' = << >>
      \/ UNCHANGED << orders, book, cash, shares, volumeLeft, stack, cursor >>
  BY DEF Attempt, FillOf, BarOf, LeftFor
<1> HIDE DEF fill, touched
<1>5. CASE /\ fill.outcome = "fill" /\ Affordable(order.spec, fill)
           /\ CommitOrderExecution(cursor, touched, fill)
  <2> DEFINE o == AddInfo(touched, fill.price, fill.quantity)
  <2>1. /\ orders' = [orders EXCEPT ![cursor] = o]
        /\ stack' = AnnounceFromWalk(o.state, cursor)
        /\ cash' = CashAfter(order.spec, fill) /\ cursor' = cursor
        /\ shares' \in SharesAfter(order.spec, fill.quantity)
        /\ volumeLeft' = OnOrderFilled(order.spec.symbol, fill.quantity)
    BY <1>3, <1>5 DEF CommitOrderExecution
  <2>2. /\ order.spec.quantity \in Nat /\ order.filled \in Nat
        /\ fill.price \in Nat /\ fill.quantity \in Nat \ {0}
        /\ fill.quantity \in 1..Remaining(order)
    <3>1. order.spec.quantity \in Nat /\ order.filled \in Nat
      BY <1>1, ProcessingTypes DEF Orders
    <3>2. fill.price \in Nat /\ fill.quantity \in 1..Remaining(order) /\ Remaining(order) \in Nat
      BY <1>5, ProcessingTypes DEF fill
    <3> HIDE DEF order
    <3> QED BY <3>1, <3>2
  <2>3. touched.filled + fill.quantity <= touched.spec.quantity
    BY <1>3, <2>2 DEF Remaining
  <2>4. /\ o \in Orders /\ o.spec = order.spec
        /\ o.filled = order.filled + fill.quantity
        /\ o.paid = order.paid + fill.price * fill.quantity
        /\ o.state = IF o.filled = o.spec.quantity THEN "Filled" ELSE "PartiallyFilled"
    <3>1. touched.state \in {"Accepted", "PartiallyFilled"}
      BY <1>3
    <3>2. LET t == AddInfo(touched, fill.price, fill.quantity)
          IN  /\ t \in Orders
              /\ t.spec = touched.spec
              /\ t.filled = touched.filled + fill.quantity
              /\ t.paid = touched.paid + fill.price * fill.quantity
              /\ t.state = IF t.filled = t.spec.quantity THEN "Filled" ELSE "PartiallyFilled"
      BY <1>3, <2>2, <2>3, <3>1, AddInfoEffect, Zenon
    <3> QED BY <1>3, <3>2, Zenon
  <2>5. /\ o.accepted = order.accepted /\ o.placed = order.placed
        /\ o.inWalk = order.inWalk
    BY <1>3, <2>2, AddInfoKeeps
  <2> HIDE DEF o
  <2>6. Becomes(cursor, o)
    BY <1>1, <2>1, <2>4, BecomesFacts
  <2>7. Announces(o.state, cursor)
    BY <1>1, <2>1, <2>4, WalkAnnounces DEF WalkIsFree, Events
  <2>8. order.spec.symbol \in DOMAIN values /\ LeftFor(cursor) \in Nat
    BY ProcessingTypes
  <2> QED BY <1>5, <2>1, <2>4, <2>5, <2>6, <2>7, <2>8 DEF ExecutesAs, fill
<1>6. CASE /\ orders' = [orders EXCEPT ![cursor] = touched]
           /\ UNCHANGED << book, cash, shares, volumeLeft >>
           /\ stack' = << >>
  <2>1. Becomes(cursor, touched)
    BY <1>1, <1>3, <1>6, BecomesFacts
  <2> QED BY <1>2, <1>6, <2>1 DEF LooksAt, touched
<1>7. CASE UNCHANGED << orders, book, cash, shares, volumeLeft, stack, cursor >>
  BY <1>7 DEF Idles, NothingBegins
<1> QED BY <1>4, <1>5, <1>6, <1>7

\* process_order, wherever on_bars calls it from.
LEMMA ProcessKinds ==
  ASSUME Inv, Processing, WalkIsFree, ProcessOrder(cursor), UNCHANGED << barNo, today >>
  PROVE  \/ Idles \/ Cancels(cursor) \/ LooksAt(cursor)
         \/ \E o \in Orders : ExecutesAs(cursor, o)
BY ExpireCancels, AttemptKinds DEF ProcessOrder

\* Every step does one of these things, and only the start of a walk counts
\* the bars and moves the day.
StepOf ==
    \/ Idles
    \/ \E o \in Orders : Places(o)
    \/ \E id \in Ids : Cancels(id) \/ Accepts(id) \/ LooksAt(id)
    \/ \E id \in Ids, o \in Orders : ExecutesAs(id, o)

\* Visiting the order under the cursor (on_bars_imp).
LEMMA VisitKinds ==
  ASSUME Inv, VisitOrder
  PROVE  StepOf
<1> USE DEF Inv
<1>1. fault = "none" /\ cursor # NoCursor /\ stack = << >> /\ UNCHANGED << barNo, today >>
  BY DEF VisitOrder
<1>2. cursor \in book /\ cursor \in Ids
  BY <1>1 DEF WalkStands, TypeOK
<1>3. CASE UNCHANGED << orders, book, cash, shares, volumeLeft, stack, cursor >>
  BY <1>3 DEF StepOf, Idles, NothingBegins
<1>4. CASE /\ orders[cursor].state = "Submitted"
           /\ orders' = [orders EXCEPT ![cursor] =
                  SwitchState([@ EXCEPT !.accepted = today], "Accepted")]
           /\ stack' = AnnounceFromWalk("Accepted", cursor)
           /\ UNCHANGED << book, cash, shares, volumeLeft, cursor, fault >>
  <2> DEFINE dated == [orders[cursor] EXCEPT !.accepted = today]
             o == [orders[cursor] EXCEPT !.state = "Accepted", !.accepted = today]
  <2>1. orders[cursor] \in Orders /\ orders \in Seq(Orders) /\ today \in Nat
    BY <1>2, OrderTypes DEF TypeOK
  <2>2. dated.state = "Submitted"
    BY <1>4, <2>1 DEF Orders
  <2>3. SwitchState(dated, "Accepted") = [dated EXCEPT !.state = "Accepted"]
    <3> HIDE DEF dated
    <3> QED BY <2>2 DEF SwitchState, ValidStates
  <2>4. [dated EXCEPT !.state = "Accepted"] = o /\ o \in Orders /\ o.spec = orders[cursor].spec
    BY <2>1 DEF Orders, States
  <2>5. orders' = [orders EXCEPT ![cursor] = o]
    BY <1>4, <2>3, <2>4
  <2>6. Becomes(cursor, o)
    <3> HIDE DEF o
    <3> QED BY <1>2, <2>1, <2>4, <2>5, BecomesFacts
  <2>7. Announces("Accepted", cursor)
    BY <1>1, <1>2, <1>4, <2>1, WalkAnnounces DEF Events
  <2> QED BY <1>1, <1>2, <1>4, <2>6, <2>7 DEF Accepts, StepOf
<1>5. CASE /\ orders[cursor].spec.symbol \in DOMAIN values
           /\ orders[cursor].state \in {"Accepted", "PartiallyFilled"}
           /\ ProcessOrder(cursor)
  <2>1. Processing /\ WalkIsFree
    BY <1>1, <1>2, <1>5 DEF Processing, WalkIsFree
  <2> QED BY <1>1, <1>2, <1>5, <2>1, ProcessKinds DEF StepOf
<1> QED BY <1>3, <1>4, <1>5 DEF VisitOrder

\* The walk going on after one of its announcements.
LEMMA ReturnKinds ==
  ASSUME Inv, ReturnAccepted \/ ReturnPartiallyFilled \/ ReturnFilled \/ ReturnCanceled
  PROVE  StepOf
<1>1. CASE ReturnAccepted
  <2>1. /\ fault = "none" /\ Len(stack) = 1 /\ stack[1].by = "on_bars"
        /\ stack[1].event = "Accepted" /\ UNCHANGED << barNo, today >>
    BY <1>1 DEF ReturnAccepted, WalkResumes
  <2>2. WalkFrame
    <3>1. Len(<< >>) = 0
      OBVIOUS
    <3> QED BY <2>1, <3>1 DEF WalkFrame
  <2>3. CASE IsActive(orders[cursor]) /\ ProcessOrder(cursor)
    <3>1. Processing /\ WalkIsFree /\ cursor \in Ids
      BY <2>1, <2>2, <2>3
         DEF Processing, WalkIsFree, Inv, WalkStands, IsActive, BookHoldsLiveOrders
    <3> QED BY <2>1, <2>3, <3>1, ProcessKinds DEF StepOf
  <2>4. CASE stack' = << >> /\ UNCHANGED << orders, book, cash, shares, volumeLeft >>
    BY <2>4 DEF StepOf, Idles, NothingBegins
  <2> QED BY <1>1, <2>3, <2>4 DEF ReturnAccepted
<1>2. CASE ReturnPartiallyFilled \/ ReturnFilled \/ ReturnCanceled
  BY <1>2 DEF ReturnPartiallyFilled, ReturnFilled, ReturnCanceled, StepOf, Idles, NothingBegins
<1> QED BY <1>1, <1>2

\* A nested announcement has returned.
LEMMA ReturnToClientKinds ==
  ASSUME Inv, ReturnToClient
  PROVE  StepOf
<1>1. stack \in Seq(Frames) /\ Len(stack) \in Nat \ {0}
  BY LenProperties, EmptySeq DEF Inv, TypeOK, ReturnToClient
<1>2. Len(stack') = Len(stack) - 1
  BY <1>1, PopFacts DEF ReturnToClient
<1> QED BY <1>1, <1>2 DEF ReturnToClient, StepOf, Idles, NothingBegins

\* Whatever the exchange does is one of the kinds above.
LEMMA MoveKinds ==
  ASSUME Inv, NoneInitial, Moves
  PROVE  StepOf
<1>1. CASE Client
  <2>1. \A id \in book : CancelOrder(id) => StepOf
    BY CancelCancels DEF StepOf
  <2> QED BY <1>1, <2>1, SubmitPlaces DEF Client, StepOf
<1>2. ASSUME NEW bars, NEW day, OnBars(bars, day) PROVE StepOf
  <2>1. barNo' # barNo
    BY <1>2 DEF OnBars, Inv, TypeOK
  <2> QED BY <1>2, <2>1 DEF OnBars, StepOf, Idles, NothingBegins
<1>3. CASE Walk
  BY <1>3, VisitKinds, ReturnToClientKinds, ReturnKinds DEF Walk
<1>4. CASE UNCHANGED vars
  BY <1>4 DEF vars, StepOf, Idles, NothingBegins
<1> QED BY <1>1, <1>2, <1>3, <1>4 DEF Moves

LEMMA StepKinds ==
  ASSUME Inv, NoneInitial, [Next]_vars
  PROVE  StepOf
BY NextMoves, MoveKinds

\* No step leaves an order behind that is not submitted.
LEMMA NoneStaysInitial ==
  ASSUME Inv, NoneInitial, StepOf
  PROVE  NoneInitial'
<1>1. /\ orders \in Seq(Orders) /\ Len(orders) \in Nat
      /\ \A i \in Ids : orders[i] \in Orders
  BY OrderTypes, LenProperties DEF Inv, TypeOK
<1>2. ASSUME NEW id \in Ids, NEW o, Becomes(id, o), o.state # "Initial"
      PROVE  NoneInitial'
  BY <1>2 DEF Becomes, Ids, NoneInitial
<1>3. ASSUME NEW o \in Orders, Places(o) PROVE NoneInitial'
  <2>1. orders' = Append(orders, o) /\ o.state = "Submitted"
    BY <1>3 DEF Places
  <2>2. /\ Len(orders') = Len(orders) + 1 /\ orders'[Len(orders) + 1] = o
        /\ \A i \in 1..Len(orders) : orders'[i] = orders[i]
    BY <1>1, <2>1, AppendFacts
  <2> QED BY <1>1, <2>1, <2>2 DEF NoneInitial, Ids
<1>4. ASSUME NEW id \in Ids, Cancels(id) PROVE NoneInitial'
  BY <1>1, <1>2, <1>4 DEF Cancels, Orders
<1>5. ASSUME NEW id \in Ids, Accepts(id) PROVE NoneInitial'
  BY <1>1, <1>2, <1>5 DEF Accepts, Orders
<1>6. ASSUME NEW id \in Ids, LooksAt(id) PROVE NoneInitial'
  <2>1. PICK hit \in BOOLEAN : Becomes(id, [orders[id] EXCEPT !.stopHit = hit])
    BY <1>6 DEF LooksAt
  <2> QED BY <1>1, <1>2, <2>1 DEF NoneInitial, Orders
<1>7. ASSUME NEW id \in Ids, NEW o \in Orders, ExecutesAs(id, o) PROVE NoneInitial'
  BY <1>2, <1>7 DEF ExecutesAs
<1> QED BY <1>3, <1>4, <1>5, <1>6, <1>7 DEF StepOf, Idles, NoneInitial, Ids

-----------------------------------------------------------------------------
(***************************************************************************)
(* When an order came to be.                                               *)
(***************************************************************************)
\* No order was accepted on a later day than this one, nor placed at a later
\* bar; while the walk processes a bar, only its own clients' orders are of it.
History ==
    \A id \in Ids :
        /\ orders[id].accepted <= today
        /\ orders[id].placed <= barNo
        /\ cursor # NoCursor /\ ~orders[id].inWalk => orders[id].placed < barNo

\* A walk begins with a new bar; nothing else brings a bar, or begins a walk.
LEMMA ClockMoves ==
  ASSUME Inv, [Next]_vars
  PROVE  \/ /\ barNo' = barNo + 1 /\ today' \in Nat /\ today' >= today
            /\ orders' = orders
         \/ UNCHANGED << barNo, today >> /\ (cursor = NoCursor => cursor' = NoCursor)
<1>1. CASE Client
  BY <1>1 DEF Client, SubmitOrder, CancelOrder
<1>2. CASE \E bars \in ValueMaps, gap \in Gaps : OnBars(bars, today + gap)
  <2>1. PICK bars \in ValueMaps, gap \in Gaps : OnBars(bars, today + gap)
    BY <1>2
  <2>2. gap \in Nat /\ today \in Nat
    BY BoundsAssumption DEF Inv, TypeOK
  <2>3. today' = today + gap /\ barNo' = barNo + 1 /\ orders' = orders
    BY <2>1 DEF OnBars
  <2> QED BY <2>2, <2>3
<1>3. CASE VisitOrder \/ ReturnToClient
  BY <1>3 DEF VisitOrder, ReturnToClient
<1>4. CASE ReturnAccepted \/ ReturnPartiallyFilled \/ ReturnFilled \/ ReturnCanceled
  <2>1. UNCHANGED << barNo, today >>
    BY <1>4 DEF ReturnAccepted, ReturnPartiallyFilled, ReturnFilled, ReturnCanceled
  <2>2. Len(<< >>) = 0
    OBVIOUS
  <2>3. WalkFrame
    BY <1>4, <2>2 DEF ReturnAccepted, ReturnPartiallyFilled, ReturnFilled, ReturnCanceled,
                      WalkResumes, WalkFrame
  <2>4. cursor # NoCursor
    BY <2>3, LenProperties DEF Inv, WalkStands, TypeOK, Ids, NoCursor
  <2> QED BY <2>1, <2>4
<1>5. CASE Terminated \/ UNCHANGED vars
  BY <1>5 DEF Terminated, vars
<1> QED BY <1>1, <1>2, <1>3, <1>4, <1>5 DEF Next, Walk

\* The states that an order may be in after a step on it.
LEMMA HistoryKept ==
  ASSUME Inv, NoneInitial, History, [Next]_vars
  PROVE  NoneInitial' /\ History'
<1> USE DEF Inv
<1>1. /\ barNo \in Nat /\ today \in Nat /\ orders \in Seq(Orders) /\ Len(orders) \in Nat
      /\ \A i \in Ids : orders[i] \in Orders
      /\ \A i \in Ids : orders[i].accepted \in Nat /\ orders[i].placed \in Nat
  <2>1. barNo \in Nat /\ today \in Nat /\ orders \in Seq(Orders) /\ Len(orders) \in Nat
    BY LenProperties DEF TypeOK
  <2>2. \A i \in Ids : orders[i] \in Orders
    BY <2>1, OrderTypes
  <2> QED BY <2>1, <2>2 DEF Orders
<1>2. \/ /\ barNo' = barNo + 1 /\ today' \in Nat /\ today' >= today
         /\ orders' = orders
      \/ UNCHANGED << barNo, today >> /\ (cursor = NoCursor => cursor' = NoCursor)
  BY ClockMoves
<1>3. CASE orders' = orders
  BY <1>1, <1>2, <1>3 DEF NoneInitial, History, Ids
<1>4. ASSUME NEW id \in Ids, NEW o \in Orders, Becomes(id, o), o.state # "Initial",
             o.accepted \in {orders[id].accepted, today},
             o.placed = orders[id].placed, o.inWalk = orders[id].inWalk,
             UNCHANGED << barNo, today >>
      PROVE  NoneInitial' /\ History'
  <2>1. Ids' = Ids /\ \A i \in Ids : orders'[i] = IF i = id THEN o ELSE orders[i]
    BY <1>4 DEF Becomes, Ids
  <2>2. cursor = NoCursor => cursor' = NoCursor
    BY <1>1, <1>2, <1>4
  <2> QED BY <1>1, <1>4, <2>1, <2>2 DEF NoneInitial, History
<1>5. CASE \E o \in Orders : Places(o)
  <2>1. PICK o \in Orders : Places(o)
    BY <1>5
  <2>2. /\ Ids' = Ids \cup {Len(orders) + 1} /\ orders'[Len(orders) + 1] = o
        /\ \A i \in Ids : orders'[i] = orders[i]
    <3>1. orders' = Append(orders, o)
      BY <2>1 DEF Places
    <3>2. /\ Len(orders') = Len(orders) + 1 /\ orders'[Len(orders) + 1] = o
          /\ \A i \in 1..Len(orders) : orders'[i] = orders[i]
      BY <1>1, <3>1, AppendFacts
    <3> QED BY <1>1, <3>2 DEF Ids
  <2>3. /\ o.state = "Submitted" /\ o.accepted = 0 /\ o.placed = barNo
        /\ (cursor # NoCursor => o.inWalk) /\ UNCHANGED << barNo, today, cursor >>
    BY <2>1 DEF Places
  <2>4. o.accepted <= today /\ o.placed <= barNo
    BY <1>1, <2>3
  <2>5. History'
    BY <2>2, <2>3, <2>4 DEF History
  <2>6. NoneInitial'
    BY <2>2, <2>3 DEF NoneInitial
  <2> QED BY <2>5, <2>6
<1>6. ASSUME NEW id \in Ids, Cancels(id) \/ Accepts(id) \/ LooksAt(id)
      PROVE  NoneInitial' /\ History'
  <2>1. orders[id] \in Orders /\ orders[id].state # "Initial" /\ today \in Nat
    BY <1>1 DEF NoneInitial
  <2>2. CASE Cancels(id)
    <3> DEFINE o == [orders[id] EXCEPT !.state = "Canceled"]
    <3>1. /\ o \in Orders /\ o.state # "Initial" /\ o.accepted = orders[id].accepted
          /\ o.placed = orders[id].placed /\ o.inWalk = orders[id].inWalk
      BY <2>1 DEF Orders, States
    <3> QED BY <1>4, <2>2, <3>1 DEF Cancels
  <2>3. CASE Accepts(id)
    <3> DEFINE o == [orders[id] EXCEPT !.state = "Accepted", !.accepted = today]
    <3>1. /\ o \in Orders /\ o.state # "Initial" /\ o.accepted = today
          /\ o.placed = orders[id].placed /\ o.inWalk = orders[id].inWalk
      BY <2>1 DEF Orders, States
    <3> QED BY <1>4, <2>3, <3>1 DEF Accepts
  <2>4. CASE LooksAt(id)
    <3>1. PICK hit \in BOOLEAN : Becomes(id, [orders[id] EXCEPT !.stopHit = hit])
      BY <2>4 DEF LooksAt
    <3> DEFINE o == [orders[id] EXCEPT !.stopHit = hit]
    <3>2. /\ o \in Orders /\ o.state # "Initial" /\ o.accepted = orders[id].accepted
          /\ o.placed = orders[id].placed /\ o.inWalk = orders[id].inWalk
      BY <2>1 DEF Orders
    <3> QED BY <1>4, <2>4, <3>1, <3>2 DEF LooksAt
  <2> QED BY <1>6, <2>2, <2>3, <2>4
<1>7. ASSUME NEW id \in Ids, NEW o \in Orders, ExecutesAs(id, o)
      PROVE  NoneInitial' /\ History'
  BY <1>4, <1>7 DEF ExecutesAs
<1>8. StepOf
  BY StepKinds
<1> QED BY <1>3, <1>5, <1>6, <1>7, <1>8 DEF StepOf, Idles

\* What every proof below starts from.
IInv == Inv /\ NoneInitial /\ History

LEMMA AlwaysIInv == Spec => []IInv
<1>1. Init => NoneInitial /\ History
  BY DEF Init, NoneInitial, History, Ids
<1>2. Init => IInv
  BY <1>1, InitInv DEF IInv
<1>3. IInv /\ [Next]_vars => IInv'
  BY NextInv, HistoryKept DEF IInv
<1> QED BY <1>2, <1>3, PTL DEF Spec

\* The walk's announcement is about the order under its cursor, which is
\* registered, and tells its state.
THEOREM WalkKnowsWhereItIs == Spec => []WalkStands
<1>1. IInv => WalkStands
  BY DEF IInv, Inv
<1> QED BY <1>1, AlwaysIInv, PTL

-----------------------------------------------------------------------------
(***************************************************************************)
(* The life of an order.                                                   *)
(***************************************************************************)
\* An order changes as itself, and the others stay.
LEMMA OthersStay ==
  ASSUME NEW id \in Ids, NEW o, Becomes(id, o)
  PROVE  \A i \in Ids : orders'[i] = IF i = id THEN o ELSE orders[i]
BY DEF Becomes

\* Every kind of step makes switches of Order::state_table only.
LEMMA StepLivesOneWay ==
  ASSUME Inv, StepOf
  PROVE  LivesOneWay
<1>1. \A i \in Ids : orders[i] \in Orders
  BY OrderTypes DEF Inv
<1>2. CASE Idles
  BY <1>2 DEF Idles, LivesOneWay
<1>3. ASSUME NEW o \in Orders, Places(o)
      PROVE  LivesOneWay
  <2>1. \A i \in Ids : orders'[i] = orders[i]
    BY <1>3, AppendFacts DEF Places, Ids, Inv, TypeOK
  <2> QED BY <2>1 DEF LivesOneWay
<1>4. ASSUME NEW id \in Ids, NEW o, Becomes(id, o),
             IsActive(orders[id]),
             o.state = orders[id].state \/ o.state \in ValidStates(orders[id].state)
      PROVE  LivesOneWay
  <2>1. \A i \in Ids : orders'[i] = IF i = id THEN o ELSE orders[i]
    BY <1>4, OthersStay
  <2> QED BY <1>4, <2>1 DEF LivesOneWay, IsActive
<1>5. ASSUME NEW id \in Ids, Cancels(id)
      PROVE  LivesOneWay
  <2> DEFINE o == [orders[id] EXCEPT !.state = "Canceled"]
  <2>1. o.state = "Canceled" /\ orders[id].state \in States
    BY <1>1 DEF Orders
  <2>2. "Canceled" \in ValidStates(orders[id].state)
    BY <1>5, <2>1 DEF Cancels, IsActive, ValidStates, States
  <2> QED BY <1>4, <1>5, <2>1, <2>2 DEF Cancels
<1>6. ASSUME NEW id \in Ids, Accepts(id)
      PROVE  LivesOneWay
  <2> DEFINE o == [orders[id] EXCEPT !.state = "Accepted", !.accepted = today]
  <2>1. o.state = "Accepted"
    BY <1>1 DEF Orders
  <2>2. "Accepted" \in ValidStates(orders[id].state) /\ IsActive(orders[id])
    BY <1>6 DEF Accepts, IsActive, ValidStates
  <2> QED BY <1>4, <1>6, <2>1, <2>2 DEF Accepts
<1>7. ASSUME NEW id \in Ids, LooksAt(id)
      PROVE  LivesOneWay
  <2>1. PICK hit \in BOOLEAN : Becomes(id, [orders[id] EXCEPT !.stopHit = hit])
    BY <1>7 DEF LooksAt
  <2>2. [orders[id] EXCEPT !.stopHit = hit].state = orders[id].state /\ IsActive(orders[id])
    BY <1>1, <1>7 DEF Orders, LooksAt, IsActive
  <2> QED BY <1>4, <2>1, <2>2
<1>8. ASSUME NEW id \in Ids, NEW o \in Orders, ExecutesAs(id, o)
      PROVE  LivesOneWay
  <2>1. /\ orders[id].state \in {"Accepted", "PartiallyFilled"}
        /\ o.state \in {"Filled", "PartiallyFilled"} /\ Becomes(id, o)
    BY <1>8 DEF ExecutesAs
  <2>2. IsActive(orders[id]) /\ o.state \in ValidStates(orders[id].state)
    BY <2>1 DEF IsActive, ValidStates
  <2> QED BY <1>4, <2>1, <2>2
<1> QED BY <1>2, <1>3, <1>5, <1>6, <1>7, <1>8 DEF StepOf

\* The life of an order is one-way, whatever the clients do in the
\* announcements and wherever the walk's iterator leads.
THEOREM OrdersLiveOneWay == Spec => OneWayLife
<1>1. IInv /\ [Next]_vars => [LivesOneWay]_vars
  BY StepKinds, StepLivesOneWay DEF IInv
<1> QED BY <1>1, AlwaysIInv, PTL DEF Spec, OneWayLife

\* What is announced in a step is what becomes of the order.
LEMMA StepHearsOfEnds ==
  ASSUME Inv, StepOf
  PROVE  HearsOfEnds
<1> DEFINE Hears(id) ==
              /\ stack' # << >> /\ stack' # stack /\ Len(stack') >= Len(stack)
              /\ stack'[Len(stack')].id = id
              /\ stack'[Len(stack')].event \in {"Filled", "Canceled"}
           Ends(id) == IsActive(orders[id]) /\ ~IsActive(orders'[id])
<1>1. /\ \A i \in Ids : orders[i] \in Orders
      /\ stack \in Seq(Frames) /\ orders \in Seq(Orders) /\ Len(orders) \in Nat
  BY OrderTypes, LenProperties DEF Inv, TypeOK
<1>2. SUFFICES \A id \in Ids : Ends(id) <=> Hears(id)
  BY DEF HearsOfEnds
<1>3. ASSUME NothingBegins PROVE \A id : ~Hears(id)
  <2>1. CASE stack' = stack \/ stack' = << >>
    BY <2>1
  <2>2. CASE Len(stack') < Len(stack)
    <3>1. ASSUME NEW id, Hears(id) PROVE FALSE
      <4>1. Len(stack) \in Nat
        BY <1>1, LenProperties
      <4> QED BY <2>2, <3>1, <4>1
    <3> QED BY <3>1
  <2> QED BY <1>3, <2>1, <2>2 DEF NothingBegins
<1>4. ASSUME NEW event, NEW id, Announces(event, id)
      PROVE  \A i : Hears(i) <=> i = id /\ event \in {"Filled", "Canceled"}
  BY <1>4 DEF Announces
<1>5. CASE Idles
  BY <1>3, <1>5 DEF Idles
<1>6. ASSUME NEW o \in Orders, Places(o)
      PROVE  \A id \in Ids : Ends(id) <=> Hears(id)
  <2>1. \A i \in Ids : orders'[i] = orders[i]
    BY <1>1, <1>6, AppendFacts DEF Places, Ids
  <2>2. \A i : ~Hears(i)
    BY <1>4, <1>6 DEF Places
  <2> QED BY <2>1, <2>2
<1>7. ASSUME NEW id \in Ids, NEW o, Becomes(id, o), IsActive(orders[id]),
             NEW event, Announces(event, id),
             IsActive(o) <=> event \notin {"Filled", "Canceled"}
      PROVE  \A i \in Ids : Ends(i) <=> Hears(i)
  <2>1. \A i \in Ids : orders'[i] = IF i = id THEN o ELSE orders[i]
    BY <1>7, OthersStay
  <2>2. \A i \in Ids : Ends(i) <=> i = id /\ ~IsActive(o)
    BY <1>7, <2>1
  <2>3. \A i : Hears(i) <=> i = id /\ event \in {"Filled", "Canceled"}
    BY <1>4, <1>7
  <2> HIDE DEF Hears, Ends
  <2> QED BY <1>7, <2>2, <2>3
<1>8. ASSUME NEW id \in Ids, Cancels(id)
      PROVE  \A i \in Ids : Ends(i) <=> Hears(i)
  <2> DEFINE o == [orders[id] EXCEPT !.state = "Canceled"]
  <2>1. ~IsActive(o)
    BY <1>1 DEF Orders, IsActive
  <2> HIDE DEF Hears, Ends, o
  <2> QED BY <1>7, <1>8, <2>1 DEF Cancels, o
<1>9. ASSUME NEW id \in Ids, Accepts(id)
      PROVE  \A i \in Ids : Ends(i) <=> Hears(i)
  <2> DEFINE o == [orders[id] EXCEPT !.state = "Accepted", !.accepted = today]
  <2>1. IsActive(o) /\ IsActive(orders[id])
    BY <1>1, <1>9 DEF Orders, IsActive, Accepts
  <2> HIDE DEF Hears, Ends, o
  <2> QED BY <1>7, <1>9, <2>1 DEF Accepts, o
<1>10. ASSUME NEW id \in Ids, LooksAt(id)
       PROVE  \A i \in Ids : Ends(i) <=> Hears(i)
  <2>1. PICK hit \in BOOLEAN : Becomes(id, [orders[id] EXCEPT !.stopHit = hit])
    BY <1>10 DEF LooksAt
  <2> DEFINE o == [orders[id] EXCEPT !.stopHit = hit]
  <2>2. IsActive(o)
    BY <1>1, <1>10 DEF Orders, LooksAt, IsActive
  <2> HIDE DEF o
  <2>3. \A i \in Ids : orders'[i] = IF i = id THEN o ELSE orders[i]
    BY <2>1, OthersStay DEF o
  <2>4. \A i \in Ids : ~Ends(i)
    BY <2>2, <2>3
  <2>5. \A i \in Ids : ~Hears(i)
    BY <1>3, <1>10 DEF LooksAt, NothingBegins
  <2> QED BY <2>4, <2>5
<1>11. ASSUME NEW id \in Ids, NEW o \in Orders, ExecutesAs(id, o)
       PROVE  \A i \in Ids : Ends(i) <=> Hears(i)
  <2>1. /\ orders[id].state \in {"Accepted", "PartiallyFilled"}
        /\ o.state \in {"Filled", "PartiallyFilled"}
        /\ Becomes(id, o) /\ Announces(o.state, id)
    BY <1>11 DEF ExecutesAs
  <2>2. IsActive(orders[id]) /\ (IsActive(o) <=> o.state \notin {"Filled", "Canceled"})
    BY <2>1 DEF IsActive
  <2> HIDE DEF Hears, Ends
  <2> QED BY <1>7, <2>1, <2>2
<1> HIDE DEF Hears, Ends
<1> QED BY <1>5, <1>6, <1>8, <1>9, <1>10, <1>11 DEF StepOf

\* The client hears of the end of every order, in the step that ends it, once.
THEOREM EndsAreAnnounced == Spec => EndsAnnounced
<1>1. IInv /\ [Next]_vars => [HearsOfEnds]_vars
  BY StepKinds, StepHearsOfEnds DEF IInv
<1> QED BY <1>1, AlwaysIInv, PTL DEF Spec, EndsAnnounced

-----------------------------------------------------------------------------
(***************************************************************************)
(* Executions.                                                             *)
(***************************************************************************)
\* An order that has more executed after a step was executed by it.
LEMMA OnlyFillsExecute ==
  ASSUME Inv, StepOf, NEW id \in Ids, Executes(id)
  PROVE  \E o \in Orders : ExecutesAs(id, o) /\ orders'[id] = o
<1>1. \A i \in Ids : orders[i] \in Orders
  BY OrderTypes DEF Inv
<1>2. orders'[id].filled # orders[id].filled
  BY DEF Executes
<1>3. ~Idles
  BY <1>2 DEF Idles
<1>4. ASSUME NEW o \in Orders, Places(o) PROVE FALSE
  <2>1. \A i \in Ids : orders'[i] = orders[i]
    BY <1>4, AppendFacts DEF Places, Ids, Inv, TypeOK
  <2> QED BY <1>2, <2>1
<1>5. ASSUME NEW i \in Ids, NEW o, Becomes(i, o)
      PROVE  orders'[id] = IF id = i THEN o ELSE orders[id]
  BY <1>5, OthersStay
<1>6. ASSUME NEW i \in Ids, Cancels(i) \/ Accepts(i) \/ LooksAt(i) PROVE FALSE
  <2>1. \E o : Becomes(i, o) /\ o.filled = orders[i].filled
    <3>1. \A hit \in BOOLEAN : [orders[i] EXCEPT !.stopHit = hit].filled = orders[i].filled
      BY <1>1 DEF Orders
    <3>2. [orders[i] EXCEPT !.state = "Canceled"].filled = orders[i].filled
      BY <1>1 DEF Orders
    <3>3. [orders[i] EXCEPT !.state = "Accepted", !.accepted = today].filled = orders[i].filled
      BY <1>1 DEF Orders
    <3> QED BY <1>6, <3>1, <3>2, <3>3 DEF Cancels, Accepts, LooksAt
  <2> QED BY <1>2, <1>5, <2>1
<1>7. PICK i \in Ids, o \in Orders : ExecutesAs(i, o)
  BY <1>3, <1>4, <1>6 DEF StepOf
<1>8. Becomes(i, o)
  BY <1>7 DEF ExecutesAs
<1> QED BY <1>2, <1>5, <1>7, <1>8

\* A day order executes on the day it was accepted, or never.
THEOREM DayOrdersKeepTheirDay == Spec => DayOrderKeepsItsDay
<1>1. IInv /\ [Next]_vars => [KeepsItsDay]_vars
  <2> SUFFICES ASSUME IInv, [Next]_vars, NEW id \in Ids, Executes(id), ~orders[id].spec.gtc
               PROVE  today = orders[id].accepted
    BY DEF KeepsItsDay
  <2>1. PICK o \in Orders : ExecutesAs(id, o)
    BY StepKinds, OnlyFillsExecute DEF IInv
  <2>2. ~(today > orders[id].accepted)
    BY <2>1 DEF ExecutesAs, Expired
  <2>3. orders[id].accepted <= today
    BY DEF IInv, History
  <2>4. orders[id].accepted \in Nat /\ today \in Nat
    <3>1. orders[id] \in Orders /\ today \in Nat
      BY OrderTypes DEF IInv, Inv, TypeOK
    <3> QED BY <3>1 DEF Orders
  <2> QED BY <2>2, <2>3, <2>4
<1> QED BY <1>1, AlwaysIInv, PTL DEF Spec, DayOrderKeepsItsDay

\* An order placed between two bars never executes on a bar seen before.
THEOREM NothingLooksAhead == Spec => NoLookAhead
<1>1. IInv /\ [Next]_vars => [ExecutesUnseen]_vars
  <2> SUFFICES ASSUME IInv, [Next]_vars, NEW id \in Ids, Executes(id)
               PROVE  barNo > orders[id].placed \/ orders[id].inWalk
    BY DEF ExecutesUnseen
  <2>1. PICK o \in Orders : ExecutesAs(id, o)
    BY StepKinds, OnlyFillsExecute DEF IInv
  <2>2. cursor # NoCursor
    <3>1. Len(orders) \in Nat
      BY LenProperties DEF IInv, Inv, TypeOK
    <3> QED BY <2>1, <3>1 DEF ExecutesAs, Ids, NoCursor
  <2>3. ~orders[id].inWalk => orders[id].placed < barNo
    BY <2>2 DEF IInv, History
  <2>4. orders[id].placed \in Nat /\ barNo \in Nat
    <3>1. orders[id] \in Orders /\ barNo \in Nat
      BY OrderTypes DEF IInv, Inv, TypeOK
    <3> QED BY <3>1 DEF Orders
  <2> QED BY <2>3, <2>4
<1> QED BY <1>1, AlwaysIInv, PTL DEF Spec, NoLookAhead

-----------------------------------------------------------------------------
(***************************************************************************)
(* The price of an execution.                                              *)
(***************************************************************************)
\* FillTrigger on a bar that is one: the price it answers is one the bar
\* traded at, at the level or beyond it, and the bar did reach the level.
LEMMA TriggerPrices ==
  ASSUME NEW bar, bar.open \in Nat, bar.high \in Nat, bar.low \in Nat, bar.close \in Nat,
         NEW level \in Nat
  PROVE  /\ RiseTo(level, bar) \in {0, bar.open, level}
         /\ FallTo(level, bar) \in {0, bar.open, level}
         /\ WellFormed(bar) /\ RiseTo(level, bar) # 0 =>
               /\ bar.low <= RiseTo(level, bar) /\ RiseTo(level, bar) <= bar.high
               /\ RiseTo(level, bar) >= level /\ bar.high >= level
         /\ WellFormed(bar) /\ FallTo(level, bar) # 0 =>
               /\ bar.low <= FallTo(level, bar) /\ FallTo(level, bar) <= bar.high
               /\ FallTo(level, bar) <= level /\ bar.low <= level
BY DEF RiseTo, FallTo, WellFormed

\* Every fill function answers a price that the bar traded at, within the
\* order's limit, and none before the stop is reached; on any bar at all the
\* price is one of the bar's or the order's.
LEMMA FillPrice ==
  ASSUME NEW order \in Orders,
         NEW bar, bar.open \in Nat, bar.high \in Nat, bar.low \in Nat, bar.close \in Nat,
         NEW left \in Nat, Process(order, bar, left).outcome = "fill"
  PROVE  LET price == Process(order, bar, left).price
             spec == order.spec
         IN  /\ price \in {bar.open, bar.close, spec.stop, spec.limit}
             /\ WellFormed(bar) => /\ bar.low <= price /\ price <= bar.high
                                   /\ WithinLimit(spec, price)
             /\ WellFormed(bar) /\ HasStop(spec) => order.stopHit \/ StopReached(spec, bar)
<1> DEFINE spec == order.spec
           trigger == TriggerOf(order, bar)
           reached == LimitPriceTrigger(spec, bar)
           Good(price) == /\ price \in {bar.open, bar.close, spec.stop, spec.limit}
                          /\ WellFormed(bar) => /\ bar.low <= price /\ price <= bar.high
                                                /\ WithinLimit(spec, price)
           size == FillSize(order, left)
<1>1. spec.stop \in Nat /\ spec.limit \in Nat /\ spec.type \in Types
  BY SpecsAssumption DEF Orders
<1>2. /\ reached \in Nat
      /\ reached # 0 => reached \in {bar.open, spec.limit}
      /\ WellFormed(bar) /\ reached # 0 =>
            /\ bar.low <= reached /\ reached <= bar.high
            /\ IF Buys(spec) THEN reached <= spec.limit /\ bar.low <= spec.limit
                             ELSE reached >= spec.limit /\ bar.high >= spec.limit
  <2> HIDE DEF spec
  <2>1. CASE Buys(spec)
    BY <1>1, <2>1, TriggerPrices, TriggerTypes DEF LimitPriceTrigger
  <2>2. CASE ~Buys(spec)
    BY <1>1, <2>2, TriggerPrices, TriggerTypes DEF LimitPriceTrigger
  <2> QED BY <2>1, <2>2
<1>3. /\ trigger \in Nat
      /\ trigger # 0 => trigger \in {bar.open, spec.stop} /\ HasStop(spec)
      /\ WellFormed(bar) /\ trigger # 0 =>
            bar.low <= trigger /\ trigger <= bar.high /\ StopReached(spec, bar)
  <2>1. trigger = 0 \/ (HasStop(spec) /\ trigger = StopPriceTrigger(spec, bar))
    BY DEF TriggerOf
  <2> HIDE DEF spec, trigger
  <2>2. CASE Buys(spec)
    BY <1>1, <2>1, <2>2, TriggerPrices, TriggerTypes DEF StopPriceTrigger, StopReached
  <2>3. CASE ~Buys(spec)
    BY <1>1, <2>1, <2>3, TriggerPrices, TriggerTypes DEF StopPriceTrigger, StopReached
  <2> QED BY <2>2, <2>3
<1>4. \A price, n : FillInfo(price, n).outcome = "fill" => FillInfo(price, n).price = price
  BY DEF FillInfo, FailedAssert
<1>5. NoFill.outcome # "fill" /\ FailedAssert("all_or_none").outcome # "fill"
  BY DEF NoFill, FailedAssert
<1> HIDE DEF trigger, reached, size
<1>6. ASSUME spec.type = "Market", MarketFill(order, bar, left).outcome = "fill"
      PROVE  Good(MarketFill(order, bar, left).price)
  <2> DEFINE price == IF spec.onClose THEN bar.close ELSE bar.open
  <2>1. MarketFill(order, bar, left).price = price
    BY <1>4, <1>5, <1>6 DEF MarketFill
  <2>2. price \in {bar.open, bar.close}
    OBVIOUS
  <2> HIDE DEF price, spec
  <2> QED BY <1>6, <2>1, <2>2 DEF WellFormed, WithinLimit, HasLimit
<1>7. ASSUME spec.type = "Limit", LimitFill(order, bar, left).outcome = "fill"
      PROVE  Good(LimitFill(order, bar, left).price)
  <2>1. LimitFill(order, bar, left).price = reached /\ reached # 0
    BY <1>4, <1>5, <1>7 DEF LimitFill, reached
  <2> HIDE DEF spec
  <2> QED BY <1>2, <2>1 DEF WithinLimit
<1>8. ASSUME spec.type = "Stop", StopFill(order, bar, left, trigger).outcome = "fill"
      PROVE  Good(StopFill(order, bar, left, trigger).price)
  <2>1. StopFill(order, bar, left, trigger).price = IF trigger # 0 THEN trigger ELSE bar.open
    BY <1>4, <1>5, <1>8 DEF StopFill
  <2> HIDE DEF spec
  <2> QED BY <1>3, <1>8, <2>1 DEF WellFormed, WithinLimit, HasLimit
<1>9. ASSUME StopLimitFill(order, bar, left, trigger).outcome = "fill"
      PROVE  Good(StopLimitFill(order, bar, left, trigger).price)
  <2> DEFINE better == IF (trigger < spec.limit) = Buys(spec) THEN trigger ELSE spec.limit
  <2>1. /\ StopLimitFill(order, bar, left, trigger).price =
              IF trigger # 0 THEN better ELSE reached
        /\ reached # 0
    BY <1>4, <1>5, <1>9 DEF StopLimitFill, reached
  <2>2. CASE Buys(spec)
    <3>1. better = IF trigger < spec.limit THEN trigger ELSE spec.limit
      BY <2>2 DEF Buys
    <3> HIDE DEF spec, better
    <3> QED BY <1>1, <1>2, <1>3, <2>1, <2>2, <3>1 DEF WithinLimit
  <2>3. CASE ~Buys(spec)
    <3>1. better = IF trigger < spec.limit THEN spec.limit ELSE trigger
      BY <2>3 DEF Buys
    <3> HIDE DEF spec, better
    <3> QED BY <1>1, <1>2, <1>3, <2>1, <2>3, <3>1 DEF WithinLimit
  <2> QED BY <2>2, <2>3
<1> HIDE DEF Good
<1>10. Good(Process(order, bar, left).price)
  BY <1>1, <1>5, <1>6, <1>7, <1>8, <1>9 DEF Process, trigger, Types
<1>11. WellFormed(bar) /\ HasStop(spec) => order.stopHit \/ StopReached(spec, bar)
  BY <1>3, <1>5 DEF Process, StopHit, trigger
<1> QED BY <1>10, <1>11 DEF Good

\* What an execution says of the bar it is made on.
LEMMA ExecutionPrice ==
  ASSUME Inv, NEW id \in Ids, NEW o \in Orders, ExecutesAs(id, o)
  PROVE  LET spec == orders[id].spec
             price == FillOf(id).price
         IN  /\ values \in ValueMaps
             /\ price \in Nat /\ FillOf(id).quantity \in 1..Remaining(orders[id])
             /\ 4 * FillOf(id).quantity <= LeftFor(id)
             /\ price \in {BarOf(id).open, BarOf(id).close, spec.stop, spec.limit}
             /\ WellFormed(BarOf(id)) =>
                   /\ price \in BarOf(id).low..BarOf(id).high
                   /\ WithinLimit(spec, price)
             /\ WellFormed(BarOf(id)) /\ HasStop(spec) =>
                   orders[id].stopHit \/ StopReached(spec, BarOf(id))
<1> DEFINE order == orders[id]
           bar == BarOf(id)
           left == LeftFor(id)
<1>1. order \in Orders /\ order.spec \in OrderSpecs /\ left \in Nat
      /\ order.spec.symbol \in DOMAIN values
      /\ Process(order, bar, left).outcome = "fill"
  BY OrderTypes DEF Inv, ExecutesAs, FillOf
<1>2. values \in ValueMaps
  <2>1. DOMAIN [s \in {} |-> 0] = {}
    OBVIOUS
  <2> QED BY <1>1, <2>1 DEF Inv, TypeOK
<1>3. bar.open \in Nat /\ bar.high \in Nat /\ bar.low \in Nat /\ bar.close \in Nat
  BY <1>1, <1>2, BarTypes DEF BarOf
<1>4. Remaining(order) \in Nat
  BY <1>1, SpecsAssumption DEF Inv, StateMatchesFill, Remaining, Orders
<1> HIDE DEF order, bar, left
<1>5. LET fill == Process(order, bar, left)
      IN  /\ fill.outcome \in Fills
          /\ fill.price \in Nat /\ fill.quantity \in Nat
          /\ fill.outcome = "fill" =>
                /\ fill.quantity \in 1..Remaining(order)
                /\ 4 * fill.quantity <= left
                /\ order.spec.aon => fill.quantity = Remaining(order)
  BY <1>1, <1>3, <1>4, FillBounds, Zenon
<1>6. LET price == Process(order, bar, left).price
          spec == order.spec
      IN  /\ price \in {bar.open, bar.close, spec.stop, spec.limit}
          /\ WellFormed(bar) => /\ bar.low <= price /\ price <= bar.high
                                /\ WithinLimit(spec, price)
          /\ WellFormed(bar) /\ HasStop(spec) => order.stopHit \/ StopReached(spec, bar)
  BY <1>1, <1>3, FillPrice, Zenon
<1>7. WellFormed(bar) => Process(order, bar, left).price \in bar.low..bar.high
  BY <1>3, <1>5, <1>6
<1> QED BY <1>1, <1>2, <1>5, <1>6, <1>7 DEF FillOf, order, bar, left

\* An execution is at one price that the bar traded at, and within the limit.
THEOREM ExecutionsTradeWithinBar == Spec => PriceTraded
<1>1. IInv /\ [Next]_vars => [ExecutesWithinBar]_vars
  <2> SUFFICES ASSUME IInv, [Next]_vars, NEW id \in Ids, Executes(id), WellFormed(BarOf(id))
               PROVE  LET spec == orders[id].spec
                          bar == values[spec.symbol]
                          n == orders'[id].filled - orders[id].filled
                      IN  /\ n > 0
                          /\ \E p \in bar.low..bar.high :
                               /\ orders'[id].paid = orders[id].paid + n * p
                               /\ WithinLimit(spec, p)
    BY DEF ExecutesWithinBar, BarOf
  <2>1. PICK o \in Orders : ExecutesAs(id, o) /\ orders'[id] = o
    BY StepKinds, OnlyFillsExecute DEF IInv
  <2> DEFINE n == FillOf(id).quantity
             p == FillOf(id).price
  <2>2. /\ p \in BarOf(id).low..BarOf(id).high /\ WithinLimit(orders[id].spec, p)
        /\ p \in Nat /\ n \in 1..Remaining(orders[id])
    BY <2>1, ExecutionPrice DEF IInv
  <2>3. orders'[id].filled = orders[id].filled + n /\ orders'[id].paid = orders[id].paid + p * n
    BY <2>1 DEF ExecutesAs
  <2>4. orders[id].filled \in Nat /\ orders[id].spec.quantity \in Nat
    BY OrderTypes, SpecsAssumption DEF IInv, Inv, Orders
  <2> HIDE DEF n, p
  <2>5. n \in Nat /\ n > 0
    BY <2>2, <2>4 DEF Remaining
  <2>6. orders'[id].filled - orders[id].filled = n /\ p * n = n * p
    BY <2>2, <2>3, <2>4, <2>5
  <2> QED BY <2>2, <2>3, <2>5, <2>6 DEF BarOf
<1> QED BY <1>1, AlwaysIInv, PTL DEF Spec, PriceTraded

\* A stop order waits for a bar that reaches its stop price.
THEOREM StopsWait == Spec => StopWaits
<1>1. IInv /\ [Next]_vars => [ExecutesAfterStop]_vars
  <2> SUFFICES ASSUME IInv, [Next]_vars, NEW id \in Ids, Executes(id),
                      HasStop(orders[id].spec), WellFormed(BarOf(id))
               PROVE  orders[id].stopHit \/ StopReached(orders[id].spec, BarOf(id))
    BY DEF ExecutesAfterStop, BarOf
  <2>1. PICK o \in Orders : ExecutesAs(id, o)
    BY StepKinds, OnlyFillsExecute DEF IInv
  <2> QED BY <2>1, ExecutionPrice DEF IInv
<1> QED BY <1>1, AlwaysIInv, PTL DEF Spec, StopWaits

-----------------------------------------------------------------------------
(***************************************************************************)
(* The exchange implements the Brokerage.                                  *)
(***************************************************************************)
\* The three fields of a trade that an execution changes.
LEMMA TradeExecuted ==
  ASSUME NEW side, NEW size, NEW done, NEW paid, NEW state, NEW t,
         t = [side |-> side, size |-> size, done |-> done, paid |-> paid, state |-> state],
         NEW n, NEW amount, NEW new
  PROVE  [side |-> t.side, size |-> t.size, done |-> t.done + n, paid |-> t.paid + amount,
          state |-> new]
         = [t EXCEPT !.done = @ + n, !.paid = @ + amount, !.state = new]
<1>1. /\ t.side = side /\ t.size = size /\ t.done = done /\ t.paid = paid
  OBVIOUS
<1>2. ASSUME NEW d, NEW p
      PROVE  [t EXCEPT !.done = d, !.paid = p, !.state = new]
             = [side |-> side, size |-> size, done |-> d, paid |-> p, state |-> new]
  <2> DEFINE t1 == [t EXCEPT !.done = d]
             t2 == [t1 EXCEPT !.paid = p]
             t3 == [t2 EXCEPT !.state = new]
  <2>1. [t EXCEPT !.done = d, !.paid = p, !.state = new] = t3
    OBVIOUS
  <2>2. t1 = [side |-> side, size |-> size, done |-> d, paid |-> paid, state |-> state]
    OBVIOUS
  <2> HIDE DEF t1
  <2>3. t2 = [side |-> side, size |-> size, done |-> d, paid |-> p, state |-> state]
    BY <2>2
  <2> HIDE DEF t2
  <2>4. t3 = [side |-> side, size |-> size, done |-> d, paid |-> p, state |-> new]
    BY <2>3
  <2> QED BY <2>1, <2>4
<1> QED BY <1>1, <1>2

\* The trades of any list of orders.
LEMMA TradesOf ==
  ASSUME NEW list \in Seq(Orders), NEW f, f = [id \in 1..Len(list) |-> Trade(list[id])]
  PROVE  /\ f \in Seq({Trade(o) : o \in Orders}) /\ Len(f) = Len(list)
         /\ DOMAIN f = 1..Len(list)
         /\ \A id \in 1..Len(list) : f[id] = Trade(list[id])
<1> DEFINE Records == {Trade(o) : o \in Orders}
<1>1. Len(list) \in Nat /\ \A id \in 1..Len(list) : list[id] \in Orders
  BY LenProperties, ElementOfSeq
<1>2. /\ DOMAIN f = 1..Len(list)
      /\ \A id \in 1..Len(list) : f[id] = Trade(list[id]) /\ Trade(list[id]) \in Records
  BY <1>1
<1> HIDE DEF Records
<1>3. f \in [1..Len(list) -> Records]
  BY <1>2
<1>4. f \in Seq(Records)
  BY <1>1, <1>3, SeqDef
<1>5. Len(f) \in Nat /\ 1..Len(f) = 1..Len(list)
  BY <1>2, <1>4, LenProperties
<1>6. Len(f) = Len(list)
  BY <1>1, <1>5
<1> QED BY <1>2, <1>4, <1>6 DEF Records

\* The trades are the orders, one by one.
LEMMA TradesFacts ==
  ASSUME orders \in Seq(Orders)
  PROVE  /\ Trades \in Seq({Trade(o) : o \in Orders}) /\ Len(Trades) = Len(orders)
         /\ DOMAIN Trades = Ids
         /\ \A id \in Ids : Trades[id] = Trade(orders[id])
BY TradesOf DEF Trades, Ids

\* A change of state changes the state of the trade.
LEMMA TradeStates ==
  ASSUME NEW o, NEW p, p.spec = o.spec, p.filled = o.filled, p.paid = o.paid
  PROVE  /\ Trade(p) = [Trade(o) EXCEPT !.state = p.state]
         /\ Trade(o).state = o.state
         /\ p.state = o.state => Trade(p) = Trade(o)
<1> DEFINE side == IF Buys(o.spec) THEN "buy" ELSE "sell"
<1>1. /\ Trade(p) = [side |-> side, size |-> o.spec.quantity, done |-> o.filled,
                     paid |-> o.paid, state |-> p.state]
      /\ Trade(o) = [side |-> side, size |-> o.spec.quantity, done |-> o.filled,
                     paid |-> o.paid, state |-> o.state]
  BY DEF Trade
<1> HIDE DEF side
<1> QED BY <1>1

\* An order that changes changes its trade.
LEMMA TradeChanges ==
  ASSUME orders \in Seq(Orders), NEW id \in Ids, NEW o, Becomes(id, o)
  PROVE  Trades' = [Trades EXCEPT ![id] = Trade(o)]
<1>1. /\ Ids' = Ids
      /\ \A i \in Ids : orders'[i] = IF i = id THEN o ELSE orders[i]
  BY OthersStay DEF Becomes, Ids
<1>2. Trades' = [i \in Ids |-> Trade(orders'[i])]
  BY <1>1 DEF Trades
<1>3. Trades = [i \in Ids |-> Trade(orders[i])]
  BY DEF Trades
<1> QED BY <1>1, <1>2, <1>3

\* A placed order is one trade more.
LEMMA TradePlaced ==
  ASSUME orders \in Seq(Orders), NEW o \in Orders, orders' = Append(orders, o)
  PROVE  Trades' = Append(Trades, Trade(o))
<1> DEFINE n == Len(orders) + 1
           R == {Trade(p) : p \in Orders}
<1>1. /\ Len(orders) \in Nat /\ orders' \in Seq(Orders) /\ Len(orders') = n
      /\ orders'[n] = o /\ \A i \in 1..Len(orders) : orders'[i] = orders[i]
  BY AppendFacts
<1>2. /\ Trades' \in Seq(R) /\ Len(Trades') = n
      /\ \A i \in 1..n : Trades'[i] = Trade(orders'[i])
  <2>1. Trades' = [i \in 1..Len(orders') |-> Trade(orders'[i])]
    BY DEF Trades, Ids
  <2> QED BY <1>1, <2>1, TradesOf
<1>3. /\ Trades \in Seq(R) /\ Len(Trades) = Len(orders)
      /\ \A i \in 1..Len(orders) : Trades[i] = Trade(orders[i])
  BY TradesFacts DEF Ids
<1>4. Trade(o) \in R
  OBVIOUS
<1> HIDE DEF R
<1>5. /\ Append(Trades, Trade(o)) \in Seq(R) /\ Len(Append(Trades, Trade(o))) = n
      /\ Append(Trades, Trade(o))[n] = Trade(o)
      /\ \A i \in 1..Len(orders) : Append(Trades, Trade(o))[i] = Trades[i]
  BY <1>3, <1>4, AppendFacts
<1>6. \A i \in 1..n : Trades'[i] = Append(Trades, Trade(o))[i]
  BY <1>1, <1>2, <1>3, <1>5
<1> QED BY <1>2, <1>5, <1>6, SeqEqual

\* The constructor's state, as the brokerage sees it.
LEMMA InitBrokerage == Init => B!BrokerageInit
<1> SUFFICES ASSUME Init PROVE B!BrokerageInit
  OBVIOUS
<1>1. orders \in Seq(Orders) /\ Len(orders) = 0
  BY EmptySeq DEF Init
<1>2. Trades \in Seq({Trade(o) : o \in Orders}) /\ Len(Trades) = 0
  BY <1>1, TradesFacts
<1>3. Trades = << >>
  BY <1>2, EmptySeq
<1> QED BY <1>3 DEF B!BrokerageInit, Init

\* allow_negative_cash stays as it happened to be.
LEMMA OverdraftStays == Moves => UNCHANGED allowNegative
<1>1. Client => UNCHANGED allowNegative
  BY DEF Client, SubmitOrder, CancelOrder
<1>2. ASSUME NEW bars, NEW day, OnBars(bars, day) PROVE UNCHANGED allowNegative
  BY <1>2 DEF OnBars
<1>3. Walk => UNCHANGED allowNegative
  BY DEF Walk, VisitOrder, ReturnToClient, ReturnAccepted, ReturnPartiallyFilled,
         ReturnFilled, ReturnCanceled
<1> QED BY <1>1, <1>2, <1>3 DEF Moves, vars

\* An execution is one of the brokerage.
LEMMA ExecutionBrokerage ==
  ASSUME Inv, NEW id \in Ids, NEW o \in Orders, ExecutesAs(id, o), UNCHANGED allowNegative
  PROVE  \E n \in 1..Trades[id].size, price \in PricesOffered : B!Execute(id, n, price)
<1> DEFINE order == orders[id]
           spec == orders[id].spec
           n == FillOf(id).quantity
           price == FillOf(id).price
<1>1. order \in Orders /\ spec \in OrderSpecs /\ orders \in Seq(Orders)
  BY OrderTypes DEF Inv
<1>2. /\ spec.quantity \in Nat /\ order.filled \in Nat /\ order.paid \in Nat
      /\ order.state \in {"Accepted", "PartiallyFilled"}
  BY <1>1, SpecsAssumption DEF Orders, ExecutesAs
<1>3. /\ values \in ValueMaps /\ spec.symbol \in DOMAIN values
      /\ price \in Nat /\ n \in 1..Remaining(order)
      /\ price \in {BarOf(id).open, BarOf(id).close, spec.stop, spec.limit}
  BY ExecutionPrice DEF ExecutesAs
<1>4. price \in PricesOffered
  <2>1. BarOf(id) \in BarsOffered
    BY <1>3 DEF BarsOffered, BarOf
  <2>2. BarOf(id).open \in PricesOffered /\ BarOf(id).close \in PricesOffered
    BY <2>1 DEF PricesOffered
  <2> HIDE DEF price, spec
  <2>3. spec.stop \in PricesOffered /\ spec.limit \in PricesOffered
    BY <1>1 DEF PricesOffered
  <2> QED BY <1>3, <2>2, <2>3
<1>5. /\ Trades[id].state = order.state /\ Trades[id].size = spec.quantity
      /\ Trades[id].done = order.filled /\ Trades[id].paid = order.paid
      /\ Trades[id].side = (IF Buys(spec) THEN "buy" ELSE "sell")
      /\ Trades[id] = Trade(order)
  BY <1>1, TradesFacts DEF Trade
<1>6. n \in Nat /\ n \in 1..(Trades[id].size - Trades[id].done) /\ n \in 1..Trades[id].size
  <2>1. Remaining(order) = spec.quantity - order.filled
    BY DEF Remaining
  <2> HIDE DEF n, order, spec
  <2> QED BY <1>2, <1>3, <1>5, <2>1
<1>7. /\ o.spec = spec /\ o.filled = order.filled + n /\ o.paid = order.paid + price * n
      /\ o.state = (IF o.filled = spec.quantity THEN "Filled" ELSE "PartiallyFilled")
      /\ Becomes(id, o)
      /\ cash' = CashAfter(spec, FillOf(id)) /\ Affordable(spec, FillOf(id))
  BY DEF ExecutesAs, Becomes
<1>8. Trade(o) = [side |-> Trades[id].side, size |-> Trades[id].size,
                  done |-> Trades[id].done + n, paid |-> Trades[id].paid + price * n,
                  state |-> IF n = Trades[id].size - Trades[id].done
                            THEN "Filled" ELSE "PartiallyFilled"]
  <2>1. o.filled = spec.quantity <=> n = Trades[id].size - Trades[id].done
    <3> HIDE DEF n, order, spec
    <3> QED BY <1>2, <1>5, <1>6, <1>7
  <2> HIDE DEF n, order, spec, price
  <2> QED BY <1>5, <1>7, <2>1 DEF Trade
<1>9. Trades' = [Trades EXCEPT ![id].done = @ + n, ![id].paid = @ + price * n,
                      ![id].state = IF n = Trades[id].size - Trades[id].done
                                    THEN "Filled" ELSE "PartiallyFilled"]
  <2> DEFINE new == IF n = Trades[id].size - Trades[id].done THEN "Filled" ELSE "PartiallyFilled"
             amount == price * n
             side == IF Buys(spec) THEN "buy" ELSE "sell"
  <2>1. Trades' = [Trades EXCEPT ![id] = Trade(o)]
    BY <1>1, <1>7, TradeChanges
  <2>2. Trades[id] = [side |-> side, size |-> spec.quantity, done |-> order.filled,
                      paid |-> order.paid, state |-> order.state]
    BY <1>5 DEF Trade
  <2>3. Trade(o) = [side |-> Trades[id].side, size |-> Trades[id].size,
                    done |-> Trades[id].done + n, paid |-> Trades[id].paid + amount, state |-> new]
    BY <1>8
  <2>4. id \in DOMAIN Trades
    BY <1>1, TradesFacts
  <2> HIDE DEF n, price, order, spec, new, amount, side
  <2>5. Trade(o) = [Trades[id] EXCEPT !.done = @ + n, !.paid = @ + amount, !.state = new]
    <3> DEFINE Changed(t, d, p, s) ==
                  [side |-> t.side, size |-> t.size, done |-> t.done + d, paid |-> t.paid + p,
                   state |-> s]
                  = [t EXCEPT !.done = @ + d, !.paid = @ + p, !.state = s]
    <3>1. \A z, q, d, p, s : \A t :
             t = [side |-> z, size |-> q, done |-> d, paid |-> p, state |-> s] =>
                \A k, a, w : Changed(t, k, a, w)
      BY TradeExecuted
    <3> HIDE DEF Changed
    <3>2. Changed(Trades[id], n, amount, new)
      BY <2>2, <3>1
    <3> QED BY <2>3, <3>2 DEF Changed
  <2>6. Trades' = [Trades EXCEPT ![id].done = @ + n, ![id].paid = @ + amount, ![id].state = new]
    BY <2>1, <2>4, <2>5
  <2> QED BY <2>6 DEF new, amount
<1>10. LET balance == IF Trades[id].side = "buy" THEN cash - price * n ELSE cash + price * n
       IN  (balance >= 0 \/ allowNegative) /\ cash' = balance
  BY <1>5, <1>7 DEF CashAfter, Affordable
<1>11. B!Execute(id, n, price)
  BY <1>2, <1>5, <1>6, <1>9, <1>10 DEF B!Execute, B!Executable
<1> HIDE DEF n, price
<1> QED BY <1>4, <1>6, <1>11

\* Every kind of step is one of the brokerage, or none.
LEMMA StepBrokerage ==
  ASSUME Inv, StepOf, UNCHANGED allowNegative
  PROVE  [B!BrokerageNext]_(B!state)
<1>1. /\ orders \in Seq(Orders) /\ \A i \in Ids : orders[i] \in Orders
      /\ Len(Trades) = Len(orders) /\ 1..Len(Trades) = Ids
      /\ \A i \in Ids : Trades[i] = Trade(orders[i])
  BY OrderTypes, TradesFacts DEF Inv, TypeOK, Ids
<1>2. CASE Idles
  <2>1. Trades' = Trades
    BY <1>2 DEF Idles, Trades, Ids
  <2> QED BY <1>2, <2>1 DEF Idles, B!state
<1>3. ASSUME NEW o \in Orders, Places(o)
      PROVE  \E side \in {"buy", "sell"}, size \in {s.quantity : s \in OrderSpecs} :
               B!Place(side, size)
  <2> DEFINE side == IF Buys(o.spec) THEN "buy" ELSE "sell"
             size == o.spec.quantity
  <2>1. Trades' = Append(Trades, Trade(o)) /\ UNCHANGED cash
    BY <1>1, <1>3, TradePlaced DEF Places
  <2>2. Trade(o) = [side |-> side, size |-> size, done |-> 0, paid |-> 0, state |-> "Submitted"]
    BY <1>3 DEF Places, Trade
  <2>3. o.spec \in OrderSpecs
    BY DEF Orders
  <2>4. side \in {"buy", "sell"} /\ size \in {s.quantity : s \in OrderSpecs}
    BY <2>3
  <2>5. B!Place(side, size)
    BY <2>1, <2>2 DEF B!Place
  <2> HIDE DEF side, size
  <2> QED BY <2>4, <2>5
<1>4. ASSUME NEW id \in Ids, Cancels(id)
      PROVE  B!Cancel(id)
  <2> DEFINE o == [orders[id] EXCEPT !.state = "Canceled"]
  <2>1. Trades' = [Trades EXCEPT ![id] = Trade(o)] /\ UNCHANGED cash
    BY <1>1, <1>4, TradeChanges DEF Cancels
  <2>2. Trade(o) = [Trade(orders[id]) EXCEPT !.state = "Canceled"]
    <3>1. /\ o.spec = orders[id].spec /\ o.filled = orders[id].filled
          /\ o.paid = orders[id].paid /\ o.state = "Canceled"
      BY <1>1 DEF Orders
    <3> HIDE DEF o
    <3> QED BY <3>1, TradeStates
  <2>3. orders[id].state \in {"Submitted", "Accepted", "PartiallyFilled"}
    BY <1>1, <1>4 DEF Orders, States, Cancels, IsActive
  <2>4. Trades[id].state = orders[id].state
    BY <1>1, TradeStates
  <2>5. Trades' = [Trades EXCEPT ![id].state = "Canceled"]
    BY <1>1, <2>1, <2>2
  <2> QED BY <2>1, <2>3, <2>4, <2>5 DEF B!Cancel, B!Open
<1>5. ASSUME NEW id \in Ids, Accepts(id)
      PROVE  B!Accept(id)
  <2> DEFINE o == [orders[id] EXCEPT !.state = "Accepted", !.accepted = today]
  <2>1. Trades' = [Trades EXCEPT ![id] = Trade(o)] /\ UNCHANGED cash
    BY <1>1, <1>5, TradeChanges DEF Accepts
  <2>2. Trade(o) = [Trade(orders[id]) EXCEPT !.state = "Accepted"]
    <3>1. /\ o.spec = orders[id].spec /\ o.filled = orders[id].filled
          /\ o.paid = orders[id].paid /\ o.state = "Accepted"
      BY <1>1 DEF Orders
    <3> HIDE DEF o
    <3> QED BY <3>1, TradeStates
  <2>3. Trades[id].state = "Submitted"
    BY <1>1, <1>5, TradeStates DEF Accepts
  <2>4. Trades' = [Trades EXCEPT ![id].state = "Accepted"]
    BY <1>1, <2>1, <2>2
  <2> QED BY <2>1, <2>3, <2>4 DEF B!Accept
<1>6. ASSUME NEW id \in Ids, LooksAt(id)
      PROVE  UNCHANGED << Trades, cash >>
  <2>1. PICK hit \in BOOLEAN : Becomes(id, [orders[id] EXCEPT !.stopHit = hit])
    BY <1>6 DEF LooksAt
  <2>2. Trade([orders[id] EXCEPT !.stopHit = hit]) = Trade(orders[id])
    <3> DEFINE o == [orders[id] EXCEPT !.stopHit = hit]
    <3>1. /\ o.spec = orders[id].spec /\ o.filled = orders[id].filled
          /\ o.paid = orders[id].paid /\ o.state = orders[id].state
      BY <1>1 DEF Orders
    <3> HIDE DEF o
    <3>2. Trade(o) = Trade(orders[id])
      BY <3>1, TradeStates
    <3> QED BY <3>2 DEF o
  <2>3. Trades' = [Trades EXCEPT ![id] = Trades[id]]
    BY <1>1, <2>1, <2>2, TradeChanges
  <2>4. [Trades EXCEPT ![id] = Trades[id]] = Trades
    BY DEF Trades
  <2> QED BY <1>6, <2>3, <2>4 DEF LooksAt
<1>7. ASSUME NEW id \in Ids, NEW o \in Orders, ExecutesAs(id, o)
      PROVE  \E n \in 1..Trades[id].size, price \in PricesOffered : B!Execute(id, n, price)
  BY <1>7, ExecutionBrokerage
<1>8. CASE \E o \in Orders : Places(o)
  BY <1>3, <1>8 DEF B!BrokerageNext
<1>9. CASE \E id \in Ids : Cancels(id) \/ Accepts(id) \/ LooksAt(id)
  BY <1>1, <1>4, <1>5, <1>6, <1>9 DEF B!BrokerageNext, B!state
<1>10. CASE \E id \in Ids, o \in Orders : ExecutesAs(id, o)
  BY <1>1, <1>7, <1>10 DEF B!BrokerageNext
<1> QED BY <1>2, <1>8, <1>9, <1>10 DEF StepOf

\* The exchange implements the brokerage: whatever the clients do inside the
\* announcements, orders pass through their states one at a time and the cash
\* moves only, and exactly, with what is executed.
THEOREM ExchangeIsABrokerage == Spec => ImplementsBrokerage
<1>1. IInv /\ [Next]_vars => [B!BrokerageNext]_(B!state)
  BY StepKinds, StepBrokerage, NextMoves, OverdraftStays DEF IInv
<1> QED BY <1>1, AlwaysIInv, InitBrokerage, PTL DEF Spec, ImplementsBrokerage, B!BrokerageSpec
-----------------------------------------------------------------------------
(***************************************************************************)
(* Sums over finite sets, for what is said of shares and money.            *)
(*                                                                         *)
(* The folds of the community modules sum an operator, which a lemma here   *)
(* cannot quantify over: Total sums a function.  AllSubsets is induction    *)
(* over the subsets of a finite set, told of a set of them.                *)
(***************************************************************************)
\* A set of natural numbers that has 0 and with each number the next has all.
LEMMA AllNaturals ==
  ASSUME NEW T, 0 \in T, \A n \in Nat : n \in T => n + 1 \in T
  PROVE  \A n \in Nat : n \in T
<1> DEFINE R == OpToRel(<, Nat)
           Missing == {n \in Nat : n \notin T}
<1> SUFFICES ASSUME Missing # {} PROVE FALSE
  OBVIOUS
<1>1. \A m, n \in Nat : << m, n >> \in R <=> m < n
  BY DEF OpToRel
<1>2. \E m \in Missing : \A n \in Missing : << n, m >> \notin R
  <2>1. Missing \subseteq Nat
    OBVIOUS
  <2> HIDE DEF Missing
  <2> QED BY <2>1, NatLessThanWellFounded, WFMin, Zenon
<1> HIDE DEF R
<1>3. PICK m \in Missing : \A n \in Missing : ~(n < m)
  BY <1>1, <1>2
<1>4. m # 0 /\ m \in Nat
  OBVIOUS
<1>5. m - 1 \in Nat /\ m - 1 \notin Missing
  BY <1>3, <1>4
<1> QED BY <1>4, <1>5

\* A set without one of its elements.
LEMMA OneLess ==
  ASSUME NEW S, IsFiniteSet(S), NEW s \in SUBSET S
  PROVE  /\ IsFiniteSet(s) /\ Cardinality(s) \in Nat /\ (Cardinality(s) = 0 <=> s = {})
         /\ Cardinality(s) <= Cardinality(S)
         /\ \A x \in s : /\ s \ {x} \in SUBSET S
                         /\ Cardinality(s \ {x}) = Cardinality(s) - 1
<1>1. IsFiniteSet(s) /\ Cardinality(s) <= Cardinality(S)
  BY FS_Subset
<1>2. Cardinality(s) \in Nat /\ (Cardinality(s) = 0 <=> s = {})
  BY <1>1, FS_CardinalityType, FS_EmptySet
<1>3. ASSUME NEW x \in s PROVE Cardinality(s \ {x}) = Cardinality(s) - 1
  BY <1>1, FS_RemoveElement
<1> QED BY <1>1, <1>2, <1>3

\* What holds of the empty set, and of a set if of it without any one of its
\* elements, holds of every finite set.
LEMMA AllSubsets ==
  ASSUME NEW S, IsFiniteSet(S), NEW T, {} \in T,
         \A s \in SUBSET S : s # {} /\ (\A x \in s : s \ {x} \in T) => s \in T
  PROVE  \A s \in SUBSET S : s \in T
<1> DEFINE Counts == {n \in Nat : \A s \in SUBSET S : Cardinality(s) = n => s \in T}
<1>1. 0 \in Counts
  BY OneLess
<1>2. ASSUME NEW n \in Nat, n \in Counts PROVE n + 1 \in Counts
  <2> SUFFICES ASSUME NEW s \in SUBSET S, Cardinality(s) = n + 1 PROVE s \in T
    OBVIOUS
  <2>1. s # {}
    BY OneLess
  <2>2. ASSUME NEW x \in s PROVE s \ {x} \in T
    <3>1. s \ {x} \in SUBSET S /\ Cardinality(s \ {x}) = n
      BY OneLess
    <3> QED BY <1>2, <3>1
  <2> QED BY <2>1, <2>2
<1> HIDE DEF Counts
<1>3. \A n \in Nat : n \in Counts
  BY <1>1, <1>2, AllNaturals
<1> QED BY <1>3, OneLess DEF Counts
-----------------------------------------------------------------------------
First(s) == CHOOSE x \in s : TRUE

\* h sums f up over the subsets of S.
SumsUp(h, f, S) ==
    h = [s \in SUBSET S |-> IF s = {} THEN 0 ELSE f[First(s)] + h[s \ {First(s)}]]

LEMMA FirstFacts ==
  ASSUME NEW s, s # {}
  PROVE  First(s) \in s
BY DEF First

LEMMA SumExists ==
  ASSUME NEW S, IsFiniteSet(S), NEW f, \A y \in S : f[y] \in Int
  PROVE  \E h : SumsUp(h, f, S)
<1> DEFINE UpTo(h, n) ==
      \A s \in SUBSET S : Cardinality(s) <= n =>
         h[s] = IF s = {} THEN 0 ELSE f[First(s)] + h[s \ {First(s)}]
           Counts == {n \in Nat : \E h : UpTo(h, n)}
<1>1. 0 \in Counts
  <2>1. UpTo([s \in SUBSET S |-> 0], 0)
    BY OneLess
  <2> QED BY <2>1
<1>2. ASSUME NEW n \in Nat, n \in Counts PROVE n + 1 \in Counts
  <2>1. PICK h : UpTo(h, n)
    BY <1>2
  <2> DEFINE g == [s \in SUBSET S |->
                     IF s = {} THEN 0
                     ELSE IF Cardinality(s) <= n THEN h[s] ELSE f[First(s)] + h[s \ {First(s)}]]
  <2>2. ASSUME NEW s \in SUBSET S, Cardinality(s) <= n + 1
        PROVE  g[s] = IF s = {} THEN 0 ELSE f[First(s)] + g[s \ {First(s)}]
    <3> SUFFICES ASSUME s # {} PROVE g[s] = f[First(s)] + g[s \ {First(s)}]
      OBVIOUS
    <3> DEFINE r == s \ {First(s)}
    <3>1. r \in SUBSET S /\ Cardinality(r) = Cardinality(s) - 1 /\ Cardinality(s) \in Nat
      BY OneLess, FirstFacts
    <3>2. Cardinality(r) <= n
      BY <2>2, <3>1
    <3>4. g[r] = h[r]
      <4>1. r = {} => h[r] = 0
        BY <2>1, <3>1, <3>2
      <4> HIDE DEF r
      <4> QED BY <3>1, <3>2, <4>1
    <3>5. Cardinality(s) <= n => h[s] = f[First(s)] + h[r]
      BY <2>1
    <3>6. g[s] = f[First(s)] + h[r]
      BY <3>5
    <3> QED BY <3>4, <3>6
  <2>3. UpTo(g, n + 1)
    BY <2>2
  <2> HIDE DEF g, UpTo
  <2> QED BY <2>3
<1>3. Cardinality(S) \in Counts
  <2> HIDE DEF Counts
  <2>1. \A n \in Nat : n \in Counts
    BY <1>1, <1>2, AllNaturals
  <2> QED BY <2>1, FS_CardinalityType
<1>4. PICK h : UpTo(h, Cardinality(S))
  BY <1>3
<1> DEFINE g == [s \in SUBSET S |-> h[s]]
<1>5. ASSUME NEW s \in SUBSET S
      PROVE  g[s] = IF s = {} THEN 0 ELSE f[First(s)] + g[s \ {First(s)}]
  <2>1. h[s] = IF s = {} THEN 0 ELSE f[First(s)] + h[s \ {First(s)}]
    BY <1>4, OneLess
  <2> QED BY <2>1
<1>6. SumsUp(g, f, S)
  BY <1>5 DEF SumsUp
<1> QED BY <1>6

\* What such an h is.
LEMMA SumFacts ==
  ASSUME NEW S, IsFiniteSet(S), NEW f, \A y \in S : f[y] \in Int, NEW h, SumsUp(h, f, S)
  PROVE  /\ h[{}] = 0
         /\ \A s \in SUBSET S :
               /\ h[s] \in Int
               /\ \A x \in s : h[s] = f[x] + h[s \ {x}]
<1>1. \A s \in SUBSET S : h[s] = IF s = {} THEN 0 ELSE f[First(s)] + h[s \ {First(s)}]
  BY DEF SumsUp
<1>2. h[{}] = 0
  BY <1>1
<1> DEFINE T == {s \in SUBSET S : /\ h[s] \in Int
                                  /\ \A x \in s : /\ h[s \ {x}] \in Int
                                                  /\ h[s] = f[x] + h[s \ {x}]}
<1>3. {} \in T
  BY <1>2
<1>4. ASSUME NEW s \in SUBSET S, s # {}, \A x \in s : s \ {x} \in T PROVE s \in T
  <2> DEFINE c == First(s)
  <2>1. c \in s /\ h[s] = f[c] + h[s \ {c}]
    BY <1>1, <1>4, FirstFacts
  <2> HIDE DEF c
  <2>2. h[s] \in Int
    <3>1. f[c] \in Int
      BY <2>1
    <3>2. h[s \ {c}] \in Int
      BY <1>4, <2>1
    <3> QED BY <2>1, <3>1, <3>2
  <2>3. ASSUME NEW x \in s, x # c PROVE h[s] = f[x] + h[s \ {x}]
    <3> DEFINE r == (s \ {c}) \ {x}
    <3>1. h[s \ {c}] = f[x] + h[r]
      BY <1>4, <2>1, <2>3
    <3>2. (s \ {x}) \ {c} = r
      OBVIOUS
    <3>3. h[s \ {x}] = f[c] + h[r] /\ h[r] \in Int
      <4>1. s \ {x} \in T /\ c \in s \ {x}
        BY <1>4, <2>1, <2>3
      <4>2. h[s \ {x}] = f[c] + h[(s \ {x}) \ {c}] /\ h[(s \ {x}) \ {c}] \in Int
        BY <4>1
      <4> QED BY <3>2, <4>2
    <3>4. f[x] \in Int /\ f[c] \in Int
      BY <2>1, <2>3
    <3> HIDE DEF r
    <3> QED BY <2>1, <3>1, <3>3, <3>4
  <2>4. \A x \in s : h[s \ {x}] \in Int
    BY <1>4
  <2> QED BY <2>1, <2>2, <2>3, <2>4
<1> HIDE DEF T
<1>5. \A s \in SUBSET S : s \in T
  BY <1>3, <1>4, AllSubsets
<1> QED BY <1>2, <1>5 DEF T

LEMMA SumStep ==
  ASSUME NEW S, IsFiniteSet(S), NEW f, \A y \in S : f[y] \in Int, NEW h, SumsUp(h, f, S),
         NEW s \in SUBSET S, NEW x \in s
  PROVE  h[s] = f[x] + h[s \ {x}] /\ h[s] \in Int /\ h[s \ {x}] \in Int
<1>1. \A r \in SUBSET S : h[r] \in Int
  BY SumFacts
<1>2. h[s] = f[x] + h[s \ {x}]
  BY SumFacts
<1>3. s \ {x} \in SUBSET S
  OBVIOUS
<1> QED BY <1>1, <1>2, <1>3

LEMMA SumWhole ==
  ASSUME NEW S, IsFiniteSet(S), NEW f, \A y \in S : f[y] \in Int, NEW h, SumsUp(h, f, S),
         NEW x \in S
  PROVE  h[S] = f[x] + h[S \ {x}] /\ h[S] \in Int /\ h[S \ {x}] \in Int
BY SumStep

\* Two sums of the same numbers.
LEMMA SumSame ==
  ASSUME NEW S, IsFiniteSet(S), NEW f, \A y \in S : f[y] \in Int, NEW h, SumsUp(h, f, S),
         NEW R, IsFiniteSet(R), NEW g, \A y \in R : g[y] \in Int, NEW i, SumsUp(i, g, R),
         NEW U \in SUBSET (S \cap R), \A x \in U : f[x] = g[x]
  PROVE  h[U] = i[U]
<1> DEFINE T == {s \in SUBSET U : h[s] = i[s]}
<1>1. {} \in T
  BY SumFacts
<1>2. ASSUME NEW s \in SUBSET U, s # {}, \A x \in s : s \ {x} \in T PROVE s \in T
  <2>1. PICK x \in s : TRUE
    BY <1>2
  <2>2. s \in SUBSET S /\ s \in SUBSET R
    OBVIOUS
  <2>3. h[s] = f[x] + h[s \ {x}] /\ i[s] = g[x] + i[s \ {x}]
    BY <2>1, <2>2, SumFacts
  <2>4. h[s \ {x}] = i[s \ {x}] /\ f[x] = g[x]
    BY <1>2, <2>1
  <2> QED BY <2>3, <2>4
<1>3. IsFiniteSet(U)
  BY FS_Subset
<1> HIDE DEF T
<1>4. U \in T
  BY <1>1, <1>2, <1>3, AllSubsets
<1> QED BY <1>4 DEF T

\* The sum of f over S.
Total(f, S) == (CHOOSE h : SumsUp(h, f, S))[S]

LEMMA TotalFacts ==
  ASSUME NEW S, IsFiniteSet(S), NEW f, \A y \in S : f[y] \in Int
  PROVE  \E h : SumsUp(h, f, S) /\ Total(f, S) = h[S] /\ h[S] \in Int
<1> DEFINE h == CHOOSE g : SumsUp(g, f, S)
<1>1. SumsUp(h, f, S)
  BY SumExists
<1>2. Total(f, S) = h[S]
  BY DEF Total
<1> HIDE DEF h
<1>3. h[S] \in Int
  BY <1>1, SumFacts
<1> QED BY <1>1, <1>2, <1>3

\* Whatever sums f up gives its sum.
LEMMA TotalIs ==
  ASSUME NEW S, IsFiniteSet(S), NEW f, \A y \in S : f[y] \in Int, NEW h, SumsUp(h, f, S)
  PROVE  h[S] = Total(f, S)
<1>1. PICK g : SumsUp(g, f, S) /\ Total(f, S) = g[S]
  BY TotalFacts
<1> QED BY <1>1, SumSame

LEMMA TotalNone ==
  ASSUME NEW f
  PROVE  Total(f, {}) = 0
<1>1. IsFiniteSet({})
  BY FS_EmptySet
<1>2. PICK h : SumsUp(h, f, {}) /\ Total(f, {}) = h[{}]
  BY <1>1, TotalFacts
<1> QED BY <1>1, <1>2, SumFacts

\* One more number.
LEMMA TotalMore ==
  ASSUME NEW S, IsFiniteSet(S), NEW f, \A y \in S : f[y] \in Int, NEW x, x \notin S,
         NEW g, \A y \in S \cup {x} : g[y] \in Int, \A y \in S : g[y] = f[y]
  PROVE  Total(g, S \cup {x}) = g[x] + Total(f, S)
<1> DEFINE R == S \cup {x}
<1>1. IsFiniteSet(R)
  BY FS_AddElement
<1>2. PICK h : SumsUp(h, f, S) /\ Total(f, S) = h[S]
  BY TotalFacts
<1>3. PICK i : SumsUp(i, g, R) /\ Total(g, R) = i[R]
  BY <1>1, TotalFacts
<1>4. i[R] = g[x] + i[R \ {x}]
  <2>1. x \in R /\ \A y \in R : g[y] \in Int
    OBVIOUS
  <2> HIDE DEF R
  <2> QED BY <1>1, <1>3, <2>1, SumWhole
<1>5. R \ {x} = S
  OBVIOUS
<1>6. i[S] = h[S]
  BY <1>1, <1>2, <1>3, SumSame
<1> QED BY <1>2, <1>3, <1>4, <1>5, <1>6

\* A number and the others.
LEMMA TotalSplit ==
  ASSUME NEW S, IsFiniteSet(S), NEW f, \A y \in S : f[y] \in Int, NEW x \in S
  PROVE  \E h : SumsUp(h, f, S) /\ h[S \ {x}] \in Int /\ Total(f, S) = f[x] + h[S \ {x}]
<1>1. PICK h : SumsUp(h, f, S) /\ Total(f, S) = h[S]
  BY TotalFacts
<1>2. h[S] = f[x] + h[S \ {x}] /\ h[S \ {x}] \in Int
  BY <1>1, SumWhole
<1> QED BY <1>1, <1>2

\* One other number.
LEMMA TotalChange ==
  ASSUME NEW S, IsFiniteSet(S), NEW f, \A y \in S : f[y] \in Int, NEW x \in S,
         NEW g, \A y \in S : g[y] \in Int, \A y \in S \ {x} : g[y] = f[y]
  PROVE  Total(g, S) = Total(f, S) + (g[x] - f[x])
<1> DEFINE R == S \ {x}
<1>1. PICK h : SumsUp(h, f, S) /\ h[R] \in Int /\ Total(f, S) = f[x] + h[R]
  BY TotalSplit
<1>2. PICK i : SumsUp(i, g, S) /\ i[R] \in Int /\ Total(g, S) = g[x] + i[R]
  BY ONLY IsFiniteSet(S), \A y \in S : g[y] \in Int, x \in S, TotalSplit
<1>3. h[R] = i[R]
  BY <1>1, <1>2, SumSame
<1>4. g[x] \in Int /\ f[x] \in Int
  OBVIOUS
<1> HIDE DEF R
<1> QED BY <1>1, <1>2, <1>3, <1>4

\* Any element of any subset may be taken for its first.
LEMMA SumSteps ==
  ASSUME NEW S, IsFiniteSet(S), NEW f, \A y \in S : f[y] \in Int, NEW h, SumsUp(h, f, S)
  PROVE  \A s \in SUBSET S : \A x \in s :
            h[s] = f[x] + h[s \ {x}] /\ h[s \ {x}] \in Int
<1> SUFFICES ASSUME NEW s \in SUBSET S, NEW x \in s
             PROVE  h[s] = f[x] + h[s \ {x}] /\ h[s \ {x}] \in Int
  OBVIOUS
<1> QED BY SumStep

\* Sums of sums.
LEMMA TotalAdds ==
  ASSUME NEW S, IsFiniteSet(S), NEW f, \A y \in S : f[y] \in Int,
         NEW g, \A y \in S : g[y] \in Int, NEW k, \A y \in S : k[y] = f[y] + g[y]
  PROVE  Total(k, S) = Total(f, S) + Total(g, S)
<1>0. \A y \in S : k[y] \in Int
  OBVIOUS
<1>1. PICK h : SumsUp(h, f, S) /\ Total(f, S) = h[S]
  BY TotalFacts
<1>2. PICK i : SumsUp(i, g, S) /\ Total(g, S) = i[S]
  BY TotalFacts
<1>3. PICK j : SumsUp(j, k, S) /\ Total(k, S) = j[S]
  BY <1>0, TotalFacts
<1>7. \A s \in SUBSET S : \A x \in s :
         h[s] = f[x] + h[s \ {x}] /\ h[s \ {x}] \in Int
  BY ONLY IsFiniteSet(S), \A y \in S : f[y] \in Int, <1>1, SumSteps
<1>8. \A s \in SUBSET S : \A x \in s :
         i[s] = g[x] + i[s \ {x}] /\ i[s \ {x}] \in Int
  BY ONLY IsFiniteSet(S), \A y \in S : g[y] \in Int, <1>2, SumSteps
<1>9. \A s \in SUBSET S : \A x \in s :
         j[s] = k[x] + j[s \ {x}] /\ j[s \ {x}] \in Int
  BY ONLY IsFiniteSet(S), <1>0, <1>3, SumSteps
<1> DEFINE T == {s \in SUBSET S : j[s] = h[s] + i[s]}
<1>4. {} \in T
  <2>1. h[{}] = 0 /\ i[{}] = 0 /\ j[{}] = 0
    BY <1>0, <1>1, <1>2, <1>3, SumFacts
  <2> QED BY <2>1
<1>5. ASSUME NEW s \in SUBSET S, s # {}, \A x \in s : s \ {x} \in T PROVE s \in T
  <2>1. PICK x \in s : TRUE
    BY <1>5
  <2>2. h[s] = f[x] + h[s \ {x}] /\ h[s \ {x}] \in Int
    BY <1>7
  <2>3. i[s] = g[x] + i[s \ {x}] /\ i[s \ {x}] \in Int
    BY <1>8
  <2>4. j[s] = k[x] + j[s \ {x}]
    BY <1>9
  <2>5. j[s \ {x}] = h[s \ {x}] + i[s \ {x}] /\ k[x] = f[x] + g[x]
        /\ f[x] \in Int /\ g[x] \in Int
    BY <1>5, <2>1
  <2>6. j[s] = h[s] + i[s]
    BY <2>2, <2>3, <2>4, <2>5
  <2> QED BY <2>6
<1> HIDE DEF T
<1>6. S \in T
  BY <1>4, <1>5, AllSubsets
<1> QED BY <1>1, <1>2, <1>3, <1>6 DEF T

\* Sums of products with the same number.
LEMMA TotalTimes ==
  ASSUME NEW S, IsFiniteSet(S), NEW f, \A y \in S : f[y] \in Int,
         NEW c \in Int, NEW k, \A y \in S : k[y] = c * f[y]
  PROVE  Total(k, S) = c * Total(f, S)
<1>0. \A y \in S : k[y] \in Int
  OBVIOUS
<1>1. PICK h : SumsUp(h, f, S) /\ Total(f, S) = h[S]
  BY TotalFacts
<1>2. PICK j : SumsUp(j, k, S) /\ Total(k, S) = j[S]
  BY <1>0, TotalFacts
<1>6. \A s \in SUBSET S : \A x \in s :
         h[s] = f[x] + h[s \ {x}] /\ h[s \ {x}] \in Int
  BY ONLY IsFiniteSet(S), \A y \in S : f[y] \in Int, <1>1, SumSteps
<1>7. \A s \in SUBSET S : \A x \in s :
         j[s] = k[x] + j[s \ {x}] /\ j[s \ {x}] \in Int
  BY ONLY IsFiniteSet(S), <1>0, <1>2, SumSteps
<1> DEFINE T == {s \in SUBSET S : j[s] = c * h[s]}
<1>3. {} \in T
  <2>1. h[{}] = 0 /\ j[{}] = 0
    BY <1>0, <1>1, <1>2, SumFacts
  <2> QED BY <2>1
<1>4. ASSUME NEW s \in SUBSET S, s # {}, \A x \in s : s \ {x} \in T PROVE s \in T
  <2>1. PICK x \in s : TRUE
    BY <1>4
  <2>2. h[s] = f[x] + h[s \ {x}] /\ h[s \ {x}] \in Int
    BY <1>6
  <2>3. j[s] = k[x] + j[s \ {x}]
    BY <1>7
  <2>4. j[s \ {x}] = c * h[s \ {x}] /\ k[x] = c * f[x] /\ f[x] \in Int
    BY <1>4, <2>1
  <2>5. \A a, b \in Int : c * (a + b) = c * a + c * b
    OBVIOUS
  <2>6. j[s] = c * h[s]
    BY <2>2, <2>3, <2>4, <2>5
  <2> QED BY <2>6
<1> HIDE DEF T
<1>5. S \in T
  BY <1>3, <1>4, AllSubsets
<1> QED BY <1>1, <1>2, <1>5 DEF T

\* Sums of smaller numbers.
LEMMA TotalAtMost ==
  ASSUME NEW S, IsFiniteSet(S), NEW f, \A y \in S : f[y] \in Int,
         NEW g, \A y \in S : g[y] \in Int, \A y \in S : f[y] <= g[y]
  PROVE  Total(f, S) <= Total(g, S)
<1>1. PICK h : SumsUp(h, f, S) /\ Total(f, S) = h[S]
  BY TotalFacts
<1>2. PICK i : SumsUp(i, g, S) /\ Total(g, S) = i[S]
  BY TotalFacts
<1>6. \A s \in SUBSET S : \A x \in s :
         h[s] = f[x] + h[s \ {x}] /\ h[s \ {x}] \in Int
  BY ONLY IsFiniteSet(S), \A y \in S : f[y] \in Int, <1>1, SumSteps
<1>7. \A s \in SUBSET S : \A x \in s :
         i[s] = g[x] + i[s \ {x}] /\ i[s \ {x}] \in Int
  BY ONLY IsFiniteSet(S), \A y \in S : g[y] \in Int, <1>2, SumSteps
<1> DEFINE T == {s \in SUBSET S : h[s] <= i[s]}
<1>3. {} \in T
  <2>1. h[{}] = 0 /\ i[{}] = 0
    BY <1>1, <1>2, SumFacts
  <2> QED BY <2>1
<1>4. ASSUME NEW s \in SUBSET S, s # {}, \A x \in s : s \ {x} \in T PROVE s \in T
  <2>1. PICK x \in s : TRUE
    BY <1>4
  <2>2. h[s] = f[x] + h[s \ {x}] /\ h[s \ {x}] \in Int
    BY <1>6
  <2>3. i[s] = g[x] + i[s \ {x}] /\ i[s \ {x}] \in Int
    BY <1>7
  <2>4. h[s \ {x}] <= i[s \ {x}] /\ f[x] <= g[x] /\ f[x] \in Int /\ g[x] \in Int
    BY <1>4, <2>1
  <2>5. h[s] <= i[s]
    BY <2>2, <2>3, <2>4
  <2> QED BY <2>5
<1> HIDE DEF T
<1>5. S \in T
  BY <1>3, <1>4, AllSubsets
<1> QED BY <1>1, <1>2, <1>5 DEF T

\* A sum of numbers that are all the same.
LEMMA TotalSame ==
  ASSUME NEW S, IsFiniteSet(S), NEW c \in Int, NEW f, \A y \in S : f[y] = c
  PROVE  Total(f, S) = c * Cardinality(S)
<1>0. \A y \in S : f[y] \in Int
  OBVIOUS
<1>1. PICK h : SumsUp(h, f, S) /\ Total(f, S) = h[S]
  BY <1>0, TotalFacts
<1>5. \A s \in SUBSET S : \A x \in s :
         h[s] = f[x] + h[s \ {x}] /\ h[s \ {x}] \in Int
  BY <1>0, <1>1, SumSteps
<1> DEFINE T == {s \in SUBSET S : h[s] = c * Cardinality(s)}
<1>2. {} \in T
  <2>1. h[{}] = 0
    BY <1>0, <1>1, SumFacts
  <2>2. Cardinality({}) = 0
    BY FS_EmptySet
  <2> QED BY <2>1, <2>2
<1>3. ASSUME NEW s \in SUBSET S, s # {}, \A x \in s : s \ {x} \in T PROVE s \in T
  <2>1. PICK x \in s : TRUE
    BY <1>3
  <2>2. h[s] = f[x] + h[s \ {x}]
    BY <1>5
  <2>3. h[s \ {x}] = c * Cardinality(s \ {x}) /\ f[x] = c
    BY <1>3, <2>1
  <2>4. Cardinality(s) \in Nat /\ Cardinality(s \ {x}) = Cardinality(s) - 1
    BY OneLess
  <2>5. \A n \in Nat : c + c * (n - 1) = c * n
    OBVIOUS
  <2>6. h[s] = c * Cardinality(s)
    BY <2>2, <2>3, <2>4, <2>5
  <2> QED BY <2>6
<1> HIDE DEF T
<1>4. \A s \in SUBSET S : s \in T
  BY <1>2, <1>3, AllSubsets
<1> QED BY <1>1, <1>4 DEF T

\* Numbers beside those of S are all zero.
LEMMA TotalExtends ==
  ASSUME NEW R, IsFiniteSet(R), NEW S \in SUBSET R,
         NEW f, \A y \in S : f[y] \in Int, NEW g, \A y \in R : g[y] \in Int,
         \A y \in S : g[y] = f[y], \A y \in R \ S : g[y] = 0
  PROVE  Total(g, R) = Total(f, S)
<1>1. IsFiniteSet(S) /\ IsFiniteSet(R \ S)
  BY FS_Subset
<1>2. PICK h : SumsUp(h, f, S) /\ Total(f, S) = h[S] /\ h[S] \in Int
  BY <1>1, TotalFacts
<1>3. PICK i : SumsUp(i, g, R) /\ Total(g, R) = i[R]
  BY TotalFacts
<1>4. \A s \in SUBSET R : \A x \in s :
         i[s] = g[x] + i[s \ {x}] /\ i[s \ {x}] \in Int
  BY ONLY IsFiniteSet(R), \A y \in R : g[y] \in Int, <1>3, SumSteps
<1> DEFINE T == {s \in SUBSET (R \ S) : i[S \cup s] = h[S]}
<1>5. {} \in T
  <2>1. i[S] = h[S]
    BY <1>1, <1>2, <1>3, SumSame
  <2>2. S \cup {} = S
    OBVIOUS
  <2> QED BY <2>1, <2>2
<1>6. ASSUME NEW s \in SUBSET (R \ S), s # {}, \A x \in s : s \ {x} \in T PROVE s \in T
  <2>1. PICK x \in s : TRUE
    BY <1>6
  <2>2. S \cup s \in SUBSET R /\ x \in S \cup s /\ (S \cup s) \ {x} = S \cup (s \ {x})
    BY <2>1
  <2>3. PICK v : v = S \cup s
    OBVIOUS
  <2>4. i[v] = g[x] + i[v \ {x}]
    BY <1>4, <2>2, <2>3
  <2>5. i[v \ {x}] = h[S]
    <3>1. i[S \cup (s \ {x})] = h[S]
      BY <1>6
    <3> QED BY <2>2, <2>3, <3>1
  <2>6. g[x] = 0
    BY <2>1
  <2>7. i[v] = h[S]
    BY <1>2, <2>4, <2>5, <2>6
  <2>8. i[S \cup s] = h[S]
    BY <2>3, <2>7
  <2> QED BY <2>8
<1> HIDE DEF T
<1>7. \A s \in SUBSET (R \ S) : s \in T
  <2>1. PICK U : U = R \ S
    OBVIOUS
  <2>2. IsFiniteSet(U) /\ {} \in T
    BY <1>1, <1>5, <2>1
  <2>3. \A s \in SUBSET U : s # {} /\ (\A x \in s : s \ {x} \in T) => s \in T
    BY <1>6, <2>1
  <2>4. \A s \in SUBSET U : s \in T
    BY ONLY <2>2, <2>3, AllSubsets
  <2> QED BY <2>1, <2>4
<1>8. i[S \cup (R \ S)] = h[S] /\ S \cup (R \ S) = R
  BY <1>7 DEF T
<1> QED BY <1>2, <1>3, <1>8

-----------------------------------------------------------------------------
(***************************************************************************)
(* The sums over the orders of the exchange.                               *)
(***************************************************************************)
\* The orders are finitely many.
LEMMA IdsFinite ==
  ASSUME TypeOK, NEW ids \in SUBSET Ids
  PROVE  IsFiniteSet(ids)
<1>1. Len(orders) \in Nat
  BY LenProperties DEF TypeOK
<1>2. IsFiniteSet(1..Len(orders))
  BY <1>1, FS_Interval
<1> QED BY <1>2, FS_Subset DEF Ids

\* What orders of these actions executed of symbol s.
FilledBy(s, action) ==
    [id \in Ids |-> IF orders[id].spec.action \in action /\ orders[id].spec.symbol = s
                    THEN orders[id].filled ELSE 0]

LEMMA FilledOfTotal ==
  ASSUME TypeOK, NEW s, NEW action
  PROVE  FilledOf(s, action) = Total(FilledBy(s, action), Ids) /\ FilledOf(s, action) \in Int
<1> DEFINE n(id) == IF orders[id].spec.action \in action /\ orders[id].spec.symbol = s
                    THEN orders[id].filled ELSE 0
           f == FilledBy(s, action)
           P(h) == h = [t \in SUBSET Ids |->
                          IF t = {} THEN 0
                          ELSE LET x == First(t) IN n(x) + h[t \ {x}]]
<1>1. FilledOf(s, action) = (CHOOSE h : P(h))[Ids]
  BY DEF FilledOf, MapThenSumSet, MapThenFoldSet, First
<1>2. ASSUME NEW t \in SUBSET Ids, t # {} PROVE n(First(t)) = f[First(t)]
  BY <1>2, FirstFacts DEF FilledBy
<1>3. \A h : P(h) <=> SumsUp(h, f, Ids)
  BY <1>2 DEF SumsUp
<1>4. IsFiniteSet(Ids) /\ \A y \in Ids : f[y] \in Int
  <2>1. \A id \in Ids : orders[id].filled \in Nat
    BY OrderTypes DEF Orders
  <2>2. IsFiniteSet(Ids)
    BY IdsFinite
  <2> QED BY <2>1, <2>2 DEF FilledBy
<1> HIDE DEF P, f
<1>5. \E h : SumsUp(h, f, Ids)
  BY <1>4, SumExists
<1>6. PICK c : c = (CHOOSE h : P(h)) /\ P(c)
  BY <1>3, <1>5
<1>7. SumsUp(c, f, Ids)
  BY <1>3, <1>6
<1>8. c[Ids] = Total(f, Ids) /\ Total(f, Ids) \in Int
  BY <1>4, <1>7, TotalIs, TotalFacts
<1> QED BY <1>1, <1>6, <1>8 DEF f

LEMMA FilledOfTotalNext ==
  ASSUME NEW s, NEW action
  PROVE  (TypeOK => FilledOf(s, action) = Total(FilledBy(s, action), Ids))'
<1>1. TypeOK => FilledOf(s, action) = Total(FilledBy(s, action), Ids)
  BY FilledOfTotal
<1> QED BY <1>1, PTL

\* Numbers of orders that grow by no execution.
Resting ==
    /\ Ids \subseteq Ids' /\ UNCHANGED << cash, shares >>
    /\ UNCHANGED volumeLeft \/ barNo' # barNo
    /\ \A id \in Ids : /\ orders'[id].spec = orders[id].spec
                       /\ orders'[id].filled = orders[id].filled
                       /\ orders'[id].paid = orders[id].paid
    /\ \A id \in Ids' \ Ids : orders'[id].filled = 0 /\ orders'[id].paid = 0

LEMMA StepMoves ==
  ASSUME Inv, StepOf
  PROVE  Resting \/ \E id \in Ids, o \in Orders : ExecutesAs(id, o)
<1>1. /\ orders \in Seq(Orders) /\ Len(orders) \in Nat
      /\ \A id \in Ids : orders[id] \in Orders
  BY OrderTypes, LenProperties DEF Inv, TypeOK
<1>2. CASE Idles
  BY <1>2 DEF Idles, Resting, Ids
<1>3. ASSUME NEW o \in Orders, Places(o) PROVE Resting
  <2>1. /\ Ids' = Ids \cup {Len(orders) + 1} /\ orders'[Len(orders) + 1] = o
        /\ \A i \in Ids : orders'[i] = orders[i]
    <3>1. orders' = Append(orders, o)
      BY <1>3 DEF Places
    <3>2. /\ Len(orders') = Len(orders) + 1 /\ orders'[Len(orders) + 1] = o
          /\ \A i \in 1..Len(orders) : orders'[i] = orders[i]
      BY <1>1, <3>1, AppendFacts
    <3> QED BY <1>1, <3>2 DEF Ids
  <2> QED BY <1>3, <2>1 DEF Places, Resting
<1>4. ASSUME NEW id \in Ids, NEW o, Becomes(id, o), o.filled = orders[id].filled,
             o.paid = orders[id].paid, UNCHANGED << cash, shares, volumeLeft >>
      PROVE  Resting
  BY <1>4 DEF Becomes, Resting, Ids
<1>5. ASSUME NEW id \in Ids, Cancels(id) \/ Accepts(id) \/ LooksAt(id) PROVE Resting
  <2>1. orders[id] \in Orders
    BY <1>1
  <2>2. CASE Cancels(id)
    <3>1. PICK o : o = [orders[id] EXCEPT !.state = "Canceled"]
      OBVIOUS
    <3>2. o.filled = orders[id].filled /\ o.paid = orders[id].paid
      BY <2>1, <3>1 DEF Orders
    <3> QED BY <1>4, <2>2, <3>1, <3>2 DEF Cancels
  <2>3. CASE Accepts(id)
    <3>1. PICK o : o = [orders[id] EXCEPT !.state = "Accepted", !.accepted = today]
      OBVIOUS
    <3>2. o.filled = orders[id].filled /\ o.paid = orders[id].paid
      BY <2>1, <3>1 DEF Orders
    <3> QED BY <1>4, <2>3, <3>1, <3>2 DEF Accepts
  <2>4. CASE LooksAt(id)
    <3>1. PICK hit \in BOOLEAN : Becomes(id, [orders[id] EXCEPT !.stopHit = hit])
      BY <2>4 DEF LooksAt
    <3>2. PICK o : o = [orders[id] EXCEPT !.stopHit = hit]
      OBVIOUS
    <3>3. o.filled = orders[id].filled /\ o.paid = orders[id].paid
      BY <2>1, <3>2 DEF Orders
    <3> QED BY <1>4, <2>4, <3>1, <3>2, <3>3 DEF LooksAt
  <2> QED BY <1>5, <2>2, <2>3, <2>4
<1> QED BY <1>2, <1>3, <1>5 DEF StepOf

\* Sums over orders when nothing is executed.
LEMMA RestingTotal ==
  ASSUME TypeOK, TypeOK', Ids \subseteq Ids',
         NEW f, \A id \in Ids : f[id] \in Int, NEW g, \A id \in Ids' : g[id] \in Int,
         \A id \in Ids : g[id] = f[id], \A id \in Ids' \ Ids : g[id] = 0
  PROVE  Total(g, Ids') = Total(f, Ids)
<1>1. IsFiniteSet(Ids')
  <2>1. Len(orders') \in Nat
    BY LenProperties DEF TypeOK
  <2>2. IsFiniteSet(1..Len(orders'))
    BY <2>1, FS_Interval
  <2> QED BY <2>2 DEF Ids
<1> QED BY <1>1, TotalExtends

\* What an execution adds to what was executed.
LEMMA FilledMoves ==
  ASSUME Inv, Inv', NEW s, NEW action
  PROVE  /\ FilledOf(s, action) \in Int
         /\ Resting => FilledOf(s, action)' = FilledOf(s, action)
         /\ \A id \in Ids, o \in Orders : ExecutesAs(id, o) =>
               FilledOf(s, action)' = FilledOf(s, action) +
                  IF orders[id].spec.action \in action /\ orders[id].spec.symbol = s
                  THEN FillOf(id).quantity ELSE 0
<1>1. TypeOK /\ TypeOK' /\ IsFiniteSet(Ids)
  BY IdsFinite DEF Inv
<1>2. PICK f, g : f = FilledBy(s, action) /\ g = FilledBy(s, action)'
  OBVIOUS
<1>3. FilledOf(s, action) = Total(f, Ids) /\ FilledOf(s, action)' = Total(g, Ids')
  <2>1. FilledOf(s, action)' = Total(FilledBy(s, action), Ids)'
    BY <1>1, FilledOfTotalNext
  <2> QED BY <1>1, <1>2, <2>1, FilledOfTotal
<1>4. \A id \in Ids : orders[id].filled \in Nat
  BY <1>1, OrderTypes DEF Orders
<1>5. \A id \in Ids' : orders'[id].filled \in Nat
  <2>1. \A id \in Ids' : orders'[id] \in Orders
    BY <1>1, ElementOfSeq DEF TypeOK, Ids
  <2> QED BY <2>1 DEF Orders
<1>6. (\A id \in Ids : f[id] \in Int) /\ (\A id \in Ids' : g[id] \in Int)
  BY <1>2, <1>4, <1>5 DEF FilledBy
<1>7. Total(f, Ids) \in Int
  BY <1>1, <1>6, TotalFacts
<1>8. ASSUME Resting PROVE Total(g, Ids') = Total(f, Ids)
  <2>1. /\ \A id \in Ids : g[id] = f[id]
        /\ \A id \in Ids' \ Ids : g[id] = 0
    BY <1>2, <1>8 DEF Resting, FilledBy
  <2> QED BY <1>1, <1>6, <1>8, <2>1, RestingTotal DEF Resting
<1>9. ASSUME NEW id \in Ids, NEW o \in Orders, ExecutesAs(id, o)
      PROVE  Total(g, Ids') = Total(f, Ids) +
                  IF orders[id].spec.action \in action /\ orders[id].spec.symbol = s
                  THEN FillOf(id).quantity ELSE 0
  <2>1. /\ Ids' = Ids /\ orders'[id] = o /\ o.spec = orders[id].spec
        /\ o.filled = orders[id].filled + FillOf(id).quantity
        /\ \A i \in Ids \ {id} : orders'[i] = orders[i]
    BY <1>9 DEF ExecutesAs, Becomes, Ids
  <2>2. FillOf(id).quantity \in Nat
    <3>1. FillOf(id).quantity \in 1..Remaining(orders[id])
      BY <1>9, ExecutionPrice
    <3>2. orders[id].spec.quantity \in Nat
      BY <1>1, OrderTypes, SpecsAssumption
    <3>3. Remaining(orders[id]) \in Int
      BY <1>4, <3>2 DEF Remaining
    <3> QED BY <3>1, <3>3
  <2>3. /\ \A i \in Ids \ {id} : g[i] = f[i]
        /\ g[id] - f[id] = IF orders[id].spec.action \in action /\ orders[id].spec.symbol = s
                           THEN FillOf(id).quantity ELSE 0
    <3>1. \A i \in Ids \ {id} : g[i] = f[i]
      BY <1>2, <2>1 DEF FilledBy
    <3>2. orders[id].filled \in Nat /\ g[id] - f[id] \in Int
      BY <1>4, <1>6, <2>1
    <3>3. CASE orders[id].spec.action \in action /\ orders[id].spec.symbol = s
      <4>1. f[id] = orders[id].filled /\ g[id] = o.filled
        BY <1>2, <2>1, <3>3 DEF FilledBy
      <4> QED BY <2>1, <2>2, <3>1, <3>2, <3>3, <4>1
    <3>4. CASE ~(orders[id].spec.action \in action /\ orders[id].spec.symbol = s)
      <4>1. f[id] = 0 /\ g[id] = 0
        BY <1>2, <2>1, <3>4 DEF FilledBy
      <4> QED BY <3>1, <3>4, <4>1
    <3> QED BY <3>3, <3>4
  <2>4. Total(g, Ids) = Total(f, Ids) + (g[id] - f[id])
    BY <1>1, <1>6, <2>1, <2>3, TotalChange
  <2> QED BY <2>1, <2>3, <2>4
<1> QED BY <1>3, <1>7, <1>8, <1>9
-----------------------------------------------------------------------------
(***************************************************************************)
(* Shares on the long side.                                                *)
(***************************************************************************)
\* Scaled to their precision the shares are no more than a double can hold
\* exactly: round_ keeps them, also where the sum of size_t has wrapped around.
LEMMA RoundWordKeeps ==
  ASSUME NEW n \in Nat, IsExact(n), NEW sum, sum = n \/ sum = n + Word, NEW cast
  PROVE  RoundWord(sum, cast) = n
<1>1. Word \in Nat \ {0} /\ Scale \in Nat \ {0} /\ Exact \in Nat /\ Exact < Word
  BY PrecisionAssumption
<1>2. \A a \in Nat, c \in Nat \ {0} : a <= a * c /\ a * c \in Nat /\ (a * c) \div c = a
  OBVIOUS
<1>3. \A a \in Nat : a < Word => a % Word = a /\ (a + Word) % Word = a
  BY <1>1
<1>4. PICK m : m = n * Scale
  OBVIOUS
<1>5. m \in Nat /\ n <= m /\ m \div Scale = n /\ m <= Exact /\ m < Word
  BY <1>1, <1>2, <1>4 DEF IsExact
<1>6. sum % Word = n /\ m % Word = m
  BY <1>1, <1>3, <1>5
<1>7. Double(m) = m
  BY <1>1, <1>5, DoubleFacts
<1>8. ToSize(m, cast) = m
  BY <1>1, <1>5, ToSizeFacts
<1>9. RoundWord(sum, cast) = ToSize(Double(m % Word), cast) \div Scale
  BY <1>4, <1>6 DEF RoundWord
<1> QED BY <1>5, <1>6, <1>7, <1>8, <1>9

\* What a sale adds where negative doubles wrap: the shares fall by it.
LEMMA SaleWraps ==
  ASSUME NEW q \in Nat, q * Scale <= Exact
  PROVE  ToSize(-Double(q % Word), "wraps") = IF q = 0 THEN 0 ELSE Word - q
<1>1. Word \in Nat \ {0} /\ Scale \in Nat \ {0} /\ Exact \in Nat /\ Exact < Word
  BY PrecisionAssumption
<1>2. \A a \in Nat, c \in Nat \ {0} : a <= a * c /\ a * c \in Nat
  OBVIOUS
<1>3. q <= Exact /\ q < Word
  <2> DEFINE m == q * Scale
  <2>1. q <= m /\ m \in Nat /\ m <= Exact
    BY <1>1, <1>2
  <2> HIDE DEF m
  <2> QED BY <1>1, <2>1
<1>4. q % Word = q
  BY <1>1, <1>3
<1>5. Double(q % Word) = q
  BY <1>1, <1>3, <1>4, DoubleFacts
<1>6. q # 0 => (-q) % Word = Word - q
  BY <1>1, <1>3
<1> QED BY <1>1, <1>3, <1>5, <1>6 DEF ToSize

\* A step keeps the shares that fit; a sale, where negative doubles wrap.
LEMMA LongSharesStep ==
  ASSUME Inv, Inv', StepOf, NEW s \in Symbols,
         IsExact(Net(s)), IsExact(Net(s)'), shares[s] = Net(s),
         Net(s)' >= Net(s) \/ Casts = {"wraps"}
  PROVE  shares'[s] = Net(s)'
<1>1. shares \in [Symbols -> Nat]
  BY DEF Inv, TypeOK
<1>2. CASE Resting
  <2>1. /\ FilledOf(s, BuyActions)' = FilledOf(s, BuyActions)
        /\ FilledOf(s, SellActions)' = FilledOf(s, SellActions)
    BY <1>1, <1>2, FilledMoves
  <2> QED BY <1>2, <2>1 DEF Net, Resting
<1>3. ASSUME NEW id \in Ids, NEW o \in Orders, ExecutesAs(id, o)
      PROVE  shares'[s] = Net(s)'
  <2> DEFINE spec == orders[id].spec
             q == FillOf(id).quantity
             Delta(cast) == IF Buys(spec) THEN q ELSE ToSize(-Double(q % Word), cast)
  <2>1. /\ spec.symbol \in Symbols /\ spec.action \in Actions /\ q \in Nat \ {0}
        /\ q * Scale <= Exact
    <3>1. spec \in OrderSpecs /\ spec.quantity \in Nat /\ orders[id] \in Orders
      BY <1>1, OrderTypes, SpecsAssumption DEF Inv
    <3>2. q \in 1..Remaining(orders[id])
      BY <1>1, <1>3, ExecutionPrice
    <3>3. Remaining(orders[id]) \in Int /\ Remaining(orders[id]) <= spec.quantity
      BY <3>1 DEF Remaining, Orders
    <3>4. spec.quantity * Scale <= Exact
      BY <3>1, RoundsAssumption
    <3>5. \A a, b, c \in Nat : a <= b => a * c <= b * c /\ a * c \in Nat /\ b * c \in Nat
      OBVIOUS
    <3>6. Scale \in Nat /\ Exact \in Nat
      BY PrecisionAssumption
    <3>7. q \in Nat \ {0} /\ q <= spec.quantity
      BY <3>1, <3>2, <3>3
    <3>8. spec.symbol \in Symbols /\ spec.action \in Actions
      BY <3>1, SpecsAssumption
    <3>9. q * Scale <= Exact
      <4> DEFINE asked == spec.quantity
                 low == q * Scale
                 high == asked * Scale
      <4>1. low <= high /\ low \in Nat /\ high \in Nat /\ high <= Exact
        <5> HIDE DEF q
        <5>1. asked \in Nat
          BY <3>1
        <5>2. high <= Exact
          BY <3>4
        <5> HIDE DEF asked
        <5> QED BY <3>5, <3>6, <3>7, <5>1, <5>2 DEF asked
      <4> HIDE DEF low, high
      <4>2. low <= Exact
        BY <4>1, <3>6
      <4> QED BY <4>2 DEF low
    <3> QED BY <3>7, <3>8, <3>9
  <2>2. PICK cast \in Casts :
          shares' = [shares EXCEPT ![spec.symbol] = RoundWord(@ + Delta(cast), cast)]
    <3>1. shares' \in SharesAfter(spec, q)
      BY <1>3 DEF ExecutesAs
    <3> HIDE DEF spec, q
    <3> QED BY <3>1, Zenon DEF SharesAfter
  <2>3. /\ FilledOf(s, BuyActions)' = FilledOf(s, BuyActions) +
              IF spec.action \in BuyActions /\ spec.symbol = s THEN q ELSE 0
        /\ FilledOf(s, SellActions)' = FilledOf(s, SellActions) +
              IF spec.action \in SellActions /\ spec.symbol = s THEN q ELSE 0
        /\ FilledOf(s, BuyActions) \in Int /\ FilledOf(s, SellActions) \in Int
    BY <1>1, <1>3, FilledMoves
  <2> HIDE DEF spec, q, Delta
  <2>4. CASE spec.symbol # s
    <3>1. shares'[s] = shares[s]
      BY <1>1, <2>1, <2>2, <2>4
    <3> QED BY <2>3, <2>4, <3>1 DEF Net
  <2>5. CASE spec.symbol = s
    <3> DEFINE sum == shares[s] + Delta(cast)
               n == Net(s)'
    <3>1. shares'[s] = RoundWord(sum, cast)
      BY <1>1, <2>1, <2>2, <2>5
    <3>2. /\ n = IF Buys(spec) THEN shares[s] + q ELSE shares[s] - q
          /\ n \in Nat /\ IsExact(n)
      <4>1. Net(s)' = IF Buys(spec) THEN shares[s] + q ELSE shares[s] - q
        BY <2>1, <2>3, <2>5 DEF Net, Buys, Actions, BuyActions, SellActions
      <4>2. Net(s)' \in Nat /\ IsExact(Net(s)')
        BY <1>1, <2>1, <4>1 DEF IsExact
      <4> QED BY <4>1, <4>2
    <3>3. sum = n \/ sum = n + Word
      <4>1. CASE Buys(spec)
        BY <3>2, <4>1 DEF Delta
      <4>2. CASE ~Buys(spec)
        <5>1. ~(Net(s)' >= Net(s))
          BY <1>1, <2>1, <3>2, <4>2
        <5>2. cast = "wraps"
          BY <2>2, <5>1
        <5>3. Delta(cast) = Word - q
          BY <2>1, <4>2, <5>2, SaleWraps DEF Delta
        <5> HIDE DEF n
        <5>4. Word \in Nat /\ shares[s] \in Nat
          BY <1>1, PrecisionAssumption
        <5> QED BY <2>1, <3>2, <4>2, <5>3, <5>4
      <4> QED BY <4>1, <4>2
    <3> HIDE DEF sum, n
    <3>4. RoundWord(sum, cast) = n
      BY <3>2, <3>3, RoundWordKeeps
    <3> QED BY <3>1, <3>4 DEF n
  <2> QED BY <2>4, <2>5
<1> QED BY <1>1, <1>2, <1>3, StepMoves

(***************************************************************************)
(* The shares of a symbol that is held long follow the orders' executions   *)
(* exactly (commit_order_execution), whatever the size_t arithmetic and the *)
(* way through double do to others, as long as what is held, scaled to its  *)
(* precision, is no more than a double holds exactly.  Purchases need       *)
(* nothing else; sales need a target whose conversion of a negative double  *)
(* wraps.                                                                  *)
(***************************************************************************)
THEOREM LongSharesStay == Spec => LongSharesKept
<1>1. IInv /\ IInv' /\ [Next]_vars =>
        [\A s \in Symbols :
            /\ IsExact(Net(s)) /\ IsExact(Net(s)') /\ shares[s] = Net(s)
            /\ Net(s)' >= Net(s) \/ Casts = {"wraps"}
            => shares'[s] = Net(s)']_vars
  BY StepKinds, LongSharesStep DEF IInv
<1> QED BY <1>1, AlwaysIInv, PTL DEF Spec, LongSharesKept
=============================================================================
