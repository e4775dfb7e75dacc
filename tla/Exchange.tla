------------------------------ MODULE Exchange ------------------------------
(***************************************************************************)
(* papryka::Exchange: the order book of the back-tester, driven by one      *)
(* thread.  The feed delivers a bar; on_bars walks the book and accepts,    *)
(* expires or executes every order, announcing each change on order_event;  *)
(* the subscriber (the client: a strategy, its positions) runs inside that  *)
(* announcement and may call submit_order and cancel_order, so the book     *)
(* changes under the walk.                                                 *)
(*                                                                         *)
(* The call stack is explicit.  stack is the sequence of announcements in   *)
(* progress: its first frame, when it is one of the walk's own (by =        *)
(* "on_bars"), has code of on_bars left to run when it returns, the others  *)
(* are nested calls of the client.  cursor is the walk's map iterator.      *)
(***************************************************************************)
EXTENDS FillType, Precision, Sequences

CONSTANTS
    Symbols,      \* the instruments
    OrderSpecs,   \* the orders a client may create
    ValueMaps,    \* what the feed may deliver: functions from symbols to bars
    InitialCash,
    Gaps,         \* how many days may pass from one set of bars to the next
    TickFeed,     \* feed frequency is Tick: no volume limit
    KeepsOrder,   \* whether clients keep the order_ptr_t they were given
    MaxOrders,    \* bounds of the model: orders submitted,
    MaxBars,      \* bars delivered,
    MaxDepth      \* announcements in progress at once

ASSUME SpecsAssumption ==
    \A s \in OrderSpecs :
        /\ s.type \in Types /\ s.action \in Actions
        /\ s.symbol \in Symbols
        /\ s.quantity \in Nat \ {0}
        /\ s.onClose \in BOOLEAN /\ s.gtc \in BOOLEAN /\ s.aon \in BOOLEAN
        /\ s.stop \in Nat /\ s.limit \in Nat

\* precision::round keeps what one order executes (Order::add_info, and the
\* position), if not what many orders add up to.
ASSUME RoundsAssumption == \A s \in OrderSpecs : s.quantity * Scale <= Exact

ASSUME ValuesAssumption ==
    \A v \in ValueMaps :
        /\ DOMAIN v \subseteq Symbols
        /\ \A s \in DOMAIN v :
              /\ v[s].open \in Nat /\ v[s].high \in Nat
              /\ v[s].low \in Nat /\ v[s].close \in Nat
              /\ v[s].volume \in Nat

ASSUME BoundsAssumption ==
    /\ MaxOrders \in Nat /\ MaxBars \in Nat /\ MaxDepth \in Nat
    /\ InitialCash \in Nat /\ Gaps \subseteq Nat
    /\ TickFeed \in BOOLEAN /\ KeepsOrder \subseteq BOOLEAN

VARIABLES
    orders,         \* every order submitted so far: orders[id] has that id
    book,           \* Exchange::orders_: the ids of the registered orders
    cash,
    shares,         \* 0 stands for no entry
    allowNegative,  \* allow_negative_cash
    volumeLeft,     \* FillType::volume_left_, in quarter shares; Unknown if absent
    values,         \* the bars being processed
    barNo, today,   \* how many bars were delivered, and the day of the last
    cursor,         \* the id the walk stands at, NoCursor outside on_bars
    stack,
    fault           \* how the program died

vars == << orders, book, cash, shares, allowNegative, volumeLeft,
           values, barNo, today, cursor, stack, fault >>

Unknown == -1
NoCursor == 0

States == {"Initial", "Submitted", "Accepted", "Canceled", "PartiallyFilled", "Filled"}
Events == {"Submitted", "Accepted", "Canceled", "PartiallyFilled", "Filled"}
Faults == {"none", "all_or_none", "zero_price", "zero_quantity", "no_symbol",
           "wild_iterator", "freed"}

-----------------------------------------------------------------------------
(***************************************************************************)
(* detail::Order.                                                          *)
(***************************************************************************)
\* Order::state_table
ValidStates(state) ==
    CASE state = "Initial"         -> {"Submitted", "Canceled"}
      [] state = "Submitted"       -> {"Accepted", "Canceled"}
      [] state = "Accepted"        -> {"Filled", "PartiallyFilled", "Canceled"}
      [] state = "PartiallyFilled" -> {"PartiallyFilled", "Filled", "Canceled"}
      [] OTHER                     -> {}

\* Order::switch_state: an invalid switch is logged and changes nothing.
SwitchState(order, new) ==
    IF new \in ValidStates(order.state) THEN [order EXCEPT !.state = new] ELSE order

\* Order::is_active, which an order not yet submitted satisfies too.
IsActive(order) == order.state \notin {"Canceled", "Filled"}

\* Slip: looks at what remained before the execution.
AddInfo_Late(order, price, quantity) ==
    SwitchState([order EXCEPT !.filled = @ + quantity, !.paid = @ + price * quantity],
                IF Remaining(order) = 0 THEN "Filled" ELSE "PartiallyFilled")

\* Slip: averages the prices without their quantities.
AddInfo_Unweighted(order, price, quantity) ==
    LET added == [order EXCEPT !.filled = @ + quantity, !.paid = @ + price]
    IN  SwitchState(added, IF Remaining(added) = 0 THEN "Filled" ELSE "PartiallyFilled")

\* Order::add_info.  paid stands for avg_fill_price * filled.
AddInfo(order, price, quantity) ==
    LET added == [order EXCEPT !.filled = @ + quantity,
                               !.paid = @ + price * quantity]
    IN  SwitchState(added, IF Remaining(added) = 0 THEN "Filled" ELSE "PartiallyFilled")

\* An order that create_order has built: what it was asked for, when (bar,
\* and whether inside one of its announcements), and if the client keeps its pointer.
NewOrder(spec, kept) ==
    [spec |-> spec, state |-> "Initial", filled |-> 0, paid |-> 0,
     stopHit |-> FALSE, accepted |-> 0, placed |-> barNo,
     inWalk |-> cursor # NoCursor /\ stack # << >>, kept |-> kept]

-----------------------------------------------------------------------------
\* order_event.emit, called by a function of the client's or by the walk,
\* which is at the bottom of the stack.
Frame(event, id, by) == [event |-> event, id |-> id, by |-> by]
AnnounceToCaller(event, id) == Append(stack, Frame(event, id, "client"))
AnnounceFromWalk(event, id) == << Frame(event, id, "on_bars") >>

\* Slip: the client also runs before the walk, having seen its bar.
ClientRuns_BeforeExchange == fault = "none"

\* The client has control between two bars and inside an announcement.
ClientRuns == fault = "none" /\ (stack # << >> \/ cursor = NoCursor)

Die(why) == fault' = why

\* Slip: the iterator does not move.
After_Same(id, ids) == {n \in ids : n >= id /\ \A m \in ids : m >= id => n <= m}

\* The entry after id in the map.
After(id, ids) == {n \in ids : n > id /\ \A m \in ids : m > id => n <= m}

(***************************************************************************)
(* ++iter at the end of the loop body of on_bars.  When the order was       *)
(* erased meanwhile the iterator dangles: the freed tree node may still     *)
(* lead to any entry, or to the end, or nowhere.                            *)
(***************************************************************************)
Advance(id) ==
    IF id \in book'
    THEN /\ cursor' \in IF After(id, book') = {} THEN {NoCursor} ELSE After(id, book')
         /\ fault' = fault
    ELSE \/ cursor' \in book' \cup {NoCursor} /\ fault' = fault
         \/ cursor' = cursor /\ fault' = "wild_iterator"

-----------------------------------------------------------------------------
(***************************************************************************)
(* Client calls.                                                           *)
(***************************************************************************)
\* Exchange::create_order and submit_order, up to the Submitted announcement.
SubmitOrder(spec, kept) ==
    LET id == Len(orders) + 1
    IN  /\ ClientRuns
        /\ Len(orders) < MaxOrders /\ Len(stack) < MaxDepth
        /\ orders' = Append(orders, SwitchState(NewOrder(spec, kept), "Submitted"))
        /\ book' = book \cup {id}
        /\ stack' = AnnounceToCaller("Submitted", id)
        /\ UNCHANGED << cash, shares, allowNegative, volumeLeft, values, barNo,
                        today, cursor, fault >>

\* Slip: does not look at the state.
Cancellable_Registered(id) == id \in book

\* cancel_order refuses an id that is not registered, or that has ended.
Cancellable(id) == id \in book /\ IsActive(orders[id])

(***************************************************************************)
(* Exchange::cancel_order, up to its announcement.  The book's pointer is   *)
(* dropped before the order is used again: if the client kept none, the     *)
(* order is gone, and the freed memory reads as it was or the program dies. *)
(***************************************************************************)
CancelOrder(id) ==
    /\ ClientRuns
    /\ Len(stack) < MaxDepth
    /\ Cancellable(id)
    /\ book' = book \ {id}
    /\ \/ /\ orders' = [orders EXCEPT ![id] = SwitchState(@, "Canceled")]
          /\ stack' = AnnounceToCaller("Canceled", id)
          /\ fault' = fault
       \/ /\ ~orders[id].kept
          /\ Die("freed")
          /\ UNCHANGED << orders, stack >>
    /\ UNCHANGED << cash, shares, allowNegative, volumeLeft, values,
                    barNo, today, cursor >>

-----------------------------------------------------------------------------
(***************************************************************************)
(* on_bars.                                                                *)
(***************************************************************************)
\* FillType::on_bars, with std::map::insert: a symbol that has an entry keeps it.
VolumesAfter(bars) ==
    [s \in Symbols |->
        IF volumeLeft[s] = Unknown /\ s \in DOMAIN bars
        THEN IF TickFeed THEN 4 * bars[s].volume ELSE bars[s].volume
        ELSE volumeLeft[s]]

\* The feed's new_values_event, and on_bars up to its loop.
OnBars(bars, day) ==
    /\ fault = "none" /\ cursor = NoCursor /\ stack = << >>
    /\ barNo < MaxBars
    /\ barNo' = barNo + 1
    /\ today' = day
    /\ values' = bars
    /\ volumeLeft' = VolumesAfter(bars)
    /\ cursor' \in IF After(NoCursor, book) = {} THEN {NoCursor} ELSE After(NoCursor, book)
    /\ UNCHANGED << orders, book, cash, shares, allowNegative, stack, fault >>

\* precision_.round(shares[symbol] + shares_delta), for every shares_delta that
\* the target may make of quantity * -1.0.
SharesAfter(spec, quantity) ==
    LET Delta(cast) == IF Buys(spec) THEN quantity
                                     ELSE ToSize(-Double(quantity % Word), cast)
    IN  { [shares EXCEPT ![spec.symbol] = RoundWord(@ + Delta(cast), cast)] : cast \in Casts }

\* Slip: leaves the volume alone when the fill takes all of it.
OnOrderFilled_KeepsLast(symbol, quantity) ==
    [volumeLeft EXCEPT ![symbol] = IF 4 * quantity >= @ THEN @ ELSE @ - 4 * quantity]

\* FillType::on_order_filled.  volume_used_ is read by no slippage model in use.
OnOrderFilled(symbol, quantity) ==
    [volumeLeft EXCEPT ![symbol] = IF 4 * quantity > @ THEN @ ELSE @ - 4 * quantity]

\* Slip: the sign of a sale.
CashAfter_AlwaysPays(spec, fill) == cash - fill.price * fill.quantity

CashAfter(spec, fill) ==
    IF Buys(spec) THEN cash - fill.price * fill.quantity
                  ELSE cash + fill.price * fill.quantity

Affordable(spec, fill) == CashAfter(spec, fill) >= 0 \/ allowNegative

(***************************************************************************)
(* commit_order_execution, up to its announcement, for a fill that there is *)
(* cash for.                                                                *)
(***************************************************************************)
CommitOrderExecution(id, touched, fill) ==
    LET spec == touched.spec
        filled == AddInfo(touched, fill.price, fill.quantity)
    IN  /\ Affordable(spec, fill)
        /\ orders' = [orders EXCEPT ![id] = filled]
        /\ cash' = CashAfter(spec, fill)
        /\ shares' \in SharesAfter(spec, fill.quantity)
        /\ volumeLeft' = OnOrderFilled(spec.symbol, fill.quantity)
        /\ stack' = AnnounceFromWalk(filled.state, id)
        /\ UNCHANGED << book, cursor, fault >>

\* Slip: a day too many.
Expired_DayLate(order) == ~order.spec.gtc /\ today > order.accepted + 1

\* pre_process_order: a day order does not live past the day it was accepted.
Expired(order) == ~order.spec.gtc /\ today > order.accepted

\* Slip: forgets to announce.
Expire_Silent(id) ==
    /\ orders' = [orders EXCEPT ![id] = SwitchState(@, "Canceled")]
    /\ stack' = << >>
    /\ UNCHANGED << book, cash, shares, volumeLeft, cursor, fault >>

Expire(id) ==
    /\ orders' = [orders EXCEPT ![id] = SwitchState(@, "Canceled")]
    /\ stack' = AnnounceFromWalk("Canceled", id)
    /\ UNCHANGED << book, cash, shares, volumeLeft, cursor, fault >>

(***************************************************************************)
(* process_order, up to its first announcement or to the end of the loop    *)
(* body.  post_process_order repeats the test that pre_process_order has     *)
(* just passed; only a client that ran in between could change its answer.  *)
(***************************************************************************)
Attempt(id) ==
    LET order == orders[id]
        bar == values[order.spec.symbol]
        fill == Process(order, bar, volumeLeft[order.spec.symbol])
        touched == [order EXCEPT !.stopHit = StopHit(order, bar)]
        executes == fill.outcome = "fill" /\ Affordable(order.spec, fill)
        passes == fill.outcome = "no_fill" \/
                  (fill.outcome = "fill" /\ ~Affordable(order.spec, fill))
    IN  \/ executes /\ CommitOrderExecution(id, touched, fill)
        \/ /\ passes
           /\ orders' = [orders EXCEPT ![id] = touched]
           /\ UNCHANGED << book, cash, shares, volumeLeft >>
           /\ stack' = << >>
           /\ Advance(id)
        \/ /\ ~executes /\ ~passes
           /\ Die(fill.outcome)
           /\ UNCHANGED << orders, book, cash, shares, volumeLeft, stack, cursor >>

ProcessOrder(id) ==
    \/ Expired(orders[id]) /\ Expire(id)
    \/ ~Expired(orders[id]) /\ Attempt(id)

\* on_bars_imp, up to its first announcement.
VisitOrder ==
    LET order == orders[cursor]
    IN  /\ fault = "none" /\ cursor # NoCursor /\ stack = << >>
        /\ \/ /\ order.spec.symbol \notin DOMAIN values
              /\ Die("no_symbol")
              /\ UNCHANGED << orders, book, cash, shares, volumeLeft, stack, cursor >>
           \/ /\ order.spec.symbol \in DOMAIN values
              /\ order.state = "Submitted"
              /\ orders' = [orders EXCEPT ![cursor] =
                     SwitchState([@ EXCEPT !.accepted = today], "Accepted")]
              /\ stack' = AnnounceFromWalk("Accepted", cursor)
              /\ UNCHANGED << book, cash, shares, volumeLeft, cursor, fault >>
           \/ /\ order.spec.symbol \in DOMAIN values
              /\ order.state \in {"Accepted", "PartiallyFilled"}
              /\ ProcessOrder(cursor)
        /\ UNCHANGED << allowNegative, values, barNo, today >>

-----------------------------------------------------------------------------
(***************************************************************************)
(* The subscribers of an announcement have returned.                       *)
(***************************************************************************)
\* submit_order and cancel_order have nothing left to do.
ReturnToClient ==
    /\ fault = "none" /\ stack # << >>
    /\ stack[Len(stack)].by = "client"
    /\ stack' = SubSeq(stack, 1, Len(stack) - 1)
    /\ UNCHANGED << orders, book, cash, shares, allowNegative, volumeLeft, values,
                    barNo, today, cursor, fault >>

WalkResumes(event) ==
    /\ fault = "none" /\ Len(stack) = 1
    /\ stack[1].by = "on_bars" /\ stack[1].event = event

\* Slip: goes on with the order it had before the announcement.
ReturnAccepted_Unchecked ==
    /\ WalkResumes("Accepted")
    /\ ProcessOrder(cursor)
    /\ UNCHANGED << allowNegative, values, barNo, today >>

\* on_bars_imp after the Accepted announcement: the client may have cancelled.
ReturnAccepted ==
    /\ WalkResumes("Accepted")
    /\ \/ IsActive(orders[cursor]) /\ ProcessOrder(cursor)
       \/ /\ ~IsActive(orders[cursor])
          /\ stack' = << >>
          /\ UNCHANGED << orders, book, cash, shares, volumeLeft >>
          /\ Advance(cursor)
    /\ UNCHANGED << allowNegative, values, barNo, today >>

\* process_order after the PartiallyFilled announcement.
ReturnPartiallyFilled ==
    /\ WalkResumes("PartiallyFilled")
    /\ stack' = << >>
    /\ UNCHANGED << orders, book, cash, shares, volumeLeft >>
    /\ Advance(cursor)
    /\ UNCHANGED << allowNegative, values, barNo, today >>

\* commit_order_execution erases the order, then process_order reads it again.
ReturnFilled ==
    /\ WalkResumes("Filled")
    /\ stack' = << >>
    /\ book' = book \ {cursor}
    /\ \/ Advance(cursor)
       \/ ~orders[cursor].kept /\ Die("freed") /\ UNCHANGED cursor
    /\ UNCHANGED << orders, cash, shares, allowNegative, volumeLeft, values,
                    barNo, today >>

\* Slip: leaves the expired order registered.
ReturnCanceled_KeepsOrder ==
    /\ WalkResumes("Canceled")
    /\ stack' = << >>
    /\ UNCHANGED << orders, book, cash, shares, allowNegative, volumeLeft, values,
                    barNo, today >>
    /\ Advance(cursor)

\* pre_process_order after announcing that the order expired.
ReturnCanceled ==
    /\ WalkResumes("Canceled")
    /\ stack' = << >>
    /\ book' = book \ {cursor}
    /\ Advance(cursor)
    /\ UNCHANGED << orders, cash, shares, allowNegative, volumeLeft, values,
                    barNo, today >>

-----------------------------------------------------------------------------
\* The constructor leaves allow_negative_cash uninitialised.
Init ==
    /\ orders = << >> /\ book = {}
    /\ cash = InitialCash
    /\ shares = [s \in Symbols |-> 0]
    /\ allowNegative \in BOOLEAN
    /\ volumeLeft = [s \in Symbols |-> Unknown]
    /\ values = [s \in {} |-> 0]
    /\ barNo = 0 /\ today = 0
    /\ cursor = NoCursor /\ stack = << >>
    /\ fault = "none"

\* The program died, or the feed has no more bars.
Terminated ==
    /\ fault # "none" \/ (barNo = MaxBars /\ cursor = NoCursor /\ stack = << >>)
    /\ UNCHANGED vars

Client ==
    \/ \E spec \in OrderSpecs, kept \in KeepsOrder : SubmitOrder(spec, kept)
    \/ \E id \in book : CancelOrder(id)

Walk ==
    \/ VisitOrder
    \/ ReturnToClient
    \/ ReturnAccepted
    \/ ReturnPartiallyFilled
    \/ ReturnFilled
    \/ ReturnCanceled

Next ==
    \/ Client
    \/ \E bars \in ValueMaps, gap \in Gaps : OnBars(bars, today + gap)
    \/ Walk
    \/ Terminated

\* The walk runs on the dispatcher's thread and announcements return.
Spec == Init /\ [][Next]_vars /\ WF_vars(Walk)
=============================================================================
