------------------------- MODULE StrategyProperties -------------------------
(***************************************************************************)
(* What module Strategy is expected to satisfy.                            *)
(***************************************************************************)
EXTENDS Strategy, ExchangeProperties

PositionRecords ==
    [side : Sides, entry : Ids \cup {NoOrder}, exit : Ids \cup {NoOrder},
     active : SUBSET Ids, made : SUBSET Ids, shares : Int,
     state : {"Idle", "Open", "Close"}, alive : BOOLEAN, kept : BOOLEAN]

HandlerRecords ==
    [step : (Callbacks \ {"on_bars"}) \cup {"done"}, quantity : Nat,
     position : Positions \cup {NoPosition},
     caller : {"on_bars", "enter", "exit", "cancel"}, for : Positions \cup {NoPosition}]

StrategyFaults ==
    Faults \cup {"unregistered_twice", "null_exit_order", "closed_position",
                 "entry_filled", "no_shares", "refused"}

\* Positions, map and handlers have their types: every id in them is that of an
\* order or a position, and every announcement has its handler.
StrategyTypeOK ==
    /\ positions \in Seq(PositionRecords)
    /\ DOMAIN owner \subseteq Ids
    /\ \A id \in DOMAIN owner : owner[id] \in Positions
    /\ handlers \in Seq(HandlerRecords)
    /\ fault \in StrategyFaults
    /\ fault = "none" => Len(handlers) = Len(stack)

-----------------------------------------------------------------------------
(***************************************************************************)
(* A user who does not exit, nor cancel an exit, while an order's event is  *)
(* on its way to the position: not in on_order_updated, which is called     *)
(* first, nor in on_enter_canceled, which a cancellation made there leads   *)
(* to.                                                                     *)
(***************************************************************************)
Orderly ==
    \A call \in Calls :
        call[1] \in {"on_order_updated", "on_enter_canceled"} =>
            call[2] \notin {"exit", "cancel_exit"}

\* No announcement is being handled and nothing has gone wrong.
Quiet == fault = "none" /\ stack = << >>

Executed(ids, actions) ==
    MapThenSumSet(LAMBDA id : IF orders[id].spec.action \in actions
                              THEN orders[id].filled ELSE 0, ids)
Bought(position) ==
    Executed(position.made, BuyActions) - Executed(position.made, SellActions)

(***************************************************************************)
(* shares_ of a position (Position::on_order_event) is what its orders      *)
(* bought less what they sold, though it is only told of executions, in     *)
(* nested announcements and through a map that changes under them.          *)
(***************************************************************************)
SharesFollowFills ==
    Quiet => \A p \in Positions : positions[p].shares = Bought(positions[p])

(***************************************************************************)
(* The state machine knows what became of the entry order, which it was     *)
(* told in announcements: Idle while the entry works with nothing executed, *)
(* Open from its first execution, Close at once when it ends without any.   *)
(***************************************************************************)
StateFollowsEntry ==
    Quiet => \A p \in Positions :
        LET entry == orders[positions[p].entry]
        IN  /\ positions[p].state = "Idle" <=> IsActive(entry) /\ entry.filled = 0
            /\ positions[p].state = "Open" => entry.filled > 0

(***************************************************************************)
(* order_to_position_ has exactly the orders that can still trade, each     *)
(* with a registered position: no execution goes unnoticed by a position,   *)
(* and no order outlives the position that placed it.                       *)
(***************************************************************************)
OrdersHaveOwners ==
    Quiet =>
        /\ DOMAIN owner = {id \in Ids : IsActive(orders[id])}
        /\ \A id \in DOMAIN owner :
              positions[owner[id]].alive /\ id \in positions[owner[id]].made

-----------------------------------------------------------------------------
\* The positions that the strategy has registered, as holdings.
Registers == {p \in Positions : positions[p].entry # NoOrder}

Phase(position) ==
    CASE position.state = "Idle" -> "ordered"
      [] position.state = "Open" /\ position.exit = NoOrder -> "held"
      [] position.state = "Open" /\ position.exit # NoOrder -> "for sale"
      [] position.state = "Close" /\ position.alive -> "closed"
      [] OTHER -> "left"

HoldingOf(position) ==
    [phase |-> Phase(position), size |-> orders[position.entry].spec.quantity,
     held |-> Held(position)]

(***************************************************************************)
(* A position is a holding, at every step of every announcement: it never   *)
(* changes sides, its exits together never sell more than it has, however   *)
(* they are cancelled, expire or are submitted from callbacks, it is closed *)
(* by the very execution that leaves it nothing, and by no other, and a     *)
(* closed one hears of nothing any more.  Whether it changes is decided in  *)
(* Position::on_order_event and its state machine, when an announcement     *)
(* arrives, and not by the order.                                          *)
(***************************************************************************)
H == INSTANCE Holding WITH
        holdings <- IF fault = "none" THEN [p \in Registers |-> HoldingOf(positions[p])] ELSE << >>,
        running <- fault = "none"

ImplementsHolding == H!Spec

(***************************************************************************)
(* A walk of the exchange ends, and so does every announcement in it and    *)
(* between two bars, whatever the handlers and the user's callbacks do to   *)
(* the book meanwhile, or the program dies.  With OrdersHaveOwners, every   *)
(* end of an order is known to its position in the end.                     *)
(***************************************************************************)
AllReturns == stack # << >> \/ cursor # NoCursor ~>
                 (stack = << >> /\ cursor = NoCursor) \/ fault # "none"

-----------------------------------------------------------------------------
(***************************************************************************)
(* What the repository says of positions and positions do not do.           *)
(***************************************************************************)
\* on_order_event in StateOpen logs an event of another order than the exit
\* order, such as the entry order; it reads the exit order that there is not yet.
EntryEventsAreLogged == fault # "null_exit_order"
=============================================================================
