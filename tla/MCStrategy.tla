----------------------------- MODULE MCStrategy -----------------------------
(***************************************************************************)
(* Small instances of module Strategy.                                     *)
(***************************************************************************)
EXTENDS StrategyProperties, TLC

Bar(volume) == [open |-> 2, high |-> 3, low |-> 1, close |-> 2, volume |-> volume]

Entry(side, quantity, stop, limit, gtc) ==
    [side |-> side, symbol |-> "A", quantity |-> quantity, stop |-> stop,
     limit |-> limit, gtc |-> gtc, aon |-> FALSE]

\* A long position that exits with day orders, a day entry that never executes
\* (its limit arrives as a stop), a short position.
MixedEntries == { Entry("Long", 1, 0, 0, FALSE), Entry("Long", 1, 0, 3, FALSE),
                  Entry("Short", 2, 0, 0, TRUE) }
MixedExits == { [stop |-> 0, limit |-> 0], [stop |-> 3, limit |-> 0] }
MixedValues == { "A" :> Bar(16) }

\* A user who cancels and exits where the state machine calls it or between two
\* bars, and cancels entries whenever it hears of them.
OrderlyCalls ==
    { << "on_bars", "enter" >>, << "on_bars", "exit" >>,
      << "on_bars", "cancel_entry" >>, << "on_bars", "cancel_exit" >>,
      << "on_order_updated", "cancel_entry" >>,
      << "on_enter", "exit" >>, << "on_enter", "cancel_exit" >>,
      << "on_enter_canceled", "enter" >>, << "on_exit", "enter" >>,
      << "on_exit_canceled", "exit" >> }

\* One who also exits a position when it is told that the position is closed.
ClosingCalls == OrderlyCalls \cup { << "on_exit", "exit" >> }
=============================================================================
