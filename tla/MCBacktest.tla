----------------------------- MODULE MCBacktest -----------------------------
(***************************************************************************)
(* A small instance of module Backtest.                                    *)
(***************************************************************************)
EXTENDS Backtest, TLC

Bar(open, close, volume) ==
    [open |-> open, high |-> 3, low |-> 0, close |-> close, volume |-> volume]
Row(date, bar) == [date |-> date, value |-> bar]

Order(type, action, symbol, quantity) ==
    [type |-> type, action |-> action, symbol |-> symbol, quantity |-> quantity,
     onClose |-> FALSE, stop |-> 2, limit |-> 2, gtc |-> TRUE, aon |-> FALSE]

\* Both symbols with the same two days, the first opening at 0 on the second, or
\* the second symbol with a day between them.
SomeFiles ==
    { [symbol |-> 1, lines |-> << Row(2, Bar(1, 2, 12)), Row(4, Bar(0, 2, 8)) >>],
      [symbol |-> 2, lines |-> << Row(2, Bar(2, 3, 6)), Row(4, Bar(1, 1, 8)) >>],
      [symbol |-> 2, lines |-> << Row(3, Bar(2, 2, 8)) >>] }

SomeSpecs ==
    { [Order("Stop", "Buy", 1, 2) EXCEPT !.aon = TRUE],
      Order("Market", "SellShort", 1, 1),
      [Order("Limit", "Buy", 2, 2) EXCEPT !.gtc = FALSE] }

SomeValues == UNION {[symbols -> Bars] : symbols \in SUBSET Symbols}
=============================================================================
