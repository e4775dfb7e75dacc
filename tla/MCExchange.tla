----------------------------- MODULE MCExchange -----------------------------
(***************************************************************************)
(* Small instances of module Exchange for TLC.                             *)
(***************************************************************************)
EXTENDS ExchangeAccount, TLC

Bar(open, high, low, close, volume) ==
    [open |-> open, high |-> high, low |-> low, close |-> close, volume |-> volume]

Order(type, action, symbol, quantity) ==
    [type |-> type, action |-> action, symbol |-> symbol, quantity |-> quantity,
     onClose |-> FALSE, stop |-> 0, limit |-> 0, gtc |-> TRUE, aon |-> FALSE]
Day(order) == [order EXCEPT !.gtc = FALSE]
AllOrNone(order) == [order EXCEPT !.aon = TRUE]
At(order, stop, limit) == [order EXCEPT !.stop = stop, !.limit = limit]

\* The walk: one symbol, a purchase that the volume does not fill, a day sale of
\* all or none whose limit only one of the bars reaches.
WalkSpecs == { Order("Market", "Buy", "A", 4),
               AllOrNone(At(Day(Order("Limit", "Sell", "A", 2)), 0, 3)) }
WalkValues == { "A" :> Bar(2, 3, 1, 2, 12), "A" :> Bar(2, 2, 1, 2, 14) }

\* The prices: every kind of order against every well-formed bar, and against
\* none of its symbol.
PriceRange == 1..3
PriceSpecs ==
    { At([Order(type, action, "A", 1) EXCEPT !.onClose = close], stop, limit) :
        type \in Types, action \in {"Buy", "SellShort"}, close \in BOOLEAN,
        stop \in PriceRange, limit \in PriceRange }
PriceValues ==
    { "A" :> bar :
        bar \in { b \in [open : PriceRange, high : PriceRange, low : PriceRange,
                         close : PriceRange, volume : {8}] : WellFormed(b) } }
    \cup { "B" :> Bar(2, 3, 1, 2, 8) }

\* The volume: bars that differ in it, and a bar set without "A".
VolumeSpecs == { Order("Market", "Buy", "A", 2), AllOrNone(Order("Market", "Buy", "A", 3)) }
VolumeValues == { "A" :> Bar(2, 3, 1, 2, 6), "A" :> Bar(2, 3, 1, 2, 8), "B" :> Bar(2, 3, 1, 2, 8) }
=============================================================================
