--------------------------- MODULE ExchangeAccount --------------------------
(***************************************************************************)
(* The exchange implements the brokerage: forget the bars, the volumes, the *)
(* walk and the announcements, and every step is one of Brokerage's or none *)
(* at all.                                                                 *)
(***************************************************************************)
EXTENDS ExchangeProperties

\* An order, as the brokerage sees it.
Trade(o) ==
    [side |-> IF Buys(o.spec) THEN "buy" ELSE "sell", size |-> o.spec.quantity,
     done |-> o.filled, paid |-> o.paid, state |-> o.state]

Trades == [id \in Ids |-> Trade(orders[id])]

\* A share only costs what a bar says, or what an order asks for.
BarsOffered == UNION {{v[s] : s \in DOMAIN v} : v \in ValueMaps}
PricesOffered ==
    (UNION {{b.open, b.high, b.low, b.close} : b \in BarsOffered}) \cup
    (UNION {{s.stop, s.limit} : s \in OrderSpecs})

B == INSTANCE Brokerage WITH
        trades <- Trades, account <- cash, overdraft <- allowNegative,
        Deposit <- InitialCash, Prices <- PricesOffered,
        Sizes <- {s.quantity : s \in OrderSpecs}

\* Every execution of the exchange is one of the brokerage (create_order,
\* cancel_order, on_bars): orders pass through their states one at a time and
\* the cash moves only, and exactly, with them.
ImplementsBrokerage == B!BrokerageSpec
=============================================================================
