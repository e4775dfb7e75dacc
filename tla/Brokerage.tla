----------------------------- MODULE Brokerage ------------------------------
(***************************************************************************)
(* What the exchange promises to the code that places orders, with no bars, *)
(* no walk and no call stack: an account and a list of trades.  A trade is  *)
(* an order seen as a side, a size and what was executed of it.  It goes    *)
(* through the states of detail::Order one at a time, is executed only      *)
(* between its acceptance and its end, never beyond its size, and the       *)
(* account pays or receives exactly what is executed.                      *)
(***************************************************************************)
EXTENDS Integers, Sequences

CONSTANTS Deposit,   \* what the account starts with
          Sizes,     \* how many shares a trade may be for
          Prices     \* what a share may cost

VARIABLES trades,
          account,
          overdraft  \* whether a purchase may exceed the account

state == << trades, account, overdraft >>

Open == {"Submitted", "Accepted", "PartiallyFilled"}
Executable == {"Accepted", "PartiallyFilled"}

BrokerageInit ==
    /\ trades = << >>
    /\ account = Deposit
    /\ overdraft \in BOOLEAN

Place(side, size) ==
    /\ trades' = Append(trades, [side |-> side, size |-> size, done |-> 0,
                                 paid |-> 0, state |-> "Submitted"])
    /\ UNCHANGED << account, overdraft >>

Accept(t) ==
    /\ trades[t].state = "Submitted"
    /\ trades' = [trades EXCEPT ![t].state = "Accepted"]
    /\ UNCHANGED << account, overdraft >>

Execute(t, n, price) ==
    LET left == trades[t].size - trades[t].done
        balance == IF trades[t].side = "buy" THEN account - price * n
                                             ELSE account + price * n
    IN  /\ trades[t].state \in Executable
        /\ n \in 1..left
        /\ balance >= 0 \/ overdraft
        /\ trades' = [trades EXCEPT ![t].done = @ + n, ![t].paid = @ + price * n,
                          ![t].state = IF n = left THEN "Filled" ELSE "PartiallyFilled"]
        /\ account' = balance
        /\ UNCHANGED overdraft

Cancel(t) ==
    /\ trades[t].state \in Open
    /\ trades' = [trades EXCEPT ![t].state = "Canceled"]
    /\ UNCHANGED << account, overdraft >>

BrokerageNext ==
    \/ \E side \in {"buy", "sell"}, size \in Sizes : Place(side, size)
    \/ \E t \in 1..Len(trades) :
          \/ Accept(t)
          \/ Cancel(t)
          \/ \E n \in 1..trades[t].size, price \in Prices : Execute(t, n, price)

BrokerageSpec == BrokerageInit /\ [][BrokerageNext]_state
=============================================================================
