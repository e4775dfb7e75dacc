------------------------------ MODULE Holding -------------------------------
(***************************************************************************)
(* What a position promises to the strategy that entered it, with no        *)
(* orders, no announcements and no map: a holding.  It is ordered; it       *)
(* acquires shares, once, or none at all; once it is being sold it only     *)
(* shrinks, through nothing but what it holds; when nothing is left it is   *)
(* closed, and then leaves the strategy for good.  A short position is the  *)
(* same with its shares counted the other way.                             *)
(***************************************************************************)
EXTENDS Integers

VARIABLES
    holdings,   \* by the number of the position
    running     \* the program is

state == << holdings, running >>

\* A new position, of any number and size.
Enter ==
    \E p \in DOMAIN holdings' \ DOMAIN holdings :
       /\ holdings'[p].size \in Nat
       /\ holdings' = [q \in DOMAIN holdings \cup {p} |->
                          IF q = p
                          THEN [phase |-> "ordered", size |-> holdings'[p].size, held |-> 0]
                          ELSE holdings[q]]

Becomes(p, phase, held) ==
    holdings' = [holdings EXCEPT ![p].phase = phase, ![p].held = held]

Acquire(p) ==
    /\ holdings[p].phase = "ordered"
    /\ \E n \in 1 .. holdings[p].size : Becomes(p, "held", n)

GiveUp(p) == holdings[p].phase = "ordered" /\ Becomes(p, "closed", 0)

TurnAround(p) == holdings[p].phase = "held" /\ Becomes(p, "for sale", holdings[p].held)

Dispose(p) ==
    /\ holdings[p].phase = "for sale"
    /\ \E n \in 0 .. holdings[p].held - 1 :
          Becomes(p, IF n = 0 THEN "closed" ELSE "for sale", n)

Leave(p) == holdings[p].phase = "closed" /\ Becomes(p, "left", 0)

\* The program dies, and its positions with it.
Die == running' = FALSE /\ holdings' = << >>

Init == holdings = << >> /\ running = TRUE

Next ==
    \/ /\ running /\ UNCHANGED running
       /\ \/ Enter
          \/ \E p \in DOMAIN holdings :
                Acquire(p) \/ GiveUp(p) \/ TurnAround(p) \/ Dispose(p) \/ Leave(p)
    \/ running /\ Die

Spec == Init /\ [][Next]_state
=============================================================================
