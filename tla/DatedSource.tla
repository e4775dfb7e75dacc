---------------------------- MODULE DatedSource -----------------------------
(***************************************************************************)
(* What a Dispatcher expects of a subject: dates in ascending order, none   *)
(* of them null, which a started subject delivers from the front, one with  *)
(* each dispatch, and which nobody changes meanwhile.                       *)
(***************************************************************************)
EXTENDS Integers, Sequences

VARIABLES
    dates,      \* the dates still to deliver
    started     \* a worker dispatches the source

vars == << dates, started >>

Schedule(seq) ==
    /\ seq \in Seq(Nat \ {0})
    /\ \A i, j \in DOMAIN seq : i < j => seq[i] <= seq[j]

Init == dates = << >> /\ started = FALSE

\* Whoever fills the source gives it any other schedule.
Fill == ~started /\ Schedule(dates') /\ UNCHANGED started

Start == ~started /\ started' = TRUE /\ UNCHANGED dates

\* The dispatch may end in an exception, and with it the worker.
Deliver ==
    /\ started /\ dates # << >>
    /\ dates' = Tail(dates) /\ started' \in BOOLEAN

Stop == started /\ started' = FALSE /\ UNCHANGED dates

Next == Fill \/ Start \/ Deliver \/ Stop

Spec == Init /\ [][Next]_vars
=============================================================================
