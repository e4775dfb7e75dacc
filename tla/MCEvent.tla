------------------------------ MODULE MCEvent -------------------------------
(***************************************************************************)
(* A small instance of module Event.                                       *)
(***************************************************************************)
EXTENDS Event

Everything == {"subscribe", "unsubscribe", "emit", "throw"}
=============================================================================
