---------------------------- MODULE MCDispatcher ----------------------------
(***************************************************************************)
(* Small instances of module Dispatcher.                                   *)
(***************************************************************************)
EXTENDS Dispatcher

\* Equal dates within a subject and between two, and a subject without values.
MergeFeeds == {<< 1, 1, 3 >>, << 1, 2, 3 >>, << 2 >>, << >>}

OneFeed == {<< 1, 2 >>}
=============================================================================
