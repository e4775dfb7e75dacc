------------------------------- MODULE MCFeed -------------------------------
(***************************************************************************)
(* A small instance of module Feed.                                        *)
(***************************************************************************)
EXTENDS FeedProperties

Line(date, value) == [date |-> date, value |-> value]

\* Two files of the first symbol, of which the second begins where the first
\* ends and is not in order, one of the second, and a null date in each.
SomeFiles ==
    {[symbol |-> 1, lines |-> << Line(1, "v"), Line(3, "w") >>],
     [symbol |-> 1, lines |-> << Line(4, "v"), Line(3, "v"), Line(3, "w") >>],
     [symbol |-> 2, lines |-> << Line(3, "v"), Line(1, "w") >>],
     [symbol |-> 2, lines |-> << Line(0, "v") >>],
     [symbol |-> 1, lines |-> << Line(0, "v") >>]}

SomeRanges == {<< 1, 3 >>}
=============================================================================
