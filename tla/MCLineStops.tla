---------------------------- MODULE MCLineStops -----------------------------
(***************************************************************************)
(* Instances of LineStops for TLC.  The stops are numbers.                 *)
(***************************************************************************)
EXTENDS LineStops, TLC

\* The first two stops are at the same offset.
TwoOffsets == [s \in Stops |-> IF s <= 2 THEN 0 ELSE 1]

\* A terminus, where nobody alights and no connection is possible, and a stop for everything.
TwoKinds == {{"departure"}, {"arrival", "departure", "connecting"}}

\* Threads are interchangeable.
ThreadSymmetry == Permutations(Threads)
=============================================================================
