--------------------------- MODULE MCInterSYNTHESE ---------------------------
(***************************************************************************)
(* Instances of InterSYNTHESE for TLC.                                     *)
(***************************************************************************)
EXTENDS InterSYNTHESE, TLC

\* One table holds every row.
OneTable == [r \in Rows |-> 1]

\* Each row is in a table of its own.
TableOfEachRow == [r \in Rows |-> r]

\* Writers are interchangeable.
WriterSymmetry == Permutations(Writers)
=============================================================================
