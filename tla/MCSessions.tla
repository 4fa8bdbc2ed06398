----------------------------- MODULE MCSessions -----------------------------
(***************************************************************************)
(* Instances of Sessions for TLC.                                          *)
(***************************************************************************)
EXTENDS Sessions, TLC

ThreadAndAddressSymmetry == Permutations(Threads) \cup Permutations(Addresses)
=============================================================================
