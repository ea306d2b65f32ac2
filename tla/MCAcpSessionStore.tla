-------------------------- MODULE MCAcpSessionStore --------------------------
(* Instances of AcpSessionStore for TLC.                                   *)
EXTENDS AcpSessionStore, TLC

StoreSymmetry == Permutations(Ops) \cup Permutations(Ids)
=============================================================================
