------------------------- MODULE MCFileSessionStore -------------------------
(* Instances of FileSessionStore for TLC.                                  *)
EXTENDS FileSessionStore, TLC

FileSymmetry ==
    Permutations(Ops) \cup Permutations(Ids) \cup Permutations(Processes)
=============================================================================
