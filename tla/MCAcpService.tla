---------------------------- MODULE MCAcpService ----------------------------
(* Instances of AcpService for TLC.                                        *)
EXTENDS AcpService, TLC

(* Calls are interchangeable: no action or safety property names one.      *)
CallSymmetry == Permutations(Calls)
=============================================================================
