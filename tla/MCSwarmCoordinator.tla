------------------------- MODULE MCSwarmCoordinator -------------------------
EXTENDS SwarmCoordinator, TLC

\* The name of a prompt says what handleBlocked makes of it; "other" is a
\* second plain one.
MCKindOf == [p \in Prompts |-> IF p = "other" THEN "plain" ELSE p]

\* Activations differ in nothing but their ids.  Sound for runs of safety
\* properties only.
MCSymmetry == Permutations(Jobs)
=============================================================================
