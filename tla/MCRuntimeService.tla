-------------------------- MODULE MCRuntimeService --------------------------
(* Instances of RuntimeService for TLC. *)
EXTENDS RuntimeService

CONSTANTS f1, f2, s1, s2

OneSource == [f \in Files |-> s1]
TwoSources == [f \in Files |-> IF f = f1 THEN s1 ELSE s2]

=============================================================================
