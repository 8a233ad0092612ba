-------------------------- MODULE MCFaultEvidence --------------------------
(* Instances of FaultEvidence, and with it of FaultEngine, for TLC. *)
EXTENDS FaultEvidence, TLC

MCPolicies == {[count |-> 1, window |-> 1], [count |-> 3, window |-> 2]}

Symmetry == Permutations(Keys)
=============================================================================
