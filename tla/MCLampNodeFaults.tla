-------------------------- MODULE MCLampNodeFaults --------------------------
(* Instances of LampNodeFaults for TLC. *)
EXTENDS LampNodeFaults, TLC

MCPolicies == {[count |-> 2, window |-> 2]}

Ack   == [ackRequired |-> TRUE, reminder |-> 1, escalation |-> 2, retries |-> 1]
NoAck == [Ack EXCEPT !.ackRequired = FALSE]

MCNotePolicies == {Ack, NoAck}
=============================================================================
