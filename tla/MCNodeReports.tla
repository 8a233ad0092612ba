--------------------------- MODULE MCNodeReports ---------------------------
(* Instances of NodeReports for TLC. *)
EXTENDS NodeReports

MCPolicies == {[count |-> 2, window |-> 2]}

NoAck == [ackRequired |-> FALSE, reminder |-> 1, escalation |-> 2, retries |-> 1]
Ack   == [NoAck EXCEPT !.ackRequired = TRUE]

MCNotePolicies == {Ack}
=============================================================================
