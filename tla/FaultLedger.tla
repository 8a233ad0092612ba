---------------------------- MODULE FaultLedger ----------------------------
(***************************************************************************)
(* What the fault engine of a lamp node promises about each fault key (the *)
(* pair of fault type and diagnostic classification), leaving aside        *)
(* records, identifiers, counters and clocks: at any time a key has one    *)
(* lifecycle state, and it moves along FaultLifecycle.TRANSITIONS.  A      *)
(* closed or a cleared episode leaves the key NORMAL, ready for the next.  *)
(***************************************************************************)
CONSTANT Keys

VARIABLE life   \* life[k]: the lifecycle state of the open episode of key k

Init == life = [k \in Keys |-> "NORMAL"]

Move(k, from, to) ==
    /\ life[k] \in from
    /\ life' = [life EXCEPT ![k] = to]

\* An abnormal diagnosis opens an episode, or completes its confirmation.
Suspect(k) == Move(k, {"NORMAL"}, "SUSPECTED")
Confirm(k) == Move(k, {"NORMAL", "SUSPECTED"}, "CONFIRMED")

\* A normal diagnosis withdraws every suspicion and touches nothing else.
ClearSuspicions ==
    life' = [k \in Keys |-> IF life[k] = "SUSPECTED" THEN "NORMAL" ELSE life[k]]

\* The operator's part: acknowledge, repair, report, and a verdict.
Acknowledge(k)    == Move(k, {"CONFIRMED"}, "ACKNOWLEDGED")
StartRepair(k)    == Move(k, {"ACKNOWLEDGED"}, "UNDER_REPAIR")
ReportRepaired(k) == Move(k, {"UNDER_REPAIR"}, "VERIFYING")
RejectRepair(k)   == Move(k, {"VERIFYING"}, "UNDER_REPAIR")
Close(k)          == Move(k, {"VERIFYING"}, "NORMAL")

Next ==
    \/ ClearSuspicions
    \/ \E k \in Keys : \/ Suspect(k)
                       \/ Confirm(k)
                       \/ Acknowledge(k)
                       \/ StartRepair(k)
                       \/ ReportRepaired(k)
                       \/ RejectRepair(k)
                       \/ Close(k)

Spec == Init /\ [][Next]_life
=============================================================================
