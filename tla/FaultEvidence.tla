--------------------------- MODULE FaultEvidence ---------------------------
(***************************************************************************)
(* FaultEngine with a history of the diagnoses themselves, kept beside the *)
(* engine's own counters, to say what a confirmation rests on.             *)
(***************************************************************************)
EXTENDS FaultEngine

VARIABLE seen  \* seen[k]: the ticks at which k was diagnosed since the last
               \* normal diagnosis, as long as k has no latched fault

evidenceVars == <<faults, activeByKey, policy, now, seen>>

HasLatchedFault(k) ==
    activeByKey[k] # None /\ faults[activeByKey[k]].state \in Latched

\* The history beside each kind of engine step.
Witness(k) ==
    seen' = IF HasLatchedFault(k) THEN seen ELSE [seen EXCEPT ![k] = Append(@, now)]
Forget(K)  == seen' = [k \in Keys |-> IF k \in K THEN <<>> ELSE seen[k]]

InitEvidence == Init /\ seen = [k \in Keys |-> <<>>]

NextEvidence ==
    \/ \E k \in Keys : (Raise(k) \/ Repeat(k)) /\ Witness(k)
    \/ ObserveNormal /\ Forget(Keys)
    \/ \E id \in DOMAIN faults :
         \/ VerifyPassed(id) /\ Forget({faults[id].key})
         \/ /\ \/ Acknowledge(id)
               \/ StartRepair(id)
               \/ ReportRepaired(id)
               \/ VerifyFailed(id)
            /\ UNCHANGED seen
    \/ ((\E p \in Policies : SetPolicy(p)) \/ Advance) /\ UNCHANGED seen

SpecEvidence == InitEvidence /\ [][NextEvidence]_evidenceVars

\* The last policy.count diagnoses of k, the one at hand included, lie within
\* policy.window ticks of each other.
Evidence(k) ==
    LET s == Append(seen[k], now)
        n == Len(s)
    IN  /\ n >= policy.count
        /\ now - s[n - policy.count + 1] <= policy.window

\* A fault is confirmed only on evidence (PR-FAULT-005): when observe()
\* confirms one, its key has been diagnosed policy.count times in a row within
\* policy.window ticks, with no normal diagnosis between, under the policy in
\* force.  Stated on the history of diagnoses, not on the record's counter,
\* which a late reset, a stale window or a kept suspicion would corrupt.
ConfirmationEvidenced ==
    [][\A id \in DOMAIN faults' :
         (/\ faults'[id].state = "CONFIRMED"
          /\ id \in DOMAIN faults => faults[id].state # "CONFIRMED")
            => Evidence(faults'[id].key)]_evidenceVars
=============================================================================
