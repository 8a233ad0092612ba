---------------------------- MODULE FaultEngine ----------------------------
(***************************************************************************)
(* The fault engine of one lamp node (fault.py): it turns the diagnosis of *)
(* every control cycle into fault records, confirms them, latches them and *)
(* carries them through acknowledgement, repair and verification.          *)
(*                                                                         *)
(* `faults' is the dict _faults: identifiers are handed out in order from  *)
(* _sequence and no record is ever removed, so a sequence indexed by the   *)
(* identifier's number is the same thing.  A node observes its own lamp    *)
(* only, so lamp_id is left out of the key.  An operation the code rejects *)
(* (IllegalTransitionError) changes nothing and is a disabled action.      *)
(***************************************************************************)
EXTENDS Integers, Sequences

CONSTANTS
    Keys,       \* pairs (fault type, diagnostic classification)
    Policies,   \* confirmation policies a configuration write may install
    None,       \* Python's None
    MaxTick,    \* bound on the clock
    MaxFaults,  \* bound on the number of records
    MaxCount    \* bound on a record's observation count

\* LampConfiguration.validate: both policy numbers are positive.
ASSUME PolicyAssumption ==
    /\ Policies \subseteq [count : Nat \ {0}, window : Nat \ {0}]
    /\ Policies # {}
ASSUME NoneAssumption  == None \notin Nat
ASSUME BoundAssumption == MaxTick \in Nat /\ MaxFaults \in Nat /\ MaxCount \in Nat

VARIABLES
    faults,       \* _faults, by number
    activeByKey,  \* _active_by_key: the open record of a key, or None
    policy,       \* _policy
    now           \* the clock the caller of step() reads

engineVars == <<faults, activeByKey, policy, now>>

FaultState == {"NORMAL", "SUSPECTED", "CONFIRMED", "ACKNOWLEDGED",
               "UNDER_REPAIR", "VERIFYING", "CLOSED"}
RepairStatus == {"NOT_STARTED", "IN_PROGRESS", "REPAIRED", "NOT_REPAIRED"}
VerificationStatus == {"NOT_VERIFIED", "VERIFYING", "VERIFIED",
                       "VERIFICATION_FAILED"}

Fault == [key : Keys, state : FaultState, count : Nat,
          first : Nat, confirmed : Nat \cup {None},
          repair : RepairStatus, verification : VerificationStatus]

FaultIds == 1 .. MaxFaults

-----------------------------------------------------------------------------
(* The record and its lifecycle.                                           *)

IsActive(f) == f.state \notin {"NORMAL", "CLOSED"}

Latched == {"CONFIRMED", "ACKNOWLEDGED", "UNDER_REPAIR", "VERIFYING"}

\* FaultLifecycle.transition on a record, whose table the callers' own guards
\* respect: the state, and the tick stamped on it at confirmation.  (The
\* stamps of acknowledgement and closure, the actor and the reason are
\* recorded by the code and read by nothing.)
Moved(f, target) ==
    [f EXCEPT !.state     = target,
              !.confirmed = IF target = "CONFIRMED" THEN now ELSE @]

NewFault(k) ==
    [key |-> k, state |-> "SUSPECTED", count |-> 1,
     first |-> now, confirmed |-> None,
     repair |-> "NOT_STARTED", verification |-> "NOT_VERIFIED"]

-----------------------------------------------------------------------------
(* Observation of one diagnosis.                                           *)

\* Slip: the count never starts over.
CountedForever(f) == [f EXCEPT !.count = @ + 1]

\* One more observation: the window is anchored at the first observation of
\* the current count, and the count starts over once the window has passed.
Counted(f) ==
    IF now - f.first > policy.window
    THEN [f EXCEPT !.count = 1, !.first = now]
    ELSE [f EXCEPT !.count = @ + 1]

\* A suspected record with enough observations is confirmed on the spot.
Judged(f) ==
    IF f.state = "SUSPECTED" /\ f.count >= policy.count
    THEN Moved(f, "CONFIRMED")
    ELSE f

\* No open record for k: a new record, whatever became of the earlier ones.
Raise(k) ==
    /\ activeByKey[k] = None
    /\ Len(faults) < MaxFaults
    /\ faults' = Append(faults, Judged(NewFault(k)))
    /\ activeByKey' = [activeByKey EXCEPT ![k] = Len(faults) + 1]
    /\ UNCHANGED <<policy, now>>

\* The open record of k is updated; a latched one keeps its state.
Repeat(k) ==
    /\ activeByKey[k] # None
    /\ LET id == activeByKey[k]
       IN  /\ Counted(faults[id]).count <= MaxCount
           /\ faults' = [faults EXCEPT ![id] = Judged(Counted(@))]
    /\ UNCHANGED <<activeByKey, policy, now>>

\* Slip: the index entries of the cleared records stay.
ClearKeepingIndex(ids) ==
    /\ faults' = [id \in DOMAIN faults |->
                    IF id \in ids THEN Moved(faults[id], "NORMAL") ELSE faults[id]]
    /\ UNCHANGED <<activeByKey, policy, now>>

Clear(ids) ==
    /\ faults' = [id \in DOMAIN faults |->
                    IF id \in ids THEN Moved(faults[id], "NORMAL") ELSE faults[id]]
    /\ activeByKey' = [k \in Keys |-> IF \E id \in ids : faults[id].key = k
                                      THEN None ELSE activeByKey[k]]
    /\ UNCHANGED <<policy, now>>

\* Slip: latched faults are cleared as well.
ObserveNormalUnlatched == Clear({id \in DOMAIN faults : IsActive(faults[id])})

\* A normal diagnosis withdraws every suspicion of the lamp, and its index
\* entry; a latched fault stays.
ObserveNormal == Clear({id \in DOMAIN faults : faults[id].state = "SUSPECTED"})

Observe == ObserveNormal \/ \E k \in Keys : Raise(k) \/ Repeat(k)

-----------------------------------------------------------------------------
(* The operator's operations on a record.                                  *)

Acknowledge(id) ==
    /\ faults[id].state = "CONFIRMED"
    /\ faults' = [faults EXCEPT ![id] = Moved(@, "ACKNOWLEDGED")]
    /\ UNCHANGED <<activeByKey, policy, now>>

StartRepair(id) ==
    /\ faults[id].state = "ACKNOWLEDGED"
    /\ faults' = [faults EXCEPT
                    ![id] = [Moved(@, "UNDER_REPAIR") EXCEPT !.repair = "IN_PROGRESS"]]
    /\ UNCHANGED <<activeByKey, policy, now>>

ReportRepaired(id) ==
    /\ faults[id].state = "UNDER_REPAIR"
    /\ faults' = [faults EXCEPT
                    ![id] = [Moved(@, "VERIFYING") EXCEPT !.repair = "REPAIRED",
                                                         !.verification = "VERIFYING"]]
    /\ UNCHANGED <<activeByKey, policy, now>>

\* Slip: the closed record stays in the index.
VerifyPassedKeepingIndex(id) ==
    /\ faults[id].state = "VERIFYING"
    /\ faults' = [faults EXCEPT
                    ![id] = [Moved(@, "CLOSED") EXCEPT !.verification = "VERIFIED"]]
    /\ UNCHANGED <<activeByKey, policy, now>>

\* A passed verification closes the record and frees its key.
VerifyPassed(id) ==
    /\ faults[id].state = "VERIFYING"
    /\ faults' = [faults EXCEPT
                    ![id] = [Moved(@, "CLOSED") EXCEPT !.verification = "VERIFIED"]]
    /\ activeByKey' = [activeByKey EXCEPT ![faults[id].key] = None]
    /\ UNCHANGED <<policy, now>>

\* Slip: the repair status is not taken back.
VerifyFailedUnrepaired(id) ==
    /\ faults[id].state = "VERIFYING"
    /\ faults' = [faults EXCEPT
                    ![id] = [Moved(@, "UNDER_REPAIR") EXCEPT
                               !.verification = "VERIFICATION_FAILED"]]
    /\ UNCHANGED <<activeByKey, policy, now>>

\* A failed one sends it back to repair.
VerifyFailed(id) ==
    /\ faults[id].state = "VERIFYING"
    /\ faults' = [faults EXCEPT
                    ![id] = [Moved(@, "UNDER_REPAIR") EXCEPT
                               !.repair = "NOT_REPAIRED",
                               !.verification = "VERIFICATION_FAILED"]]
    /\ UNCHANGED <<activeByKey, policy, now>>

Operate == \E id \in DOMAIN faults :
    \/ Acknowledge(id)
    \/ StartRepair(id)
    \/ ReportRepaired(id)
    \/ VerifyPassed(id)
    \/ VerifyFailed(id)

-----------------------------------------------------------------------------
(* Around the engine: an accepted configuration write installs another     *)
(* policy, suspicions or not, and time passes.                             *)

SetPolicy(p) ==
    /\ policy' = p
    /\ UNCHANGED <<faults, activeByKey, now>>

Advance ==
    /\ now < MaxTick
    /\ now' = now + 1
    /\ UNCHANGED <<faults, activeByKey, policy>>

Init ==
    /\ faults = <<>>
    /\ activeByKey = [k \in Keys |-> None]
    /\ policy \in Policies
    /\ now = 0

Next == \/ Observe
        \/ Operate
        \/ \E p \in Policies : SetPolicy(p)
        \/ Advance

Spec == Init /\ [][Next]_engineVars

-----------------------------------------------------------------------------
(* Properties.                                                             *)

\* Every variable stays within its type.
TypeOK ==
    /\ faults \in Seq(Fault)
    /\ activeByKey \in [Keys -> Nat \cup {None}]
    /\ policy \in Policies
    /\ now \in Nat

\* The index _active_by_key and the records agree in both directions: an
\* entry names an open record of its key, and every open record is the entry
\* of its key.  A key has therefore at most one open fault (PR-FAULT-006):
\* an entry left behind or dropped by clearing, closing or raising again
\* would update a dead record or raise a second one.
ActiveIndexExact ==
    /\ \A k \in Keys : activeByKey[k] # None =>
          /\ activeByKey[k] \in DOMAIN faults
          /\ faults[activeByKey[k]].key = k
          /\ IsActive(faults[activeByKey[k]])
    /\ \A id \in DOMAIN faults :
          IsActive(faults[id]) => activeByKey[faults[id].key] = id

\* A cleared or closed record is final: a recurrence gets a record of its
\* own (docs/04 7.4) and no operation revives or rewrites the old one.
RecordsFinal ==
    [][\A id \in DOMAIN faults :
         /\ id \in DOMAIN faults'
         /\ ~IsActive(faults[id]) => faults'[id] = faults[id]]_engineVars

\* Repair and verification status tell the same story as the lifecycle
\* state, around the loop of failed verifications too; in particular a fault
\* is closed only as repaired and verified.
RepairStory(f) ==
    /\ f.state \in {"NORMAL", "SUSPECTED", "CONFIRMED", "ACKNOWLEDGED"} =>
          f.repair = "NOT_STARTED" /\ f.verification = "NOT_VERIFIED"
    /\ f.state = "UNDER_REPAIR" =>
          <<f.repair, f.verification>> \in {<<"IN_PROGRESS", "NOT_VERIFIED">>,
                                            <<"NOT_REPAIRED", "VERIFICATION_FAILED">>}
    /\ f.state = "VERIFYING" => f.repair = "REPAIRED" /\ f.verification = "VERIFYING"
    /\ f.state = "CLOSED" => f.repair = "REPAIRED" /\ f.verification = "VERIFIED"

RepairStoryTold == \A id \in DOMAIN faults : RepairStory(faults[id])

\* The engine implements the ledger: seen by key, records and index carry one
\* episode at a time through the documented lifecycle (PR-FAULT-004), and an
\* observation, a policy change or the clock never does an operator's part.
LifeOf(k) == IF activeByKey[k] = None THEN "NORMAL" ELSE faults[activeByKey[k]].state

Ledger == INSTANCE FaultLedger WITH life <- [k \in Keys |-> LifeOf(k)]

LedgerSpec == Ledger!Spec
=============================================================================
