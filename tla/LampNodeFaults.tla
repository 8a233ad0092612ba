--------------------------- MODULE LampNodeFaults ---------------------------
(***************************************************************************)
(* The fault path of a lamp node (lamp_node.py): one control cycle feeds   *)
(* the diagnosis to the fault engine, notifies the fault the engine        *)
(* returns if it is CONFIRMED, and then lets the notification of every     *)
(* CONFIRMED fault age, all in one call of step().  Operators acknowledge  *)
(* and repair in between, a delivery layer may report on any record at any *)
(* time, and a configuration write replaces both policies at once.         *)
(***************************************************************************)
EXTENDS FaultEngine

CONSTANTS
    NotePolicies,  \* notification policies a configuration write may install
    MaxAttempts,   \* bound on counted delivery attempts
    Reportable     \* bound: the records a delivery layer reports on

VARIABLES
    notes,         \* notes[id]: notification state of record id
    notePolicy     \* NotificationEngine._policy

noteVars == <<notes, notePolicy>>
vars == <<faults, activeByKey, policy, now, notes, notePolicy>>

N == INSTANCE Notification

ASSUME NotePolicyAssumption ==
    NotePolicies \subseteq N!NotificationPolicy /\ NotePolicies # {}

ASSUME ReportableAssumption == Reportable \subseteq FaultIds

-----------------------------------------------------------------------------
(* The second half of step(): `returned' is the record observe() handed    *)
(* back, if any.  A latched fault is handed back on every abnormal         *)
(* diagnosis, so its notification is initialised and sent once more.       *)

\* Slip: a suspicion is notified.
NotifiedEarly(id, returned) ==
    IF id = returned
    THEN N!Delivered(N!Initialised(notePolicy, notes[id], now), now)
    ELSE notes[id]

\* Slip: the notification is set up and never sent.
NotifiedUnsent(id, returned) ==
    IF id = returned /\ faults'[id].state = "CONFIRMED"
    THEN N!Initialised(notePolicy, notes[id], now)
    ELSE notes[id]

Notified(id, returned) ==
    IF id = returned /\ faults'[id].state = "CONFIRMED"
    THEN N!Delivered(N!Initialised(notePolicy, notes[id], now), now)
    ELSE notes[id]

\* Slip: the notification of every open fault ages.
ServicedAll(id, returned) ==
    IF id \in DOMAIN faults' /\ IsActive(faults'[id])
    THEN N!Ticked(notePolicy, Notified(id, returned), now)
    ELSE Notified(id, returned)

Serviced(id, returned) ==
    IF id \in DOMAIN faults' /\ faults'[id].state = "CONFIRMED"
    THEN N!Ticked(notePolicy, Notified(id, returned), now)
    ELSE Notified(id, returned)

ServiceNotifications(returned) ==
    /\ notes' = [id \in FaultIds |-> Serviced(id, returned)]
    /\ UNCHANGED notePolicy

StepNormal      == ObserveNormal /\ ServiceNotifications(None)
StepAbnormal(k) == /\ Raise(k) \/ Repeat(k)
                   /\ ServiceNotifications(activeByKey'[k])
Step == StepNormal \/ \E k \in Keys : StepAbnormal(k)

\* The operator's API.  acknowledge_fault also tells the notification engine,
\* which records an event and keeps its state.
OperatorAction == Operate /\ UNCHANGED noteVars

\* A delivery layer's report, early or late: neither call asks for the state
\* of the fault.
ReportUndelivered(id) ==
    /\ notes[id].attempts < MaxAttempts
    /\ notes' = [notes EXCEPT ![id] = N!NotDelivered(notePolicy, @)]
    /\ UNCHANGED <<engineVars, notePolicy>>

ReportDelivered(id) ==
    /\ notes' = [notes EXCEPT ![id] = N!Delivered(@, now)]
    /\ UNCHANGED <<engineVars, notePolicy>>

\* An accepted CONFIG_WRITE rebuilds both policies from one configuration.
ConfigWrite(p, q) ==
    /\ SetPolicy(p)
    /\ notePolicy' = q
    /\ UNCHANGED notes

Clock == Advance /\ UNCHANGED noteVars

NodeInit ==
    /\ Init
    /\ notes = [id \in FaultIds |-> N!NewNote]
    /\ notePolicy \in NotePolicies

NodeNext ==
    \/ Step
    \/ OperatorAction
    \/ \E id \in DOMAIN faults \cap Reportable :
          ReportUndelivered(id) \/ ReportDelivered(id)
    \/ \E p \in Policies, q \in NotePolicies : ConfigWrite(p, q)
    \/ Clock

\* The host program calls step() again and again, and time goes on.
Fairness == WF_vars(Step) /\ WF_vars(Clock)

NodeSpec == NodeInit /\ [][NodeNext]_vars /\ Fairness

-----------------------------------------------------------------------------
(* Properties.                                                             *)

\* Every variable stays within its type.
NodeTypeOK ==
    /\ TypeOK
    /\ notes \in [FaultIds -> N!Note]
    /\ notePolicy \in NotePolicies

\* The node tells nobody of a suspicion: a control cycle neither sets up, sends
\* nor ages the note of a record that is not confirmed, not even of one a
\* delivery layer reported on too early (PR-FAULT-007).
SuspicionsSilent ==
    [][Step => \A id \in DOMAIN faults' :
                 faults'[id].confirmed = None => notes'[id] = notes[id]]_vars

\* Every CONFIRMED fault has been notified, at or after its confirmation, or
\* needs no acknowledgement; and while it rests in PENDING a delivery failure
\* was counted since.  The confirmation by the engine, its return value and
\* the notification by the node could each miss the other.
ConfirmedNotified ==
    \A id \in DOMAIN faults : faults[id].state = "CONFIRMED" =>
        \/ notes[id].state = "NOT_REQUIRED"
        \/ /\ notes[id].last # None
           /\ faults[id].confirmed <= notes[id].last
           /\ notes[id].state = "PENDING" => notes[id].attempts > 0

\* An acknowledgement ends the reminding: only the note of a fault that is
\* still CONFIRMED becomes REMINDER_DUE or ESCALATED.
OnlyUnacknowledgedRemind ==
    [][\A id \in FaultIds :
         (/\ notes'[id].state \in {"REMINDER_DUE", "ESCALATED"}
          /\ notes'[id].state # notes[id].state)
            => id \in DOMAIN faults' /\ faults'[id].state = "CONFIRMED"]_vars

\* A control cycle leaves no timer unserved: after it no CONFIRMED fault waits
\* with a reminder or an escalation due under the policy in force.
StepServesTimers ==
    [][Step => \A id \in DOMAIN faults' : faults'[id].state = "CONFIRMED" =>
                 /\ ~N!EscalationDue(notePolicy, notes'[id], now)
                 /\ ~N!ReminderDue(notePolicy, notes'[id], now)]_vars

\* A notification that stays unanswered is escalated: one that was sent early
\* enough for its escalation to fall within MaxTick reaches ESCALATED, unless
\* it is answered, sent anew, reported undelivered or no longer required.
Unanswered(id, t) ==
    /\ id \in DOMAIN faults
    /\ faults[id].state = "CONFIRMED"
    /\ N!Awaiting(notes[id])
    /\ notes[id].last = t

LongestEscalation == CHOOSE m \in {q.escalation : q \in NotePolicies} :
                        \A q \in NotePolicies : q.escalation <= m

UnansweredEscalates ==
    \A id \in FaultIds, t \in 0 .. MaxTick : t + LongestEscalation <= MaxTick =>
        (Unanswered(id, t) ~> ~Unanswered(id, t))

\* docs/04_fault_management.md:313-322: a sent notification that goes without
\* acknowledgement escalates when the escalation timeout is reached and is
\* not re-sent on every control cycle.  Read on the fault: after a cycle run
\* escalation ticks past the confirmation, an unacknowledged fault that was
\* delivered at every attempt is ESCALATED.
EscalatesOnTime ==
    [][Step => \A id \in DOMAIN faults' :
         (/\ faults'[id].state = "CONFIRMED"
          /\ notes'[id].state # "NOT_REQUIRED"
          /\ notes'[id].attempts = 0
          /\ now - faults'[id].confirmed >= notePolicy.escalation)
            => notes'[id].state = "ESCALATED"]_vars
=============================================================================
