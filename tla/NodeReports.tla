---------------------------- MODULE NodeReports ----------------------------
(***************************************************************************)
(* How the group controller hears of the faults of a node (lamp_node.py).  *)
(* The node logs an event for what happens to a fault, and hands the       *)
(* controller one unreported event per EVENT_REPORT request.  An event     *)
(* counts as reported when its answer is made, and the answer may be lost. *)
(*                                                                         *)
(* The log is kept from the first unreported event on; events of other     *)
(* sources, which cost a request each, are left out.  A request, its       *)
(* answer and the answer's way are one step: an answer holds copies, and   *)
(* the controller takes the answers of a node in their order or not at all *)
(* (GroupLink), so nothing that comes between can change it.  The type of  *)
(* an event is the kind that was emitted.  On the wire FAULT_NOTIFIED goes *)
(* as a FAULT_CONFIRMED whose severity is INFO, not ERROR.  An answer does *)
(* not say which fault it is about: the model keeps that, to state what    *)
(* was heard.                                                              *)
(***************************************************************************)
EXTENDS LampNodeFaults, SequencesExt

CONSTANTS
    MaxUnreported   \* bound on the unreported events

VARIABLES
    log,    \* the events not in _reported_events, oldest first
    heard   \* the last event of the story of a fault the controller ingested,
            \* None before the first; "LOST" from the loss of one on

nodeVars == <<engineVars, noteVars>>
allVars  == <<engineVars, noteVars, log, heard>>

\* The story of a fault, told by the engine and by the ageing of its note ...
Story == {"FAULT_SUSPECTED", "FAULT_CONFIRMED", "FAULT_ACKNOWLEDGED",
          "FAULT_REMINDER_DUE", "FAULT_ESCALATED",
          "FAULT_REPAIR_STARTED", "FAULT_VERIFICATION_FAILED", "FAULT_CLOSED"}

\* ... and what became of its notification, which may be reported in any state
\* of the fault.
Notices == {"FAULT_NOTIFIED", "FAULT_NOTIFICATION_FAILED"}

EventType == Story \cup Notices
Event == [fault : FaultIds, type : EventType]

ASSUME ReportAssumption == MaxUnreported \in Nat /\ None \notin EventType

About(id, type) == <<[fault |-> id, type |-> type]>>

-----------------------------------------------------------------------------
(* What a control cycle logs, in its order: the engine's word on the       *)
(* observation, the notification, and the ageing of every note.            *)

Observed(id) ==
    CASE faults'[id].state = "SUSPECTED" -> About(id, "FAULT_SUSPECTED")
      [] /\ faults'[id].state = "CONFIRMED"
         /\ id \in DOMAIN faults => faults[id].state = "SUSPECTED"
                                         -> About(id, "FAULT_CONFIRMED")
      [] OTHER                           -> <<>>

Announced(id) ==
    IF faults'[id].state = "CONFIRMED" /\ notePolicy.ackRequired
    THEN About(id, "FAULT_NOTIFIED") ELSE <<>>

Aged(returned) ==
    FlattenSeq([id \in DOMAIN faults' |->
        IF notes'[id].state = Notified(id, returned).state THEN <<>>
        ELSE About(id, IF notes'[id].state = "ESCALATED" THEN "FAULT_ESCALATED"
                                                         ELSE "FAULT_REMINDER_DUE")])

Log(events) ==
    /\ log' = log \o events
    /\ Len(log') <= MaxUnreported
    /\ UNCHANGED heard

CycleNormal == StepNormal /\ Log(Aged(None))

CycleAbnormal(k) ==
    /\ StepAbnormal(k)
    /\ LET id == activeByKey'[k]
       IN  Log(Observed(id) \o Announced(id) \o Aged(id))

\* The operator's API.  The notification engine logs the acknowledgement a
\* second time unless the fault needs none; a report of repair is not logged.
OperatorEvents(id) ==
    \/ /\ Acknowledge(id)
       /\ Log(About(id, "FAULT_ACKNOWLEDGED") \o
              IF notes[id].state = "NOT_REQUIRED" THEN <<>>
              ELSE About(id, "FAULT_ACKNOWLEDGED"))
    \/ StartRepair(id)    /\ Log(About(id, "FAULT_REPAIR_STARTED"))
    \/ ReportRepaired(id) /\ Log(<<>>)
    \/ VerifyPassed(id)   /\ Log(About(id, "FAULT_CLOSED"))
    \/ VerifyFailed(id)   /\ Log(About(id, "FAULT_VERIFICATION_FAILED"))

\* delivery_failed raises before it logs where no notification is required.
DeliveryEvents(id) ==
    \/ /\ ReportUndelivered(id)
       /\ Log(IF notes[id].state = "NOT_REQUIRED" THEN <<>>
              ELSE About(id, "FAULT_NOTIFICATION_FAILED"))
    \/ /\ ReportDelivered(id)
       /\ Log(IF notes[id].state = "PENDING" THEN About(id, "FAULT_NOTIFIED") ELSE <<>>)

Unlogged ==
    /\ \/ Clock
       \/ \E p \in Policies, q \in NotePolicies : ConfigWrite(p, q)
    /\ UNCHANGED <<log, heard>>

-----------------------------------------------------------------------------
(* The EVENT_REPORT requests of the controller.                            *)

\* Slip: the latest event goes first.
ReportedLatestFirst == [event |-> Last(log), rest |-> Front(log)]

\* Slip: all that was waiting counts as reported.
ReportedAll == [event |-> Head(log), rest |-> <<>>]

\* _handle_event_report_request: the first unreported event is marked, and
\* then answered.
Reported == [event |-> Head(log), rest |-> Tail(log)]

Answered(word) ==
    /\ log # <<>>
    /\ log' = Reported.rest
    /\ heard' = [heard EXCEPT ![Reported.event.fault] =
                    IF Reported.event.type \in Story /\ @ # "LOST" THEN word ELSE @]
    /\ UNCHANGED nodeVars

\* ... and ingested by the controller, in _ingest_event, or lost.
ReportEvent == Answered(Reported.event.type)
LoseEvent   == Answered("LOST")

ReportsInit ==
    /\ NodeInit
    /\ log = <<>>
    /\ heard = [id \in FaultIds |-> None]

ReportsNext ==
    \/ CycleNormal
    \/ \E k \in Keys : CycleAbnormal(k)
    \/ \E id \in DOMAIN faults : OperatorEvents(id) /\ UNCHANGED noteVars
    \/ \E id \in DOMAIN faults \cap Reportable : DeliveryEvents(id)
    \/ Unlogged
    \/ ReportEvent
    \/ LoseEvent

\* The host polls for events again and again, and some answer gets through.
ReportsFairness == WF_allVars(ReportEvent)

ReportsSpec == ReportsInit /\ [][ReportsNext]_allVars /\ ReportsFairness

-----------------------------------------------------------------------------
(* Properties.                                                             *)

\* The events tell the story of every fault, in order and to its end: unless
\* one was lost, the last of its story that was heard or waits in the log
\* names the state the fault is in.  What the log does not say is that a
\* suspicion was dropped and that a repair was reported; every other change
\* of state is logged by the step that makes it, whatever comes between.
\* Notices of the notification are no part of the story: a delivery layer may
\* report when the fault is acknowledged or closed long since.
Tells(event, id) == event.fault = id /\ event.type \in Story

LastWord(id) ==
    LET waiting == {i \in DOMAIN log : Tells(log[i], id)}
    IN  IF waiting = {} THEN heard[id] ELSE log[Max(waiting)].type

StatesNamed(type) ==
    CASE type = "FAULT_SUSPECTED"    -> {"SUSPECTED", "NORMAL"}
      [] type = "FAULT_ACKNOWLEDGED" -> {"ACKNOWLEDGED"}
      [] type \in {"FAULT_REPAIR_STARTED", "FAULT_VERIFICATION_FAILED"}
                                     -> {"UNDER_REPAIR", "VERIFYING"}
      [] type = "FAULT_CLOSED"       -> {"CLOSED"}
      [] OTHER                       -> {"CONFIRMED"}

EventsTellFaults ==
    \A id \in {i \in DOMAIN faults : heard[i] # "LOST"} :
        LastWord(id) # None /\ faults[id].state \in StatesNamed(LastWord(id))

\* What was logged is heard: the controller hears FAULT_CLOSED of a fault that
\* was closed, however many events wait before that one, and from then on
\* nothing of its story comes after it; unless an answer that tells of the
\* fault was lost (lamp_node.py:521: a lost event is not sent again).
ClosureHeard ==
    \A id \in FaultIds :
        (id \in DOMAIN faults /\ faults[id].state = "CLOSED")
            ~> [](heard[id] \in {"FAULT_CLOSED", "LOST"})
=============================================================================
