----------------------- MODULE LampNodeFaults_proofs -----------------------
(***************************************************************************)
(* Theorems about the fault path of a lamp node, for any set of diagnoses, *)
(* any policies and any bounds.  What the engine does to its records is    *)
(* taken from FaultEngine_proofs.                                          *)
(***************************************************************************)
EXTENDS LampNodeFaults, FaultEngine_proofs

-----------------------------------------------------------------------------
(* The note of one fault.                                                  *)

LEMMA PolicyFields ==
    ASSUME NodeTypeOK
    PROVE  /\ notePolicy.ackRequired \in BOOLEAN
           /\ notePolicy.reminder \in Nat /\ notePolicy.reminder > 0
           /\ notePolicy.escalation \in Nat /\ notePolicy.escalation > notePolicy.reminder
           /\ notePolicy.retries \in Nat
  BY NotePolicyAssumption DEF NodeTypeOK, N!NotificationPolicy

\* Ageing touches the state alone, never a note that does not await an
\* answer, and makes none PENDING.
LEMMA TickedNote ==
    ASSUME NEW p, NEW n \in N!Note, NEW t
    PROVE  /\ N!Ticked(p, n, t) \in N!Note
           /\ N!Ticked(p, n, t).last = n.last
           /\ N!Ticked(p, n, t).attempts = n.attempts
           /\ ~N!Awaiting(n) => N!Ticked(p, n, t) = n
           /\ N!Ticked(p, n, t).state = "PENDING" => n.state = "PENDING"
           /\ N!Ticked(p, n, t) # n =>
                 N!Ticked(p, n, t).state \in {"REMINDER_DUE", "ESCALATED"}
<1>1. CASE N!EscalationDue(p, n, t)
  BY <1>1 DEF N!Ticked, N!Note, N!NotificationState, N!EscalationDue, N!Awaiting
<1>2. CASE ~N!EscalationDue(p, n, t) /\ N!ReminderDue(p, n, t)
  BY <1>2 DEF N!Ticked, N!Note, N!NotificationState, N!ReminderDue, N!Awaiting
<1>3. CASE ~N!EscalationDue(p, n, t) /\ ~N!ReminderDue(p, n, t)
  BY <1>3 DEF N!Ticked
<1> QED BY <1>1, <1>2, <1>3

\* One look serves both timers: what is due afterwards was not due before.
LEMMA TickedServes ==
    ASSUME NEW p, NEW n \in N!Note, NEW t
    PROVE  /\ ~N!EscalationDue(p, N!Ticked(p, n, t), t)
           /\ ~N!ReminderDue(p, N!Ticked(p, n, t), t)
<1>1. CASE N!EscalationDue(p, n, t)
  BY <1>1 DEF N!Ticked, N!Note, N!EscalationDue, N!ReminderDue, N!Awaiting
<1>2. CASE ~N!EscalationDue(p, n, t) /\ N!ReminderDue(p, n, t)
  BY <1>2 DEF N!Ticked, N!Note, N!EscalationDue, N!ReminderDue, N!Awaiting
<1>3. CASE ~N!EscalationDue(p, n, t) /\ ~N!ReminderDue(p, n, t)
  BY <1>3 DEF N!Ticked
<1> QED BY <1>1, <1>2, <1>3

\* Setting up and sending in one go, as step() does for the fault it is
\* handed: the note awaits an answer from now on, or needs none.
LEMMA SentNote ==
    ASSUME NodeTypeOK, now \in Nat, NEW n \in N!Note
    PROVE  LET m == N!Delivered(N!Initialised(notePolicy, n, now), now)
           IN  /\ m \in N!Note
               /\ m.state # "NOT_REQUIRED" => m.state = "ACK_PENDING" /\ m.last = now
<1>1. CASE notePolicy.ackRequired
  <2>1. N!Initialised(notePolicy, n, now) = [state |-> "PENDING", last |-> now, attempts |-> 0]
    BY <1>1 DEF N!Initialised
  <2>2. N!Delivered([state |-> "PENDING", last |-> now, attempts |-> 0], now)
           = [state |-> "ACK_PENDING", last |-> now, attempts |-> 0]
    BY DEF N!Delivered
  <2> QED BY <2>1, <2>2 DEF N!Note, N!NotificationState
<1>2. CASE ~notePolicy.ackRequired
  <2>1. N!Initialised(notePolicy, n, now) = [n EXCEPT !.state = "NOT_REQUIRED"]
    BY <1>2 DEF N!Initialised
  <2> QED BY <2>1 DEF N!Delivered, N!Note, N!NotificationState
<1> QED BY <1>1, <1>2

LEMMA FailedNote ==
    ASSUME NEW p, NEW n \in N!Note
    PROVE  /\ N!NotDelivered(p, n) \in N!Note
           /\ N!NotDelivered(p, n).last = n.last
           /\ N!NotDelivered(p, n).attempts > 0
           /\ N!NotDelivered(p, n).state \in {"NOT_REQUIRED", "PENDING", "DELIVERY_FAILED"}
           /\ N!NotDelivered(p, n).state = "NOT_REQUIRED" <=> n.state = "NOT_REQUIRED"
<1>1. PICK s \in {"NOT_REQUIRED", "PENDING", "DELIVERY_FAILED"} :
         /\ N!NotDelivered(p, n) = [n EXCEPT !.attempts = n.attempts + 1, !.state = s]
         /\ s = "NOT_REQUIRED" <=> n.state = "NOT_REQUIRED"
  <2> DEFINE s == IF n.state \in {"NOT_REQUIRED", "DELIVERY_FAILED"} THEN n.state
                  ELSE IF n.attempts + 1 <= p.retries THEN "PENDING" ELSE "DELIVERY_FAILED"
  <2>1. N!NotDelivered(p, n) = [n EXCEPT !.attempts = n.attempts + 1, !.state = s]
    BY DEF N!NotDelivered, N!Note
  <2>2. /\ s \in {"NOT_REQUIRED", "PENDING", "DELIVERY_FAILED"}
        /\ s = "NOT_REQUIRED" <=> n.state = "NOT_REQUIRED"
    OBVIOUS
  <2> HIDE DEF s
  <2> QED BY <2>1, <2>2
<1>2. n.attempts \in Nat /\ n.attempts + 1 \in Nat /\ n.attempts + 1 > 0
  BY DEF N!Note
<1> QED BY <1>1, <1>2 DEF N!Note, N!NotificationState

-----------------------------------------------------------------------------
(* The inductive invariant: that of the engine, and what the records and   *)
(* the notes of a node have to do with one another.                        *)

\* The bound on records is the domain of the notes, and a confirmed record
\* carries the tick of its confirmation.
RecordsStamped ==
    /\ DOMAIN faults \subseteq FaultIds
    /\ \A id \in DOMAIN faults : faults[id].state = "CONFIRMED" =>
          faults[id].confirmed \in Nat /\ faults[id].confirmed <= now

NodeIInv == /\ IInv
            /\ NodeTypeOK
            /\ RecordsStamped
            /\ ConfirmedNotified

\* What a step does to the records, seen from the notes: the record handed
\* back may be new or newly confirmed; of all others none is, and none loses
\* or gains the stamp of its confirmation.
Recorded(returned) ==
    /\ returned \in DOMAIN faults' \cup {None}
    /\ DOMAIN faults \subseteq DOMAIN faults'
    /\ DOMAIN faults' \subseteq FaultIds
    /\ \A id \in DOMAIN faults' : id # returned =>
          /\ id \in DOMAIN faults
          /\ faults'[id].confirmed = faults[id].confirmed
          /\ faults'[id].state = "CONFIRMED" => faults[id].state = "CONFIRMED"
    /\ \A id \in DOMAIN faults' : id = returned /\ faults'[id].state = "CONFIRMED" =>
          faults'[id].confirmed \in Nat /\ faults'[id].confirmed <= now

LEMMA InitNodeIInv == NodeInit => NodeIInv
<1> SUFFICES ASSUME NodeInit PROVE NodeIInv
  OBVIOUS
<1>1. IInv
  BY InitIInv DEF NodeInit
<1>2. faults = <<>> /\ DOMAIN faults = {}
  BY DEF NodeInit, Init
<1>3. N!NewNote \in N!Note
  BY DEF N!NewNote, N!Note, N!NotificationState
<1>4. NodeTypeOK
  BY <1>1, <1>3 DEF NodeInit, NodeTypeOK, IInv
<1> QED BY <1>1, <1>2, <1>4 DEF NodeIInv, RecordsStamped, ConfirmedNotified

-----------------------------------------------------------------------------
(* The records under each kind of step.                                    *)

\* The stamp an observation leaves on a record.
LEMMA JudgedStamp ==
    ASSUME TypeOK, NEW f \in Fault,
           f.state = "CONFIRMED" => f.confirmed \in Nat /\ f.confirmed <= now
    PROVE  Judged(f).state = "CONFIRMED" =>
              Judged(f).confirmed \in Nat /\ Judged(f).confirmed <= now
<1> now \in Nat
  BY DEF TypeOK
<1>1. CASE f.state = "SUSPECTED" /\ f.count >= policy.count
  BY <1>1 DEF Judged, Moved, Fault
<1>2. CASE ~(f.state = "SUSPECTED" /\ f.count >= policy.count)
  BY <1>2 DEF Judged
<1> QED BY <1>1, <1>2

LEMMA CountedStamp ==
    ASSUME NEW f \in Fault
    PROVE  Counted(f).state = f.state /\ Counted(f).confirmed = f.confirmed
  BY DEF Counted, Fault

LEMMA RaiseRecords ==
    ASSUME NodeIInv, NEW k \in Keys, Raise(k)
    PROVE  Recorded(activeByKey'[k])
<1> DEFINE g == Judged(NewFault(k))
           new == Len(faults) + 1
<1>1. TypeOK /\ faults \in Seq(Fault) /\ now \in Nat
  BY DEF NodeIInv, IInv, TypeOK
<1>2. NewFault(k) \in Fault /\ NewFault(k).state = "SUSPECTED" /\ RepairStory(NewFault(k))
  BY <1>1, NewFaultType
<1>3. g \in Fault
  BY <1>1, <1>2, ObservedRecord DEF Succeeds
<1>4. g.state = "CONFIRMED" => g.confirmed \in Nat /\ g.confirmed <= now
  BY <1>1, <1>2, JudgedStamp
<1>5. /\ DOMAIN faults = 1 .. Len(faults) /\ Len(faults) \in Nat
      /\ faults' = Append(faults, g)
      /\ DOMAIN faults' = 1 .. new
      /\ faults'[new] = g
      /\ \A id \in DOMAIN faults : faults'[id] = faults[id]
  BY <1>1, <1>3, AppendProperties, LenProperties DEF Raise
<1>6. activeByKey'[k] = new /\ new <= MaxFaults
  BY <1>1, <1>5, BoundAssumption DEF Raise, TypeOK
<1>7. DOMAIN faults' \subseteq FaultIds
  BY <1>5, <1>6, BoundAssumption DEF FaultIds
<1> HIDE DEF g
<1> QED BY <1>4, <1>5, <1>6, <1>7 DEF Recorded

LEMMA RepeatRecords ==
    ASSUME NodeIInv, NEW k \in Keys, Repeat(k)
    PROVE  Recorded(activeByKey'[k])
<1> DEFINE id == activeByKey[k]
           f  == faults[id]
           g  == Judged(Counted(f))
<1>1. TypeOK /\ id \in DOMAIN faults /\ f \in Fault /\ RepairStory(f)
  BY LenProperties, ElementOfSeq
  DEF NodeIInv, IInv, Repeat, ActiveIndexExact, RepairStoryTold, TypeOK
<1>2. Succeeds(f, Counted(f)) /\ Counted(f).state = f.state
      /\ Counted(f).confirmed = f.confirmed
  BY <1>1, ObservedRecord, CountedStamp
<1>3. g \in Fault
  BY <1>1, <1>2, ObservedRecord DEF Succeeds
<1>4. g.state = "CONFIRMED" => g.confirmed \in Nat /\ g.confirmed <= now
  BY <1>1, <1>2, JudgedStamp DEF NodeIInv, RecordsStamped, Succeeds
<1>5. faults' = [faults EXCEPT ![id] = g] /\ UNCHANGED <<activeByKey, policy, now>>
  BY DEF Repeat
<1> HIDE DEF g, f, id
<1>6. /\ DOMAIN faults' = DOMAIN faults
      /\ \A j \in DOMAIN faults : faults'[j] = IF j = id THEN g ELSE faults[j]
  BY <1>1, <1>3, <1>5, RewriteFacts
<1>7. activeByKey'[k] = id
  BY <1>5 DEF id
<1> QED BY <1>1, <1>4, <1>6, <1>7 DEF Recorded, NodeIInv, RecordsStamped, f

\* A normal diagnosis hands nothing back.
LEMMA ObserveNormalRecords ==
    ASSUME NodeIInv, ObserveNormal
    PROVE  Recorded(None)
<1>1. faults \in Seq(Fault) /\ \A id \in DOMAIN faults : faults[id] \in Fault
  BY LenProperties, ElementOfSeq DEF NodeIInv, IInv, TypeOK
<1>2. /\ DOMAIN faults' = DOMAIN faults
      /\ \A id \in DOMAIN faults :
            faults'[id] = faults[id] \/ faults'[id] = Moved(faults[id], "NORMAL")
  BY DEF ObserveNormal, Clear
<1>3. \A id \in DOMAIN faults :
         /\ Moved(faults[id], "NORMAL").state # "CONFIRMED"
         /\ Moved(faults[id], "NORMAL").confirmed = faults[id].confirmed
  BY <1>1 DEF Moved, Fault
<1>4. None \notin DOMAIN faults
  BY <1>1, NoneAssumption, LenProperties
<1> QED BY <1>2, <1>3, <1>4 DEF Recorded, NodeIInv, RecordsStamped

LEMMA OperateRecords ==
    ASSUME NodeIInv, Operate
    PROVE  Recorded(None) /\ now' = now
<1> PICK id \in DOMAIN faults : \/ Acknowledge(id)
                               \/ StartRepair(id)
                               \/ ReportRepaired(id)
                               \/ VerifyPassed(id)
                               \/ VerifyFailed(id)
  BY DEF Operate
<1> DEFINE f == faults[id]
<1>1. TypeOK /\ f \in Fault /\ faults \in Seq(Fault)
  BY LenProperties, ElementOfSeq DEF NodeIInv, IInv, TypeOK
<1>2. PICK g : /\ faults' = [faults EXCEPT ![id] = g] /\ now' = now
               /\ g.state # "CONFIRMED" /\ g.confirmed = f.confirmed
  <2>1. CASE Acknowledge(id)
    <3> DEFINE g == Moved(f, "ACKNOWLEDGED")
    <3>1. g.state # "CONFIRMED" /\ g.confirmed = f.confirmed
      BY <1>1 DEF Moved, Fault
    <3>2. faults' = [faults EXCEPT ![id] = g] /\ now' = now
      BY <2>1 DEF Acknowledge
    <3> HIDE DEF g
    <3> QED BY <3>1, <3>2
  <2>2. CASE StartRepair(id)
    <3> DEFINE g == [Moved(f, "UNDER_REPAIR") EXCEPT !.repair = "IN_PROGRESS"]
    <3>1. g.state # "CONFIRMED" /\ g.confirmed = f.confirmed
      BY <1>1 DEF Moved, Fault
    <3>2. faults' = [faults EXCEPT ![id] = g] /\ now' = now
      BY <2>2 DEF StartRepair
    <3> HIDE DEF g
    <3> QED BY <3>1, <3>2
  <2>3. CASE ReportRepaired(id)
    <3> DEFINE g == [Moved(f, "VERIFYING") EXCEPT !.repair = "REPAIRED",
                                                  !.verification = "VERIFYING"]
    <3>1. g.state # "CONFIRMED" /\ g.confirmed = f.confirmed
      BY <1>1 DEF Moved, Fault
    <3>2. faults' = [faults EXCEPT ![id] = g] /\ now' = now
      BY <2>3 DEF ReportRepaired
    <3> HIDE DEF g
    <3> QED BY <3>1, <3>2
  <2>4. CASE VerifyPassed(id)
    <3> DEFINE g == [Moved(f, "CLOSED") EXCEPT !.verification = "VERIFIED"]
    <3>1. g.state # "CONFIRMED" /\ g.confirmed = f.confirmed
      BY <1>1 DEF Moved, Fault
    <3>2. faults' = [faults EXCEPT ![id] = g] /\ now' = now
      BY <2>4 DEF VerifyPassed
    <3> HIDE DEF g
    <3> QED BY <3>1, <3>2
  <2>5. CASE VerifyFailed(id)
    <3> DEFINE g == [Moved(f, "UNDER_REPAIR") EXCEPT
                       !.repair = "NOT_REPAIRED",
                       !.verification = "VERIFICATION_FAILED"]
    <3>1. g.state # "CONFIRMED" /\ g.confirmed = f.confirmed
      BY <1>1 DEF Moved, Fault
    <3>2. faults' = [faults EXCEPT ![id] = g] /\ now' = now
      BY <2>5 DEF VerifyFailed
    <3> HIDE DEF g
    <3> QED BY <3>1, <3>2
  <2> QED BY <2>1, <2>2, <2>3, <2>4, <2>5
<1>3. /\ DOMAIN faults' = DOMAIN faults
      /\ \A j \in DOMAIN faults : faults'[j] = IF j = id THEN g ELSE faults[j]
  BY <1>1, <1>2, LenProperties
<1>4. None \notin DOMAIN faults
  BY <1>1, NoneAssumption, LenProperties
<1> QED BY <1>2, <1>3, <1>4 DEF Recorded, NodeIInv, RecordsStamped

\* Whatever the operation, the stamps of confirmation survive it.
LEMMA RecordedStamps ==
    ASSUME NodeIInv, NEW returned, Recorded(returned), now' = now
    PROVE  RecordsStamped'
  BY DEF NodeIInv, RecordsStamped, Recorded, FaultIds

-----------------------------------------------------------------------------
(* The notes under a control cycle, and the invariant under every step.    *)

\* One cycle: the records move first, then the notes of the new records.
LEMMA ServiceIInv ==
    ASSUME NodeIInv, NEW returned, Recorded(returned), IInv',
           ServiceNotifications(returned), UNCHANGED <<policy, now>>
    PROVE  NodeIInv'
<1> now \in Nat /\ NodeTypeOK /\ None \notin Nat
  BY NoneAssumption DEF NodeIInv, IInv, TypeOK
<1>1. /\ notes' = [id \in FaultIds |-> Serviced(id, returned)]
      /\ notePolicy' = notePolicy
  BY DEF ServiceNotifications
<1>2. RecordsStamped'
  BY RecordedStamps
<1>3. ASSUME NEW id \in FaultIds
      PROVE  /\ Notified(id, returned) \in N!Note
             /\ notes'[id] = Serviced(id, returned)
             /\ notes'[id] \in N!Note
             /\ notes'[id].last = Notified(id, returned).last
             /\ notes'[id].attempts = Notified(id, returned).attempts
             /\ Notified(id, returned).state = "NOT_REQUIRED" =>
                   notes'[id].state = "NOT_REQUIRED"
             /\ notes'[id].state = "PENDING" => Notified(id, returned).state = "PENDING"
  <2>1. notes[id] \in N!Note
    BY DEF NodeTypeOK
  <2>2. Notified(id, returned) \in N!Note
    BY <2>1, SentNote DEF Notified
  <2>3. notes'[id] = Serviced(id, returned)
    BY <1>1
  <2>4. \/ notes'[id] = Notified(id, returned)
        \/ notes'[id] = N!Ticked(notePolicy, Notified(id, returned), now)
    BY <2>3 DEF Serviced
  <2> QED BY <2>2, <2>3, <2>4, TickedNote DEF N!Awaiting
<1>4. NodeTypeOK'
  BY <1>1, <1>3 DEF NodeTypeOK, IInv
<1>5. ConfirmedNotified'
  <2> SUFFICES ASSUME NEW id \in DOMAIN faults', faults'[id].state = "CONFIRMED",
                      notes'[id].state # "NOT_REQUIRED"
               PROVE  /\ notes'[id].last # None
                      /\ faults'[id].confirmed <= notes'[id].last
                      /\ notes'[id].state = "PENDING" => notes'[id].attempts > 0
    BY DEF ConfirmedNotified
  <2>1. id \in FaultIds
    BY DEF Recorded
  <2>2. Notified(id, returned).state # "NOT_REQUIRED"
    BY <1>3, <2>1
  <2>3. CASE id = returned
    <3>1. Notified(id, returned).state = "ACK_PENDING" /\ Notified(id, returned).last = now
      BY <2>1, <2>2, <2>3, SentNote DEF Notified, NodeTypeOK
    <3> QED BY <1>3, <2>1, <2>3, <3>1 DEF Recorded
  <2>4. CASE id # returned
    <3>1. Notified(id, returned) = notes[id]
      BY <2>4 DEF Notified
    <3>2. id \in DOMAIN faults /\ faults[id].state = "CONFIRMED"
          /\ faults'[id].confirmed = faults[id].confirmed
      BY <2>4 DEF Recorded
    <3>3. /\ notes[id].last # None
          /\ faults[id].confirmed <= notes[id].last
          /\ notes[id].state = "PENDING" => notes[id].attempts > 0
      BY <2>2, <3>1, <3>2 DEF NodeIInv, ConfirmedNotified
    <3> QED BY <1>3, <2>1, <3>1, <3>2, <3>3
  <2> QED BY <2>3, <2>4
<1> QED BY <1>2, <1>4, <1>5 DEF NodeIInv

\* Every other step leaves the notes alone, or touches one note and leaves
\* the records alone.
LEMMA QuietIInv ==
    ASSUME NodeIInv, Recorded(None), IInv', now' \in Nat, now <= now',
           notes' = notes, notePolicy' \in NotePolicies
    PROVE  NodeIInv'
<1>1. NodeTypeOK' /\ now \in Nat /\ None \notin Nat
  BY NoneAssumption DEF NodeIInv, NodeTypeOK, IInv, TypeOK
<1>2. \A id \in DOMAIN faults' : id # None
  BY <1>1, BoundAssumption DEF Recorded, FaultIds
<1>3. RecordsStamped'
  BY <1>1, <1>2 DEF NodeIInv, RecordsStamped, Recorded, FaultIds
<1>4. ConfirmedNotified'
  BY <1>2 DEF NodeIInv, ConfirmedNotified, Recorded
<1> QED BY <1>1, <1>3, <1>4 DEF NodeIInv

LEMMA DeliveryIInv ==
    ASSUME NodeIInv, NEW id \in DOMAIN faults, NEW n \in N!Note,
           notes' = [notes EXCEPT ![id] = n],
           UNCHANGED <<engineVars, notePolicy>>,
           n.last = notes[id].last \/ n.last = now,
           n.state = "NOT_REQUIRED" => notes[id].state = "NOT_REQUIRED",
           notes[id].state = "NOT_REQUIRED" => n.state = "NOT_REQUIRED",
           n.state = "PENDING" => n.attempts > 0
    PROVE  NodeIInv'
<1>1. now \in Nat /\ None \notin Nat /\ NodeTypeOK
      /\ UNCHANGED <<faults, activeByKey, policy, now>>
  BY NoneAssumption DEF NodeIInv, IInv, TypeOK, engineVars
<1>2. IInv'
  BY NextIInv DEF NodeIInv
<1>3. id \in FaultIds
  BY DEF NodeIInv, RecordsStamped
<1>4. \A j \in FaultIds : notes'[j] = IF j = id THEN n ELSE notes[j]
  BY <1>1 DEF NodeTypeOK
<1>5. NodeTypeOK'
  BY <1>1, <1>2 DEF NodeTypeOK, IInv
<1>6. RecordsStamped'
  BY <1>1 DEF NodeIInv, RecordsStamped
<1>7. ConfirmedNotified'
  <2> SUFFICES ASSUME NEW j \in DOMAIN faults, faults[j].state = "CONFIRMED",
                      notes'[j].state # "NOT_REQUIRED"
               PROVE  /\ notes'[j].last # None
                      /\ faults[j].confirmed <= notes'[j].last
                      /\ notes'[j].state = "PENDING" => notes'[j].attempts > 0
    BY <1>1 DEF ConfirmedNotified
  <2>1. /\ j \in FaultIds
        /\ faults[j].confirmed \in Nat /\ faults[j].confirmed <= now
    BY DEF NodeIInv, RecordsStamped
  <2>2. notes[j].state # "NOT_REQUIRED"
    BY <1>4, <2>1
  <2>3. /\ notes[j].last # None
        /\ faults[j].confirmed <= notes[j].last
        /\ notes[j].state = "PENDING" => notes[j].attempts > 0
    BY <2>2 DEF NodeIInv, ConfirmedNotified
  <2> QED BY <1>1, <1>4, <2>1, <2>3
<1> QED BY <1>2, <1>5, <1>6, <1>7 DEF NodeIInv

LEMMA NodeNextIInv == NodeIInv /\ [NodeNext]_vars => NodeIInv'
<1> SUFFICES ASSUME NodeIInv, [NodeNext]_vars PROVE NodeIInv'
  OBVIOUS
<1>1. IInv /\ NodeTypeOK /\ now \in Nat /\ policy \in Policies /\ notePolicy \in NotePolicies
  BY DEF NodeIInv, NodeTypeOK, IInv, TypeOK
<1>2. None \notin DOMAIN faults /\ DOMAIN faults \subseteq FaultIds
  BY NoneAssumption, BoundAssumption DEF NodeIInv, RecordsStamped, FaultIds
<1>3. CASE StepNormal
  <2>1. ObserveNormal /\ ServiceNotifications(None) /\ UNCHANGED <<policy, now>>
    BY <1>3 DEF StepNormal, ObserveNormal, Clear
  <2>2. IInv'
    BY <1>1, <2>1, ObserveNormalIInv
  <2> QED BY <2>1, <2>2, ObserveNormalRecords, ServiceIInv
<1>4. ASSUME NEW k \in Keys, StepAbnormal(k) PROVE NodeIInv'
  <2>1. (Raise(k) \/ Repeat(k)) /\ ServiceNotifications(activeByKey'[k])
    BY <1>4 DEF StepAbnormal
  <2>2. UNCHANGED <<policy, now>>
    BY <2>1 DEF Raise, Repeat
  <2>3. Recorded(activeByKey'[k])
    BY <2>1, RaiseRecords, RepeatRecords
  <2>4. IInv'
    BY <1>1, <2>1, RaiseIInv, RepeatIInv
  <2> QED BY <2>1, <2>2, <2>3, <2>4, ServiceIInv
<1>5. CASE OperatorAction
  <2>1. Operate /\ notes' = notes /\ notePolicy' = notePolicy
    BY <1>5 DEF OperatorAction, noteVars
  <2>2. IInv' /\ Recorded(None) /\ now' = now
    BY <1>1, <2>1, OperateIInv, OperateRecords
  <2> QED BY <1>1, <2>1, <2>2, QuietIInv
<1>6. ASSUME NEW id \in DOMAIN faults, ReportUndelivered(id) PROVE NodeIInv'
  <2> DEFINE n == N!NotDelivered(notePolicy, notes[id])
  <2>1. notes[id] \in N!Note
    BY <1>1, <1>2 DEF NodeTypeOK
  <2>2. /\ n \in N!Note /\ n.last = notes[id].last /\ n.attempts > 0
        /\ n.state = "NOT_REQUIRED" <=> notes[id].state = "NOT_REQUIRED"
    BY <2>1, FailedNote
  <2>3. /\ notes' = [notes EXCEPT ![id] = n] /\ UNCHANGED <<engineVars, notePolicy>>
    BY <1>6 DEF ReportUndelivered
  <2> HIDE DEF n
  <2> QED BY <2>2, <2>3, DeliveryIInv
<1>7. ASSUME NEW id \in DOMAIN faults, ReportDelivered(id) PROVE NodeIInv'
  <2> DEFINE n == N!Delivered(notes[id], now)
  <2>1. notes[id] \in N!Note
    BY <1>1, <1>2 DEF NodeTypeOK
  <2>2. /\ n \in N!Note /\ n.state # "PENDING"
        /\ n.last = notes[id].last \/ n.last = now
        /\ n.state = "NOT_REQUIRED" <=> notes[id].state = "NOT_REQUIRED"
    BY <1>1, <2>1 DEF N!Delivered, N!Note, N!NotificationState
  <2>3. /\ notes' = [notes EXCEPT ![id] = n] /\ UNCHANGED <<engineVars, notePolicy>>
    BY <1>7 DEF ReportDelivered
  <2> HIDE DEF n
  <2> QED BY <2>2, <2>3, DeliveryIInv
<1>8. ASSUME NEW p \in Policies, NEW q \in NotePolicies, ConfigWrite(p, q) PROVE NodeIInv'
  <2>1. /\ SetPolicy(p) /\ UNCHANGED <<faults, activeByKey, now>>
        /\ notes' = notes /\ notePolicy' \in NotePolicies
    BY <1>8 DEF ConfigWrite, SetPolicy
  <2>2. IInv'
    BY <1>1, <2>1, NextIInv DEF Next
  <2> QED BY <1>1, <1>2, <2>1, <2>2, QuietIInv DEF Recorded
<1>9. CASE Clock
  <2>1. /\ Advance /\ now' = now + 1 /\ UNCHANGED faults
        /\ notes' = notes /\ notePolicy' = notePolicy
    BY <1>9 DEF Clock, Advance, noteVars
  <2>2. IInv'
    BY <1>1, <2>1, NextIInv DEF Next
  <2> QED BY <1>1, <1>2, <2>1, <2>2, QuietIInv DEF Recorded
<1>10. CASE UNCHANGED vars
  <2>1. UNCHANGED engineVars /\ UNCHANGED faults /\ now' = now
        /\ notes' = notes /\ notePolicy' = notePolicy
    BY <1>10 DEF vars, engineVars
  <2>2. IInv'
    BY <1>1, <2>1, NextIInv
  <2> QED BY <1>1, <1>2, <2>1, <2>2, QuietIInv DEF Recorded
<1> QED BY <1>3, <1>4, <1>5, <1>6, <1>7, <1>8, <1>9, <1>10 DEF NodeNext, Step

LEMMA NodeSpecIInv == NodeSpec => []NodeIInv
  BY InitNodeIInv, NodeNextIInv, PTL DEF NodeSpec

-----------------------------------------------------------------------------
(* The theorems.                                                           *)

\* Records, notes and policies keep their types.
THEOREM NodeTypeCorrect == NodeSpec => []NodeTypeOK
<1>1. NodeIInv => NodeTypeOK
  BY DEF NodeIInv
<1> QED BY <1>1, NodeSpecIInv, PTL

\* No CONFIRMED fault is without its notification.
THEOREM ConfirmedAreNotified == NodeSpec => []ConfirmedNotified
<1>1. NodeIInv => ConfirmedNotified
  BY DEF NodeIInv
<1> QED BY <1>1, NodeSpecIInv, PTL

\* What a control cycle writes to one note.
LEMMA StepNotes ==
    ASSUME NodeIInv, Step
    PROVE  /\ DOMAIN faults' \subseteq FaultIds
           /\ \E returned : \A id \in FaultIds :
                 /\ notes'[id] = Serviced(id, returned)
                 /\ Notified(id, returned) \in N!Note
                 /\ Notified(id, returned).state \in
                       {"NOT_REQUIRED", "ACK_PENDING", notes[id].state}
                 /\ id \notin DOMAIN faults' \/ faults'[id].state # "CONFIRMED"
                       => notes'[id] = notes[id]
<1>1. PICK returned : ServiceNotifications(returned) /\ Recorded(returned)
  BY ObserveNormalRecords, RaiseRecords, RepeatRecords DEF Step, StepNormal, StepAbnormal
<1>2. now \in Nat /\ NodeTypeOK /\ None \notin FaultIds
  BY NoneAssumption, BoundAssumption DEF NodeIInv, IInv, TypeOK, FaultIds
<1>3. ASSUME NEW id \in FaultIds
      PROVE  /\ notes'[id] = Serviced(id, returned)
             /\ Notified(id, returned) \in N!Note
             /\ Notified(id, returned).state \in
                   {"NOT_REQUIRED", "ACK_PENDING", notes[id].state}
             /\ id \notin DOMAIN faults' \/ faults'[id].state # "CONFIRMED"
                   => notes'[id] = notes[id]
  <2>1. notes[id] \in N!Note
    BY <1>2 DEF NodeTypeOK
  <2>2. notes'[id] = Serviced(id, returned)
    BY <1>1 DEF ServiceNotifications
  <2>3. /\ Notified(id, returned) \in N!Note
        /\ Notified(id, returned).state \in {"NOT_REQUIRED", "ACK_PENDING", notes[id].state}
    BY <1>2, <2>1, SentNote DEF Notified
  <2>4. ASSUME id \notin DOMAIN faults' \/ faults'[id].state # "CONFIRMED"
        PROVE  notes'[id] = notes[id]
    <3>1. ~(id = returned /\ faults'[id].state = "CONFIRMED")
      BY <1>1, <1>2, <2>4 DEF Recorded
    <3> QED BY <2>2, <2>4, <3>1 DEF Serviced, Notified
  <2> QED BY <2>2, <2>3, <2>4
<1> QED BY <1>1, <1>3 DEF Recorded

\* The node never notifies of a suspicion, whatever order cycles, operators,
\* configuration writes and delivery reports, timely or not, come in: a cycle
\* leaves the note of a record that is not confirmed as it found it.
THEOREM SuspicionsStaySilent == NodeSpec => SuspicionsSilent
<1> DEFINE Silent ==
      Step => \A id \in DOMAIN faults' :
                faults'[id].confirmed = None => notes'[id] = notes[id]
<1>1. NodeIInv /\ NodeIInv' => Silent
  <2> SUFFICES ASSUME NodeIInv, NodeIInv', Step, NEW id \in DOMAIN faults',
                      faults'[id].confirmed = None
               PROVE  notes'[id] = notes[id]
    OBVIOUS
  <2>1. faults'[id].state # "CONFIRMED"
    BY NoneAssumption DEF NodeIInv, RecordsStamped
  <2> QED BY <2>1, StepNotes
<1>2. NodeIInv /\ NodeIInv' => [Silent]_vars
  BY <1>1
<1> QED BY <1>2, NodeSpecIInv, PTL DEF NodeSpec, SuspicionsSilent

\* Reminding stops with the acknowledgement: no step makes the note of a
\* fault that is not CONFIRMED due for a reminder or escalated.
THEOREM AcknowledgedRest == NodeSpec => OnlyUnacknowledgedRemind
<1> DEFINE Reminds(id) ==
      (/\ notes'[id].state \in {"REMINDER_DUE", "ESCALATED"}
       /\ notes'[id].state # notes[id].state)
         => id \in DOMAIN faults' /\ faults'[id].state = "CONFIRMED"
<1>1. ASSUME NodeIInv, [NodeNext]_vars, NEW id \in FaultIds
      PROVE  Reminds(id)
  <2>1. CASE Step
    BY <1>1, <2>1, StepNotes
  <2>2. ASSUME NEW j \in DOMAIN faults, ReportUndelivered(j) \/ ReportDelivered(j)
        PROVE  Reminds(id)
    <3>1. j \in FaultIds /\ notes \in [FaultIds -> N!Note]
      BY <1>1 DEF NodeIInv, RecordsStamped, NodeTypeOK
    <3>2. N!NotDelivered(notePolicy, notes[j]).state \in
             {"NOT_REQUIRED", "PENDING", "DELIVERY_FAILED"}
      BY <3>1, FailedNote
    <3>3. N!Delivered(notes[j], now).state \in {"ACK_PENDING", notes[j].state}
      BY <3>1 DEF N!Delivered, N!Note
    <3>4. \/ notes'[id] = notes[id]
          \/ notes'[id] = N!NotDelivered(notePolicy, notes[id]) /\ id = j
          \/ notes'[id] = N!Delivered(notes[id], now) /\ id = j
      BY <2>2, <3>1 DEF ReportUndelivered, ReportDelivered
    <3> QED BY <3>2, <3>3, <3>4
  <2>3. CASE notes' = notes
    BY <2>3
  <2>4. OperatorAction \/ Clock \/ UNCHANGED vars
           \/ (\E p \in Policies, q \in NotePolicies : ConfigWrite(p, q))
        => notes' = notes
    BY DEF OperatorAction, Clock, vars, noteVars, ConfigWrite
  <2> QED BY <1>1, <2>1, <2>2, <2>3, <2>4 DEF NodeNext
<1>2. NodeIInv /\ [NodeNext]_vars => [\A id \in FaultIds : Reminds(id)]_vars
  BY <1>1
<1> QED BY <1>2, NodeSpecIInv, PTL DEF NodeSpec, OnlyUnacknowledgedRemind

\* However many ticks a node skipped, one control cycle serves every timer of
\* every CONFIRMED fault.
THEOREM TimersServed == NodeSpec => StepServesTimers
<1> DEFINE Served ==
      Step => \A id \in DOMAIN faults' : faults'[id].state = "CONFIRMED" =>
                /\ ~N!EscalationDue(notePolicy, notes'[id], now)
                /\ ~N!ReminderDue(notePolicy, notes'[id], now)
<1>1. NodeIInv => Served
  <2> SUFFICES ASSUME NodeIInv, Step, NEW id \in DOMAIN faults',
                      faults'[id].state = "CONFIRMED"
               PROVE  /\ ~N!EscalationDue(notePolicy, notes'[id], now)
                      /\ ~N!ReminderDue(notePolicy, notes'[id], now)
    OBVIOUS
  <2>1. PICK returned : /\ notes'[id] = Serviced(id, returned)
                        /\ Notified(id, returned) \in N!Note
    BY StepNotes
  <2>2. notes'[id] = N!Ticked(notePolicy, Notified(id, returned), now)
    BY <2>1 DEF Serviced
  <2> QED BY <2>1, <2>2, TickedServes
<1>2. NodeIInv => [Served]_vars
  BY <1>1
<1> QED BY <1>2, NodeSpecIInv, PTL DEF NodeSpec, StepServesTimers

\* A control cycle, an operator's action, a configuration write and the clock
\* are each a step of the engine; a delivery report is none.
LEMMA EngineSteps == [NodeNext]_vars => [Next]_engineVars
<1>1. UNCHANGED vars => UNCHANGED engineVars
  BY DEF vars, engineVars
<1>2. Step => Next
  BY DEF Step, StepNormal, StepAbnormal, Next, Observe
<1>3. OperatorAction \/ Clock => Next
  BY DEF OperatorAction, Clock, Next
<1>4. ASSUME NEW p \in Policies, NEW q \in NotePolicies, ConfigWrite(p, q) PROVE Next
  BY <1>4 DEF ConfigWrite, Next
<1>5. ASSUME NEW id \in DOMAIN faults, ReportUndelivered(id) \/ ReportDelivered(id)
      PROVE  UNCHANGED engineVars
  BY <1>5 DEF ReportUndelivered, ReportDelivered
<1> QED BY <1>1, <1>2, <1>3, <1>4, <1>5 DEF NodeNext

\* Every run of a node is a run of its fault engine.
THEOREM NodeRunsEngine == NodeSpec => Spec
<1>1. NodeInit => Init
  BY DEF NodeInit
<1> QED BY <1>1, EngineSteps, PTL DEF NodeSpec, Spec

\* The whole fault path of a node, notifications and policy changes included,
\* implements the ledger: the documented lifecycle is what a node does.
THEOREM NodeImplementsLedger == NodeSpec => LedgerSpec
  BY NodeRunsEngine, EngineImplementsLedger, PTL

\* No record of a node is revived or rewritten once it is cleared or closed.
THEOREM NodeRecordsStayFinal == NodeSpec => RecordsFinal
  BY NodeRunsEngine, RecordsStayFinal, PTL
=============================================================================
