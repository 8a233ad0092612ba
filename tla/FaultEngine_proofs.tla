------------------------- MODULE FaultEngine_proofs -------------------------
(***************************************************************************)
(* Theorems about the fault engine, for any set of diagnoses, any policies *)
(* and any bounds: its invariants, and that it implements FaultLedger.     *)
(***************************************************************************)
EXTENDS FaultEngine, SequenceTheorems, TLAPS

-----------------------------------------------------------------------------
(* The records the operations write, and the sequences they write them to. *)

\* A record g may take the place of the open record f: it is of the same key
\* and tells a consistent story of its repair.
Succeeds(f, g) ==
    /\ g \in Fault
    /\ g.key = f.key
    /\ RepairStory(g)

LEMMA MovedType ==
    ASSUME now \in Nat, NEW f \in Fault, NEW target \in FaultState
    PROVE  /\ Moved(f, target) \in Fault
           /\ Moved(f, target).state = target
           /\ Moved(f, target).key = f.key
           /\ Moved(f, target).repair = f.repair
           /\ Moved(f, target).verification = f.verification
  BY DEF Moved, Fault

LEMMA NewFaultType ==
    ASSUME now \in Nat, NEW k \in Keys
    PROVE  /\ NewFault(k) \in Fault
           /\ NewFault(k).key = k
           /\ NewFault(k).state = "SUSPECTED"
           /\ RepairStory(NewFault(k))
  BY DEF NewFault, Fault, FaultState, RepairStatus, VerificationStatus, RepairStory

\* Counting and judging an observation leaves a latched record's state, and
\* leaves a suspected record suspected or confirmed.
LEMMA ObservedRecord ==
    ASSUME TypeOK, NEW f \in Fault, RepairStory(f)
    PROVE  /\ Succeeds(f, Counted(f))
           /\ Counted(f).state = f.state
           /\ Succeeds(f, Judged(f))
           /\ \/ Judged(f).state = f.state
              \/ f.state = "SUSPECTED" /\ Judged(f).state = "CONFIRMED"
<1> now \in Nat /\ policy.window \in Nat /\ policy.count \in Nat
  BY PolicyAssumption DEF TypeOK
<1>1. /\ Counted(f) \in Fault
      /\ Counted(f).key = f.key
      /\ Counted(f).state = f.state
      /\ Counted(f).repair = f.repair
      /\ Counted(f).verification = f.verification
  <2>1. f.count + 1 \in Nat /\ 1 \in Nat
    BY DEF Fault
  <2>2. CASE now - f.first > policy.window
    <3>1. Counted(f) = [f EXCEPT !.count = 1, !.first = now]
      BY <2>2 DEF Counted
    <3> QED BY <2>1, <3>1 DEF Fault
  <2>3. CASE ~(now - f.first > policy.window)
    <3>1. Counted(f) = [f EXCEPT !.count = @ + 1]
      BY <2>3 DEF Counted
    <3> QED BY <2>1, <3>1 DEF Fault
  <2> QED BY <2>2, <2>3
<1>2. Succeeds(f, Counted(f))
  BY <1>1 DEF Succeeds, RepairStory
<1>3. CASE f.state = "SUSPECTED" /\ f.count >= policy.count
  <2>1. Judged(f) = Moved(f, "CONFIRMED")
    BY <1>3 DEF Judged
  <2>2. "CONFIRMED" \in FaultState
    BY DEF FaultState
  <2>3. Succeeds(f, Moved(f, "CONFIRMED")) /\ Moved(f, "CONFIRMED").state = "CONFIRMED"
    BY <1>3, <2>2, MovedType DEF Succeeds, RepairStory
  <2> QED BY <1>1, <1>2, <1>3, <2>1, <2>3
<1>4. CASE ~(f.state = "SUSPECTED" /\ f.count >= policy.count)
  <2>1. Judged(f) = f
    BY <1>4 DEF Judged
  <2> QED BY <1>1, <1>2, <2>1 DEF Succeeds
<1> QED BY <1>3, <1>4

LEMMA ClearedRecord ==
    ASSUME now \in Nat, NEW f \in Fault, RepairStory(f), f.state = "SUSPECTED"
    PROVE  Succeeds(f, Moved(f, "NORMAL")) /\ Moved(f, "NORMAL").state = "NORMAL"
<1> "NORMAL" \in FaultState  BY DEF FaultState
<1> QED BY MovedType DEF Succeeds, RepairStory

-----------------------------------------------------------------------------
(* Writing one record.                                                     *)

LEMMA RewriteFacts ==
    ASSUME TypeOK, NEW id \in DOMAIN faults, NEW g \in Fault,
           faults' = [faults EXCEPT ![id] = g]
    PROVE  /\ faults' \in Seq(Fault)
           /\ DOMAIN faults' = DOMAIN faults
           /\ \A j \in DOMAIN faults : faults'[j] = IF j = id THEN g ELSE faults[j]
<1> faults \in Seq(Fault)  BY DEF TypeOK
<1>1. id \in 1 .. Len(faults) /\ DOMAIN faults = 1 .. Len(faults)
  BY LenProperties
<1>2. /\ faults' \in Seq(Fault)
      /\ Len(faults') = Len(faults)
      /\ \A j \in 1 .. Len(faults) : faults'[j] = IF j = id THEN g ELSE faults[j]
  BY <1>1, ExceptSeq
<1>3. DOMAIN faults' = 1 .. Len(faults')
  BY <1>2, LenProperties
<1> QED BY <1>1, <1>2, <1>3

\* One record of the operator's operations, and its successor.
LEMMA OperatedRecord ==
    ASSUME now \in Nat, NEW f \in Fault, RepairStory(f)
    PROVE  /\ f.state = "CONFIRMED" =>
                 /\ Succeeds(f, Moved(f, "ACKNOWLEDGED"))
                 /\ Moved(f, "ACKNOWLEDGED").state = "ACKNOWLEDGED"
           /\ f.state = "ACKNOWLEDGED" =>
                 LET g == [Moved(f, "UNDER_REPAIR") EXCEPT !.repair = "IN_PROGRESS"]
                 IN  Succeeds(f, g) /\ g.state = "UNDER_REPAIR"
           /\ f.state = "UNDER_REPAIR" =>
                 LET g == [Moved(f, "VERIFYING") EXCEPT !.repair = "REPAIRED",
                                                        !.verification = "VERIFYING"]
                 IN  Succeeds(f, g) /\ g.state = "VERIFYING"
           /\ f.state = "VERIFYING" =>
                 LET g == [Moved(f, "CLOSED") EXCEPT !.verification = "VERIFIED"]
                 IN  Succeeds(f, g) /\ g.state = "CLOSED"
           /\ f.state = "VERIFYING" =>
                 LET g == [Moved(f, "UNDER_REPAIR") EXCEPT
                             !.repair = "NOT_REPAIRED",
                             !.verification = "VERIFICATION_FAILED"]
                 IN  Succeeds(f, g) /\ g.state = "UNDER_REPAIR"
<1>1. f.state = "CONFIRMED" =>
         /\ Succeeds(f, Moved(f, "ACKNOWLEDGED"))
         /\ Moved(f, "ACKNOWLEDGED").state = "ACKNOWLEDGED"
  BY MovedType DEF Succeeds, RepairStory, FaultState
<1>2. ASSUME f.state = "ACKNOWLEDGED"
      PROVE  LET g == [Moved(f, "UNDER_REPAIR") EXCEPT !.repair = "IN_PROGRESS"]
             IN  Succeeds(f, g) /\ g.state = "UNDER_REPAIR"
  <2> DEFINE h == Moved(f, "UNDER_REPAIR")
             g == [h EXCEPT !.repair = "IN_PROGRESS"]
  <2>1. h \in Fault /\ h.state = "UNDER_REPAIR" /\ h.key = f.key
        /\ h.verification = f.verification
    BY MovedType DEF FaultState
  <2> HIDE DEF h
  <2>2. g \in Fault
    BY <2>1 DEF Fault, RepairStatus
  <2>3. /\ g.state = "UNDER_REPAIR" /\ g.key = f.key
        /\ g.repair = "IN_PROGRESS" /\ g.verification = f.verification
    BY <2>1 DEF Fault
  <2>4. Succeeds(f, g) /\ g.state = "UNDER_REPAIR"
    BY <1>2, <2>2, <2>3 DEF Succeeds, RepairStory
  <2> QED BY <2>4 DEF h
<1>3. ASSUME f.state = "UNDER_REPAIR"
      PROVE  LET g == [Moved(f, "VERIFYING") EXCEPT !.repair = "REPAIRED",
                                                    !.verification = "VERIFYING"]
             IN  Succeeds(f, g) /\ g.state = "VERIFYING"
  <2> DEFINE h == Moved(f, "VERIFYING")
             g == [h EXCEPT !.repair = "REPAIRED", !.verification = "VERIFYING"]
  <2>1. h \in Fault /\ h.state = "VERIFYING" /\ h.key = f.key
    BY MovedType DEF FaultState
  <2> HIDE DEF h
  <2>2. g \in Fault
    BY <2>1 DEF Fault, RepairStatus, VerificationStatus
  <2>3. /\ g.state = "VERIFYING" /\ g.key = f.key
        /\ g.repair = "REPAIRED" /\ g.verification = "VERIFYING"
    BY <2>1 DEF Fault
  <2>4. Succeeds(f, g) /\ g.state = "VERIFYING"
    BY <2>2, <2>3 DEF Succeeds, RepairStory
  <2> QED BY <2>4 DEF h
<1>4. ASSUME f.state = "VERIFYING"
      PROVE  LET g == [Moved(f, "CLOSED") EXCEPT !.verification = "VERIFIED"]
             IN  Succeeds(f, g) /\ g.state = "CLOSED"
  <2> DEFINE h == Moved(f, "CLOSED")
             g == [h EXCEPT !.verification = "VERIFIED"]
  <2>1. h \in Fault /\ h.state = "CLOSED" /\ h.key = f.key /\ h.repair = f.repair
    BY MovedType DEF FaultState
  <2> HIDE DEF h
  <2>2. g \in Fault
    BY <2>1 DEF Fault, VerificationStatus
  <2>3. /\ g.state = "CLOSED" /\ g.key = f.key
        /\ g.repair = f.repair /\ g.verification = "VERIFIED"
    BY <2>1 DEF Fault
  <2>4. Succeeds(f, g) /\ g.state = "CLOSED"
    BY <1>4, <2>2, <2>3 DEF Succeeds, RepairStory
  <2> QED BY <2>4 DEF h
<1>5. ASSUME f.state = "VERIFYING"
      PROVE  LET g == [Moved(f, "UNDER_REPAIR") EXCEPT
                         !.repair = "NOT_REPAIRED",
                         !.verification = "VERIFICATION_FAILED"]
             IN  Succeeds(f, g) /\ g.state = "UNDER_REPAIR"
  <2> DEFINE h == Moved(f, "UNDER_REPAIR")
             g == [h EXCEPT !.repair = "NOT_REPAIRED",
                            !.verification = "VERIFICATION_FAILED"]
  <2>1. h \in Fault /\ h.state = "UNDER_REPAIR" /\ h.key = f.key
    BY MovedType DEF FaultState
  <2> HIDE DEF h
  <2>2. g \in Fault
    BY <2>1 DEF Fault, RepairStatus, VerificationStatus
  <2>3. /\ g.state = "UNDER_REPAIR" /\ g.key = f.key
        /\ g.repair = "NOT_REPAIRED" /\ g.verification = "VERIFICATION_FAILED"
    BY <2>1 DEF Fault
  <2>4. Succeeds(f, g) /\ g.state = "UNDER_REPAIR"
    BY <2>2, <2>3 DEF Succeeds, RepairStory
  <2> QED BY <2>4 DEF h
<1> QED BY <1>1, <1>2, <1>3, <1>4, <1>5
-----------------------------------------------------------------------------
(* The inductive invariant: each of its three parts needs the other two.   *)

IInv == TypeOK /\ ActiveIndexExact /\ RepairStoryTold

LEMMA InitIInv == Init => IInv
<1> SUFFICES ASSUME Init PROVE IInv
  OBVIOUS
<1>1. faults \in Seq(Fault) /\ DOMAIN faults = {}
  BY EmptySeq DEF Init
<1>2. TypeOK
  BY <1>1 DEF Init, TypeOK
<1>3. ActiveIndexExact
  BY <1>1 DEF Init, ActiveIndexExact
<1>4. RepairStoryTold
  BY <1>1 DEF RepairStoryTold
<1> QED BY <1>2, <1>3, <1>4 DEF IInv

\* An open record is rewritten and stays open: the index stands.
LEMMA RewriteOpen ==
    ASSUME IInv, NEW id \in DOMAIN faults, NEW g,
           Succeeds(faults[id], g), IsActive(faults[id]), IsActive(g),
           faults' = [faults EXCEPT ![id] = g],
           UNCHANGED <<activeByKey, policy, now>>
    PROVE  IInv'
<1> USE DEF IInv
<1>1. /\ faults' \in Seq(Fault)
      /\ DOMAIN faults' = DOMAIN faults
      /\ \A j \in DOMAIN faults : faults'[j] = IF j = id THEN g ELSE faults[j]
  BY RewriteFacts DEF Succeeds
<1>2. TypeOK'
  BY <1>1 DEF TypeOK
<1>3. ActiveIndexExact'
  BY <1>1 DEF ActiveIndexExact, Succeeds, IsActive
<1>4. RepairStoryTold'
  BY <1>1 DEF RepairStoryTold, RepairStory, Succeeds
<1> QED BY <1>2, <1>3, <1>4

LEMMA RaiseIInv ==
    ASSUME IInv, NEW k \in Keys, Raise(k)
    PROVE  IInv'
<1> USE DEF IInv
<1> DEFINE f == Judged(NewFault(k))
           n == Len(faults) + 1
<1>1. f \in Fault /\ f.key = k /\ RepairStory(f) /\ IsActive(f)
  BY NewFaultType, ObservedRecord DEF TypeOK, Succeeds, IsActive
<1>2. faults \in Seq(Fault) /\ Len(faults) \in Nat /\ DOMAIN faults = 1 .. Len(faults)
  BY LenProperties DEF TypeOK
<1> HIDE DEF f
<1>3. faults' = Append(faults, f) /\ activeByKey' = [activeByKey EXCEPT ![k] = n]
      /\ activeByKey[k] = None /\ UNCHANGED <<policy, now>>
  BY DEF Raise, f
<1>4. /\ faults' \in Seq(Fault)
      /\ DOMAIN faults' = 1 .. n
      /\ \A i \in 1 .. Len(faults) : faults'[i] = faults[i]
      /\ faults'[n] = f
  BY <1>1, <1>2, <1>3, AppendProperties, LenProperties
<1>5. n \in Nat /\ n # None /\ n \notin DOMAIN faults
  BY <1>2, NoneAssumption
<1>6. \A i \in 1 .. n : i = n \/ i \in DOMAIN faults
  BY <1>2
<1>7. TypeOK'
  BY <1>3, <1>4, <1>5 DEF TypeOK
<1>8. ActiveIndexExact'
  <2>1. ASSUME NEW j \in Keys, activeByKey'[j] # None
        PROVE  /\ activeByKey'[j] \in DOMAIN faults'
               /\ faults'[activeByKey'[j]].key = j
               /\ IsActive(faults'[activeByKey'[j]])
    <3>1. CASE j = k
      BY <1>1, <1>2, <1>3, <1>4, <3>1 DEF TypeOK
    <3>2. CASE j # k
      BY <1>2, <1>3, <1>4, <2>1, <3>2 DEF TypeOK, ActiveIndexExact
    <3> QED BY <3>1, <3>2
  <2>2. ASSUME NEW i \in DOMAIN faults', IsActive(faults'[i])
        PROVE  activeByKey'[faults'[i].key] = i
    <3>1. CASE i = n
      BY <1>1, <1>3, <1>4, <3>1 DEF TypeOK
    <3>2. CASE i \in DOMAIN faults
      <4>1. faults'[i] = faults[i] /\ faults[i] \in Fault /\ i \in Nat
        BY <1>2, <1>4, <3>2, ElementOfSeq
      <4>2. activeByKey[faults[i].key] = i /\ faults[i].key \in Keys
        BY <2>2, <3>2, <4>1 DEF ActiveIndexExact, Fault
      <4>3. faults[i].key # k
        BY <1>3, <4>1, <4>2, NoneAssumption
      <4> QED BY <1>3, <4>1, <4>2, <4>3 DEF TypeOK
    <3> QED BY <1>4, <1>6, <3>1, <3>2
  <2> QED BY <2>1, <2>2 DEF ActiveIndexExact, IsActive
<1>9. RepairStoryTold'
  BY <1>1, <1>2, <1>4, <1>6 DEF RepairStoryTold, RepairStory
<1> QED BY <1>7, <1>8, <1>9

LEMMA RepeatIInv ==
    ASSUME IInv, NEW k \in Keys, Repeat(k)
    PROVE  IInv'
<1> USE DEF IInv
<1> DEFINE id == activeByKey[k]
           f  == faults[id]
           g  == Judged(Counted(f))
<1>1. id \in DOMAIN faults /\ IsActive(f) /\ RepairStory(f) /\ f \in Fault
  BY LenProperties, ElementOfSeq
  DEF Repeat, ActiveIndexExact, RepairStoryTold, TypeOK
<1>2. Succeeds(f, Counted(f)) /\ Counted(f).state = f.state
  BY <1>1, ObservedRecord
<1>3. /\ Succeeds(Counted(f), g)
      /\ g.state = f.state \/ g.state = "CONFIRMED"
  BY <1>2, ObservedRecord DEF Succeeds
<1>4. Succeeds(f, g) /\ IsActive(g)
  BY <1>1, <1>2, <1>3 DEF Succeeds, IsActive
<1>5. faults' = [faults EXCEPT ![id] = g] /\ UNCHANGED <<activeByKey, policy, now>>
  BY DEF Repeat
<1> HIDE DEF g, f, id
<1> QED BY <1>1, <1>4, <1>5, RewriteOpen DEF f

LEMMA ObserveNormalIInv ==
    ASSUME IInv, ObserveNormal
    PROVE  IInv'
<1> USE DEF IInv
<1> DEFINE Cleared == {id \in DOMAIN faults : faults[id].state = "SUSPECTED"}
<1>1. faults \in Seq(Fault) /\ Len(faults) \in Nat /\ DOMAIN faults = 1 .. Len(faults)
      /\ \A id \in DOMAIN faults : faults[id] \in Fault /\ id \in Nat
  BY LenProperties, ElementOfSeq DEF TypeOK
<1>2. \A id \in Cleared : /\ Succeeds(faults[id], Moved(faults[id], "NORMAL"))
                          /\ Moved(faults[id], "NORMAL").state = "NORMAL"
  BY <1>1, ClearedRecord DEF TypeOK, RepairStoryTold
<1>3. DOMAIN faults' = DOMAIN faults
  BY DEF ObserveNormal, Clear
<1>4. \A id \in DOMAIN faults :
         /\ id \in Cleared => /\ Succeeds(faults[id], faults'[id])
                              /\ faults'[id].state = "NORMAL"
         /\ id \notin Cleared => faults'[id] = faults[id]
  BY <1>2 DEF ObserveNormal, Clear
<1>5. \A k \in Keys : activeByKey'[k] =
         IF \E id \in Cleared : faults[id].key = k THEN None ELSE activeByKey[k]
  BY DEF ObserveNormal, Clear
<1>6. TypeOK'
  <2>1. faults' \in Seq(Fault)
    <3>1. \A id \in 1 .. Len(faults) : faults'[id] \in Fault
      BY <1>1, <1>4 DEF Succeeds
    <3>2. faults' \in [1 .. Len(faults) -> Fault]
      BY <1>1, <3>1 DEF ObserveNormal, Clear
    <3> QED BY <1>1, <3>2, SeqDef
  <2> QED BY <2>1 DEF TypeOK, ObserveNormal, Clear
<1>7. ActiveIndexExact'
  <2>1. ASSUME NEW k \in Keys, activeByKey'[k] # None
        PROVE  /\ activeByKey'[k] \in DOMAIN faults'
               /\ faults'[activeByKey'[k]].key = k
               /\ IsActive(faults'[activeByKey'[k]])
    BY <1>3, <1>4, <1>5, <2>1 DEF ActiveIndexExact
  <2>2. ASSUME NEW id \in DOMAIN faults', IsActive(faults'[id])
        PROVE  activeByKey'[faults'[id].key] = id
    <3>1. id \notin Cleared /\ faults'[id] = faults[id]
      BY <1>3, <1>4, <2>2 DEF IsActive
    <3>2. activeByKey[faults[id].key] = id /\ faults[id].key \in Keys
      BY <1>1, <1>3, <2>2, <3>1 DEF ActiveIndexExact, Fault
    <3>3. \A other \in Cleared : faults[other].key # faults[id].key
      BY <3>1, <3>2 DEF ActiveIndexExact, IsActive
    <3> QED BY <1>5, <3>1, <3>2, <3>3
  <2> QED BY <2>1, <2>2 DEF ActiveIndexExact, IsActive
<1>8. RepairStoryTold'
  BY <1>3, <1>4 DEF RepairStoryTold, RepairStory, Succeeds
<1> QED BY <1>6, <1>7, <1>8

LEMMA OperateIInv ==
    ASSUME IInv, Operate
    PROVE  IInv'
<1> USE DEF IInv
<1> PICK id \in DOMAIN faults : \/ Acknowledge(id)
                               \/ StartRepair(id)
                               \/ ReportRepaired(id)
                               \/ VerifyPassed(id)
                               \/ VerifyFailed(id)
  BY DEF Operate
<1> DEFINE f == faults[id]
<1>1. f \in Fault /\ RepairStory(f) /\ now \in Nat
  BY LenProperties, ElementOfSeq DEF TypeOK, RepairStoryTold
<1>2. CASE Acknowledge(id)
  <2> DEFINE g == Moved(f, "ACKNOWLEDGED")
  <2>1. Succeeds(f, g) /\ IsActive(f) /\ IsActive(g)
    BY <1>1, <1>2, OperatedRecord DEF Acknowledge, IsActive
  <2>2. faults' = [faults EXCEPT ![id] = g] /\ UNCHANGED <<activeByKey, policy, now>>
    BY <1>2 DEF Acknowledge
  <2> HIDE DEF g
  <2> QED BY <2>1, <2>2, RewriteOpen
<1>3. CASE StartRepair(id)
  <2> DEFINE g == [Moved(f, "UNDER_REPAIR") EXCEPT !.repair = "IN_PROGRESS"]
  <2>1. Succeeds(f, g) /\ IsActive(f) /\ IsActive(g)
    BY <1>1, <1>3, OperatedRecord DEF StartRepair, IsActive
  <2>2. faults' = [faults EXCEPT ![id] = g] /\ UNCHANGED <<activeByKey, policy, now>>
    BY <1>3 DEF StartRepair
  <2> HIDE DEF g
  <2> QED BY <2>1, <2>2, RewriteOpen
<1>4. CASE ReportRepaired(id)
  <2> DEFINE g == [Moved(f, "VERIFYING") EXCEPT !.repair = "REPAIRED",
                                                !.verification = "VERIFYING"]
  <2>1. Succeeds(f, g) /\ IsActive(f) /\ IsActive(g)
    BY <1>1, <1>4, OperatedRecord DEF ReportRepaired, IsActive
  <2>2. faults' = [faults EXCEPT ![id] = g] /\ UNCHANGED <<activeByKey, policy, now>>
    BY <1>4 DEF ReportRepaired
  <2> HIDE DEF g
  <2> QED BY <2>1, <2>2, RewriteOpen
<1>5. CASE VerifyFailed(id)
  <2> DEFINE g == [Moved(f, "UNDER_REPAIR") EXCEPT
                     !.repair = "NOT_REPAIRED",
                     !.verification = "VERIFICATION_FAILED"]
  <2>1. Succeeds(f, g) /\ IsActive(f) /\ IsActive(g)
    BY <1>1, <1>5, OperatedRecord DEF VerifyFailed, IsActive
  <2>2. faults' = [faults EXCEPT ![id] = g] /\ UNCHANGED <<activeByKey, policy, now>>
    BY <1>5 DEF VerifyFailed
  <2> HIDE DEF g
  <2> QED BY <2>1, <2>2, RewriteOpen
<1>6. CASE VerifyPassed(id)
  <2> DEFINE g == [Moved(f, "CLOSED") EXCEPT !.verification = "VERIFIED"]
  <2>1. Succeeds(f, g) /\ IsActive(f) /\ ~IsActive(g)
    BY <1>1, <1>6, OperatedRecord DEF VerifyPassed, IsActive
  <2>2. /\ faults' = [faults EXCEPT ![id] = g]
        /\ activeByKey' = [activeByKey EXCEPT ![f.key] = None]
        /\ UNCHANGED <<policy, now>>
    BY <1>6 DEF VerifyPassed
  <2> HIDE DEF g
  <2>3. /\ faults' \in Seq(Fault)
        /\ DOMAIN faults' = DOMAIN faults
        /\ \A j \in DOMAIN faults : faults'[j] = IF j = id THEN g ELSE faults[j]
    BY <2>1, <2>2, RewriteFacts DEF Succeeds
  <2>4. activeByKey[f.key] = id /\ f.key \in Keys
    BY <1>1, <2>1 DEF ActiveIndexExact, Fault
  <2>5. TypeOK'
    BY <2>2, <2>3 DEF TypeOK
  <2>6. ActiveIndexExact'
    <3>1. ASSUME NEW k \in Keys, activeByKey'[k] # None
          PROVE  /\ activeByKey'[k] \in DOMAIN faults'
                 /\ faults'[activeByKey'[k]].key = k
                 /\ IsActive(faults'[activeByKey'[k]])
      <4>1. k # f.key /\ activeByKey'[k] = activeByKey[k]
        BY <2>2, <2>4, <3>1 DEF TypeOK
      <4>2. activeByKey[k] # id
        BY <3>1, <4>1 DEF ActiveIndexExact
      <4> QED BY <2>3, <3>1, <4>1, <4>2 DEF ActiveIndexExact
    <3>2. ASSUME NEW j \in DOMAIN faults', IsActive(faults'[j])
          PROVE  activeByKey'[faults'[j].key] = j
      <4>1. j # id /\ faults'[j] = faults[j]
        BY <2>1, <2>3, <3>2
      <4>2. activeByKey[faults[j].key] = j /\ faults[j].key # f.key
        BY <2>3, <2>4, <3>2, <4>1 DEF ActiveIndexExact
      <4> QED BY <2>2, <4>1, <4>2 DEF TypeOK
    <3> QED BY <3>1, <3>2 DEF ActiveIndexExact, IsActive
  <2>7. RepairStoryTold'
    BY <2>1, <2>3 DEF RepairStoryTold, RepairStory, Succeeds
  <2> QED BY <2>5, <2>6, <2>7
<1> QED BY <1>2, <1>3, <1>4, <1>5, <1>6

LEMMA NextIInv == IInv /\ [Next]_engineVars => IInv'
<1> SUFFICES ASSUME IInv, [Next]_engineVars PROVE IInv'
  OBVIOUS
<1>1. CASE Observe
  BY <1>1, ObserveNormalIInv, RaiseIInv, RepeatIInv DEF Observe
<1>2. CASE Operate
  BY <1>2, OperateIInv
<1>3. CASE (\E p \in Policies : SetPolicy(p)) \/ Advance
  <2>1. /\ UNCHANGED <<faults, activeByKey>>
        /\ policy' \in Policies /\ now' \in Nat
    BY <1>3 DEF SetPolicy, Advance, IInv, TypeOK
  <2> QED BY <2>1 DEF IInv, TypeOK, ActiveIndexExact, RepairStoryTold, IsActive, RepairStory
<1>4. CASE UNCHANGED engineVars
  BY <1>4 DEF engineVars, IInv, TypeOK, ActiveIndexExact, RepairStoryTold,
              IsActive, RepairStory
<1> QED BY <1>1, <1>2, <1>3, <1>4 DEF Next

LEMMA SpecIInv == Spec => []IInv
  BY InitIInv, NextIInv, PTL DEF Spec

\* Records, index, policy and clock keep their types.
THEOREM TypeCorrect == Spec => []TypeOK
<1>1. IInv => TypeOK
  BY DEF IInv
<1> QED BY <1>1, SpecIInv, PTL

\* The index names the open records, all of them and no others, so that a
\* diagnosis never has two open faults and never updates a dead one.
THEOREM IndexExact == Spec => []ActiveIndexExact
<1>1. IInv => ActiveIndexExact
  BY DEF IInv
<1> QED BY <1>1, SpecIInv, PTL

\* Whatever the order of repairs, reports and failed verifications, a fault is
\* closed only as repaired and verified.
THEOREM RepairStoryHolds == Spec => []RepairStoryTold
<1>1. IInv => RepairStoryTold
  BY DEF IInv
<1> QED BY <1>1, SpecIInv, PTL

-----------------------------------------------------------------------------
(* The fault engine implements the ledger: every step of the engine is,    *)
(* seen by key, a step of the ledger or changes nothing.                   *)

Life == [k \in Keys |-> LifeOf(k)]

\* Rewriting an open record moves its key alone, to the record's new state.
LEMMA RewriteLife ==
    ASSUME IInv, NEW id \in DOMAIN faults, NEW k, NEW g,
           k = faults[id].key,
           Succeeds(faults[id], g), IsActive(faults[id]),
           faults' = [faults EXCEPT ![id] = g],
           UNCHANGED activeByKey
    PROVE  /\ k \in Keys
           /\ LifeOf(k) = faults[id].state
           /\ LifeOf(k)' = g.state
           /\ \A j \in Keys \ {k} : LifeOf(j)' = LifeOf(j)
<1> USE DEF IInv
<1>1. /\ DOMAIN faults' = DOMAIN faults
      /\ \A j \in DOMAIN faults : faults'[j] = IF j = id THEN g ELSE faults[j]
  BY RewriteFacts DEF Succeeds
<1>2. faults[id] \in Fault /\ id \in Nat
  BY LenProperties, ElementOfSeq DEF TypeOK
<1>3. k \in Keys /\ activeByKey[k] = id /\ id # None
  BY <1>2, NoneAssumption DEF Fault, ActiveIndexExact
<1>4. LifeOf(k) = faults[id].state /\ LifeOf(k)' = g.state
  BY <1>1, <1>3 DEF LifeOf
<1>5. ASSUME NEW j \in Keys, j # k
      PROVE  LifeOf(j)' = LifeOf(j)
  <2>1. CASE activeByKey[j] = None
    BY <2>1 DEF LifeOf
  <2>2. CASE activeByKey[j] # None
    <3>1. activeByKey[j] \in DOMAIN faults /\ activeByKey[j] # id
      BY <1>5, <2>2 DEF ActiveIndexExact
    <3> QED BY <1>1, <3>1 DEF LifeOf
  <2> QED BY <2>1, <2>2
<1> QED BY <1>3, <1>4, <1>5

LEMMA RaiseRefines ==
    ASSUME IInv, NEW k \in Keys, Raise(k)
    PROVE  Life[k] = "NORMAL" /\ \E s \in {"SUSPECTED", "CONFIRMED"} :
              Life' = [Life EXCEPT ![k] = s]
<1> USE DEF IInv
<1> DEFINE f == Judged(NewFault(k))
           n == Len(faults) + 1
<1>1. f \in Fault /\ f.state \in {"SUSPECTED", "CONFIRMED"}
  BY NewFaultType, ObservedRecord DEF TypeOK, Succeeds
<1>2. faults \in Seq(Fault) /\ Len(faults) \in Nat /\ DOMAIN faults = 1 .. Len(faults)
  BY LenProperties DEF TypeOK
<1> HIDE DEF f
<1>3. /\ faults' = Append(faults, f)
      /\ activeByKey' = [activeByKey EXCEPT ![k] = n]
      /\ activeByKey[k] = None
  BY DEF Raise, f
<1>4. /\ \A i \in 1 .. Len(faults) : faults'[i] = faults[i]
      /\ faults'[n] = f
  BY <1>1, <1>2, <1>3, AppendProperties
<1>5. n # None
  BY <1>2, NoneAssumption
<1>6. LifeOf(k) = "NORMAL" /\ LifeOf(k)' = f.state
  BY <1>3, <1>4, <1>5 DEF LifeOf, TypeOK
<1>7. ASSUME NEW j \in Keys, j # k
      PROVE  LifeOf(j)' = LifeOf(j)
  BY <1>2, <1>3, <1>4, <1>7 DEF LifeOf, TypeOK, ActiveIndexExact
<1> QED BY <1>1, <1>6, <1>7 DEF Life

LEMMA RepeatRefines ==
    ASSUME IInv, NEW k \in Keys, Repeat(k)
    PROVE  \/ Life' = Life
           \/ Life[k] = "SUSPECTED" /\ Life' = [Life EXCEPT ![k] = "CONFIRMED"]
<1> DEFINE id == activeByKey[k]
           f  == faults[id]
           g  == Judged(Counted(f))
<1>1. /\ id \in DOMAIN faults /\ IsActive(f) /\ RepairStory(f) /\ f \in Fault
      /\ f.key = k
  BY LenProperties, ElementOfSeq
  DEF Repeat, ActiveIndexExact, RepairStoryTold, TypeOK, IInv
<1>2. Succeeds(f, Counted(f)) /\ Counted(f).state = f.state
  BY <1>1, ObservedRecord DEF IInv
<1>3. /\ Succeeds(Counted(f), g)
      /\ \/ g.state = f.state
         \/ f.state = "SUSPECTED" /\ g.state = "CONFIRMED"
  BY <1>2, ObservedRecord DEF Succeeds, IInv
<1>4. Succeeds(f, g)
  BY <1>2, <1>3 DEF Succeeds
<1>5. faults' = [faults EXCEPT ![id] = g] /\ UNCHANGED activeByKey
  BY DEF Repeat
<1> HIDE DEF g, f, id
<1>6. /\ LifeOf(k) = f.state
      /\ LifeOf(k)' = g.state
      /\ \A j \in Keys \ {k} : LifeOf(j)' = LifeOf(j)
  BY <1>1, <1>4, <1>5, RewriteLife DEF f
<1> QED BY <1>3, <1>6 DEF Life

LEMMA ObserveNormalRefines ==
    ASSUME IInv, ObserveNormal
    PROVE  Life' = [k \in Keys |-> IF Life[k] = "SUSPECTED" THEN "NORMAL" ELSE Life[k]]
<1> USE DEF IInv
<1> DEFINE Cleared == {id \in DOMAIN faults : faults[id].state = "SUSPECTED"}
<1> SUFFICES ASSUME NEW k \in Keys
             PROVE  LifeOf(k)' = IF LifeOf(k) = "SUSPECTED" THEN "NORMAL" ELSE LifeOf(k)
  BY DEF Life
<1>1. activeByKey'[k] = IF \E id \in Cleared : faults[id].key = k
                        THEN None ELSE activeByKey[k]
  BY DEF ObserveNormal, Clear
<1>2. \A id \in DOMAIN faults : id \notin Cleared => faults'[id] = faults[id]
  BY DEF ObserveNormal, Clear
<1>3. \A id \in Cleared : faults[id].key \in Keys /\ activeByKey[faults[id].key] = id
                          /\ id # None
  <2>1. \A id \in DOMAIN faults : faults[id] \in Fault /\ id \in Nat
    BY LenProperties, ElementOfSeq DEF TypeOK
  <2> QED BY <2>1, NoneAssumption DEF ActiveIndexExact, IsActive, Fault
<1>4. CASE \E id \in Cleared : faults[id].key = k
  <2>1. LifeOf(k)' = "NORMAL"
    BY <1>1, <1>4 DEF LifeOf
  <2>2. LifeOf(k) = "SUSPECTED"
    BY <1>3, <1>4 DEF LifeOf
  <2> QED BY <2>1, <2>2
<1>5. CASE ~\E id \in Cleared : faults[id].key = k
  <2>1. activeByKey'[k] = activeByKey[k]
    BY <1>1, <1>5
  <2>2. CASE activeByKey[k] = None
    BY <2>1, <2>2 DEF LifeOf
  <2>3. CASE activeByKey[k] # None
    <3>1. activeByKey[k] \in DOMAIN faults /\ activeByKey[k] \notin Cleared
      BY <1>5, <2>3 DEF ActiveIndexExact
    <3> QED BY <1>2, <2>1, <2>3, <3>1 DEF LifeOf
  <2> QED BY <2>2, <2>3
<1> QED BY <1>4, <1>5

\* Each operator's operation is the ledger's action of the same kind.
LEMMA OperateRefines ==
    ASSUME IInv, Operate
    PROVE  Ledger!Next
<1> PICK id \in DOMAIN faults : \/ Acknowledge(id)
                               \/ StartRepair(id)
                               \/ ReportRepaired(id)
                               \/ VerifyPassed(id)
                               \/ VerifyFailed(id)
  BY DEF Operate
<1> DEFINE f == faults[id]
<1> PICK k : k = f.key
  OBVIOUS
<1>1. f \in Fault /\ RepairStory(f) /\ now \in Nat
  BY LenProperties, ElementOfSeq DEF IInv, TypeOK, RepairStoryTold
<1>2. CASE Acknowledge(id)
  <2> DEFINE g == Moved(f, "ACKNOWLEDGED")
  <2>1. Succeeds(f, g) /\ IsActive(f) /\ g.state = "ACKNOWLEDGED" /\ f.state = "CONFIRMED"
    BY <1>1, <1>2, OperatedRecord DEF Acknowledge, IsActive
  <2>2. faults' = [faults EXCEPT ![id] = g] /\ UNCHANGED activeByKey
    BY <1>2 DEF Acknowledge
  <2> HIDE DEF g
  <2>3. /\ k \in Keys /\ LifeOf(k) = "CONFIRMED" /\ LifeOf(k)' = "ACKNOWLEDGED"
        /\ \A j \in Keys \ {k} : LifeOf(j)' = LifeOf(j)
    BY <2>1, <2>2, RewriteLife
  <2> QED BY <2>3 DEF Life, Ledger!Next, Ledger!Acknowledge, Ledger!Move
<1>3. CASE StartRepair(id)
  <2> DEFINE g == [Moved(f, "UNDER_REPAIR") EXCEPT !.repair = "IN_PROGRESS"]
  <2>1. Succeeds(f, g) /\ IsActive(f) /\ g.state = "UNDER_REPAIR" /\ f.state = "ACKNOWLEDGED"
    BY <1>1, <1>3, OperatedRecord DEF StartRepair, IsActive
  <2>2. faults' = [faults EXCEPT ![id] = g] /\ UNCHANGED activeByKey
    BY <1>3 DEF StartRepair
  <2> HIDE DEF g
  <2>3. /\ k \in Keys /\ LifeOf(k) = "ACKNOWLEDGED" /\ LifeOf(k)' = "UNDER_REPAIR"
        /\ \A j \in Keys \ {k} : LifeOf(j)' = LifeOf(j)
    BY <2>1, <2>2, RewriteLife
  <2> QED BY <2>3 DEF Life, Ledger!Next, Ledger!StartRepair, Ledger!Move
<1>4. CASE ReportRepaired(id)
  <2> DEFINE g == [Moved(f, "VERIFYING") EXCEPT !.repair = "REPAIRED",
                                                !.verification = "VERIFYING"]
  <2>1. Succeeds(f, g) /\ IsActive(f) /\ g.state = "VERIFYING" /\ f.state = "UNDER_REPAIR"
    BY <1>1, <1>4, OperatedRecord DEF ReportRepaired, IsActive
  <2>2. faults' = [faults EXCEPT ![id] = g] /\ UNCHANGED activeByKey
    BY <1>4 DEF ReportRepaired
  <2> HIDE DEF g
  <2>3. /\ k \in Keys /\ LifeOf(k) = "UNDER_REPAIR" /\ LifeOf(k)' = "VERIFYING"
        /\ \A j \in Keys \ {k} : LifeOf(j)' = LifeOf(j)
    BY <2>1, <2>2, RewriteLife
  <2> QED BY <2>3 DEF Life, Ledger!Next, Ledger!ReportRepaired, Ledger!Move
<1>5. CASE VerifyFailed(id)
  <2> DEFINE g == [Moved(f, "UNDER_REPAIR") EXCEPT
                     !.repair = "NOT_REPAIRED",
                     !.verification = "VERIFICATION_FAILED"]
  <2>1. Succeeds(f, g) /\ IsActive(f) /\ g.state = "UNDER_REPAIR" /\ f.state = "VERIFYING"
    BY <1>1, <1>5, OperatedRecord DEF VerifyFailed, IsActive
  <2>2. faults' = [faults EXCEPT ![id] = g] /\ UNCHANGED activeByKey
    BY <1>5 DEF VerifyFailed
  <2> HIDE DEF g
  <2>3. /\ k \in Keys /\ LifeOf(k) = "VERIFYING" /\ LifeOf(k)' = "UNDER_REPAIR"
        /\ \A j \in Keys \ {k} : LifeOf(j)' = LifeOf(j)
    BY <2>1, <2>2, RewriteLife
  <2> QED BY <2>3 DEF Life, Ledger!Next, Ledger!RejectRepair, Ledger!Move
<1>6. CASE VerifyPassed(id)
  <2>1. /\ activeByKey' = [activeByKey EXCEPT ![k] = None]
        /\ f.state = "VERIFYING" /\ k \in Keys
        /\ DOMAIN faults' = DOMAIN faults
        /\ \A j \in DOMAIN faults : j # id => faults'[j] = faults[j]
    BY <1>1, <1>6 DEF VerifyPassed, Fault
  <2>2. activeByKey[k] = id /\ id # None
    BY <2>1, NoneAssumption, LenProperties DEF IInv, TypeOK, ActiveIndexExact, IsActive
  <2>3. LifeOf(k) = "VERIFYING" /\ LifeOf(k)' = "NORMAL"
    BY <2>1, <2>2 DEF LifeOf, IInv, TypeOK
  <2>4. ASSUME NEW j \in Keys, j # k
        PROVE  LifeOf(j)' = LifeOf(j)
    <3>1. activeByKey'[j] = activeByKey[j]
      BY <2>1, <2>4 DEF IInv, TypeOK
    <3>2. activeByKey[j] # None => activeByKey[j] \in DOMAIN faults /\ activeByKey[j] # id
      BY <2>4 DEF IInv, ActiveIndexExact
    <3> QED BY <2>1, <3>1, <3>2 DEF LifeOf
  <2>5. Life[k] = "VERIFYING" /\ Life' = [Life EXCEPT ![k] = "NORMAL"]
    BY <2>1, <2>3, <2>4 DEF Life
  <2> QED BY <2>1, <2>5 DEF Life, Ledger!Next, Ledger!Close, Ledger!Move
<1> QED BY <1>2, <1>3, <1>4, <1>5, <1>6

LEMMA StepRefines ==
    ASSUME IInv, [Next]_engineVars
    PROVE  [Ledger!Next]_Life
<1>1. CASE ObserveNormal
  <2>1. Ledger!ClearSuspicions
    BY <1>1, ObserveNormalRefines DEF Ledger!ClearSuspicions, Life
  <2> QED BY <2>1 DEF Ledger!Next
<1>2. ASSUME NEW k \in Keys, Raise(k)
      PROVE  Ledger!Next
  BY <1>2, RaiseRefines
  DEF Life, Ledger!Next, Ledger!Suspect, Ledger!Confirm, Ledger!Move
<1>3. ASSUME NEW k \in Keys, Repeat(k)
      PROVE  [Ledger!Next]_Life
  BY <1>3, RepeatRefines DEF Life, Ledger!Next, Ledger!Confirm, Ledger!Move
<1>4. CASE Operate
  BY <1>4, OperateRefines
<1>5. CASE (\E p \in Policies : SetPolicy(p)) \/ Advance \/ UNCHANGED engineVars
  <2>1. UNCHANGED <<faults, activeByKey>>
    BY <1>5 DEF SetPolicy, Advance, engineVars
  <2> QED BY <2>1 DEF Life, LifeOf
<1> QED BY <1>1, <1>2, <1>3, <1>4, <1>5 DEF Next, Observe

LEMMA InitRefines == Init => Ledger!Init
  BY DEF Init, Ledger!Init, LifeOf

\* Any run of the engine is a run of the ledger: one episode per diagnosis at
\* a time, along the documented lifecycle, and only an operator moves a
\* confirmed fault on.
THEOREM EngineImplementsLedger == Spec => LedgerSpec
<1>1. IInv /\ [Next]_engineVars => [Ledger!Next]_Life
  BY StepRefines
<1>2. Life = [k \in Keys |-> LifeOf(k)]
  BY DEF Life
<1>3. IInv /\ [Next]_engineVars => [Ledger!Next]_([k \in Keys |-> LifeOf(k)])
  BY <1>1 DEF Life
<1> QED BY <1>3, InitRefines, SpecIInv, PTL DEF Spec, LedgerSpec, Ledger!Spec

-----------------------------------------------------------------------------
\* No operation revives or rewrites the record of a cleared or closed fault,
\* and none removes a record: a recurrence is a record of its own.
THEOREM RecordsStayFinal == Spec => RecordsFinal
<1> DEFINE Final == \A id \in DOMAIN faults :
                      /\ id \in DOMAIN faults'
                      /\ ~IsActive(faults[id]) => faults'[id] = faults[id]
<1>1. ASSUME IInv, [Next]_engineVars
      PROVE  Final \/ UNCHANGED engineVars
  <2>1. faults \in Seq(Fault) /\ Len(faults) \in Nat /\ DOMAIN faults = 1 .. Len(faults)
    BY <1>1, LenProperties DEF IInv, TypeOK
  <2>2. CASE ObserveNormal
    BY <2>2 DEF ObserveNormal, Clear, IsActive
  <2>3. ASSUME NEW k \in Keys, Raise(k)
        PROVE  Final
    <3>1. Judged(NewFault(k)) \in Fault
      BY <1>1, NewFaultType, ObservedRecord DEF IInv, TypeOK, Succeeds
    <3>2. /\ DOMAIN faults' = 1 .. Len(faults) + 1
          /\ \A i \in 1 .. Len(faults) : faults'[i] = faults[i]
      BY <2>1, <2>3, <3>1, AppendProperties, LenProperties DEF Raise
    <3> QED BY <2>1, <3>2
  <2>4. ASSUME NEW k \in Keys, Repeat(k)
        PROVE  Final
    <3>1. activeByKey[k] \in DOMAIN faults /\ IsActive(faults[activeByKey[k]])
      BY <1>1, <2>4 DEF IInv, ActiveIndexExact, Repeat
    <3> QED BY <2>4, <3>1 DEF Repeat
  <2>5. CASE Operate
    BY <2>5 DEF Operate, Acknowledge, StartRepair, ReportRepaired, VerifyPassed,
                VerifyFailed, IsActive
  <2>6. CASE (\E p \in Policies : SetPolicy(p)) \/ Advance
    BY <2>6 DEF SetPolicy, Advance
  <2> QED BY <1>1, <2>2, <2>3, <2>4, <2>5, <2>6 DEF Next, Observe
<1>2. IInv /\ [Next]_engineVars => [Final]_engineVars
  BY <1>1
<1> QED BY <1>2, SpecIInv, PTL DEF Spec, RecordsFinal
=============================================================================
