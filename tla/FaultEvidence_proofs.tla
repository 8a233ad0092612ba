------------------------ MODULE FaultEvidence_proofs ------------------------
(***************************************************************************)
(* What a confirmation rests on, for any set of diagnoses, any policies    *)
(* and any bounds: the record's counter is tied to the history of          *)
(* diagnoses by an invariant, and so is its window.                        *)
(***************************************************************************)
EXTENDS FaultEvidence, FaultEngine_proofs

-----------------------------------------------------------------------------
(* Histories, and what a record's counter says of one.                     *)

\* Ticks in order, none later than t.
InOrder(s, t) ==
    /\ s \in Seq(Nat)
    /\ \A i, j \in 1 .. Len(s) : i <= j => s[i] <= s[j]
    /\ \A i \in 1 .. Len(s) : s[i] <= t

\* The count goes back over the last diagnoses, to the one that is its first.
CountsBack(f, s) ==
    /\ f.count \in 1 .. Len(s)
    /\ s[Len(s) - f.count + 1] = f.first

LEMMA StoredRecord ==
    ASSUME TypeOK, NEW id \in DOMAIN faults
    PROVE  faults[id] \in Fault /\ faults[id].key \in Keys
<1>1. faults[id] \in Fault
  BY LenProperties, ElementOfSeq DEF TypeOK
<1> QED BY <1>1 DEF Fault

LEMMA AppendInOrder ==
    ASSUME NEW t \in Nat, NEW s, InOrder(s, t)
    PROVE  /\ InOrder(Append(s, t), t)
           /\ Len(Append(s, t)) = Len(s) + 1
           /\ Len(s) \in Nat
           /\ Append(s, t)[Len(s) + 1] = t
           /\ \A i \in 1 .. Len(s) : Append(s, t)[i] = s[i]
<1>1. /\ Append(s, t) \in Seq(Nat)
      /\ Len(Append(s, t)) = Len(s) + 1
      /\ Len(s) \in Nat
      /\ Append(s, t)[Len(s) + 1] = t
      /\ \A i \in 1 .. Len(s) : Append(s, t)[i] = s[i]
  BY AppendProperties, LenProperties DEF InOrder
<1>2. \A i \in 1 .. Len(s) : s[i] \in Nat /\ s[i] <= t
  BY ElementOfSeq DEF InOrder
<1>3. \A i \in 1 .. Len(s) + 1 : i = Len(s) + 1 \/ i \in 1 .. Len(s)
  BY <1>1
<1>4. \A i, j \in 1 .. Len(s) + 1 :
         i <= j => Append(s, t)[i] <= Append(s, t)[j]
  BY <1>1, <1>2, <1>3 DEF InOrder
<1> QED BY <1>1, <1>2, <1>3, <1>4 DEF InOrder

\* One more diagnosis, counted on: the window holds, or the count is new.
LEMMA CountedBack ==
    ASSUME TypeOK, NEW f \in Fault, NEW s, InOrder(s, now), CountsBack(f, s)
    PROVE  /\ CountsBack(Counted(f), Append(s, now))
           /\ now - Counted(f).first <= policy.window
<1>1. now \in Nat /\ policy.window \in Nat /\ f.count \in Nat /\ f.first \in Nat
  BY PolicyAssumption DEF TypeOK, Fault
<1> DEFINE h == Append(s, now)
<1>2. /\ Len(h) = Len(s) + 1 /\ Len(s) \in Nat /\ h[Len(s) + 1] = now
      /\ \A i \in 1 .. Len(s) : h[i] = s[i]
  BY <1>1, AppendInOrder
<1> HIDE DEF h
<1>3. CASE now - f.first > policy.window
  <2>1. Counted(f).count = 1 /\ Counted(f).first = now
    BY <1>3 DEF Counted, Fault
  <2> QED BY <1>1, <1>2, <2>1 DEF CountsBack, h
<1>4. CASE ~(now - f.first > policy.window)
  <2>1. Counted(f).count = f.count + 1 /\ Counted(f).first = f.first
    BY <1>4 DEF Counted, Fault
  <2>2. /\ f.count \in 1 .. Len(s) /\ s[Len(s) - f.count + 1] = f.first
    BY DEF CountsBack
  <2>3. /\ Len(h) - (f.count + 1) + 1 = Len(s) - f.count + 1
        /\ Len(s) - f.count + 1 \in 1 .. Len(s)
        /\ f.count + 1 \in 1 .. Len(h)
    BY <1>1, <1>2, <2>2
  <2>4. h[Len(h) - Counted(f).count + 1] = f.first
    BY <1>2, <2>1, <2>2, <2>3
  <2> QED BY <1>1, <1>4, <2>1, <2>3, <2>4 DEF CountsBack, h
<1> QED BY <1>3, <1>4

\* A count that is high enough, within the window, is evidence.
LEMMA CountIsEvidence ==
    ASSUME TypeOK, NEW k \in Keys, NEW f \in Fault, InOrder(seen[k], now),
           CountsBack(f, Append(seen[k], now)),
           now - f.first <= policy.window, f.count >= policy.count
    PROVE  Evidence(k)
<1> DEFINE h == Append(seen[k], now)
           n == Len(h)
           i == n - policy.count + 1
<1>1. /\ now \in Nat /\ policy.window \in Nat /\ f.count \in Nat /\ f.first \in Nat
      /\ policy.count \in Nat /\ policy.count >= 1
  BY PolicyAssumption DEF TypeOK, Fault
<1>2. InOrder(h, now) /\ n \in Nat
  BY <1>1, AppendInOrder
<1> HIDE DEF h
<1>3. f.count \in 1 .. n /\ h[n - f.count + 1] = f.first
  BY DEF CountsBack, h
<1>4. n - f.count + 1 \in 1 .. n /\ i \in 1 .. n /\ n - f.count + 1 <= i
      /\ n >= policy.count
  BY <1>1, <1>2, <1>3
<1>5. f.first <= h[i] /\ h[i] \in Nat
  BY <1>2, <1>3, <1>4, ElementOfSeq DEF InOrder
<1>6. now - h[i] <= policy.window
  BY <1>1, <1>5
<1> QED BY <1>4, <1>6 DEF Evidence, h

-----------------------------------------------------------------------------
(* The invariant.                                                          *)

EvidenceKept ==
    /\ seen \in [Keys -> Seq(Nat)]
    /\ \A k \in Keys : InOrder(seen[k], now)
    /\ \A id \in DOMAIN faults : faults[id].state = "SUSPECTED" =>
          CountsBack(faults[id], seen[faults[id].key])

EvidenceIInv == IInv /\ EvidenceKept

LEMMA InitEvidenceIInv == InitEvidence => EvidenceIInv
<1> SUFFICES ASSUME InitEvidence PROVE EvidenceIInv
  OBVIOUS
<1>1. IInv /\ DOMAIN faults = {} /\ now \in Nat
  BY InitIInv DEF InitEvidence, Init
<1>2. <<>> \in Seq(Nat) /\ Len(<<>>) = 0
  BY EmptySeq
<1>3. InOrder(<<>>, now)
  BY <1>1, <1>2 DEF InOrder
<1> QED BY <1>1, <1>2, <1>3 DEF InitEvidence, EvidenceIInv, EvidenceKept

\* A diagnosis of a key that has no latched fault: how the record it creates
\* or rewrites counts back over the longer history, and when it is confirmed.
LEMMA RaisedRecord ==
    ASSUME EvidenceIInv, NEW k \in Keys, Raise(k)
    PROVE  LET g == Judged(NewFault(k))
           IN  /\ g \in Fault /\ g.key = k
               /\ CountsBack(g, Append(seen[k], now))
               /\ g.state # "SUSPECTED" => Evidence(k)
<1> DEFINE f == NewFault(k)
           g == Judged(f)
<1>1. TypeOK /\ now \in Nat /\ policy.window \in Nat /\ InOrder(seen[k], now)
  BY PolicyAssumption DEF EvidenceIInv, IInv, TypeOK, EvidenceKept
<1>2. f \in Fault /\ f.key = k /\ RepairStory(f) /\ f.state = "SUSPECTED"
  BY <1>1, NewFaultType
<1>3. f.count = 1 /\ f.first = now
  BY DEF NewFault
<1>4. CountsBack(f, Append(seen[k], now))
  BY <1>1, <1>3, AppendInOrder DEF CountsBack
<1>5. g \in Fault /\ g.key = k
  BY <1>1, <1>2, ObservedRecord DEF Succeeds
<1>6. g.count = f.count /\ g.first = f.first
  BY <1>2 DEF Judged, Moved, Fault
<1>7. g.state # "SUSPECTED" => f.count >= policy.count
  BY <1>2 DEF Judged
<1>8. g.state # "SUSPECTED" => Evidence(k)
  BY <1>1, <1>2, <1>3, <1>4, <1>7, CountIsEvidence
<1>9. CountsBack(g, Append(seen[k], now))
  BY <1>4, <1>6 DEF CountsBack
<1> QED BY <1>5, <1>8, <1>9

LEMMA RepeatedRecord ==
    ASSUME EvidenceIInv, NEW f \in Fault, f.state = "SUSPECTED", RepairStory(f),
           CountsBack(f, seen[f.key])
    PROVE  LET g == Judged(Counted(f))
           IN  /\ CountsBack(g, Append(seen[f.key], now))
               /\ g.state # "SUSPECTED" => Evidence(f.key)
<1> DEFINE c == Counted(f)
           g == Judged(c)
<1>1. TypeOK /\ f.key \in Keys /\ InOrder(seen[f.key], now)
  BY DEF EvidenceIInv, IInv, EvidenceKept, Fault
<1>2. c \in Fault /\ c.key = f.key /\ c.state = "SUSPECTED"
  BY <1>1, ObservedRecord DEF Succeeds
<1>3. CountsBack(c, Append(seen[f.key], now)) /\ now - c.first <= policy.window
  BY <1>1, CountedBack
<1> HIDE DEF c
<1>4. g.count = c.count /\ g.first = c.first
  BY <1>2 DEF Judged, Moved, Fault
<1>5. g.state # "SUSPECTED" => c.count >= policy.count
  BY <1>2 DEF Judged
<1>6. g.state # "SUSPECTED" => Evidence(f.key)
  BY <1>1, <1>2, <1>3, <1>5, CountIsEvidence
<1>7. CountsBack(g, Append(seen[f.key], now))
  BY <1>3, <1>4 DEF CountsBack
<1> QED BY <1>6, <1>7 DEF c

\* The two kinds of diagnosis, as one step: one record is written, and it is
\* latched as before or counts back over the history.
Diagnosed(k) ==
    \E id \in DOMAIN faults' :
        /\ \A j \in DOMAIN faults' : j # id => j \in DOMAIN faults /\ faults'[j] = faults[j]
        /\ faults'[id].key = k
        /\ \/ /\ HasLatchedFault(k)
              /\ id \in DOMAIN faults
              /\ faults'[id].state = faults[id].state
              /\ faults[id].state # "SUSPECTED"
           \/ /\ ~HasLatchedFault(k)
              /\ CountsBack(faults'[id], Append(seen[k], now))
              /\ faults'[id].state = "CONFIRMED" => Evidence(k)
        /\ \A j \in DOMAIN faults' : j # id /\ faults'[j].state = "SUSPECTED" =>
              faults'[j].key # k

LEMMA RaiseDiagnoses ==
    ASSUME EvidenceIInv, NEW k \in Keys, Raise(k)
    PROVE  Diagnosed(k)
<1> DEFINE g == Judged(NewFault(k))
           new == Len(faults) + 1
<1>1. /\ g \in Fault /\ g.key = k
      /\ CountsBack(g, Append(seen[k], now))
      /\ g.state # "SUSPECTED" => Evidence(k)
  BY RaisedRecord
<1>2. faults \in Seq(Fault) /\ Len(faults) \in Nat /\ DOMAIN faults = 1 .. Len(faults)
  BY LenProperties DEF EvidenceIInv, IInv, TypeOK
<1>3. /\ DOMAIN faults' = 1 .. new
      /\ faults'[new] = g
      /\ \A j \in DOMAIN faults : faults'[j] = faults[j]
  BY <1>1, <1>2, AppendProperties, LenProperties DEF Raise
<1> HIDE DEF g
<1>4. ~HasLatchedFault(k) /\ activeByKey[k] = None
  BY DEF HasLatchedFault, Raise
<1>5. \A j \in DOMAIN faults : faults[j].state = "SUSPECTED" => faults[j].key # k
  <2> SUFFICES ASSUME NEW j \in DOMAIN faults, faults[j].state = "SUSPECTED",
                      faults[j].key = k
               PROVE  FALSE
    OBVIOUS
  <2>1. activeByKey[k] = j
    BY DEF EvidenceIInv, IInv, ActiveIndexExact, IsActive
  <2> QED BY <1>2, <1>4, <2>1, NoneAssumption
<1>6. \A j \in DOMAIN faults' : j # new => j \in DOMAIN faults
  BY <1>2, <1>3
<1>7. new \in DOMAIN faults' /\ (g.state = "CONFIRMED" => Evidence(k))
  BY <1>1, <1>2, <1>3
<1> QED BY <1>1, <1>3, <1>4, <1>5, <1>6, <1>7 DEF Diagnosed

LEMMA RepeatDiagnoses ==
    ASSUME EvidenceIInv, NEW k \in Keys, Repeat(k)
    PROVE  Diagnosed(k)
<1> DEFINE id == activeByKey[k]
           f  == faults[id]
           g  == Judged(Counted(f))
<1>1. /\ TypeOK /\ id \in DOMAIN faults /\ f.key = k /\ IsActive(f)
      /\ f \in Fault /\ RepairStory(f) /\ activeByKey[k] # None
  BY LenProperties, ElementOfSeq
  DEF EvidenceIInv, IInv, Repeat, ActiveIndexExact, RepairStoryTold, TypeOK
<1>2. Succeeds(f, Counted(f)) /\ Counted(f).state = f.state
  BY <1>1, ObservedRecord
<1>3. g \in Fault /\ g.key = k
  BY <1>1, <1>2, ObservedRecord DEF Succeeds
<1>4. faults' = [faults EXCEPT ![id] = g]
  BY DEF Repeat
<1>5. \A j \in DOMAIN faults : j # id /\ faults[j].state = "SUSPECTED" => faults[j].key # k
  BY DEF EvidenceIInv, IInv, ActiveIndexExact, IsActive
<1>6. CASE f.state = "SUSPECTED"
  <2>1. ~HasLatchedFault(k)
    BY <1>6 DEF HasLatchedFault, Latched
  <2>2. CountsBack(f, seen[k])
    BY <1>1, <1>6 DEF EvidenceIInv, EvidenceKept
  <2>3. /\ CountsBack(g, Append(seen[k], now))
        /\ g.state = "CONFIRMED" => Evidence(k)
    BY <1>1, <1>6, <2>2, RepeatedRecord
  <2> HIDE DEF g, f, id
  <2>4. /\ DOMAIN faults' = DOMAIN faults
        /\ \A j \in DOMAIN faults : faults'[j] = IF j = id THEN g ELSE faults[j]
    BY <1>1, <1>3, <1>4, RewriteFacts
  <2> QED BY <1>1, <1>3, <1>5, <2>1, <2>3, <2>4 DEF Diagnosed
<1>7. CASE f.state # "SUSPECTED"
  <2>1. HasLatchedFault(k)
    BY <1>1, <1>7 DEF HasLatchedFault, Latched, IsActive, Fault, FaultState
  <2>2. g.state = f.state
    BY <1>2, <1>7 DEF Judged
  <2> HIDE DEF g
  <2>4. /\ DOMAIN faults' = DOMAIN faults
        /\ \A j \in DOMAIN faults : faults'[j] = IF j = id THEN g ELSE faults[j]
    BY <1>1, <1>3, <1>4, RewriteFacts
  <2> QED BY <1>1, <1>3, <1>5, <1>7, <2>1, <2>2, <2>4 DEF Diagnosed
<1> QED BY <1>6, <1>7

-----------------------------------------------------------------------------
(* The invariant under every step.                                         *)

LEMMA DiagnosedKept ==
    ASSUME EvidenceIInv, NEW k \in Keys, Diagnosed(k), Witness(k), IInv', now' = now
    PROVE  EvidenceKept'
<1>1. now \in Nat /\ seen \in [Keys -> Seq(Nat)] /\ \A j \in Keys : InOrder(seen[j], now)
  BY DEF EvidenceIInv, IInv, TypeOK, EvidenceKept
<1>2. Append(seen[k], now) \in Seq(Nat) /\ InOrder(Append(seen[k], now), now)
  BY <1>1, AppendInOrder DEF InOrder
<1>3. /\ seen' \in [Keys -> Seq(Nat)]
      /\ \A j \in Keys : InOrder(seen'[j], now)
      /\ \A j \in Keys : j # k => seen'[j] = seen[j]
      /\ HasLatchedFault(k) => seen' = seen
      /\ ~HasLatchedFault(k) => seen'[k] = Append(seen[k], now)
  BY <1>1, <1>2 DEF Witness
<1>4. PICK id \in DOMAIN faults' :
        /\ \A j \in DOMAIN faults' : j # id => j \in DOMAIN faults /\ faults'[j] = faults[j]
        /\ faults'[id].key = k
        /\ \/ /\ HasLatchedFault(k)
              /\ id \in DOMAIN faults
              /\ faults'[id].state = faults[id].state
              /\ faults[id].state # "SUSPECTED"
           \/ /\ ~HasLatchedFault(k)
              /\ CountsBack(faults'[id], Append(seen[k], now))
              /\ faults'[id].state = "CONFIRMED" => Evidence(k)
        /\ \A j \in DOMAIN faults' : j # id /\ faults'[j].state = "SUSPECTED" =>
              faults'[j].key # k
  BY DEF Diagnosed
<1>5. ASSUME NEW j \in DOMAIN faults', faults'[j].state = "SUSPECTED"
      PROVE  CountsBack(faults'[j], seen'[faults'[j].key])
  <2>1. CASE j = id
    BY <1>3, <1>4, <1>5, <2>1
  <2>2. CASE j # id
    <3>1. j \in DOMAIN faults /\ faults'[j] = faults[j] /\ faults'[j].key # k
      BY <1>4, <1>5, <2>2
    <3>2. faults[j].key \in Keys
      BY <3>1, StoredRecord DEF EvidenceIInv, IInv
    <3>3. CountsBack(faults[j], seen[faults[j].key])
      BY <1>5, <3>1 DEF EvidenceIInv, EvidenceKept
    <3> QED BY <1>3, <3>1, <3>2, <3>3
  <2> QED BY <2>1, <2>2
<1> QED BY <1>3, <1>5 DEF EvidenceKept

\* The other steps of the engine: no record becomes suspected or changes its
\* count, and a history that is forgotten has no suspicion that counts on it.
LEMMA ForgetKept ==
    ASSUME EvidenceIInv, NEW K, Forget(K), now' = now,
           DOMAIN faults' = DOMAIN faults,
           \A id \in DOMAIN faults' : faults'[id].state = "SUSPECTED" =>
              faults'[id] = faults[id] /\ faults[id].key \in Keys \ K
    PROVE  EvidenceKept'
<1>1. <<>> \in Seq(Nat) /\ Len(<<>>) = 0 /\ InOrder(<<>>, now)
  BY EmptySeq DEF InOrder
<1>2. /\ seen' \in [Keys -> Seq(Nat)]
      /\ \A k \in Keys : seen'[k] = IF k \in K THEN <<>> ELSE seen[k]
  BY <1>1 DEF Forget, EvidenceIInv, EvidenceKept
<1> QED BY <1>1, <1>2 DEF EvidenceIInv, EvidenceKept

\* One of the operator's operations on a record: no record becomes suspected
\* or confirmed.
LEMMA OperatedStates ==
    ASSUME TypeOK, NEW id \in DOMAIN faults,
           \/ Acknowledge(id) \/ StartRepair(id) \/ ReportRepaired(id)
           \/ VerifyPassed(id) \/ VerifyFailed(id)
    PROVE  /\ DOMAIN faults' = DOMAIN faults
           /\ \A j \in DOMAIN faults : j # id => faults'[j] = faults[j]
           /\ faults'[id].state \notin {"SUSPECTED", "CONFIRMED"}
           /\ now' = now
<1> DEFINE f == faults[id]
<1>1. f \in Fault /\ faults \in Seq(Fault)
  BY LenProperties, ElementOfSeq DEF TypeOK
<1>2. PICK g : /\ faults' = [faults EXCEPT ![id] = g] /\ now' = now
               /\ g.state \notin {"SUSPECTED", "CONFIRMED"}
  <2>1. CASE Acknowledge(id)
    <3> DEFINE g == Moved(f, "ACKNOWLEDGED")
    <3>1. g.state \notin {"SUSPECTED", "CONFIRMED"}
      BY <1>1 DEF Moved, Fault
    <3>2. faults' = [faults EXCEPT ![id] = g] /\ now' = now
      BY <2>1 DEF Acknowledge
    <3> HIDE DEF g
    <3> QED BY <3>1, <3>2
  <2>2. CASE StartRepair(id)
    <3> DEFINE g == [Moved(f, "UNDER_REPAIR") EXCEPT !.repair = "IN_PROGRESS"]
    <3>1. g.state \notin {"SUSPECTED", "CONFIRMED"}
      BY <1>1 DEF Moved, Fault
    <3>2. faults' = [faults EXCEPT ![id] = g] /\ now' = now
      BY <2>2 DEF StartRepair
    <3> HIDE DEF g
    <3> QED BY <3>1, <3>2
  <2>3. CASE ReportRepaired(id)
    <3> DEFINE g == [Moved(f, "VERIFYING") EXCEPT !.repair = "REPAIRED",
                                                  !.verification = "VERIFYING"]
    <3>1. g.state \notin {"SUSPECTED", "CONFIRMED"}
      BY <1>1 DEF Moved, Fault
    <3>2. faults' = [faults EXCEPT ![id] = g] /\ now' = now
      BY <2>3 DEF ReportRepaired
    <3> HIDE DEF g
    <3> QED BY <3>1, <3>2
  <2>4. CASE VerifyPassed(id)
    <3> DEFINE g == [Moved(f, "CLOSED") EXCEPT !.verification = "VERIFIED"]
    <3>1. g.state \notin {"SUSPECTED", "CONFIRMED"}
      BY <1>1 DEF Moved, Fault
    <3>2. faults' = [faults EXCEPT ![id] = g] /\ now' = now
      BY <2>4 DEF VerifyPassed
    <3> HIDE DEF g
    <3> QED BY <3>1, <3>2
  <2>5. CASE VerifyFailed(id)
    <3> DEFINE g == [Moved(f, "UNDER_REPAIR") EXCEPT
                       !.repair = "NOT_REPAIRED",
                       !.verification = "VERIFICATION_FAILED"]
    <3>1. g.state \notin {"SUSPECTED", "CONFIRMED"}
      BY <1>1 DEF Moved, Fault
    <3>2. faults' = [faults EXCEPT ![id] = g] /\ now' = now
      BY <2>5 DEF VerifyFailed
    <3> HIDE DEF g
    <3> QED BY <3>1, <3>2
  <2> QED BY <2>1, <2>2, <2>3, <2>4, <2>5
<1> QED BY <1>1, <1>2, LenProperties

LEMMA NextEvidenceIInv == EvidenceIInv /\ [NextEvidence]_evidenceVars => EvidenceIInv'
<1> SUFFICES ASSUME EvidenceIInv, [NextEvidence]_evidenceVars PROVE EvidenceIInv'
  OBVIOUS
<1> USE DEF EvidenceIInv
<1>1. TypeOK /\ faults \in Seq(Fault) /\ now \in Nat
      /\ \A id \in DOMAIN faults : faults[id] \in Fault /\ faults[id].key \in Keys
  BY StoredRecord DEF IInv, TypeOK
<1>2. ASSUME NEW k \in Keys, Raise(k) \/ Repeat(k), Witness(k) PROVE EvidenceIInv'
  <2>1. IInv' /\ Diagnosed(k) /\ now' = now
    BY <1>2, RaiseIInv, RepeatIInv, RaiseDiagnoses, RepeatDiagnoses DEF Raise, Repeat
  <2> QED BY <1>2, <2>1, DiagnosedKept
<1>3. CASE ObserveNormal /\ Forget(Keys)
  <2>1. IInv' /\ now' = now
    BY <1>3, ObserveNormalIInv DEF ObserveNormal, Clear
  <2>2. /\ DOMAIN faults' = DOMAIN faults
        /\ \A id \in DOMAIN faults : faults'[id].state # "SUSPECTED"
    BY <1>1, <1>3 DEF ObserveNormal, Clear, Moved, Fault
  <2> QED BY <1>3, <2>1, <2>2, ForgetKept
<1>4. ASSUME NEW id \in DOMAIN faults, VerifyPassed(id), Forget({faults[id].key})
      PROVE  EvidenceIInv'
  <2>1. IInv'
    BY <1>4, OperateIInv DEF Operate
  <2>2. /\ DOMAIN faults' = DOMAIN faults /\ now' = now
        /\ \A j \in DOMAIN faults : j # id => faults'[j] = faults[j]
        /\ faults'[id].state # "SUSPECTED"
    BY <1>1, <1>4, OperatedStates
  <2>3. \A j \in DOMAIN faults : j # id /\ faults[j].state = "SUSPECTED" =>
           faults[j].key # faults[id].key
    BY <1>4 DEF VerifyPassed, IInv, ActiveIndexExact, IsActive
  <2> QED BY <1>1, <1>4, <2>1, <2>2, <2>3, ForgetKept
<1>5. ASSUME NEW id \in DOMAIN faults, UNCHANGED seen,
             Acknowledge(id) \/ StartRepair(id) \/ ReportRepaired(id) \/ VerifyFailed(id)
      PROVE  EvidenceIInv'
  <2>1. IInv'
    BY <1>5, OperateIInv DEF Operate
  <2>2. /\ DOMAIN faults' = DOMAIN faults /\ now' = now
        /\ \A j \in DOMAIN faults : j # id => faults'[j] = faults[j]
        /\ faults'[id].state # "SUSPECTED"
    BY <1>1, <1>5, OperatedStates
  <2> QED BY <1>5, <2>1, <2>2 DEF EvidenceKept
<1>6. CASE ((\E p \in Policies : SetPolicy(p)) \/ Advance) /\ UNCHANGED seen
  <2>1. IInv'
    BY <1>6, NextIInv DEF Next
  <2>2. UNCHANGED <<faults, seen>> /\ now' \in Nat /\ now <= now'
    BY <1>1, <1>6 DEF SetPolicy, Advance
  <2>3. ASSUME NEW k \in Keys PROVE InOrder(seen[k], now')
    <3>1. InOrder(seen[k], now)
      BY DEF EvidenceKept
    <3>2. \A i \in 1 .. Len(seen[k]) : seen[k][i] \in Nat
      BY <3>1, ElementOfSeq DEF InOrder
    <3> QED BY <1>1, <2>2, <3>1, <3>2 DEF InOrder
  <2> QED BY <2>1, <2>2, <2>3 DEF EvidenceKept
<1>7. CASE UNCHANGED evidenceVars
  <2>1. UNCHANGED engineVars /\ UNCHANGED <<faults, now, seen>>
    BY <1>7 DEF evidenceVars, engineVars
  <2>2. IInv'
    BY <2>1, NextIInv
  <2> QED BY <2>1, <2>2 DEF EvidenceKept
<1> QED BY <1>2, <1>3, <1>4, <1>5, <1>6, <1>7 DEF NextEvidence

-----------------------------------------------------------------------------
(* The theorem.                                                            *)

\* A fault is confirmed only on evidence: on as many diagnoses in a row as the
\* policy in force asks for, within its window, whatever policies and counts
\* there were before.
THEOREM ConfirmationRestsOnEvidence == SpecEvidence => ConfirmationEvidenced
<1> DEFINE Confirmed(id) == /\ faults'[id].state = "CONFIRMED"
                            /\ id \in DOMAIN faults => faults[id].state # "CONFIRMED"
           Evidenced == \A id \in DOMAIN faults' : Confirmed(id) => Evidence(faults'[id].key)
<1>1. ASSUME EvidenceIInv, [NextEvidence]_evidenceVars
      PROVE  [Evidenced]_evidenceVars
  <2>1. TypeOK /\ \A id \in DOMAIN faults : faults[id] \in Fault
    BY <1>1, LenProperties, ElementOfSeq DEF EvidenceIInv, IInv, TypeOK
  <2>2. ASSUME NEW k \in Keys, Raise(k) \/ Repeat(k) PROVE Evidenced
    <3>1. Diagnosed(k)
      BY <1>1, <2>2, RaiseDiagnoses, RepeatDiagnoses
    <3> QED BY <3>1 DEF Diagnosed
  <2>3. CASE ObserveNormal
    BY <2>1, <2>3 DEF ObserveNormal, Clear, Moved, Fault
  <2>4. ASSUME NEW id \in DOMAIN faults,
               \/ Acknowledge(id) \/ StartRepair(id) \/ ReportRepaired(id)
               \/ VerifyPassed(id) \/ VerifyFailed(id)
        PROVE  Evidenced
    BY <2>1, <2>4, OperatedStates
  <2>5. CASE (\E p \in Policies : SetPolicy(p)) \/ Advance
    BY <2>5 DEF SetPolicy, Advance
  <2> QED BY <1>1, <2>2, <2>3, <2>4, <2>5 DEF NextEvidence
<1>2. EvidenceIInv /\ [NextEvidence]_evidenceVars => [Evidenced]_evidenceVars
  BY <1>1
<1> QED BY <1>2, InitEvidenceIInv, NextEvidenceIInv, PTL
        DEF SpecEvidence, ConfirmationEvidenced

\* The history changes nothing: every run with it is a run of the engine, so
\* that what is proved of the engine holds beside the history too.
THEOREM HistoryIsPassive == SpecEvidence => Spec
<1>1. InitEvidence => Init
  BY DEF InitEvidence
<1>2. [NextEvidence]_evidenceVars => [Next]_engineVars
  <2>1. UNCHANGED evidenceVars => UNCHANGED engineVars
    BY DEF evidenceVars, engineVars
  <2>2. NextEvidence => Next
    BY DEF NextEvidence, Next, Observe, Operate
  <2> QED BY <2>1, <2>2
<1> QED BY <1>1, <1>2, PTL DEF SpecEvidence, Spec
=============================================================================
