----------------------- MODULE StoreAndForward_proofs -----------------------
(***************************************************************************)
(* What store-and-forward promises, for any capacity, retention, link and  *)
(* bounds: nothing is lost silently, damage is never overlooked, recovery  *)
(* costs nothing but damaged records, and nothing confirmed is sent again. *)
(* It implements Delivery, with the fate of a record read from its         *)
(* lifecycle state.                                                        *)
(***************************************************************************)
EXTENDS StoreAndForward, SequenceTheorems, WellFoundedInduction, TLAPS

-----------------------------------------------------------------------------
(* What removing entries from the upload queue leaves: the others, and in  *)
(* their order.  The proof is an induction over the queue; stated about a  *)
(* set of numbers, it needs no operator as a parameter.                    *)

\* A set with 0 and the successor of each of its members holds every number:
\* there is no least number outside it.
LEMMA NumberInduction ==
    ASSUME NEW T, 0 \in T, \A n \in Nat : n \in T => n + 1 \in T
    PROVE  Nat \subseteq T
<1> SUFFICES ASSUME Nat \ T # {} PROVE FALSE
  OBVIOUS
<1> DEFINE R == OpToRel(<, Nat)
<1>1. PICK n \in Nat \ T : \A m \in Nat \ T : ~(<<m, n>> \in R)
  <2>1. IsWellFoundedOn(R, Nat) /\ Nat \ T \subseteq Nat
    BY NatLessThanWellFounded
  <2> QED BY <2>1, WFMin, Zenon
<1>2. \A m \in Nat \ T : ~(m < n)
  BY <1>1 DEF OpToRel
<1>3. n # 0 /\ n - 1 \in Nat /\ n - 1 < n
  OBVIOUS
<1>4. n - 1 \in T
  BY <1>2, <1>3
<1> QED BY <1>3, <1>4

-----------------------------------------------------------------------------
(* Without, unfolded.                                                      *)

Body(q, S, f, i) ==
    IF i = 0 THEN <<>>
    ELSE IF q[i] \in S THEN f[i - 1]
    ELSE Append(f[i - 1], q[i])

\* The recursion of Without defines a function.
LEMMA KeptExists ==
    ASSUME NEW q, NEW S, Len(q) \in Nat
    PROVE  \E f : f = [i \in 0 .. Len(q) |-> Body(q, S, f, i)]
<1> DEFINE T == {n \in Nat : \E f : f = [i \in 0 .. n |-> Body(q, S, f, i)]}
<1>1. 0 \in T
  <2> DEFINE f == [i \in 0 .. 0 |-> <<>>]
  <2>1. f = [i \in 0 .. 0 |-> Body(q, S, f, i)]
    BY DEF Body
  <2> QED BY <2>1
<1>2. ASSUME NEW n \in Nat, n \in T PROVE n + 1 \in T
  <2>1. PICK f : f = [i \in 0 .. n |-> Body(q, S, f, i)]
    BY <1>2
  <2> DEFINE last == IF q[n + 1] \in S THEN f[n] ELSE Append(f[n], q[n + 1])
             g == [i \in 0 .. n + 1 |-> IF i = n + 1 THEN last ELSE f[i]]
  <2>2. \A i \in 0 .. n : g[i] = f[i] /\ f[i] = Body(q, S, f, i)
    BY <2>1
  <2>3. g[n + 1] = last
    OBVIOUS
  <2>4. DOMAIN g = 0 .. n + 1 /\ g = [i \in 0 .. n + 1 |-> g[i]]
    OBVIOUS
  <2> HIDE DEF g
  <2>5. ASSUME NEW i \in 0 .. n + 1 PROVE g[i] = Body(q, S, g, i)
    <3>1. CASE i = 0
      <4>1. 0 \in 0 .. n
        OBVIOUS
      <4>2. g[0] = Body(q, S, f, 0)
        BY <2>2, <4>1
      <4>3. Body(q, S, f, 0) = Body(q, S, g, 0)
        BY DEF Body
      <4> QED BY <3>1, <4>2, <4>3
    <3>2. CASE i \in 1 .. n
      <4>1. i - 1 \in 0 .. n /\ i \in 0 .. n
        BY <3>2
      <4> QED BY <2>2, <3>2, <4>1 DEF Body
    <3>3. CASE i = n + 1
      <4>1. i - 1 = n /\ n \in 0 .. n /\ i # 0
        BY <3>3
      <4> QED BY <2>2, <2>3, <3>3, <4>1 DEF Body
    <3> QED BY <3>1, <3>2, <3>3
  <2>6. g = [i \in 0 .. n + 1 |-> Body(q, S, g, i)]
    BY <2>4, <2>5
  <2> QED BY <2>6
<1> HIDE DEF T
<1>3. Nat \subseteq T
  BY <1>1, <1>2, NumberInduction
<1> QED BY <1>3 DEF T

-----------------------------------------------------------------------------
(* What is left.                                                           *)

Ascending(q) == \A i, j \in DOMAIN q : i < j => q[i] < q[j]

\* r is what is left of the first n entries of q.
Filtered(r, q, S, n) ==
    /\ r \in Seq(Nat)
    /\ \A i \in 1 .. Len(r) : \E j \in 1 .. n : r[i] = q[j] /\ q[j] \notin S
    /\ \A j \in 1 .. n : q[j] \in S \/ \E i \in 1 .. Len(r) : r[i] = q[j]
    /\ Ascending(q) => \A i, j \in 1 .. Len(r) : i < j => r[i] < r[j]

LEMMA FilteredKept ==
    ASSUME NEW q \in Seq(Nat), NEW S, NEW n \in Nat, n + 1 <= Len(q), NEW r,
           Filtered(r, q, S, n), q[n + 1] \notin S
    PROVE  Filtered(Append(r, q[n + 1]), q, S, n + 1)
<1> DEFINE x == q[n + 1]
           a == Append(r, x)
<1>1. /\ Len(q) \in Nat /\ DOMAIN q = 1 .. Len(q)
      /\ \A i \in 1 .. Len(q) : q[i] \in Nat
  BY LenProperties, ElementOfSeq
<1>2. x \in Nat /\ n + 1 \in 1 .. n + 1 /\ \A j \in 1 .. n + 1 : j \in 1 .. n \/ j = n + 1
  BY <1>1
<1>3. /\ a \in Seq(Nat) /\ Len(a) = Len(r) + 1 /\ Len(r) \in Nat
      /\ a[Len(r) + 1] = x
      /\ \A i \in 1 .. Len(r) : a[i] = r[i]
  BY <1>2, AppendProperties, LenProperties DEF Filtered
<1> HIDE DEF a
<1>4. \A i \in 1 .. Len(a) : i \in 1 .. Len(r) \/ i = Len(r) + 1
  BY <1>3
<1>5. ASSUME NEW i \in 1 .. Len(a)
      PROVE  \E j \in 1 .. n + 1 : a[i] = q[j] /\ q[j] \notin S
  <2>1. CASE i \in 1 .. Len(r)
    <3>1. PICK j \in 1 .. n : r[i] = q[j] /\ q[j] \notin S
      BY <2>1 DEF Filtered
    <3> QED BY <1>3, <2>1, <3>1
  <2>2. CASE i = Len(r) + 1
    BY <1>2, <1>3, <2>2
  <2> QED BY <1>4, <2>1, <2>2
<1>6. ASSUME NEW j \in 1 .. n + 1
      PROVE  q[j] \in S \/ \E i \in 1 .. Len(a) : a[i] = q[j]
  <2>1. CASE j \in 1 .. n
    <3>1. q[j] \in S \/ \E i \in 1 .. Len(r) : r[i] = q[j]
      BY <2>1 DEF Filtered
    <3>2. \A i \in 1 .. Len(r) : i \in 1 .. Len(a)
      BY <1>3
    <3> QED BY <1>3, <3>1, <3>2
  <2>2. CASE j = n + 1
    <3>1. Len(r) + 1 \in 1 .. Len(a)
      BY <1>3
    <3> QED BY <1>3, <2>2, <3>1
  <2> QED BY <1>2, <2>1, <2>2
<1>7. ASSUME Ascending(q), NEW i \in 1 .. Len(a), NEW j \in 1 .. Len(a), i < j
      PROVE  a[i] < a[j]
  <2>1. i \in 1 .. Len(r)
    BY <1>3, <1>7
  <2>2. CASE j \in 1 .. Len(r)
    BY <1>3, <1>7, <2>1, <2>2 DEF Filtered
  <2>3. CASE j = Len(r) + 1
    <3>1. PICK m \in 1 .. n : r[i] = q[m]
      BY <2>1 DEF Filtered
    <3>2. m \in DOMAIN q /\ n + 1 \in DOMAIN q /\ m < n + 1
      BY <1>1
    <3>3. q[m] < q[n + 1]
      BY <1>7, <3>2 DEF Ascending
    <3> QED BY <1>3, <2>1, <2>3, <3>1, <3>3
  <2> QED BY <1>4, <2>2, <2>3
<1> QED BY <1>3, <1>5, <1>6, <1>7 DEF Filtered, a

LEMMA FilteredDropped ==
    ASSUME NEW q \in Seq(Nat), NEW S, NEW n \in Nat, n + 1 <= Len(q), NEW r,
           Filtered(r, q, S, n), q[n + 1] \in S
    PROVE  Filtered(r, q, S, n + 1)
<1>1. \A j \in 1 .. n + 1 : j \in 1 .. n \/ j = n + 1
  OBVIOUS
<1>2. \A j \in 1 .. n : j \in 1 .. n + 1
  OBVIOUS
<1> QED BY <1>1, <1>2 DEF Filtered

\* The entries left, and their order.
LEMMA WithoutProperties ==
    ASSUME NEW q \in Seq(Nat), NEW S
    PROVE  LET r == Without(q, S)
           IN  /\ r \in Seq(Nat)
               /\ {r[i] : i \in DOMAIN r} = {q[i] : i \in DOMAIN q} \ S
               /\ Ascending(q) => Ascending(r)
<1>1. /\ Len(q) \in Nat /\ DOMAIN q = 1 .. Len(q)
  BY LenProperties
<1> DEFINE kept == CHOOSE f : f = [i \in 0 .. Len(q) |-> Body(q, S, f, i)]
           T == {n \in Nat : n <= Len(q) => Filtered(kept[n], q, S, n)}
<1>2. kept = [i \in 0 .. Len(q) |-> Body(q, S, kept, i)]
  BY <1>1, KeptExists
<1>3. Without(q, S) = kept[Len(q)]
  BY DEF Without, Body
<1> HIDE DEF kept
<1>4. \A i \in 0 .. Len(q) : kept[i] = Body(q, S, kept, i)
  BY <1>2
<1>5. 0 \in T
  <2>1. kept[0] = <<>>
    BY <1>1, <1>4 DEF Body
  <2>2. <<>> \in Seq(Nat) /\ Len(<<>>) = 0
    BY EmptySeq
  <2>3. Filtered(<<>>, q, S, 0)
    BY <2>2 DEF Filtered
  <2> QED BY <2>1, <2>3
<1>6. ASSUME NEW n \in Nat, n \in T PROVE n + 1 \in T
  <2> SUFFICES ASSUME n + 1 <= Len(q) PROVE Filtered(kept[n + 1], q, S, n + 1)
    OBVIOUS
  <2>1. Filtered(kept[n], q, S, n)
    BY <1>1, <1>6
  <2>2. kept[n + 1] = IF q[n + 1] \in S THEN kept[n] ELSE Append(kept[n], q[n + 1])
    BY <1>1, <1>4 DEF Body
  <2> HIDE DEF T
  <2> QED BY <2>1, <2>2, FilteredKept, FilteredDropped
<1> HIDE DEF T
<1>7. Nat \subseteq T
  BY <1>5, <1>6, NumberInduction
<1>8. Filtered(kept[Len(q)], q, S, Len(q))
  BY <1>1, <1>7 DEF T
<1> DEFINE r == Without(q, S)
<1>9. Filtered(r, q, S, Len(q))
  BY <1>3, <1>8
<1> HIDE DEF r
<1>10. r \in Seq(Nat) /\ DOMAIN r = 1 .. Len(r)
  BY <1>9, LenProperties DEF Filtered
<1>11. {r[i] : i \in DOMAIN r} = {q[i] : i \in DOMAIN q} \ S
  BY <1>1, <1>9, <1>10 DEF Filtered
<1>12. Ascending(q) => Ascending(r)
  BY <1>9, <1>10 DEF Filtered, Ascending
<1> QED BY <1>10, <1>11, <1>12 DEF r

-----------------------------------------------------------------------------
(* The records and the damage done to them.                                *)

\* Damage is never overlooked: an invalid record still in the store is one the
\* medium damaged, and a valid one was never damaged.
DamageTracked == \A s \in Stored : records[s].valid <=> s \notin damaged

\* Records are numbered in order of creation, and only a stored one can be
\* damaged: a new record takes a number no damage was ever done to.
RecordsTracked ==
    /\ sequence \in Nat
    /\ now \in Nat
    /\ Stored \subseteq 1 .. sequence
    /\ records \in [Stored -> Record]
    /\ damaged \subseteq 1 .. sequence
    /\ DamageTracked

\* A step that neither creates nor damages: records may leave the store, and
\* those that stay keep their damage, or the want of it.
LEMMA KeptTracked ==
    ASSUME RecordsTracked,
           DOMAIN records' \subseteq Stored,
           records' \in [DOMAIN records' -> Record],
           \A s \in DOMAIN records' : records'[s].valid = records[s].valid,
           UNCHANGED <<sequence, damaged>>, now' \in Nat
    PROVE  RecordsTracked'
  BY DEF RecordsTracked, DamageTracked, Stored

LEMMA InitTracked == Init => RecordsTracked
  BY DEF Init, StoreInit, RecordsTracked, DamageTracked, Stored

LEMMA BufferTracked ==
    ASSUME RecordsTracked, BufferRecord
    PROVE  RecordsTracked'
<1>1. CASE Create
  <2> DEFINE new == [state |-> "PENDING_UPLOAD", valid |-> TRUE, stamp |-> now]
  <2>1. new \in Record
    BY DEF Record, RecordLifecycleState, RecordsTracked
  <2>2. new.valid
    OBVIOUS
  <2>3. /\ sequence' = sequence + 1 /\ now' = now /\ damaged' = damaged
        /\ records' = [s \in Stored \cup {sequence'} |->
                         IF s = sequence' THEN new ELSE records[s]]
    BY <1>1 DEF Create, BufferRecord
  <2> HIDE DEF new
  <2>4. /\ sequence \in Nat /\ now \in Nat /\ Stored \subseteq 1 .. sequence
        /\ records \in [Stored -> Record] /\ damaged \subseteq 1 .. sequence
    BY DEF RecordsTracked
  <2>5. /\ DOMAIN records' = Stored \cup {sequence + 1}
        /\ records'[sequence + 1] = new
        /\ \A s \in Stored : records'[s] = records[s]
    BY <2>3, <2>4
  <2>6. records' \in [DOMAIN records' -> Record]
    BY <2>1, <2>3, <2>4
  <2>7. DamageTracked'
    BY <2>2, <2>3, <2>4, <2>5 DEF RecordsTracked, DamageTracked, Stored
  <2> QED BY <2>3, <2>4, <2>5, <2>6, <2>7 DEF RecordsTracked, Stored
<1>2. CASE CreateRefused
  BY <1>2, KeptTracked DEF CreateRefused, BufferRecord, RecordsTracked, Stored
<1> QED BY <1>1, <1>2 DEF BufferRecord

LEMMA AfterUploadRecord ==
    ASSUME NEW r \in Record, NEW outcome
    PROVE  AfterUpload(r, outcome) \in Record /\ AfterUpload(r, outcome).valid = r.valid
  BY DEF AfterUpload, Record, RecordLifecycleState

LEMMA ForwardTracked ==
    ASSUME RecordsTracked, NEW outcome, ForwardUpstream(outcome)
    PROVE  RecordsTracked'
<1>1. /\ records' = [s \in Stored |-> IF s \in Queued
                                      THEN AfterUpload(records[s], outcome[s])
                                      ELSE records[s]]
      /\ UNCHANGED <<sequence, now, damaged>>
  BY DEF ForwardUpstream
<1>2. records \in [Stored -> Record] /\ now \in Nat
  BY DEF RecordsTracked
<1>3. \A s \in Stored : records'[s] \in Record /\ records'[s].valid = records[s].valid
  BY <1>1, <1>2, AfterUploadRecord
<1> QED BY <1>1, <1>2, <1>3, KeptTracked

LEMMA DamageKeepsTrack ==
    ASSUME RecordsTracked, NEW s \in Stored, Damage(s)
    PROVE  RecordsTracked'
<1>1. /\ records' = [records EXCEPT ![s].state = "CORRUPT", ![s].valid = FALSE]
      /\ damaged' = damaged \cup {s} /\ UNCHANGED <<sequence, now>>
  BY DEF Damage, Corrupt
<1>2. records \in [Stored -> Record]
  BY DEF RecordsTracked
<1>3. /\ DOMAIN records' = Stored
      /\ \A t \in Stored : t # s => records'[t] = records[t]
      /\ records'[s] \in Record /\ ~records'[s].valid
  BY <1>1, <1>2 DEF Record, RecordLifecycleState
<1>4. records' \in [Stored -> Record]
  BY <1>1, <1>2, <1>3
<1> QED BY <1>1, <1>3, <1>4 DEF RecordsTracked, DamageTracked, Stored

LEMMA MaintainTracked ==
    ASSUME RecordsTracked, Maintain
    PROVE  RecordsTracked'
<1>1. records \in [Stored -> Record] /\ now \in Nat /\ damaged' = damaged
  BY DEF RecordsTracked, Maintain
<1>2. CASE DetectCorruption
  <2>1. \A s \in Stored : records'[s] \in Record /\ records'[s].valid = records[s].valid
    BY <1>1, <1>2 DEF DetectCorruption, Record, RecordLifecycleState
  <2> QED BY <1>1, <1>2, <2>1, KeptTracked DEF DetectCorruption
<1>3. CASE PowerLoss
  BY <1>1, <1>3, KeptTracked DEF PowerLoss, Stored
<1>4. CASE Recover
  <2>1. /\ DOMAIN records' = Stored \ Invalid
        /\ \A s \in Stored \ Invalid : records'[s] = records[s]
        /\ UNCHANGED <<sequence, now>>
    BY <1>4 DEF Recover
  <2>2. records' \in [DOMAIN records' -> Record]
    BY <1>1, <1>4, <2>1 DEF Recover
  <2> QED BY <1>1, <2>1, <2>2, KeptTracked
<1>5. ASSUME NEW s \in Stored, Delete(s) PROVE RecordsTracked'
  <2>1. \A t \in Stored : records'[t] \in Record /\ records'[t].valid = records[t].valid
    BY <1>1, <1>5 DEF Delete, Record, RecordLifecycleState
  <2> QED BY <1>1, <1>5, <2>1, KeptTracked DEF Delete
<1>6. CASE Tick
  BY <1>1, <1>6, KeptTracked DEF Tick, Stored
<1> QED BY <1>2, <1>3, <1>4, <1>5, <1>6 DEF Maintain

LEMMA NextTracked == RecordsTracked /\ [Next]_vars => RecordsTracked'
<1> SUFFICES ASSUME RecordsTracked, [Next]_vars PROVE RecordsTracked'
  OBVIOUS
<1>1. CASE BufferRecord
  BY <1>1, BufferTracked
<1>2. CASE Forward
  BY <1>2, ForwardTracked DEF Forward
<1>3. ASSUME NEW state, SetLink(state) PROVE RecordsTracked'
  BY <1>3 DEF SetLink, storeVars, RecordsTracked, DamageTracked, Stored
<1>4. ASSUME NEW s \in Stored, Damage(s) PROVE RecordsTracked'
  BY <1>4, DamageKeepsTrack
<1>5. CASE Maintain
  BY <1>5, MaintainTracked
<1>6. CASE UNCHANGED vars
  BY <1>6 DEF vars, RecordsTracked, DamageTracked, Stored
<1> QED BY <1>1, <1>2, <1>3, <1>4, <1>5, <1>6 DEF Next

-----------------------------------------------------------------------------
(* The queue, the records and the upstream.                                *)

\* The queue in order, and in step with the states of the records: an entry
\* is never confirmed, and a valid record out of the queue is.
QueueKept ==
    /\ pending \in Seq(Nat)
    /\ QueueMatchesStates
    /\ \A s \in Queued : records[s].state \notin {"RETAINED", "DELETED"}

Bounded ==
    /\ sequence <= MaxRecords
    /\ full \in BOOLEAN /\ powerLost \in BOOLEAN
    /\ link \in {"up", "down", "flaky"}
    /\ sent \subseteq taken /\ taken \subseteq RecordIds

IInv == RecordsTracked /\ QueueKept /\ Bounded /\ NoSilentLoss

\* What a step leaves of the store: of the records and of the queue, those
\* that go are invalid or taken upstream; a record that stays queued is not
\* confirmed by the step.
StoreMoves ==
    /\ DOMAIN records' \subseteq Stored
    /\ Stored \ DOMAIN records' \subseteq Invalid
    /\ pending' \in Seq(Nat)
    /\ Ascending(pending) => Ascending(pending')
    /\ Queued' \subseteq Queued \cap DOMAIN records'
    /\ \A s \in Queued \ Queued' :
          \/ s \in Invalid \ DOMAIN records'
          \/ s \in sent' /\ records'[s].state = "RETAINED"
    /\ \A s \in Queued' :
          /\ records'[s].state \notin {"RETAINED", "DELETED"}
          /\ records'[s].valid => records'[s].state \in {"PENDING_UPLOAD", "UPLOADED"}
    /\ \A s \in DOMAIN records' \ Queued :
          records'[s].valid => records'[s].state \notin {"PENDING_UPLOAD", "UPLOADED"}
    /\ sent' \subseteq Queued
    /\ taken' = taken \cup sent'
    /\ UNCHANGED sequence
    /\ damaged \subseteq damaged'
    /\ full' = full /\ powerLost' \in BOOLEAN
    /\ link' \in {"up", "down", "flaky"}

LEMMA QueueFacts ==
    ASSUME IInv
    PROVE  /\ Ascending(pending) /\ pending \in Seq(Nat)
           /\ Queued \subseteq Stored /\ Stored \subseteq 1 .. sequence
           /\ sequence \in Nat /\ MaxRecords \in Nat
           /\ records \in [Stored -> Record]
           /\ \A s \in Stored : records[s].valid =>
                 (s \in Queued <=> records[s].state \in {"PENDING_UPLOAD", "UPLOADED"})
           /\ \A s \in Queued : records[s].state \notin {"RETAINED", "DELETED"}
           /\ \A s \in Stored : records[s].valid <=> s \notin damaged
  BY StoreAssumption
  DEF IInv, QueueKept, QueueMatchesStates, Ascending, RecordsTracked, DamageTracked

LEMMA QueueWithout ==
    ASSUME IInv, NEW S, pending' = Without(pending, S)
    PROVE  /\ pending' \in Seq(Nat) /\ Ascending(pending')
           /\ Queued' = Queued \ S
<1> DEFINE r == Without(pending, S)
<1>1. /\ r \in Seq(Nat) /\ Ascending(r)
      /\ {r[i] : i \in DOMAIN r} = {pending[i] : i \in DOMAIN pending} \ S
  BY QueueFacts, WithoutProperties
<1>2. Queued' = {r[i] : i \in DOMAIN r}
  BY DEF Queued
<1> HIDE DEF r
<1> QED BY <1>1, <1>2 DEF Queued, r

\* Moving so, the store keeps its promises.
LEMMA MovesKept ==
    ASSUME IInv, StoreMoves, RecordsTracked'
    PROVE  IInv'
<1>1. QueueMatchesStates'
  <2>1. Ascending(pending') /\ Queued' \subseteq DOMAIN records'
    BY QueueFacts DEF StoreMoves
  <2>2. ASSUME NEW s \in DOMAIN records', records'[s].valid
        PROVE  s \in Queued' <=> records'[s].state \in {"PENDING_UPLOAD", "UPLOADED"}
    <3>1. CASE s \in Queued'
      BY <2>2, <3>1 DEF StoreMoves
    <3>2. CASE s \in Queued \ Queued'
      BY <2>2, <3>2 DEF StoreMoves
    <3>3. CASE s \notin Queued
      BY <2>2, <3>3 DEF StoreMoves
    <3> QED BY <3>1, <3>2, <3>3
  <2> QED BY <2>1, <2>2 DEF QueueMatchesStates, Ascending, Stored
<1>2. QueueKept'
  BY <1>1 DEF StoreMoves, QueueKept
<1>3. Bounded'
  <2>1. Queued \subseteq RecordIds
    BY QueueFacts DEF RecordIds, IInv, Bounded
  <2> QED BY <2>1 DEF StoreMoves, IInv, Bounded, RecordIds
<1>4. NoSilentLoss'
  <2>1. ASSUME NEW s \in 1 .. sequence
        PROVE  s \in Queued' \/ s \in taken' \/ s \in damaged'
    <3>1. s \in Queued \/ s \in taken \/ s \in damaged
      BY DEF IInv, NoSilentLoss
    <3>2. s \in Invalid => s \in damaged
      BY QueueFacts DEF Invalid
    <3> QED BY <3>1, <3>2 DEF StoreMoves
  <2>2. DOMAIN records' \ Queued' \subseteq taken'
    BY DEF StoreMoves, IInv, NoSilentLoss
  <2> QED BY <2>1, <2>2 DEF NoSilentLoss, StoreMoves, Stored
<1> QED BY <1>2, <1>3, <1>4 DEF IInv

LEMMA InitIInv == Init => IInv
<1> SUFFICES ASSUME Init PROVE IInv
  OBVIOUS
<1>1. RecordsTracked
  BY InitTracked
<1>2. /\ pending = <<>> /\ pending \in Seq(Nat) /\ Queued = {} /\ Stored = {}
      /\ DOMAIN pending = {}
  BY EmptySeq DEF Init, StoreInit, Queued, Stored
<1>3. QueueKept
  BY <1>2 DEF QueueKept, QueueMatchesStates
<1>4. Bounded
  <2>1. full \in BOOLEAN /\ powerLost \in BOOLEAN
    BY DEF Init, StoreInit
  <2>2. sequence <= MaxRecords
    BY StoreAssumption DEF Init, StoreInit
  <2> QED BY <2>1, <2>2 DEF Init, Bounded
<1>5. NoSilentLoss
  BY <1>2 DEF Init, StoreInit, NoSilentLoss
<1> QED BY <1>1, <1>3, <1>4, <1>5 DEF IInv

\* A new record enters dict and queue together.
LEMMA CreateKept ==
    ASSUME IInv, BufferRecord, Create
    PROVE  IInv'
<1> DEFINE new == sequence + 1
<1>1. RecordsTracked'
  BY BufferTracked DEF IInv
<1>2. /\ pending' = Append(pending, new) /\ sequence' = new
      /\ records' = [s \in Stored \cup {new} |->
                       IF s = new
                       THEN [state |-> "PENDING_UPLOAD", valid |-> TRUE, stamp |-> now]
                       ELSE records[s]]
      /\ new <= MaxRecords /\ full' = full /\ powerLost' = powerLost
      /\ sent' = {} /\ link' = link /\ taken' = taken /\ damaged' = damaged
  BY QueueFacts DEF Create, BufferRecord
<1>3. /\ DOMAIN records' = Stored \cup {new}
      /\ records'[new].state = "PENDING_UPLOAD"
      /\ \A s \in Stored : records'[s] = records[s]
      /\ new \notin Stored /\ new \notin Queued
  BY <1>2, QueueFacts
<1>4. /\ pending' \in Seq(Nat) /\ Len(pending) \in Nat
      /\ DOMAIN pending = 1 .. Len(pending) /\ DOMAIN pending' = 1 .. Len(pending) + 1
      /\ pending'[Len(pending) + 1] = new
      /\ \A i \in 1 .. Len(pending) : pending'[i] = pending[i]
  BY <1>2, QueueFacts, AppendProperties, LenProperties
<1>5. \A i \in DOMAIN pending' : i \in DOMAIN pending \/ i = Len(pending) + 1
  BY <1>4
<1>6. Queued' = Queued \cup {new}
  <2>1. Len(pending) + 1 \in DOMAIN pending' /\ DOMAIN pending \subseteq DOMAIN pending'
    BY <1>4
  <2>2. ASSUME NEW s \in Queued' PROVE s \in Queued \cup {new}
    <3>1. PICK i \in DOMAIN pending' : s = pending'[i]
      BY DEF Queued
    <3> QED BY <1>4, <1>5, <3>1 DEF Queued
  <2>3. ASSUME NEW s \in Queued PROVE s \in Queued'
    <3>1. PICK i \in DOMAIN pending : s = pending[i]
      BY DEF Queued
    <3> QED BY <1>4, <2>1, <3>1 DEF Queued
  <2>4. new \in Queued'
    BY <1>4, <2>1 DEF Queued
  <2> QED BY <2>2, <2>3, <2>4
<1>7. ASSUME NEW i \in DOMAIN pending PROVE pending[i] < new
  <2>1. pending[i] \in Queued
    BY DEF Queued
  <2>2. pending[i] \in 1 .. sequence
    BY <2>1, QueueFacts
  <2> QED BY <2>2, QueueFacts
<1>8. Ascending(pending')
  <2> SUFFICES ASSUME NEW i \in DOMAIN pending', NEW j \in DOMAIN pending', i < j
               PROVE  pending'[i] < pending'[j]
    BY DEF Ascending
  <2>1. i \in DOMAIN pending
    BY <1>4
  <2>2. CASE j \in DOMAIN pending
    BY <1>4, <2>1, <2>2, QueueFacts DEF Ascending
  <2>3. CASE j = Len(pending) + 1
    BY <1>4, <1>7, <2>1, <2>3
  <2> QED BY <1>5, <2>2, <2>3
<1>9. QueueMatchesStates'
  BY <1>3, <1>6, <1>8, QueueFacts DEF QueueMatchesStates, Ascending, Stored
<1>10. QueueKept'
  BY <1>3, <1>4, <1>6, <1>9, QueueFacts DEF QueueKept
<1>11. Bounded'
  BY <1>2 DEF IInv, Bounded
<1>12. NoSilentLoss'
  <2>1. \A s \in 1 .. new : s \in 1 .. sequence \/ s = new
    BY QueueFacts
  <2> QED BY <1>2, <1>3, <1>6, <2>1 DEF IInv, NoSilentLoss, Stored
<1> QED BY <1>1, <1>10, <1>11, <1>12 DEF IInv

\* A refusal, a change of the link and a stutter touch neither.
LEMMA StillKept ==
    ASSUME IInv, RecordsTracked', UNCHANGED <<records, pending, sequence, taken, damaged>>,
           full' \in BOOLEAN, powerLost' \in BOOLEAN,
           link' \in {"up", "down", "flaky"}, sent' \subseteq taken
    PROVE  IInv'
  BY DEF IInv, QueueKept, QueueMatchesStates, Bounded, NoSilentLoss, Queued, Stored

\* What is taken with an answer leaves the queue as RETAINED; what is not
\* stays.
LEMMA ForwardMoves ==
    ASSUME IInv, NEW outcome, ForwardUpstream(outcome)
    PROVE  StoreMoves
<1> DEFINE Accepted == {s \in Queued : outcome[s] = "accepted"}
<1>1. /\ records' = [s \in Stored |-> IF s \in Queued
                                      THEN AfterUpload(records[s], outcome[s])
                                      ELSE records[s]]
      /\ pending' = Without(pending, Accepted)
      /\ sent' = {s \in Queued : outcome[s] \in {"accepted", "unanswered"}}
      /\ taken' = taken \cup sent'
      /\ UNCHANGED <<sequence, full, powerLost, link, damaged>>
  BY DEF ForwardUpstream, Unconfirmed
<1>2. /\ pending' \in Seq(Nat) /\ Ascending(pending') /\ Queued' = Queued \ Accepted
  BY <1>1, QueueWithout
<1>3. DOMAIN records' = Stored /\ \A s \in Stored \ Queued : records'[s] = records[s]
  BY <1>1
<1>4. ASSUME NEW s \in Queued
      PROVE  /\ s \in Accepted => records'[s].state = "RETAINED"
             /\ s \notin Accepted =>
                   records'[s].state \in {"UPLOADED", records[s].state}
             /\ records'[s].valid = records[s].valid
  <2>1. s \in Stored /\ records[s] \in Record
    BY QueueFacts
  <2>2. records'[s] = AfterUpload(records[s], outcome[s])
    BY <1>1, <2>1
  <2> QED BY <2>1, <2>2 DEF AfterUpload, Record
<1>5. Accepted \subseteq sent'
  BY <1>1
<1>6. full \in BOOLEAN /\ powerLost \in BOOLEAN /\ link \in {"up", "down", "flaky"}
  BY DEF IInv, Bounded
<1> HIDE DEF Accepted
<1> QED BY <1>1, <1>2, <1>3, <1>4, <1>5, <1>6, QueueFacts DEF StoreMoves

\* What recovery takes from dict and queue is invalid.
LEMMA MaintainMoves ==
    ASSUME IInv, Maintain
    PROVE  StoreMoves
<1>1. /\ sent' = {} /\ UNCHANGED <<link, taken, damaged>>
      /\ full \in BOOLEAN /\ powerLost \in BOOLEAN /\ link \in {"up", "down", "flaky"}
  BY DEF Maintain, IInv, Bounded
<1>2. ASSUME pending' = pending, DOMAIN records' = Stored,
             UNCHANGED <<sequence, full>>, powerLost' \in BOOLEAN,
             \A s \in Queued :
                /\ records'[s].state \notin {"RETAINED", "DELETED"}
                /\ records'[s].valid => records'[s] = records[s],
             \A s \in Stored \ Queued :
                records'[s].valid => records'[s].state \in {records[s].state, "DELETED"}
                                     /\ records[s].valid
      PROVE  StoreMoves
  <2>1. Queued' = Queued
    BY <1>2 DEF Queued
  <2> QED BY <1>1, <1>2, <2>1, QueueFacts DEF StoreMoves
<1>3. CASE DetectCorruption
  <2>1. \A s \in Stored : records'[s] = records[s] \/
           (records'[s].state = "CORRUPT" /\ ~records'[s].valid)
    BY <1>3, QueueFacts DEF DetectCorruption, Record
  <2> QED BY <1>1, <1>2, <1>3, <2>1, QueueFacts DEF DetectCorruption
<1>4. CASE PowerLoss \/ Tick
  BY <1>1, <1>2, <1>4, QueueFacts DEF PowerLoss, Tick, Stored
<1>5. ASSUME NEW s \in Stored, Delete(s) PROVE StoreMoves
  <2>1. /\ s \notin Queued
        /\ \A t \in Stored : t # s => records'[t] = records[t]
        /\ records'[s].state = "DELETED" /\ records'[s].valid = records[s].valid
        /\ DOMAIN records' = Stored
    BY <1>5, QueueFacts DEF Delete, Record
  <2> QED BY <1>1, <1>2, <1>5, <2>1, QueueFacts DEF Delete
<1>6. CASE Recover
  <2>1. /\ DOMAIN records' = Stored \ Invalid
        /\ \A s \in Stored \ Invalid : records'[s] = records[s]
        /\ powerLost' \in BOOLEAN /\ UNCHANGED <<sequence, full>>
    BY <1>6 DEF Recover
  <2>2. pending' \in Seq(Nat) /\ Ascending(pending') /\ Queued' = Queued \ Invalid
    BY <1>6, QueueWithout DEF Recover
  <2> QED BY <1>1, <2>1, <2>2, QueueFacts DEF StoreMoves, Invalid
<1> QED BY <1>3, <1>4, <1>5, <1>6 DEF Maintain

LEMMA DamageKept ==
    ASSUME IInv, NEW s \in Stored, Damage(s)
    PROVE  IInv'
<1>1. RecordsTracked'
  BY DamageKeepsTrack DEF IInv
<1>2. /\ records' = [records EXCEPT ![s].state = "CORRUPT", ![s].valid = FALSE]
      /\ damaged' = damaged \cup {s} /\ sent' = {}
      /\ UNCHANGED <<pending, sequence, full, powerLost, link, taken>>
  BY DEF Damage, Corrupt
<1>3. /\ DOMAIN records' = Stored
      /\ \A t \in Stored : t # s => records'[t] = records[t]
      /\ records'[s].state = "CORRUPT" /\ ~records'[s].valid
  BY <1>2, QueueFacts DEF Record
<1>4. Queued' = Queued
  BY <1>2 DEF Queued
<1>5. full \in BOOLEAN /\ powerLost \in BOOLEAN /\ link \in {"up", "down", "flaky"}
  BY DEF IInv, Bounded
<1>6. StoreMoves
  BY <1>2, <1>3, <1>4, <1>5, QueueFacts DEF StoreMoves
<1> QED BY <1>1, <1>6, MovesKept

LEMMA NextIInv == IInv /\ [Next]_vars => IInv'
<1> SUFFICES ASSUME IInv, [Next]_vars PROVE IInv'
  OBVIOUS
<1>1. RecordsTracked' /\ RecordsTracked
  BY NextTracked DEF IInv
<1>2. /\ full \in BOOLEAN /\ powerLost \in BOOLEAN /\ link \in {"up", "down", "flaky"}
      /\ sent \subseteq taken
  BY DEF IInv, Bounded
<1>3. CASE BufferRecord
  <2>1. CASE CreateRefused
    BY <1>1, <1>2, <1>3, <2>1, StillKept DEF BufferRecord, CreateRefused
  <2> QED BY <1>3, <2>1, CreateKept DEF BufferRecord
<1>4. CASE Forward
  BY <1>1, <1>4, ForwardMoves, MovesKept DEF Forward
<1>5. ASSUME NEW state \in {"up", "down", "flaky"}, SetLink(state) PROVE IInv'
  BY <1>1, <1>2, <1>5, StillKept DEF SetLink, storeVars
<1>6. ASSUME NEW s \in Stored, Damage(s) PROVE IInv'
  BY <1>6, DamageKept
<1>7. CASE Maintain
  BY <1>1, <1>7, MaintainMoves, MovesKept
<1>8. CASE UNCHANGED vars
  BY <1>1, <1>2, <1>8, StillKept DEF vars
<1> QED BY <1>3, <1>4, <1>5, <1>6, <1>7, <1>8 DEF Next

LEMMA IInvHolds == Spec => []IInv
  BY InitIInv, NextIInv, PTL DEF Spec

-----------------------------------------------------------------------------
(* The theorems.                                                           *)

\* Store, queue, link and histories keep their types.
THEOREM StoreTypesKept == Spec => []TypeOK
<1>1. IInv => TypeOK
  <2> SUFFICES ASSUME IInv PROVE TypeOK
    OBVIOUS
  <2>1. /\ Stored \subseteq 1 .. sequence /\ records \in [Stored -> Record]
        /\ pending \in Seq(Nat) /\ sequence \in 0 .. MaxRecords
        /\ sequence \in Nat /\ now \in Nat
    BY QueueFacts DEF IInv, Bounded, RecordsTracked
  <2>2. full \in BOOLEAN /\ powerLost \in BOOLEAN
    BY DEF IInv, Bounded
  <2>3. damaged \subseteq RecordIds
    BY <2>1, StoreAssumption DEF IInv, RecordsTracked, RecordIds
  <2> QED BY <2>1, <2>2, <2>3 DEF TypeOK, StoreTypeOK, IInv, Bounded
<1> QED BY <1>1, IInvHolds, PTL

\* No record that was accepted for storage vanishes between dict, queue and
\* upstream.
THEOREM NothingLostSilently == Spec => []NoSilentLoss
<1>1. IInv => NoSilentLoss
  BY DEF IInv
<1> QED BY <1>1, IInvHolds, PTL

\* The queue is in order, and holds the valid records that await upload or
\* confirmation and no other valid ones.
THEOREM QueueAgreesWithStates == Spec => []QueueMatchesStates
<1>1. IInv => QueueMatchesStates
  BY DEF IInv, QueueKept
<1> QED BY <1>1, IInvHolds, PTL

\* Whatever is forwarded, recovered, deleted or lost, the store's own verdict
\* on a record is right: invalid means damaged, and valid means never damaged.
THEOREM DamageIsTracked == Spec => []DamageTracked
<1>1. IInv => DamageTracked
  BY DEF IInv, RecordsTracked
<1> QED BY <1>1, IInvHolds, PTL

\* Every step moves the store in the sense of StoreMoves, or adds to it, or
\* leaves it alone.
LEMMA EveryStepMoves ==
    ASSUME IInv, Next
    PROVE  \/ StoreMoves
           \/ /\ Stored \subseteq DOMAIN records'
              /\ Queued \subseteq Queued'
              /\ sent' = {}
<1>1. CASE BufferRecord
  <2>1. CASE Create
    <3>1. /\ DOMAIN records' = Stored \cup {sequence'}
          /\ pending' = Append(pending, sequence + 1)
          /\ sent' = {}
      BY <1>1, <2>1 DEF Create, BufferRecord
    <3>2. DOMAIN pending \subseteq DOMAIN pending' /\
          \A i \in DOMAIN pending : pending'[i] = pending[i]
      BY <3>1, QueueFacts, AppendProperties, LenProperties
    <3>3. ASSUME NEW s \in Queued PROVE s \in Queued'
      <4>1. PICK i \in DOMAIN pending : s = pending[i]
        BY DEF Queued
      <4> QED BY <3>2, <4>1 DEF Queued
    <3> QED BY <3>1, <3>3
  <2>2. CASE CreateRefused
    BY <1>1, <2>2 DEF CreateRefused, BufferRecord, Stored, Queued
  <2> QED BY <1>1, <2>1, <2>2 DEF BufferRecord
<1>2. CASE Forward
  BY <1>2, ForwardMoves DEF Forward
<1>3. ASSUME NEW state, SetLink(state)
      PROVE  Stored \subseteq DOMAIN records' /\ Queued \subseteq Queued' /\ sent' = {}
  BY <1>3 DEF SetLink, storeVars, Stored, Queued
<1>4. ASSUME NEW s \in Stored, Damage(s)
      PROVE  Stored \subseteq DOMAIN records' /\ Queued \subseteq Queued' /\ sent' = {}
  BY <1>4 DEF Damage, Corrupt, Stored, Queued
<1>5. CASE Maintain
  BY <1>5, MaintainMoves
<1> QED BY <1>1, <1>2, <1>3, <1>4, <1>5 DEF Next

\* Power losses and recoveries cost nothing but damaged records, and nothing
\* leaves the queue that was not taken upstream in that step or damaged.
THEOREM ValidRecordsKept == Spec => ValidRecordsSurvive
<1> DEFINE Survive == /\ \A s \in Stored : records[s].valid => s \in DOMAIN records'
                      /\ \A s \in Queued \ Queued' : s \in sent' \/ ~records[s].valid
<1>1. ASSUME IInv, [Next]_vars PROVE [Survive]_vars
  <2>1. CASE StoreMoves
    BY <2>1 DEF StoreMoves, Invalid
  <2>2. CASE Stored \subseteq DOMAIN records' /\ Queued \subseteq Queued'
    BY <2>2
  <2> QED BY <1>1, <2>1, <2>2, EveryStepMoves
<1>2. IInv /\ [Next]_vars => [Survive]_vars
  BY <1>1
<1> QED BY <1>2, IInvHolds, PTL DEF Spec, ValidRecordsSurvive

\* What the upstream confirmed is never sent to it again.
THEOREM ConfirmedNotResent == Spec => NoUploadOnceConfirmed
<1> DEFINE Quiet == \A s \in Stored :
                       records[s].state \in {"RETAINED", "DELETED"} => s \notin sent'
<1>1. ASSUME IInv, [Next]_vars PROVE [Quiet]_vars
  <2>1. CASE StoreMoves
    BY <1>1, <2>1, QueueFacts DEF StoreMoves
  <2>2. CASE sent' = {}
    BY <2>2
  <2> QED BY <1>1, <2>1, <2>2, EveryStepMoves
<1>2. IInv /\ [Next]_vars => [Quiet]_vars
  BY <1>1
<1> QED BY <1>2, IInvHolds, PTL DEF Spec, NoUploadOnceConfirmed

\* One call with the link up clears the store: nothing waits afterwards, and
\* every record ever accepted is with the upstream or was damaged; it stays
\* so, because neither is ever taken back.
OneCallForwardsAll ==
    [][/\ link = "up" /\ Forward =>
             /\ Queued' = {}
             /\ \A s \in 1 .. sequence' : s \in taken' \/ s \in damaged'
       /\ taken \subseteq taken' /\ damaged \subseteq damaged']_vars

\* The safety half of EveryRecordForwarded: what fairness has to provide is a
\* single call of forward_upstream() while the link is up.
THEOREM OneCallSuffices == Spec => OneCallForwardsAll
<1> DEFINE Clears == link = "up" /\ Forward =>
                        /\ Queued' = {}
                        /\ \A s \in 1 .. sequence' : s \in taken' \/ s \in damaged'
           Grows == taken \subseteq taken' /\ damaged \subseteq damaged'
<1>1. ASSUME IInv PROVE Clears
  <2> SUFFICES ASSUME link = "up", Forward
               PROVE  /\ Queued' = {}
                      /\ \A s \in 1 .. sequence' : s \in taken' \/ s \in damaged'
    OBVIOUS
  <2>1. ForwardUpstream([s \in Queued |-> "accepted"])
    BY DEF Forward
  <2> DEFINE outcome == [s \in Queued |-> "accepted"]
             Accepted == {s \in Queued : outcome[s] = "accepted"}
  <2>2. Accepted = Queued
    OBVIOUS
  <2>3. pending' = Without(pending, Queued)
    BY <2>1, <2>2 DEF ForwardUpstream, Unconfirmed
  <2>4. Queued' = {}
    BY <1>1, <2>3, QueueWithout
  <2>5. /\ sent' = Queued /\ taken' = taken \cup sent'
        /\ sequence' = sequence /\ damaged' = damaged
    BY <2>1 DEF ForwardUpstream
  <2>6. \A s \in 1 .. sequence' : s \in taken' \/ s \in damaged'
    BY <1>1, <2>5 DEF IInv, NoSilentLoss
  <2> QED BY <2>4, <2>6
<1>2. ASSUME [Next]_vars PROVE Grows
  <2>1. CASE Forward
    BY <2>1 DEF Forward, ForwardUpstream
  <2>2. CASE BufferRecord
    BY <2>2 DEF BufferRecord
  <2>3. ASSUME NEW state, SetLink(state) PROVE Grows
    BY <2>3 DEF SetLink
  <2>4. ASSUME NEW s, Damage(s) PROVE Grows
    BY <2>4 DEF Damage
  <2>5. CASE Maintain
    BY <2>5 DEF Maintain
  <2>6. CASE UNCHANGED vars
    BY <2>6 DEF vars
  <2> QED BY <1>2, <2>1, <2>2, <2>3, <2>4, <2>5, <2>6 DEF Next
<1>3. IInv /\ [Next]_vars => [Clears /\ Grows]_vars
  BY <1>1, <1>2
<1> QED BY <1>3, IInvHolds, PTL DEF Spec, OneCallForwardsAll

-----------------------------------------------------------------------------
(* The refinement of Delivery.                                             *)

\* What the invariant leaves open: no record leaves the store but for damage.
NoneLost == \A s \in 1 .. sequence : s \in Stored \/ s \in damaged

RefInv == IInv /\ NoneLost

Awaiting == {"PENDING_UPLOAD", "UPLOADED"}

Fates == [s \in RecordIds |-> FateOf(s)]

\* Only a new record moves the numbering, and damage is for ever.
LEMMA NumberingKept ==
    ASSUME Next, ~(BufferRecord /\ Create)
    PROVE  sequence' = sequence /\ damaged \subseteq damaged'
<1>1. CASE BufferRecord
  BY <1>1 DEF BufferRecord, CreateRefused
<1>2. CASE Forward
  BY <1>2 DEF Forward, ForwardUpstream
<1>3. ASSUME NEW state, SetLink(state) PROVE sequence' = sequence /\ damaged' = damaged
  BY <1>3 DEF SetLink, storeVars
<1>4. ASSUME NEW s \in Stored, Damage(s)
      PROVE  sequence' = sequence /\ damaged \subseteq damaged'
  BY <1>4 DEF Damage, Corrupt
<1>5. CASE Maintain
  BY <1>5 DEF Maintain, DetectCorruption, PowerLoss, Recover, Delete, Tick
<1> QED BY <1>1, <1>2, <1>3, <1>4, <1>5 DEF Next

LEMMA NoneLostKept ==
    ASSUME RefInv, [Next]_vars
    PROVE  NoneLost'
<1>1. CASE BufferRecord /\ Create
  <2>1. /\ sequence' = sequence + 1 /\ damaged' = damaged
        /\ DOMAIN records' = Stored \cup {sequence + 1}
    BY <1>1 DEF BufferRecord, Create
  <2>2. \A s \in 1 .. sequence + 1 : s \in 1 .. sequence \/ s = sequence + 1
    BY QueueFacts DEF RefInv
  <2> QED BY <2>1, <2>2 DEF RefInv, NoneLost, Stored
<1>2. CASE Next /\ ~(BufferRecord /\ Create)
  <2>1. sequence' = sequence /\ damaged \subseteq damaged'
    BY <1>2, NumberingKept
  <2>2. Stored \ DOMAIN records' \subseteq Invalid
    BY <1>2, EveryStepMoves DEF RefInv, StoreMoves
  <2>3. Invalid \subseteq damaged
    BY QueueFacts DEF RefInv, Invalid
  <2> QED BY <2>1, <2>2, <2>3 DEF RefInv, NoneLost, Stored
<1>3. CASE UNCHANGED vars
  BY <1>3 DEF vars, RefInv, NoneLost, Stored
<1> QED BY <1>1, <1>2, <1>3

LEMMA RefInvHolds == Spec => []RefInv
<1>1. Init => RefInv
  <2> SUFFICES ASSUME Init PROVE NoneLost
    BY InitIInv DEF RefInv
  <2> QED BY DEF Init, StoreInit, NoneLost
<1>2. RefInv /\ [Next]_vars => RefInv'
  BY NextIInv, NoneLostKept DEF RefInv
<1> QED BY <1>1, <1>2, PTL DEF Spec

-----------------------------------------------------------------------------
(* How a step moves fates.                                                 *)

\* What the invariant says of fates: what waits is queued and what is queued
\* waits, or is damaged.
LEMMA FateFacts ==
    ASSUME RefInv, NEW s \in RecordIds
    PROVE  /\ s \in Nat /\ sequence \in Nat
           /\ s > sequence => s \notin Stored /\ s \notin damaged
           /\ s <= sequence /\ s \notin damaged =>
                /\ s \in Stored
                /\ s \in Queued <=> records[s].state \in Awaiting
           /\ FateOf(s) \in {"absent", "waiting", "delivered", "damaged"}
           /\ FateOf(s) = "absent" <=> s > sequence
           /\ s \in Queued => FateOf(s) \in {"waiting", "damaged"}
<1>1. s \in Nat /\ s >= 1 /\ sequence \in Nat /\ damaged \subseteq 1 .. sequence
  BY StoreAssumption DEF RecordIds, RefInv, IInv, RecordsTracked
<1>2. s > sequence => s \notin Stored /\ s \notin damaged
  BY <1>1, QueueFacts DEF RefInv
<1>3. s <= sequence /\ s \notin damaged => s \in Stored
  BY <1>1 DEF RefInv, NoneLost
<1>4. s <= sequence /\ s \notin damaged => (s \in Queued <=> records[s].state \in Awaiting)
  BY <1>3, QueueFacts DEF RefInv, Awaiting
<1>5. s \in Queued => s <= sequence
  BY <1>1, QueueFacts DEF RefInv
<1> QED BY <1>1, <1>2, <1>3, <1>4, <1>5 DEF FateOf, Awaiting

\* A record keeps its fate in a step that neither creates nor damages one and
\* does not take it out of those that await upload, or put it there.
LEMMA SameFate ==
    ASSUME RefInv, NEW s \in RecordIds, UNCHANGED <<sequence, damaged>>,
           s \in Stored \ damaged =>
              /\ s \in DOMAIN records'
              /\ records'[s].state \in Awaiting <=> records[s].state \in Awaiting
    PROVE  FateOf(s)' = FateOf(s)
  BY FateFacts DEF FateOf, Stored, Awaiting

\* A step that leaves every fate alone and sends nothing is a rest.
LEMMA AtRest ==
    ASSUME sent' = {}, \A s \in RecordIds : FateOf(s)' = FateOf(s)
    PROVE  Promise!Next
  BY DEF Promise!Next, Promise!Rest

LEMMA CreateAccepts ==
    ASSUME RefInv, BufferRecord, Create
    PROVE  Promise!Next
<1>0. PICK new \in Nat : new = sequence + 1
  BY QueueFacts DEF RefInv
<1>1. /\ sequence' = new /\ damaged' = damaged /\ sent' = {} /\ new <= MaxRecords
      /\ DOMAIN records' = Stored \cup {new}
      /\ records'[new].state = "PENDING_UPLOAD"
      /\ \A s \in Stored \ {new} : records'[s] = records[s]
  BY <1>0, QueueFacts DEF RefInv, Create, BufferRecord
<1>2. new \in RecordIds /\ sequence \in Nat
  BY <1>0, <1>1, QueueFacts DEF RefInv, RecordIds
<1>3. FateOf(new) = "absent" /\ FateOf(new)' = "waiting"
  <2>1. new \in Nat /\ new > sequence /\ new \notin damaged
    BY <1>0, <1>1, <1>2, FateFacts
  <2>2. ~(new > sequence') /\ new \notin damaged' /\ new \in DOMAIN records'
    BY <1>1, <2>1
  <2> QED BY <1>1, <2>1, <2>2 DEF FateOf, Stored
<1>4. ASSUME NEW s \in RecordIds, s # new PROVE FateOf(s)' = FateOf(s)
  <2>1. s > sequence' <=> s > sequence
    BY <1>0, <1>1, <1>2, <1>4, FateFacts
  <2>2. s \in Stored' <=> s \in Stored
    BY <1>1, <1>4 DEF Stored
  <2> QED BY <1>1, <1>4, <2>1, <2>2 DEF FateOf, Stored
<1>5. \A r \in RecordIds : r < new => FateOf(r) # "absent"
  BY <1>0, <1>2, FateFacts
<1>6. Fates' = [Fates EXCEPT ![new] = "waiting"]
  BY <1>2, <1>3, <1>4 DEF Fates
<1>7. Promise!Accept(new)
  BY <1>1, <1>2, <1>3, <1>5, <1>6 DEF Promise!Accept, Fates
<1> QED BY <1>2, <1>7 DEF Promise!Next

LEMMA DamageSpoils ==
    ASSUME RefInv, NEW s \in Stored, Damage(s)
    PROVE  Promise!Next
<1>1. /\ damaged' = damaged \cup {s} /\ sent' = {} /\ sequence' = sequence
      /\ DOMAIN records' = Stored
      /\ \A t \in Stored : t # s => records'[t] = records[t]
  BY QueueFacts DEF RefInv, Damage, Corrupt
<1>2. s \in RecordIds /\ s <= sequence
  BY QueueFacts DEF RefInv, IInv, Bounded, RecordIds
<1>3. FateOf(s) # "absent" /\ FateOf(s)' = "damaged"
  BY <1>1, <1>2, FateFacts DEF FateOf
<1>4. ASSUME NEW t \in RecordIds, t # s PROVE FateOf(t)' = FateOf(t)
  BY <1>1, <1>4, FateFacts DEF FateOf, Stored
<1>5. Fates' = [Fates EXCEPT ![s] = "damaged"]
  BY <1>2, <1>3, <1>4 DEF Fates
<1>6. Promise!Spoil(s)
  BY <1>1, <1>2, <1>3, <1>5 DEF Promise!Spoil, Fates
<1> QED BY <1>2, <1>6 DEF Promise!Next

\* What is sent was queued, so it waited or is damaged; what was answered is
\* delivered, and the rest waits on.
LEMMA ForwardSends ==
    ASSUME RefInv, NEW outcome, ForwardUpstream(outcome)
    PROVE  Promise!Next
<1> DEFINE Accepted == {s \in Queued : outcome[s] = "accepted"}
<1>1. /\ records' = [s \in Stored |-> IF s \in Queued
                                      THEN AfterUpload(records[s], outcome[s])
                                      ELSE records[s]]
      /\ sent' = {s \in Queued : outcome[s] \in {"accepted", "unanswered"}}
      /\ UNCHANGED <<sequence, damaged>>
  BY DEF ForwardUpstream
<1>2. /\ Queued \subseteq RecordIds /\ Queued \subseteq Stored
      /\ records \in [Stored -> Record]
  BY QueueFacts DEF RefInv, IInv, Bounded, RecordIds
<1>3. Accepted \subseteq sent' /\ sent' \subseteq RecordIds
  BY <1>1, <1>2
<1>4. \A s \in sent' : FateOf(s) \in {"waiting", "damaged"}
  BY <1>1, <1>2, FateFacts
<1>5. ASSUME NEW s \in RecordIds
      PROVE  FateOf(s)' = IF s \in Accepted /\ FateOf(s) = "waiting"
                          THEN "delivered" ELSE FateOf(s)
  <2>1. CASE s \in Accepted /\ s \notin damaged
    <3>1. records'[s].state = "RETAINED" /\ s \in Stored
      BY <1>1, <1>2, <2>1 DEF AfterUpload, Record
    <3>2. DOMAIN records' = Stored
      BY <1>1
    <3>3. s <= sequence /\ FateOf(s) = "waiting"
      BY <1>2, <2>1, <3>1, FateFacts DEF FateOf
    <3>4. FateOf(s)' = "delivered"
      BY <1>1, <2>1, <3>1, <3>2, <3>3 DEF FateOf, Stored
    <3> QED BY <2>1, <3>3, <3>4
  <2>2. CASE s \in damaged
    BY <1>1, <2>2, FateFacts DEF FateOf
  <2>3. CASE s \notin Accepted
    <3>1. s \in Stored \ damaged =>
             /\ s \in DOMAIN records'
             /\ records'[s].state \in Awaiting <=> records[s].state \in Awaiting
      <4>1. CASE s \in Queued
        <5>1. records'[s] = AfterUpload(records[s], outcome[s]) /\ s \in DOMAIN records'
          BY <1>1, <1>2, <4>1
        <5>2. outcome[s] # "accepted"
          BY <2>3, <4>1
        <5>3. s \notin damaged => records[s].state \in Awaiting
          BY <1>2, <4>1, FateFacts
        <5>4. records'[s].state \in {"UPLOADED", records[s].state}
          BY <1>2, <4>1, <5>1, <5>2 DEF AfterUpload, Record
        <5> QED BY <5>1, <5>3, <5>4 DEF Awaiting
      <4>2. CASE s \notin Queued
        BY <1>1, <4>2
      <4> QED BY <4>1, <4>2
    <3> QED BY <1>1, <2>3, <3>1, SameFate
  <2> QED BY <2>1, <2>2, <2>3
<1> HIDE DEF Accepted
<1>6. Fates' = [s \in RecordIds |-> IF s \in Accepted /\ Fates[s] = "waiting"
                                    THEN "delivered" ELSE Fates[s]]
  BY <1>5 DEF Fates
<1>7. Promise!Send(sent', Accepted)
  BY <1>3, <1>4, <1>6 DEF Promise!Send, Fates
<1> QED BY <1>3, <1>7 DEF Promise!Next

\* Nothing else moves a fate: what recovery drops is damaged, and what is
\* deleted was delivered, or is damaged.
LEMMA MaintainRests ==
    ASSUME RefInv, Maintain
    PROVE  Promise!Next
<1>1. /\ sent' = {} /\ damaged' = damaged /\ Invalid \subseteq damaged
      /\ sequence' = sequence
      /\ records \in [Stored -> Record]
      /\ Stored \ damaged \subseteq {s \in Stored : records[s].valid}
  BY QueueFacts
  DEF RefInv, Maintain, Invalid, DetectCorruption, PowerLoss, Recover, Delete, Tick
<1>2. ASSUME NEW s \in RecordIds, s \in Stored \ damaged
      PROVE  /\ s \in DOMAIN records'
             /\ records'[s].state \in Awaiting <=> records[s].state \in Awaiting
  <2>1. s <= sequence
    BY <1>2, FateFacts
  <2>2. CASE DetectCorruption \/ PowerLoss \/ Recover \/ Tick
    BY <1>1, <1>2, <2>2 DEF DetectCorruption, PowerLoss, Recover, Tick, Stored, Invalid
  <2>3. ASSUME NEW t \in Stored, Delete(t)
        PROVE  /\ s \in DOMAIN records'
               /\ records'[s].state \in Awaiting <=> records[s].state \in Awaiting
    <3>1. CASE s = t
      <4>1. s \in DOMAIN records' /\ records'[s].state = "DELETED"
        BY <1>1, <1>2, <2>3, <3>1 DEF Delete, Record
      <4>2. records[s].state \notin Awaiting
        BY <1>2, <2>1, <2>3, <3>1, FateFacts DEF Delete
      <4> QED BY <4>1, <4>2 DEF Awaiting
    <3>2. CASE s # t
      BY <1>1, <1>2, <2>3, <3>2 DEF Delete
    <3> QED BY <3>1, <3>2
  <2> QED BY <2>2, <2>3 DEF Maintain
<1>3. \A s \in RecordIds : FateOf(s)' = FateOf(s)
  BY <1>1, <1>2, SameFate
<1> QED BY <1>1, <1>3, AtRest

-----------------------------------------------------------------------------
\* Store-and-forward implements Delivery: whatever order buffering,
\* forwarding, power loss, recovery, damage and deletion come in, each record
\* is accepted once, is sent while it waits and not once it was delivered, and
\* only damage takes it off that way.
THEOREM StoreImplementsDelivery == Spec => DeliverySpec
<1>1. Init => Promise!Init
  <2> SUFFICES ASSUME Init PROVE Promise!Init
    OBVIOUS
  <2>1. sequence = 0 /\ sent = {}
    BY DEF Init, StoreInit
  <2>2. ASSUME NEW s \in RecordIds PROVE FateOf(s) = "absent"
    BY <2>1, StoreAssumption DEF FateOf, RecordIds
  <2> QED BY <2>1, <2>2 DEF Promise!Init
<1>2. ASSUME RefInv, [Next]_vars
      PROVE  [Promise!Next]_<<Fates, sent>>
  <2>1. CASE BufferRecord
    <3>1. CASE Create
      BY <1>2, <2>1, <3>1, CreateAccepts
    <3>2. CASE CreateRefused
      <4>1. sent' = {} /\ UNCHANGED <<records, sequence, damaged>>
        BY <2>1, <3>2 DEF BufferRecord, CreateRefused
      <4>2. \A s \in RecordIds : FateOf(s)' = FateOf(s)
        BY <4>1 DEF FateOf, Stored
      <4> QED BY <4>1, <4>2, AtRest
    <3> QED BY <2>1, <3>1, <3>2 DEF BufferRecord
  <2>2. CASE Forward
    BY <1>2, <2>2, ForwardSends DEF Forward
  <2>3. ASSUME NEW state, SetLink(state) PROVE Promise!Next
    <3>1. sent' = {} /\ UNCHANGED <<records, sequence, damaged>>
      BY <2>3 DEF SetLink, storeVars
    <3>2. \A s \in RecordIds : FateOf(s)' = FateOf(s)
      BY <3>1 DEF FateOf, Stored
    <3> QED BY <3>1, <3>2, AtRest
  <2>4. ASSUME NEW s \in Stored, Damage(s) PROVE Promise!Next
    BY <1>2, <2>4, DamageSpoils
  <2>5. CASE Maintain
    BY <1>2, <2>5, MaintainRests
  <2>6. CASE UNCHANGED vars
    BY <2>6 DEF vars, Fates, FateOf, Stored
  <2> QED BY <1>2, <2>1, <2>2, <2>3, <2>4, <2>5, <2>6 DEF Next
<1>3. RefInv /\ [Next]_vars => [Promise!Next]_<<[s \in RecordIds |-> FateOf(s)], sent>>
  BY <1>2 DEF Fates
<1> QED BY <1>1, <1>3, RefInvHolds, PTL DEF Spec, DeliverySpec, Promise!Spec
=============================================================================
