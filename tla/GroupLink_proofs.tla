-------------------------- MODULE GroupLink_proofs --------------------------
(***************************************************************************)
(* What the field bus promises, for any set of addresses, any number space *)
(* and window, any limit of retries and any bounds: answers are processed  *)
(* once and in order, none that is new is dropped, and the health of a     *)
(* link tells what befell its traffic.                                     *)
(***************************************************************************)
EXTENDS GroupLink, FiniteSetTheorems, SequenceTheorems, WellFoundedInduction, TLAPS

-----------------------------------------------------------------------------
(* Numbers.                                                                *)

LEMMA LeastNumber ==
    ASSUME NEW S \in SUBSET Nat, S # {}
    PROVE  \E i \in S : \A j \in S : i <= j
<1> DEFINE R == OpToRel(<, Nat)
<1>1. S \subseteq Nat
  OBVIOUS
<1>2. PICK i \in S : \A j \in S : ~(<<j, i>> \in R)
  <2>1. IsWellFoundedOn(R, Nat)
    BY NatLessThanWellFounded
  <2> HIDE DEF R
  <2> QED BY <1>1, <2>1, WFMin, Zenon
<1>3. \A j \in S : ~(j < i)
  BY <1>1, <1>2 DEF OpToRel
<1> QED BY <1>1, <1>3

LEMMA GreatestNumber ==
    ASSUME NEW S \in SUBSET Nat, S # {}, NEW n \in Nat, \A i \in S : i <= n
    PROVE  \E i \in S : \A j \in S : j <= i
<1> DEFINE T == {n - i : i \in S}
<1>1. T \in SUBSET Nat /\ T # {}
  <2>1. \A i \in S : i \in Nat /\ n - i \in Nat
    OBVIOUS
  <2> QED BY <2>1
<1> HIDE DEF T
<1>2. PICK k \in T : \A j \in T : k <= j
  BY <1>1, LeastNumber
<1>3. PICK i \in S : k = n - i
  BY DEF T
<1>4. \A j \in S : n - j \in T
  BY DEF T
<1> QED BY <1>2, <1>3, <1>4

\* A set with 0 and the successor of each of its members holds every number:
\* there is no least number outside it.
LEMMA NumberInduction ==
    ASSUME NEW T, 0 \in T, \A i \in Nat : i \in T => i + 1 \in T
    PROVE  Nat \subseteq T
<1> SUFFICES ASSUME Nat \ T # {} PROVE FALSE
  OBVIOUS
<1>1. PICK i \in Nat \ T : \A j \in Nat \ T : i <= j
  <2>1. Nat \ T \in SUBSET Nat
    OBVIOUS
  <2> QED BY <2>1, LeastNumber
<1>2. i # 0 /\ i - 1 \in Nat /\ ~(i <= i - 1)
  OBVIOUS
<1> QED BY <1>1, <1>2

LEMMA FirstIsLeast ==
    ASSUME NEW S \in SUBSET Nat, S # {}
    PROVE  First(S) \in S /\ \A j \in S : First(S) <= j
<1>1. \E i \in S : \A j \in S : i <= j
  BY LeastNumber
<1> QED BY <1>1 DEF First

LEMMA NumberSpace ==
    /\ Modulus \in Nat /\ Half \in Nat /\ 2 * Half <= Modulus
    /\ None \notin SequenceNumber
  BY TrackerAssumption, SMT DEF Half, SequenceNumber

-----------------------------------------------------------------------------
(* The tracker.                                                            *)

\* What is ahead of the newest number, without the arithmetic of the modulus.
LEMMA AheadFacts ==
    ASSUME NEW t \in Tracker, NEW s \in SequenceNumber, t.newest # None
    PROVE  /\ t.newest \in SequenceNumber
           /\ Ahead(t, s) = IF s >= t.newest THEN s - t.newest ELSE s - t.newest + Modulus
           /\ Ahead(t, s) \in 0 .. Modulus - 1
<1>1. t.newest \in 0 .. Modulus - 1 /\ s \in 0 .. Modulus - 1 /\ Modulus \in Nat
  BY TrackerAssumption DEF Tracker, SequenceNumber
<1> DEFINE d == s - t.newest
<1>2. d \in Int /\ d < Modulus /\ d > -Modulus
  BY <1>1
<1>3. Ahead(t, s) = d % Modulus
  BY DEF Ahead
<1> HIDE DEF d
<1>4. d >= 0 => d % Modulus = d
  BY <1>1, <1>2, SMT
<1>5. d < 0 => d % Modulus = d + Modulus
  BY <1>1, <1>2, SMT
<1>6. Ahead(t, s) = IF d >= 0 THEN d ELSE d + Modulus
  BY <1>2, <1>3, <1>4, <1>5
<1>7. d >= 0 <=> s >= t.newest
  BY <1>1 DEF d
<1> QED BY <1>1, <1>6, <1>7 DEF SequenceNumber, d

LEMMA ClassifiedNew ==
    ASSUME NEW t \in Tracker, NEW s \in SequenceNumber
    PROVE  Classify(t, s) = "new" <=>
              \/ t.newest = None
              \/ s \notin t.seen /\ Ahead(t, s) \in 1 .. Half - 1
<1>1. CASE t.newest = None
  <2>1. Classify(t, s) = "new"
    BY <1>1 DEF Classify
  <2> QED BY <1>1, <2>1
<1>2. CASE t.newest # None
  <2>1. Ahead(t, s) \in Nat /\ Half \in Nat
    BY <1>2, AheadFacts, NumberSpace
  <2> QED BY <1>2, <2>1 DEF Classify
<1> QED BY <1>1, <1>2

-----------------------------------------------------------------------------
(* One registration.                                                       *)

Distinct(r) ==
    \A i, j \in DOMAIN r.accepted : r.accepted[i].sequence = r.accepted[j].sequence => i = j

Forward(r) ==
    \A i \in DOMAIN r.accepted \ {1} :
        LET lag == r.accepted[i - 1].sequence - r.accepted[i].sequence
        IN  lag < 0 \/ lag > Half

\* The tracker remembers what was processed, and the last of it as the newest:
\* this is why nothing is processed twice, and nothing out of order.
Remembered(r) ==
    /\ r.tracker.seen = {r.accepted[i].sequence : i \in DOMAIN r.accepted}
    /\ r.accepted = <<>> => r.tracker.newest = None
    /\ r.accepted # <<>> => r.tracker.newest = r.accepted[Len(r.accepted)].sequence

Counted(l) ==
    CASE l.state \in {"COMM_HEALTHY", "RECOVERY"} -> l.failures = 0
      [] l.state = "RETRY"                        -> l.failures \in 1 .. Retries
      [] l.state = "DEGRADED"                     -> l.failures = Retries + 1
      [] l.state = "COMM_FAULT"                   -> l.failures >= 1

Sound(r) ==
    /\ r \in Registration
    /\ Distinct(r)
    /\ Forward(r)
    /\ Remembered(r)
    /\ Counted(r.comm)

LEMMA FreshSound == Sound(FreshRegistration)
<1> DEFINE r == FreshRegistration
<1>1. <<>> \in Seq(Frame)
  BY EmptySeq
<1>2. r.tracker = FreshTracker /\ r.comm = FreshLink /\ r.awaiting = FALSE /\ r.accepted = <<>>
  BY DEF FreshRegistration
<1>3. FreshTracker \in Tracker /\ FreshTracker.seen = {} /\ FreshTracker.newest = None
  BY DEF FreshTracker, Tracker
<1>4. FreshLink \in Link /\ Counted(FreshLink)
  BY DEF FreshLink, Link, CommState, Counted
<1>5. r \in Registration
  BY <1>1, <1>3, <1>4 DEF FreshRegistration, Registration
<1> HIDE DEF r
<1>6. DOMAIN r.accepted = {}
  BY <1>2
<1> QED BY <1>2, <1>3, <1>4, <1>5, <1>6 DEF Sound, Distinct, Forward, Remembered, r

\* An answer that is processed joins the history; any other changes nothing.
Grown(r, s) ==
    /\ Len(s.accepted) = Len(r.accepted) + 1
    /\ \A i \in DOMAIN r.accepted : s.accepted[i] = r.accepted[i]
    /\ s.comm.failures = 0
    /\ s.awaiting = FALSE

LEMMA HandledSound ==
    ASSUME NEW r, Sound(r), NEW f \in Frame
    PROVE  /\ Sound(Handled(r, f))
           /\ \/ Handled(r, f) = r /\ Classify(r.tracker, f.sequence) # "new"
              \/ /\ Grown(r, Handled(r, f))
                 /\ Handled(r, f).accepted[Len(r.accepted) + 1] = f
<1> DEFINE n == Len(r.accepted)
           m == f.sequence
           t == r.tracker
           s == Handled(r, f)
<1>1. /\ t \in Tracker /\ r.comm \in Link /\ r.accepted \in Seq(Frame)
      /\ n \in Nat /\ DOMAIN r.accepted = 1 .. n
      /\ m \in SequenceNumber
      /\ \A i \in 1 .. n : r.accepted[i].sequence \in SequenceNumber
  <2>1. t \in Tracker /\ r.comm \in Link /\ r.accepted \in Seq(Frame) /\ m \in SequenceNumber
    BY DEF Sound, Registration, Frame
  <2>2. n \in Nat /\ DOMAIN r.accepted = 1 .. n /\ \A i \in 1 .. n : r.accepted[i] \in Frame
    BY <2>1, LenProperties, ElementOfSeq
  <2> QED BY <2>1, <2>2 DEF Frame
<1>2. CASE Classify(t, m) # "new"
  BY <1>2 DEF Handled
<1>3. CASE Classify(t, m) = "new"
  <2> DEFINE l == RecordSuccess(r.comm)
             u == Record(t, m)
             q == Append(r.accepted, f)
  <2>1. s = [tracker |-> u, comm |-> l, awaiting |-> FALSE, accepted |-> q]
    BY <1>3 DEF Handled
  <2>2. /\ q \in Seq(Frame) /\ q # <<>> /\ Len(q) = n + 1 /\ DOMAIN q = 1 .. n + 1
        /\ q[n + 1] = f /\ \A i \in 1 .. n : q[i] = r.accepted[i]
    <3>1. q \in Seq(Frame) /\ q # <<>> /\ Len(q) = n + 1
          /\ q[n + 1] = f /\ \A i \in 1 .. n : q[i] = r.accepted[i]
      BY <1>1, AppendProperties
    <3> QED BY <3>1, LenProperties
  <2>3. l \in Link /\ l.failures = 0 /\ Counted(l)
    BY <1>1 DEF RecordSuccess, Link, CommState, Counted
  <2>4. \/ t.newest = None
        \/ m \notin t.seen /\ Ahead(t, m) \in 1 .. Half - 1
    BY <1>1, <1>3, ClassifiedNew
  <2>5. u.seen = t.seen \cup {m} /\ u.newest = m /\ u \in Tracker
    BY <1>1, <2>4 DEF Record, Tracker
  <2> HIDE DEF l, u, q
  <2>6. s \in Registration /\ s.tracker = u /\ s.comm = l /\ s.awaiting = FALSE /\ s.accepted = q
    BY <2>1, <2>2, <2>3, <2>5 DEF Registration
  <2> HIDE DEF s
  <2>7. m \notin t.seen
    <3>1. r.accepted = <<>> => t.seen = {}
      BY <1>1 DEF Sound, Remembered
    <3>2. t.newest = None => r.accepted = <<>>
      <4>1. r.accepted # <<>> => n \in 1 .. n
        BY <1>1, EmptySeq
      <4> QED BY <1>1, <4>1, NumberSpace DEF Sound, Remembered
    <3> QED BY <2>4, <3>1, <3>2
  <2>8. \A i \in 1 .. n : q[i].sequence # m
    BY <1>1, <2>2, <2>7 DEF Sound, Remembered
  <2>9. Distinct(s)
    <3> SUFFICES ASSUME NEW i \in 1 .. n + 1, NEW j \in 1 .. n + 1,
                        q[i].sequence = q[j].sequence
                 PROVE  i = j
      BY <2>2, <2>6 DEF Distinct
    <3>1. CASE i \in 1 .. n /\ j \in 1 .. n
      BY <1>1, <2>2, <3>1 DEF Sound, Distinct
    <3> QED BY <1>1, <2>2, <2>8, <3>1
  <2>10. Forward(s)
    <3> SUFFICES ASSUME NEW i \in 1 .. n + 1, i # 1
                 PROVE  \/ q[i - 1].sequence - q[i].sequence < 0
                        \/ q[i - 1].sequence - q[i].sequence > Half
      BY <2>2, <2>6 DEF Forward
    <3>1. CASE i \in 1 .. n
      <4>1. i - 1 \in 1 .. n
        BY <1>1, <3>1
      <4> QED BY <1>1, <2>2, <3>1, <4>1 DEF Sound, Forward
    <3>2. CASE i = n + 1
      <4> DEFINE g == r.accepted[n].sequence
      <4>1. n \in 1 .. n /\ i - 1 = n
        BY <1>1, <3>2
      <4>2. r.accepted # <<>>
        BY <4>1, <1>1
      <4>3. t.newest = g /\ g \in SequenceNumber /\ t.newest # None
        BY <1>1, <4>1, <4>2, NumberSpace DEF Sound, Remembered
      <4>4. Ahead(t, m) \in 1 .. Half - 1
        BY <2>4, <4>3
      <4>5. Ahead(t, m) = IF m >= g THEN m - g ELSE m - g + Modulus
        BY <1>1, <4>3, AheadFacts
      <4>6. g \in Nat /\ m \in Nat /\ Half \in Nat /\ Modulus \in Nat /\ 2 * Half <= Modulus
        BY <1>1, <4>3, NumberSpace DEF SequenceNumber
      <4>7. q[i - 1].sequence = g /\ q[i].sequence = m
        BY <2>2, <3>2, <4>1
      <4> HIDE DEF g, m
      <4>8. g - m < 0 \/ g - m > Half
        BY <4>4, <4>5, <4>6
      <4> QED BY <4>7, <4>8
    <3> QED BY <1>1, <3>1, <3>2
  <2>11. Remembered(s)
    <3>1. u.seen = {q[i].sequence : i \in 1 .. n + 1}
      <4>1. t.seen = {r.accepted[i].sequence : i \in 1 .. n}
        BY <1>1 DEF Sound, Remembered
      <4>2. \A i \in 1 .. n + 1 : i \in 1 .. n \/ i = n + 1
        BY <1>1
      <4>3. \A i \in 1 .. n : i \in 1 .. n + 1
        BY <1>1
      <4>4. n + 1 \in 1 .. n + 1
        BY <1>1
      <4> QED BY <2>2, <2>5, <4>1, <4>2, <4>3, <4>4
    <3> QED BY <2>2, <2>5, <2>6, <3>1 DEF Remembered
  <2>12. Sound(s)
    BY <2>3, <2>6, <2>9, <2>10, <2>11 DEF Sound
  <2>13. Grown(r, s) /\ s.accepted[n + 1] = f
    BY <1>1, <2>2, <2>3, <2>6 DEF Grown
  <2> QED BY <2>12, <2>13 DEF s
<1> QED BY <1>2, <1>3

-----------------------------------------------------------------------------
(* All that arrived.                                                       *)

AfterFrame(a, f, i) ==
    IF i = 0 THEN registrations[a]
    ELSE IF incoming[i].source = a THEN Handled(f[i - 1], incoming[i])
    ELSE f[i - 1]

\* The recursion of Collected defines a function.
LEMMA CollectedExists ==
    ASSUME NEW a, Len(incoming) \in Nat
    PROVE  \E f : f = [i \in 0 .. Len(incoming) |-> AfterFrame(a, f, i)]
<1> DEFINE T == {k \in Nat : \E f : f = [i \in 0 .. k |-> AfterFrame(a, f, i)]}
<1>1. 0 \in T
  <2> DEFINE f == [i \in 0 .. 0 |-> registrations[a]]
  <2>1. f = [i \in 0 .. 0 |-> AfterFrame(a, f, i)]
    BY DEF AfterFrame
  <2> QED BY <2>1
<1>2. ASSUME NEW k \in Nat, k \in T PROVE k + 1 \in T
  <2>1. PICK f : f = [i \in 0 .. k |-> AfterFrame(a, f, i)]
    BY <1>2
  <2> DEFINE g == [i \in 0 .. k + 1 |->
                     IF i # k + 1 THEN f[i]
                     ELSE IF incoming[k + 1].source = a THEN Handled(f[k], incoming[k + 1])
                     ELSE f[k]]
  <2>2. \A i \in 0 .. k : g[i] = f[i] /\ f[i] = AfterFrame(a, f, i)
    BY <2>1
  <2>3. g[k + 1] = IF incoming[k + 1].source = a THEN Handled(f[k], incoming[k + 1])
                                                 ELSE f[k]
    OBVIOUS
  <2>4. g = [i \in 0 .. k + 1 |-> g[i]]
    OBVIOUS
  <2> HIDE DEF g
  <2>5. ASSUME NEW i \in 0 .. k + 1 PROVE g[i] = AfterFrame(a, g, i)
    <3>1. CASE i = 0
      <4>1. 0 \in 0 .. k
        OBVIOUS
      <4>2. g[0] = AfterFrame(a, f, 0)
        BY <2>2, <4>1
      <4> QED BY <3>1, <4>2 DEF AfterFrame
    <3>2. CASE i \in 1 .. k
      <4>1. i - 1 \in 0 .. k /\ i \in 0 .. k
        BY <3>2
      <4>2. g[i] = AfterFrame(a, f, i) /\ g[i - 1] = f[i - 1]
        BY <2>2, <4>1
      <4> QED BY <3>2, <4>2 DEF AfterFrame
    <3>3. CASE i = k + 1
      <4>1. i - 1 = k /\ k \in 0 .. k /\ i # 0
        BY <3>3
      <4>2. g[k] = f[k]
        BY <2>2, <4>1
      <4> QED BY <2>3, <3>3, <4>1, <4>2 DEF AfterFrame
    <3> QED BY <3>1, <3>2, <3>3
  <2>6. g = [i \in 0 .. k + 1 |-> AfterFrame(a, g, i)]
    BY <2>4, <2>5
  <2> QED BY <2>6
<1> HIDE DEF T
<1>3. Nat \subseteq T
  BY <1>1, <1>2, NumberInduction
<1> QED BY <1>3 DEF T

LEMMA CollectedFacts ==
    ASSUME NEW a, incoming \in Seq(Frame)
    PROVE  /\ Collected(a)[0] = registrations[a]
           /\ \A i \in 1 .. Len(incoming) :
                 Collected(a)[i] = IF incoming[i].source = a
                                   THEN Handled(Collected(a)[i - 1], incoming[i])
                                   ELSE Collected(a)[i - 1]
<1> DEFINE c == Collected(a)
<1>1. Len(incoming) \in Nat
  BY LenProperties
<1>2. c = CHOOSE f : f = [i \in 0 .. Len(incoming) |-> AfterFrame(a, f, i)]
  BY DEF Collected, AfterFrame
<1>3. c = [i \in 0 .. Len(incoming) |-> AfterFrame(a, c, i)]
  BY <1>1, <1>2, CollectedExists
<1> HIDE DEF c
<1>4. \A i \in 0 .. Len(incoming) : c[i] = AfterFrame(a, c, i)
  BY <1>3
<1>5. c[0] = registrations[a]
  BY <1>1, <1>4 DEF AfterFrame
<1>6. \A i \in 1 .. Len(incoming) :
         c[i] = IF incoming[i].source = a THEN Handled(c[i - 1], incoming[i]) ELSE c[i - 1]
  BY <1>1, <1>4 DEF AfterFrame
<1> QED BY <1>5, <1>6 DEF c

\* What is excused stays excused: the history only grows.
LEMMA ExcusedGrows ==
    ASSUME NEW r, NEW s, NEW u, NEW f, Sound(s), Sound(u), Grown(s, u), Excused(f, r, s)
    PROVE  Excused(f, r, u)
<1>1. /\ Len(s.accepted) \in Nat /\ DOMAIN s.accepted = 1 .. Len(s.accepted)
      /\ DOMAIN u.accepted = 1 .. Len(s.accepted) + 1
  <2>1. s.accepted \in Seq(Frame) /\ u.accepted \in Seq(Frame)
    BY DEF Sound, Registration
  <2> QED BY <2>1, LenProperties DEF Grown
<1>2. PICK j \in DOMAIN s.accepted :
         \/ s.accepted[j].sequence >= f.sequence
         \/ j >= Len(r.accepted) /\ f.sequence - s.accepted[j].sequence >= Half
  BY DEF Excused
<1>3. j \in DOMAIN u.accepted /\ u.accepted[j] = s.accepted[j]
  BY <1>1, <1>2 DEF Grown
<1> QED BY <1>2, <1>3 DEF Excused

\* An answer is processed, or it is excused that it is not.
LEMMA HandledExcused ==
    ASSUME NEW r, NEW s, Sound(r), Sound(s), Len(r.accepted) <= Len(s.accepted),
           NEW f \in Frame
    PROVE  Excused(f, r, Handled(s, f))
<1> DEFINE n == Len(s.accepted)
           m == f.sequence
           t == s.tracker
<1>1. /\ t \in Tracker /\ n \in Nat /\ DOMAIN s.accepted = 1 .. n /\ Len(r.accepted) \in Nat
      /\ m \in SequenceNumber /\ m \in Int
      /\ \A i \in 1 .. n : s.accepted[i].sequence \in SequenceNumber
  <2>1. /\ t \in Tracker /\ s.accepted \in Seq(Frame) /\ r.accepted \in Seq(Frame)
        /\ m \in SequenceNumber
    BY DEF Sound, Registration, Frame
  <2>2. /\ n \in Nat /\ DOMAIN s.accepted = 1 .. n /\ Len(r.accepted) \in Nat
        /\ \A i \in 1 .. n : s.accepted[i] \in Frame
    BY <2>1, LenProperties, ElementOfSeq
  <2> QED BY <2>1, <2>2, NumberSpace DEF Frame, SequenceNumber
<1>2. CASE Classify(t, m) = "new"
  <2> DEFINE u == Handled(s, f)
  <2>1. Sound(u) /\ Grown(s, u) /\ u.accepted[n + 1] = f
    BY <1>2, HandledSound
  <2>2. n + 1 \in DOMAIN u.accepted
    <3>1. u.accepted \in Seq(Frame) /\ Len(u.accepted) = n + 1
      BY <2>1 DEF Sound, Registration, Grown
    <3> QED BY <1>1, <3>1, LenProperties
  <2> HIDE DEF u
  <2>3. u.accepted[n + 1].sequence >= f.sequence
    BY <1>1, <2>1
  <2> QED BY <2>2, <2>3 DEF Excused, u
<1>3. CASE Classify(t, m) # "new"
  <2>1. Handled(s, f) = s
    BY <1>3 DEF Handled
  <2>2. t.newest # None /\ (m \in t.seen \/ Ahead(t, m) \notin 1 .. Half - 1)
    BY <1>1, <1>3, ClassifiedNew
  <2>3. n \in 1 .. n /\ t.newest = s.accepted[n].sequence
    <3>1. s.accepted # <<>> /\ t.newest = s.accepted[n].sequence
      BY <2>2 DEF Sound, Remembered
    <3>2. n # 0
      BY <3>1, EmptySeq DEF Sound, Registration
    <3> QED BY <1>1, <3>1, <3>2
  <2>4. CASE m \in t.seen
    <3>1. PICK j \in 1 .. n : s.accepted[j].sequence = m
      BY <1>1, <2>4 DEF Sound, Remembered
    <3>2. s.accepted[j].sequence >= m
      BY <1>1, <3>1
    <3> QED BY <1>1, <2>1, <3>2 DEF Excused
  <2>5. CASE Ahead(t, m) \notin 1 .. Half - 1
    <3> DEFINE g == s.accepted[n].sequence
    <3>1. g \in SequenceNumber /\ t.newest = g /\ t.newest # None
      BY <1>1, <2>2, <2>3
    <3>2. /\ Ahead(t, m) = IF m >= g THEN m - g ELSE m - g + Modulus
          /\ Ahead(t, m) \in 0 .. Modulus - 1
      BY <1>1, <3>1, AheadFacts
    <3>3. g \in Nat /\ m \in Nat /\ Half \in Nat /\ Modulus \in Nat
      BY <1>1, <3>1, NumberSpace DEF SequenceNumber
    <3> HIDE DEF g, m
    <3>4. g >= m \/ m - g >= Half
      BY <2>5, <3>2, <3>3
    <3>5. n \in DOMAIN s.accepted /\ n >= Len(r.accepted)
      BY <1>1, <2>3
    <3> QED BY <2>1, <3>4, <3>5 DEF Excused, g, m
  <2> QED BY <2>2, <2>4, <2>5
<1> QED BY <1>2, <1>3

\* A registration after traffic: untouched, or with more processed and healthy.
Followed(r, s) ==
    \/ s = r
    \/ Len(s.accepted) > Len(r.accepted) /\ s.comm.failures = 0 /\ s.awaiting = FALSE

\* However much arrived, and in whatever order.
LEMMA CollectedSound ==
    ASSUME NEW a, incoming \in Seq(Frame), Sound(registrations[a])
    PROVE  LET r == registrations[a]
               s == Collected(a)[Len(incoming)]
           IN  /\ Sound(s)
               /\ Followed(r, s)
               /\ \A i \in DOMAIN incoming : incoming[i].source = a =>
                     Excused(incoming[i], r, s)
<1> DEFINE r == registrations[a]
           c == Collected(a)
           Holds(k) == /\ Sound(c[k])
                       /\ Followed(r, c[k])
                       /\ \A i \in 1 .. k : incoming[i].source = a =>
                             Excused(incoming[i], r, c[k])
           T == {k \in Nat : k <= Len(incoming) => Holds(k)}
<1>1. /\ Len(incoming) \in Nat /\ DOMAIN incoming = 1 .. Len(incoming)
      /\ \A i \in 1 .. Len(incoming) : incoming[i] \in Frame
  BY LenProperties, ElementOfSeq
<1>2. /\ c[0] = r
      /\ \A i \in 1 .. Len(incoming) :
            c[i] = IF incoming[i].source = a THEN Handled(c[i - 1], incoming[i]) ELSE c[i - 1]
  BY CollectedFacts
<1> HIDE DEF c
<1>3. 0 \in T
  BY <1>2 DEF Followed
<1>4. ASSUME NEW k \in Nat, k \in T PROVE k + 1 \in T
  <2> SUFFICES ASSUME k + 1 <= Len(incoming) PROVE Holds(k + 1)
    OBVIOUS
  <2> DEFINE f == incoming[k + 1]
  <2>1. Holds(k) /\ f \in Frame /\ k + 1 \in 1 .. Len(incoming)
    BY <1>1, <1>4
  <2>2. c[k + 1] = IF f.source = a THEN Handled(c[k], f) ELSE c[k]
    BY <1>2, <2>1
  <2>3. \A i \in 1 .. k + 1 : i \in 1 .. k \/ i = k + 1
    OBVIOUS
  <2>4. CASE f.source # a
    <3>1. c[k + 1] = c[k]
      BY <2>2, <2>4
    <3> QED BY <2>1, <2>3, <2>4, <3>1
  <2>5. CASE f.source = a
    <3> DEFINE u == Handled(c[k], f)
    <3>1. c[k + 1] = u
      BY <2>2, <2>5
    <3>2. Sound(u) /\ (u = c[k] \/ Grown(c[k], u))
      BY <2>1, HandledSound
    <3>3. Len(r.accepted) \in Nat /\ Len(c[k].accepted) \in Nat
      BY <2>1, LenProperties DEF Sound, Registration
    <3>4. Len(r.accepted) <= Len(c[k].accepted)
      BY <2>1, <3>3 DEF Followed
    <3>5. Excused(f, r, u)
      BY <2>1, <3>4, HandledExcused
    <3> HIDE DEF u
    <3>6. Followed(r, u)
      BY <2>1, <3>2, <3>3, <3>4 DEF Followed, Grown
    <3>7. \A i \in 1 .. k : incoming[i].source = a => Excused(incoming[i], r, u)
      <4> HIDE DEF f, r
      <4> QED BY <2>1, <3>2, ExcusedGrows
    <3> QED BY <2>3, <3>1, <3>2, <3>5, <3>6, <3>7
  <2> HIDE DEF Holds
  <2> QED BY <2>4, <2>5
<1> HIDE DEF T
<1>5. Nat \subseteq T
  BY <1>3, <1>4, NumberInduction
<1> QED BY <1>1, <1>5 DEF T, c

-----------------------------------------------------------------------------
(* The controller's numbers, and the nodes'.                               *)

\* Turns and numbers of answers count the members up to one.
UpTo(S, i) == {j \in S : j <= i}

LEMMA UpToFacts ==
    ASSUME NEW S \in SUBSET Nat, IsFiniteSet(S), NEW i \in Nat
    PROVE  IsFiniteSet(UpTo(S, i)) /\ Cardinality(UpTo(S, i)) \in Nat
<1>1. UpTo(S, i) \in SUBSET S
  BY DEF UpTo
<1> QED BY <1>1, FS_Subset, FS_CardinalityType

\* A round never takes more numbers than are left, and one that raises.
LEMMA RoundFits ==
    ASSUME TypeOK, masterSeq < Modulus
    PROVE  /\ Cardinality(Numbered) \in Nat
           /\ masterSeq + Cardinality(Numbered) + 1 <= Modulus
<1>1. Registered \subseteq Nat /\ IsFiniteSet(Registered)
  <2>1. Registered \in SUBSET Addresses
    BY DEF Registered
  <2> QED BY <2>1, FS_Subset, LinkAssumption
<1>2. masterSeq \in Nat /\ Modulus \in Nat
  BY NumberSpace DEF TypeOK
<1> DEFINE U(a) == UpTo(Registered, a)
<1>3. ASSUME NEW a \in Registered
      PROVE  IsFiniteSet(U(a)) /\ Turn(a) = Cardinality(U(a)) /\ Turn(a) \in Nat
  <2>1. a \in Nat /\ Turn(a) = Cardinality(U(a))
    BY <1>1 DEF Turn, UpTo
  <2> QED BY <1>1, <2>1, UpToFacts
<1>4. ASSUME NEW a \in Registered, NEW b \in Registered, a < b
      PROVE  Turn(a) < Turn(b)
  <2>1. a \in Nat /\ b \in Nat
    BY <1>1
  <2>2. U(a) \cup {b} \in SUBSET U(b) /\ b \notin U(a)
    <3>1. \A c \in Registered : c \in Nat /\ (c <= a => c <= b) /\ b <= b /\ ~(b <= a)
      BY <1>1, <1>4, <2>1
    <3> QED BY <3>1 DEF UpTo
  <2>3. Cardinality(U(a) \cup {b}) = Turn(a) + 1
    BY <1>3, <2>2, FS_AddElement
  <2>4. Cardinality(U(a) \cup {b}) <= Turn(b)
    BY <1>3, <2>2, FS_Subset
  <2> QED BY <1>3, <2>3, <2>4
<1>5. Numbered \subseteq Registered /\ \A a \in Numbered : masterSeq + Turn(a) < Modulus
  BY DEF Numbered
<1>6. CASE Numbered = {}
  BY <1>2, <1>6, FS_EmptySet
<1>7. CASE Numbered # {}
  <2> DEFINE S == {Turn(a) : a \in Numbered}
  <2>1. S \in SUBSET Nat /\ S # {}
    BY <1>3, <1>5, <1>7
  <2>2. \A i \in S : i <= Modulus
    <3> SUFFICES ASSUME NEW a \in Numbered PROVE Turn(a) <= Modulus
      OBVIOUS
    <3>1. Turn(a) \in Nat /\ masterSeq + Turn(a) < Modulus
      BY <1>3, <1>5
    <3> QED BY <1>2, <3>1
  <2>3. PICK i \in S : \A j \in S : j <= i
    <3> HIDE DEF S
    <3> QED BY <1>2, <2>1, <2>2, GreatestNumber
  <2>4. PICK a \in Numbered : \A b \in Numbered : Turn(b) <= Turn(a)
    BY <2>3
  <2>5. Numbered \in SUBSET U(a)
    <3> SUFFICES ASSUME NEW b \in Numbered, ~(b <= a) PROVE FALSE
      BY <1>5 DEF UpTo
    <3>1. a \in Registered /\ b \in Registered /\ a < b
      BY <1>1, <1>5
    <3>2. Turn(a) < Turn(b) /\ Turn(b) <= Turn(a)
      BY <1>4, <2>4, <3>1
    <3>3. Turn(a) \in Nat /\ Turn(b) \in Nat
      BY <1>3, <3>1
    <3> QED BY <3>2, <3>3
  <2>6. IsFiniteSet(Numbered) /\ Cardinality(Numbered) <= Turn(a)
    BY <1>3, <1>5, <2>5, FS_Subset
  <2>7. Cardinality(Numbered) \in Nat
    BY <2>6, FS_CardinalityType
  <2> QED BY <1>2, <1>3, <1>5, <2>6, <2>7
<1> QED BY <1>6, <1>7

\* The number of a node's answer to its request i.
AnswerNumber(n, answered, i) ==
    LET m == n.sequence + Cardinality(UpTo(answered, i))
    IN  IF m < Modulus THEN m ELSE Modulus

Raised(n, answered) ==
    {i \in answered : \/ n.inbox[i] = "CONFIG_READ"
                      \/ AnswerNumber(n, answered, i) = Modulus}

\* A node that raises nothing had numbers for all its answers.
LEMMA AnswersNumbered ==
    ASSUME NEW n \in Node, NEW answered \in SUBSET DOMAIN n.inbox
    PROVE  /\ \A i \in answered : AnswerNumber(n, answered, i) \in 0 .. Modulus
           /\ Raised(n, answered) = {} =>
                 /\ n.sequence + Cardinality(answered) \in 0 .. Modulus
                 /\ \A i \in answered : AnswerNumber(n, answered, i) \in SequenceNumber
           /\ Raised(n, answered) # {} => First(Raised(n, answered)) \in answered
<1>1. /\ n.sequence \in 0 .. Modulus /\ Modulus \in Nat
      /\ n.inbox \in Seq(Request) /\ Len(n.inbox) \in Nat
      /\ DOMAIN n.inbox = 1 .. Len(n.inbox)
  <2>1. n.sequence \in 0 .. Modulus /\ n.inbox \in Seq(Request)
    BY DEF Node
  <2> QED BY <2>1, LenProperties, NumberSpace
<1>2. /\ answered \in SUBSET (1 .. Len(n.inbox)) /\ answered \in SUBSET Nat
      /\ IsFiniteSet(answered) /\ Cardinality(answered) \in Nat
  <2>1. answered \in SUBSET (1 .. Len(n.inbox)) /\ answered \in SUBSET Nat
    BY <1>1
  <2>2. IsFiniteSet(1 .. Len(n.inbox))
    BY <1>1, FS_Interval
  <2>3. IsFiniteSet(answered)
    BY <2>1, <2>2, FS_Subset
  <2> QED BY <2>1, <2>3, FS_CardinalityType
<1>3. \A i \in answered : Cardinality(UpTo(answered, i)) \in Nat
  BY <1>2, UpToFacts
<1>4. \A i \in answered : AnswerNumber(n, answered, i) \in 0 .. Modulus
  BY <1>1, <1>3 DEF AnswerNumber
<1>5. ASSUME Raised(n, answered) = {}
      PROVE  /\ n.sequence + Cardinality(answered) \in 0 .. Modulus
             /\ \A i \in answered : AnswerNumber(n, answered, i) \in SequenceNumber
  <2>1. \A i \in answered : AnswerNumber(n, answered, i) # Modulus
    BY <1>5 DEF Raised
  <2>2. \A i \in answered : AnswerNumber(n, answered, i) \in SequenceNumber
    BY <1>1, <1>4, <2>1 DEF SequenceNumber
  <2>3. CASE answered = {}
    BY <1>1, <2>2, <2>3, FS_EmptySet
  <2>4. CASE answered # {}
    <3>1. \A i \in answered : i <= Len(n.inbox)
      BY <1>1, <1>2
    <3>2. PICK i \in answered : \A j \in answered : j <= i
      BY <1>1, <1>2, <2>4, <3>1, GreatestNumber
    <3>3. UpTo(answered, i) = answered
      BY <3>2 DEF UpTo
    <3>4. n.sequence + Cardinality(answered) < Modulus
      BY <2>1, <3>2, <3>3 DEF AnswerNumber
    <3> QED BY <1>1, <1>2, <2>2, <3>4
  <2> QED BY <2>3, <2>4
<1>6. Raised(n, answered) # {} => First(Raised(n, answered)) \in answered
  <2>1. Raised(n, answered) \subseteq answered /\ Raised(n, answered) \in SUBSET Nat
    BY <1>2 DEF Raised
  <2> QED BY <2>1, FirstIsLeast
<1> QED BY <1>4, <1>5, <1>6

-----------------------------------------------------------------------------
(* The inductive invariant.                                                *)

IInv == TypeOK /\ \A a \in Registered : Sound(registrations[a])

LEMMA InitIInv == Init => IInv
<1> SUFFICES ASSUME Init PROVE IInv
  OBVIOUS
<1>1. \A a \in Addresses : registrations[a] = FreshRegistration
  BY DEF Init
<1>2. registrations \in [Addresses -> Registration \cup {None}]
  BY FreshSound DEF Init, Sound
<1>3. <<>> \in Seq(Request) /\ <<>> \in Seq(Frame)
  BY EmptySeq
<1>4. nodes \in [Addresses -> Node]
  BY <1>3, NumberSpace DEF Init, Node
<1>5. 0 \in 0 .. Modulus /\ 0 \in 0 .. MaxCorrupt
  <2>1. MaxCorrupt \in Nat
    BY LinkAssumption
  <2> QED BY <2>1, NumberSpace
<1>6. TypeOK
  BY <1>2, <1>3, <1>4, <1>5 DEF Init, TypeOK
<1> QED BY <1>1, <1>6, FreshSound DEF IInv, Registered

LEMMA DeliverTypes ==
    ASSUME TypeOK, NEW A, NEW request \in Request, Deliver(A, request)
    PROVE  nodes' \in [Addresses -> Node]
<1> SUFFICES ASSUME NEW a \in Addresses
             PROVE  [nodes[a] EXCEPT !.inbox = Append(@, request)] \in Node
                    /\ nodes[a] \in Node
  BY DEF Deliver
<1>1. nodes[a] \in Node
  BY DEF TypeOK
<1>2. Append(nodes[a].inbox, request) \in Seq(Request)
  BY <1>1, AppendProperties DEF Node
<1> QED BY <1>1, <1>2 DEF Node

\* A turn of a poll: nothing is processed, and a failure is counted only where
\* the bus does not reach.
LEMMA PolledSound ==
    ASSUME NEW a \in Addresses, Sound(registrations[a])
    PROVE  /\ Sound(Polled(a))
           /\ Polled(a).accepted = registrations[a].accepted
           /\ IF Reachable(a)
              THEN Polled(a).comm = registrations[a].comm
              ELSE Polled(a).comm.failures = registrations[a].comm.failures + 1
<1> DEFINE r == registrations[a]
           p == Polled(a)
           l == RecordFailure(r.comm, RetryLimit)
<1>1. r \in Registration /\ r.comm \in Link /\ Counted(r.comm)
  BY DEF Sound, Registration
<1>2. l.failures = r.comm.failures + 1 /\ l \in Link
  BY <1>1 DEF RecordFailure, NextOnFailure, Link, CommState
<1>3. Counted(l)
  <2>1. RetryLimit \in Nat /\ Retries \in Nat /\ Retries >= 1
        /\ (RetryLimit > 0 => Retries = RetryLimit) /\ (RetryLimit = 0 => Retries = 1)
    BY LinkAssumption DEF Retries
  <2>2. l.state = NextOnFailure(r.comm, RetryLimit) /\ r.comm.failures \in Nat
        /\ r.comm.state \in CommState
    BY <1>1 DEF RecordFailure, Link
  <2> HIDE DEF l
  <2>3. CASE r.comm.state \in {"COMM_HEALTHY", "RECOVERY"}
    <3>1. r.comm.failures = 0
      BY <1>1, <2>3 DEF Counted
    <3>2. l.failures = 1 /\ 1 \in 1 .. Retries
      BY <1>2, <2>1, <3>1
    <3>3. CASE l.state = "RETRY"
      BY <3>2, <3>3 DEF Counted
    <3>4. CASE l.state = "COMM_FAULT"
      BY <3>2, <3>4 DEF Counted
    <3> QED BY <2>2, <2>3, <3>3, <3>4 DEF NextOnFailure
  <2>4. CASE r.comm.state = "RETRY"
    <3>1. r.comm.failures \in 1 .. Retries
      BY <1>1, <2>4 DEF Counted
    <3>2. l.state = IF r.comm.failures + 1 > RetryLimit THEN "DEGRADED" ELSE "RETRY"
      BY <2>2, <2>4 DEF NextOnFailure
    <3>3. CASE r.comm.failures + 1 > RetryLimit
      <4>1. l.failures = Retries + 1
        BY <1>2, <2>1, <3>1, <3>3
      <4> QED BY <3>2, <3>3, <4>1 DEF Counted
    <3>4. CASE ~(r.comm.failures + 1 > RetryLimit)
      <4>1. l.failures \in 1 .. Retries
        BY <1>2, <2>1, <3>1, <3>4
      <4> QED BY <3>2, <3>4, <4>1 DEF Counted
    <3> QED BY <3>3, <3>4
  <2>5. CASE r.comm.state \in {"DEGRADED", "COMM_FAULT"}
    <3>1. l.state = "COMM_FAULT"
      BY <2>2, <2>5 DEF NextOnFailure
    <3> QED BY <1>2, <2>2, <3>1 DEF Counted
  <2> QED BY <2>2, <2>3, <2>4, <2>5 DEF CommState
<1> HIDE DEF l
<1>4. /\ p \in Registration
      /\ p.tracker = r.tracker /\ p.accepted = r.accepted
      /\ p.comm = IF Reachable(a) THEN r.comm ELSE l
  BY <1>1, <1>2 DEF Polled, Registration, l
<1> HIDE DEF p
<1>5. Sound(p)
  BY <1>1, <1>3, <1>4 DEF Sound, Distinct, Forward, Remembered
<1> QED BY <1>2, <1>4, <1>5 DEF p

LEMMA PollIInv ==
    ASSUME IInv, NEW request \in Request, Poll(request)
    PROVE  IInv'
<1>1. TypeOK /\ Registered \subseteq Addresses /\ Addresses \subseteq Nat
  BY LinkAssumption DEF IInv, Registered
<1>2. Numbered \subseteq Registered
  BY DEF Numbered
<1>3. /\ Cardinality(Numbered) \in Nat
      /\ masterSeq + Cardinality(Numbered) + 1 <= Modulus
      /\ masterSeq \in Nat /\ Modulus \in Nat
  BY <1>1, RoundFits, NumberSpace DEF Poll, TypeOK
<1>4. Attempted \subseteq Registered
  <2>1. Numbered # {} => First(Numbered) \in Numbered
    BY <1>1, <1>2, FirstIsLeast
  <2> QED BY <1>2, <2>1 DEF Attempted, Aborts
<1>5. masterSeq' \in 0 .. Modulus
  <2>1. CASE Aborts
    <3>1. Cardinality(Attempted) = 1
      BY <2>1, FS_Singleton DEF Attempted
    <3>2. masterSeq' = masterSeq + 1
      BY <1>3, <2>1, <3>1 DEF Poll
    <3> QED BY <1>3, <3>2
  <2>2. CASE ~Aborts
    <3>1. Attempted = Numbered
      BY <2>2 DEF Attempted
    <3>2. \/ masterSeq' = masterSeq + Cardinality(Numbered)
          \/ masterSeq' = masterSeq + Cardinality(Numbered) + 1
      BY <1>3, <3>1 DEF Poll
    <3> QED BY <1>3, <3>2
  <2> QED BY <2>1, <2>2
<1>6. /\ \E A : Deliver(A, request)
      /\ registrations' = [a \in Addresses |->
                              IF a \in Attempted THEN Polled(a) ELSE registrations[a]]
      /\ UNCHANGED <<incoming, held, silent, corrupted>>
  BY DEF Poll
<1>7. corruptNext' \in BOOLEAN
  BY DEF Poll
<1>8. nodes' \in [Addresses -> Node]
  BY <1>1, <1>6, DeliverTypes
<1>9. \A a \in Attempted : Sound(Polled(a)) /\ Polled(a) \in Registration
  BY <1>1, <1>4, PolledSound DEF IInv, Sound
<1>10. registrations' \in [Addresses -> Registration \cup {None}]
  BY <1>1, <1>6, <1>9 DEF TypeOK
<1>11. TypeOK'
  BY <1>1, <1>5, <1>6, <1>7, <1>8, <1>10 DEF TypeOK
<1>12. ASSUME NEW a \in Addresses, registrations'[a] # None
       PROVE  Sound(registrations'[a])
  BY <1>6, <1>9, <1>12 DEF IInv, Registered
<1> QED BY <1>11, <1>12 DEF IInv, Registered

LEMMA CollectIInv ==
    ASSUME IInv, CollectResponses
    PROVE  IInv'
<1>1. TypeOK /\ incoming \in Seq(Frame)
  BY DEF IInv, TypeOK
<1>2. /\ registrations' = [a \in Addresses |->
             IF a \in Registered THEN Collected(a)[Len(incoming)] ELSE None]
      /\ incoming' = <<>>
      /\ UNCHANGED <<masterSeq, nodes, held, silent, corruptNext, corrupted>>
  BY DEF CollectResponses
<1>3. \A a \in Registered : Sound(Collected(a)[Len(incoming)])
  BY <1>1, CollectedSound DEF IInv
<1>4. registrations' \in [Addresses -> Registration \cup {None}]
  BY <1>2, <1>3 DEF Sound
<1>5. TypeOK'
  BY <1>1, <1>2, <1>4, EmptySeq DEF TypeOK
<1>6. ASSUME NEW a \in Addresses, registrations'[a] # None
      PROVE  Sound(registrations'[a])
  BY <1>2, <1>3, <1>6
<1> QED BY <1>5, <1>6 DEF IInv, Registered

LEMMA ProcessIncomingTypes ==
    ASSUME TypeOK, NEW a \in Addresses, ProcessIncoming(a)
    PROVE  /\ nodes' \in [Addresses -> Node]
           /\ held' \subseteq Frame
           /\ UNCHANGED <<registrations, masterSeq, incoming, silent, corruptNext, corrupted>>
<1> DEFINE n == nodes[a]
<1>1. n \in Node /\ n.inbox \in Seq(Request) /\ Len(n.inbox) \in Nat
      /\ DOMAIN n.inbox = 1 .. Len(n.inbox)
  <2>1. n \in Node /\ n.inbox \in Seq(Request)
    BY DEF TypeOK, Node
  <2> QED BY <2>1, LenProperties
<1>2. PICK answered \in SUBSET DOMAIN n.inbox :
         IF Raised(n, answered) = {}
         THEN /\ nodes' = [nodes EXCEPT ![a].sequence = @ + Cardinality(answered),
                                        ![a].inbox = <<>>]
              /\ held' = held \cup {[source |-> a,
                                     sequence |-> AnswerNumber(n, answered, i),
                                     life |-> n.life] : i \in answered}
         ELSE LET i == First(Raised(n, answered))
              IN  /\ nodes' = [nodes EXCEPT ![a].sequence = AnswerNumber(n, answered, i),
                                            ![a].inbox = SubSeq(@, i + 1, Len(@))]
                  /\ UNCHANGED held
  BY DEF ProcessIncoming, Raised, AnswerNumber, UpTo
<1>3. /\ \A i \in answered : AnswerNumber(n, answered, i) \in 0 .. Modulus
      /\ Raised(n, answered) = {} =>
            /\ n.sequence + Cardinality(answered) \in 0 .. Modulus
            /\ \A i \in answered : AnswerNumber(n, answered, i) \in SequenceNumber
      /\ Raised(n, answered) # {} => First(Raised(n, answered)) \in answered
  BY <1>1, <1>2, AnswersNumbered
<1>4. CASE Raised(n, answered) = {}
  <2> DEFINE m == [n EXCEPT !.sequence = @ + Cardinality(answered), !.inbox = <<>>]
  <2>1. nodes' = [nodes EXCEPT ![a] = m]
    BY <1>2, <1>4 DEF TypeOK
  <2>2. m \in Node
    BY <1>1, <1>3, <1>4, EmptySeq DEF Node
  <2>3. nodes' \in [Addresses -> Node]
    BY <2>1, <2>2 DEF TypeOK
  <2>4. \A i \in answered : [source |-> a, sequence |-> AnswerNumber(n, answered, i),
                              life |-> n.life] \in Frame
    BY <1>1, <1>3, <1>4 DEF Frame, Node
  <2>5. held' \subseteq Frame
    BY <1>2, <1>4, <2>4 DEF TypeOK
  <2> QED BY <2>3, <2>5 DEF ProcessIncoming
<1>5. CASE Raised(n, answered) # {}
  <2> DEFINE i == First(Raised(n, answered))
             q == SubSeq(n.inbox, i + 1, Len(n.inbox))
             m == [n EXCEPT !.sequence = AnswerNumber(n, answered, i), !.inbox = q]
  <2>1. i \in 1 .. Len(n.inbox) /\ AnswerNumber(n, answered, i) \in 0 .. Modulus
    BY <1>1, <1>3, <1>5
  <2>2. nodes' = [nodes EXCEPT ![a] = m] /\ held' = held
    BY <1>2, <1>5 DEF TypeOK
  <2> HIDE DEF i
  <2>3. q \in Seq(Request)
    <3>1. i + 1 \in Int /\ Len(n.inbox) \in Int
          /\ \A j \in i + 1 .. Len(n.inbox) : n.inbox[j] \in Request
      BY <1>1, <2>1, ElementOfSeq
    <3> QED BY <3>1, SubSeqProperties
  <2> HIDE DEF q
  <2>4. m \in Node
    BY <1>1, <2>1, <2>3 DEF Node
  <2> HIDE DEF m
  <2>5. nodes' \in [Addresses -> Node] /\ held' \subseteq Frame
    BY <2>2, <2>4 DEF TypeOK
  <2> QED BY <2>5 DEF ProcessIncoming
<1> QED BY <1>4, <1>5

LEMMA NextIInv == IInv /\ [Next]_vars => IInv'
<1> SUFFICES ASSUME IInv, [Next]_vars PROVE IInv'
  OBVIOUS
<1> USE DEF IInv
<1>1. ASSUME TypeOK', registrations' = registrations PROVE IInv'
  BY <1>1 DEF Registered
<1>2. ASSUME NEW request \in Request, Poll(request) PROVE IInv'
  BY <1>2, PollIInv
<1>3. CASE CollectResponses
  BY <1>3, CollectIInv
<1>4. ASSUME masterSeq' = masterSeq + 1, masterSeq + 1 < Modulus, corruptNext' = FALSE,
             NEW A, Deliver(A, "STATUS_REQUEST"),
             UNCHANGED <<registrations, incoming, held, silent, corrupted>>
      PROVE  IInv'
  <2>1. masterSeq' \in 0 .. Modulus
    BY <1>4, NumberSpace DEF TypeOK
  <2>2. nodes' \in [Addresses -> Node]
    BY <1>4, DeliverTypes DEF Request
  <2> QED BY <1>1, <1>4, <2>1, <2>2 DEF TypeOK
<1>5. CASE SynchronizeTime
  BY <1>4, <1>5 DEF SynchronizeTime
<1>6. ASSUME NEW a \in Addresses, SendOne(a) PROVE IInv'
  BY <1>4, <1>6 DEF SendOne
<1>7. ASSUME NEW a \in Addresses, ProcessIncoming(a) PROVE IInv'
  BY <1>1, <1>7, ProcessIncomingTypes DEF TypeOK
<1>8. ASSUME NEW a \in Addresses, RegisterNode(a) PROVE IInv'
  <2>1. TypeOK'
    BY <1>8, FreshSound DEF RegisterNode, TypeOK, Sound
  <2>2. \A b \in Addresses : registrations'[b] = IF b = a THEN FreshRegistration
                                                          ELSE registrations[b]
    BY <1>8 DEF RegisterNode, TypeOK
  <2> QED BY <2>1, <2>2, FreshSound DEF Registered
<1>9. ASSUME NEW a \in Addresses, UnregisterNode(a) PROVE IInv'
  <2>1. TypeOK'
    BY <1>9 DEF UnregisterNode, TypeOK
  <2>2. \A b \in Addresses : registrations'[b] = IF b = a THEN None ELSE registrations[b]
    BY <1>9 DEF UnregisterNode, TypeOK
  <2> QED BY <2>1, <2>2 DEF Registered
<1>10. ASSUME NEW a \in Addresses, Replace(a) PROVE IInv'
  <2>1. nodes[a].life + 1 \in Nat
    BY <1>10 DEF TypeOK, Node
  <2>2. [sequence |-> 0, inbox |-> <<>>, life |-> nodes[a].life + 1] \in Node
    BY <2>1, NumberSpace, EmptySeq DEF Node
  <2>3. nodes' \in [Addresses -> Node]
    BY <1>10, <2>2 DEF Replace, TypeOK
  <2> QED BY <1>1, <1>10, <2>3 DEF Replace, TypeOK
<1>11. ASSUME NEW a \in Addresses, SetSilent(a) PROVE IInv'
  BY <1>1, <1>11 DEF SetSilent, TypeOK
<1>12. ASSUME NEW f \in held, LoseAnswer(f) PROVE IInv'
  BY <1>1, <1>12 DEF LoseAnswer, TypeOK
<1>13. ASSUME NEW f \in held, NEW keep \in BOOLEAN, SendAnswer(f, keep) PROVE IInv'
  <2>1. f \in Frame
    BY DEF TypeOK
  <2>2. incoming' \in Seq(Frame)
    BY <1>13, <2>1, AppendProperties DEF SendAnswer, TypeOK
  <2> QED BY <1>1, <1>13, <2>2 DEF SendAnswer, TypeOK
<1>14. CASE CorruptNextFrame
  <2>1. corrupted' \in 0 .. MaxCorrupt
    <3>1. MaxCorrupt \in Nat
      BY LinkAssumption
    <3> QED BY <1>14, <3>1 DEF CorruptNextFrame, TypeOK
  <2> QED BY <1>1, <1>14, <2>1 DEF CorruptNextFrame, TypeOK
<1>15. CASE UNCHANGED vars
  BY <1>1, <1>15 DEF vars, TypeOK
<1> QED BY <1>2, <1>3, <1>5, <1>6, <1>7, <1>8, <1>9, <1>10, <1>11, <1>12, <1>13, <1>14,
           <1>15 DEF Next

LEMMA SpecIInv == Spec => []IInv
  BY InitIInv, NextIInv, PTL DEF Spec

-----------------------------------------------------------------------------
(* The theorems.                                                           *)

\* Every variable keeps its type; above all, the controller and the nodes
\* never take a number beyond the last one.
THEOREM LinkTypesKept == Spec => []TypeOK
<1>1. IInv => TypeOK
  BY DEF IInv
<1> QED BY <1>1, SpecIInv, PTL

\* No answer is processed twice, whatever is repeated, reordered or renumbered.
THEOREM NothingTwice == Spec => []AcceptedOnce
<1>1. IInv => AcceptedOnce
  BY DEF IInv, Sound, Distinct, AcceptedOnce, Accepted
<1> QED BY <1>1, SpecIInv, PTL

\* An accepted answer is newer than the one before it, as far as the numbers
\* of half the space can tell.
THEOREM NothingOvertakes == Spec => []AcceptedForward
<1>1. IInv => AcceptedForward
  BY DEF IInv, Sound, Forward, AcceptedForward, Accepted
<1> QED BY <1>1, SpecIInv, PTL

\* State and failure count of every link agree, for every limit of retries.
THEOREM HealthIsCounted == Spec => []HealthMatchesFailures
<1>1. IInv => HealthMatchesFailures
  BY DEF IInv, Sound, Counted, HealthMatchesFailures
<1> QED BY <1>1, SpecIInv, PTL

\* However many answers wait, each of them is processed or excused.
THEOREM NewIsProcessed == Spec => NothingNewDropped
<1> DEFINE Taken ==
      CollectResponses =>
        \A i \in DOMAIN incoming :
           LET f == incoming[i]
           IN  f.source \in Registered =>
                 Excused(f, registrations[f.source], registrations'[f.source])
<1>1. IInv => Taken
  <2> SUFFICES ASSUME IInv, CollectResponses, NEW i \in DOMAIN incoming,
                      incoming[i].source \in Registered
               PROVE  Excused(incoming[i], registrations[incoming[i].source],
                              registrations'[incoming[i].source])
    OBVIOUS
  <2> DEFINE a == incoming[i].source
  <2>1. incoming \in Seq(Frame) /\ Sound(registrations[a]) /\ a \in Addresses
    BY DEF IInv, TypeOK, Registered
  <2>2. registrations'[a] = Collected(a)[Len(incoming)]
    BY <2>1 DEF CollectResponses
  <2> QED BY <2>1, <2>2, CollectedSound
<1>2. IInv => [Taken]_vars
  BY <1>1
<1> QED BY <1>2, SpecIInv, PTL DEF Spec, NothingNewDropped

\* Failures are counted only against a node that was not reached, and are
\* forgotten only for an answer that was processed.
THEOREM HealthTellsTraffic == Spec => HealthFollowsTraffic
<1> DEFINE Told(r, s, reached) ==
             /\ s.comm.failures > r.comm.failures => ~reached
             /\ s.comm.state # r.comm.state /\ s.comm.failures = 0
                   => Len(s.accepted) > Len(r.accepted)
             /\ Len(s.accepted) > Len(r.accepted)
                   => s.comm.failures = 0 /\ ~s.awaiting
           Tells ==
             \A a \in Registered :
                registrations'[a] # None /\ registrations[a] # registrations'[a] =>
                   Told(registrations[a], registrations'[a], Reachable(a))
<1>1. ASSUME IInv, [Next]_vars, NEW a \in Registered,
             registrations'[a] # None, registrations[a] # registrations'[a]
      PROVE  Told(registrations[a], registrations'[a], Reachable(a))
  <2> DEFINE r == registrations[a]
             s == registrations'[a]
  <2>1. /\ a \in Addresses /\ Sound(r) /\ r.comm \in Link /\ r.comm.failures \in Nat
        /\ Len(r.accepted) \in Nat /\ TypeOK
    <3>1. a \in Addresses /\ Sound(r) /\ TypeOK
      BY <1>1 DEF IInv, Registered
    <3>2. r.comm \in Link /\ r.accepted \in Seq(Frame)
      BY <3>1 DEF Sound, Registration
    <3> QED BY <3>1, <3>2, LenProperties DEF Link
  <2>2. ASSUME NEW request \in Request, Poll(request) PROVE Told(r, s, Reachable(a))
    <3>1. s = Polled(a)
      BY <1>1, <2>1, <2>2 DEF Poll
    <3>2. /\ Polled(a).accepted = r.accepted
          /\ IF Reachable(a) THEN Polled(a).comm = r.comm
                             ELSE Polled(a).comm.failures = r.comm.failures + 1
      BY <2>1, PolledSound
    <3> HIDE DEF r, s
    <3> QED BY <2>1, <3>1, <3>2
  <2>3. CASE CollectResponses
    <3>1. s = Collected(a)[Len(incoming)]
      BY <1>1, <2>1, <2>3 DEF CollectResponses
    <3>2. Followed(r, s)
      BY <2>1, <3>1, CollectedSound DEF TypeOK
    <3> HIDE DEF r, s
    <3> QED BY <1>1, <2>1, <3>2 DEF Followed, r, s
  <2>4. ASSUME NEW b \in Addresses, RegisterNode(b) \/ UnregisterNode(b) PROVE FALSE
    BY <1>1, <2>1, <2>4 DEF RegisterNode, UnregisterNode, Registered, TypeOK
  <2>5. registrations' # registrations
    BY <1>1
  <2> HIDE DEF Told
  <2> QED BY <1>1, <2>2, <2>3, <2>4, <2>5 DEF Next, SynchronizeTime, SendOne, ProcessIncoming,
             Replace, SetSilent, LoseAnswer, SendAnswer, CorruptNextFrame, vars
<1>2. IInv /\ [Next]_vars => [Tells]_vars
  BY <1>1
<1> QED BY <1>2, SpecIInv, PTL DEF Spec, HealthFollowsTraffic
=============================================================================
