------------------------- MODULE NodeReports_proofs -------------------------
(***************************************************************************)
(* The events of a node tell the story of every fault, for any diagnoses,  *)
(* policies and bounds.  What the steps do to records and notes is taken   *)
(* from LampNodeFaults_proofs; here it is what they log.                   *)
(***************************************************************************)
EXTENDS NodeReports, LampNodeFaults_proofs, WellFoundedInduction

-----------------------------------------------------------------------------
(* Numbers.                                                                *)

LEMMA LeastNumber ==
    ASSUME NEW S \in SUBSET Nat, S # {}
    PROVE  \E i \in S : \A j \in S : i <= j
<1> DEFINE R == OpToRel(<, Nat)
<1>1. S \subseteq Nat
  OBVIOUS
<1>2. PICK i \in S : \A j \in S : ~(<<j, i>> \in R)
  <2>1. IsWellFoundedOn(R, Nat)
    BY NatLessThanWellFounded
  <2> HIDE DEF R
  <2> QED BY <1>1, <2>1, WFMin, Zenon
<1>3. \A j \in S : ~(j < i)
  BY <1>1, <1>2 DEF OpToRel
<1> QED BY <1>1, <1>3

LEMMA GreatestNumber ==
    ASSUME NEW S \in SUBSET Nat, S # {}, NEW n \in Nat, \A i \in S : i <= n
    PROVE  \E i \in S : \A j \in S : j <= i
<1> DEFINE T == {n - i : i \in S}
<1>1. T \in SUBSET Nat /\ T # {}
  <2>1. \A i \in S : i \in Nat /\ n - i \in Nat
    OBVIOUS
  <2> QED BY <2>1
<1> HIDE DEF T
<1>2. PICK k \in T : \A j \in T : k <= j
  BY <1>1, LeastNumber
<1>3. PICK i \in S : k = n - i
  BY DEF T
<1>4. \A j \in S : n - j \in T
  BY DEF T
<1> QED BY <1>2, <1>3, <1>4

\* A set with 0 and the successor of each of its members holds every number:
\* there is no least number outside it.
LEMMA NumberInduction ==
    ASSUME NEW T, 0 \in T, \A i \in Nat : i \in T => i + 1 \in T
    PROVE  Nat \subseteq T
<1> SUFFICES ASSUME Nat \ T # {} PROVE FALSE
  OBVIOUS
<1>1. PICK i \in Nat \ T : \A j \in Nat \ T : i <= j
  <2>1. Nat \ T \in SUBSET Nat
    OBVIOUS
  <2> QED BY <2>1, LeastNumber
<1>2. i # 0 /\ i - 1 \in Nat /\ ~(i <= i - 1)
  OBVIOUS
<1> QED BY <1>1, <1>2

-----------------------------------------------------------------------------
(* FlattenSeq: sequences of sequences over S become a sequence over S.     *)

FlatUpTo(qs, f, i) == IF i = 1 THEN qs[i] ELSE f[i - 1] \o qs[i]

LEMMA FlatExists ==
    ASSUME NEW qs, Len(qs) \in Nat
    PROVE  \E f : f = [i \in 1 .. Len(qs) |-> FlatUpTo(qs, f, i)]
<1> DEFINE T == {k \in Nat : \E f : f = [i \in 1 .. k |-> FlatUpTo(qs, f, i)]}
<1>1. 0 \in T
  <2> DEFINE f == [i \in 1 .. 0 |-> 0]
  <2>1. f = [i \in 1 .. 0 |-> FlatUpTo(qs, f, i)]
    OBVIOUS
  <2> QED BY <2>1
<1>2. ASSUME NEW k \in Nat, k \in T PROVE k + 1 \in T
  <2>1. PICK f : f = [i \in 1 .. k |-> FlatUpTo(qs, f, i)]
    BY <1>2
  <2> DEFINE last == IF k = 0 THEN qs[1] ELSE f[k] \o qs[k + 1]
             g == [i \in 1 .. k + 1 |-> IF i = k + 1 THEN last ELSE f[i]]
  <2>2. \A i \in 1 .. k : g[i] = f[i] /\ f[i] = FlatUpTo(qs, f, i)
    <3> HIDE DEF last
    <3> QED BY <2>1
  <2>3. g[k + 1] = IF k + 1 = 1 THEN qs[1] ELSE f[k] \o qs[k + 1]
    <3>1. g[k + 1] = last
      OBVIOUS
    <3>2. k = 0 <=> k + 1 = 1
      OBVIOUS
    <3> QED BY <3>1, <3>2
  <2>4. g = [i \in 1 .. k + 1 |-> g[i]]
    OBVIOUS
  <2> HIDE DEF g
  <2>5. ASSUME NEW i \in 1 .. k + 1 PROVE g[i] = FlatUpTo(qs, g, i)
    <3>1. CASE i = k + 1
      <4>1. i - 1 = k
        BY <3>1
      <4>2. i # 1 => g[k] = f[k]
        BY <2>2, <3>1
      <4> QED BY <2>3, <3>1, <4>1, <4>2 DEF FlatUpTo
    <3>2. CASE i \in 1 .. k
      <4>1. i # 1 => i - 1 \in 1 .. k
        BY <3>2
      <4>2. g[i] = FlatUpTo(qs, f, i)
        BY <2>2, <3>2
      <4> QED BY <2>2, <4>1, <4>2 DEF FlatUpTo
    <3> QED BY <3>1, <3>2
  <2>6. g = [i \in 1 .. k + 1 |-> FlatUpTo(qs, g, i)]
    BY <2>4, <2>5
  <2> QED BY <2>6
<1> HIDE DEF T
<1>3. Nat \subseteq T
  BY <1>1, <1>2, NumberInduction
<1> QED BY <1>3 DEF T

LEMMA FlattenType ==
    ASSUME NEW S, NEW qs \in Seq(Seq(S))
    PROVE  FlattenSeq(qs) \in Seq(S)
<1>1. Len(qs) \in Nat /\ \A i \in 1 .. Len(qs) : qs[i] \in Seq(S)
  BY LenProperties, ElementOfSeq
<1>2. CASE Len(qs) = 0
  <2>1. qs = <<>>
    BY <1>2, EmptySeq
  <2>2. FlattenSeq(qs) = <<>>
    BY <1>2, <2>1 DEF FlattenSeq
  <2> QED BY <2>2, EmptySeq
<1>3. CASE Len(qs) # 0
  <2> DEFINE flat == CHOOSE f : f = [i \in 1 .. Len(qs) |-> FlatUpTo(qs, f, i)]
             T == {k \in Nat : k + 1 <= Len(qs) => flat[k + 1] \in Seq(S)}
  <2>1. flat = [i \in 1 .. Len(qs) |-> FlatUpTo(qs, flat, i)]
    BY <1>1, FlatExists
  <2>2. FlattenSeq(qs) = flat[Len(qs)]
    BY <1>3 DEF FlattenSeq, FlatUpTo
  <2> HIDE DEF flat
  <2>3. \A i \in 1 .. Len(qs) : flat[i] = FlatUpTo(qs, flat, i)
    BY <2>1
  <2>4. 0 \in T
    BY <1>1, <2>3 DEF FlatUpTo
  <2>5. ASSUME NEW k \in Nat, k \in T PROVE k + 1 \in T
    <3> SUFFICES ASSUME k + 1 + 1 <= Len(qs) PROVE flat[k + 1 + 1] \in Seq(S)
      OBVIOUS
    <3>1. flat[k + 1] \in Seq(S) /\ qs[k + 1 + 1] \in Seq(S)
      BY <1>1, <2>5
    <3>2. flat[k + 1 + 1] = flat[k + 1] \o qs[k + 1 + 1]
      <4>1. k + 1 + 1 \in 1 .. Len(qs) /\ k + 1 + 1 # 1 /\ (k + 1 + 1) - 1 = k + 1
        BY <1>1
      <4>2. flat[k + 1 + 1] = FlatUpTo(qs, flat, k + 1 + 1)
        BY <2>3, <4>1
      <4> QED BY <4>1, <4>2 DEF FlatUpTo
    <3> HIDE DEF T
    <3> QED BY <3>1, <3>2, ConcatProperties
  <2> HIDE DEF T
  <2>6. Nat \subseteq T
    BY <2>4, <2>5, NumberInduction
  <2>7. Len(qs) - 1 \in Nat /\ Len(qs) - 1 + 1 = Len(qs)
    BY <1>1, <1>3
  <2>8. Len(qs) - 1 \in T
    BY <2>6, <2>7
  <2> QED BY <1>1, <2>2, <2>7, <2>8 DEF T
<1> QED BY <1>2, <1>3

-----------------------------------------------------------------------------
(* The last word on a fault, in a log and what was heard before it.        *)

WordIn(l, h, id) ==
    LET waiting == {i \in DOMAIN l : Tells(l[i], id)}
    IN  IF waiting = {} THEN h[id] ELSE l[Max(waiting)].type

Names(q, id) == \E i \in DOMAIN q : Tells(q[i], id)

\* Entry i is the last about a fault.
LastAbout(l, id, i) ==
    /\ i \in DOMAIN l
    /\ Tells(l[i], id)
    /\ \A j \in DOMAIN l : Tells(l[j], id) => j <= i

LEMMA WordFacts ==
    ASSUME NEW l \in Seq(Event), NEW h, NEW id
    PROVE  /\ ~Names(l, id) => WordIn(l, h, id) = h[id]
           /\ \A i : LastAbout(l, id, i) => WordIn(l, h, id) = l[i].type
           /\ Names(l, id) => \E i : LastAbout(l, id, i)
<1> DEFINE W == {i \in DOMAIN l : Tells(l[i], id)}
<1>1. DOMAIN l = 1 .. Len(l) /\ Len(l) \in Nat
  BY LenProperties
<1>2. WordIn(l, h, id) = IF W = {} THEN h[id] ELSE l[Max(W)].type
  BY DEF WordIn
<1>3. ASSUME ~Names(l, id) PROVE WordIn(l, h, id) = h[id]
  BY <1>2, <1>3 DEF Names
<1>4. ASSUME NEW i, LastAbout(l, id, i) PROVE WordIn(l, h, id) = l[i].type
  <2>1. i \in W /\ \A j \in W : j \in Nat /\ j <= i
    BY <1>1, <1>4 DEF LastAbout
  <2> HIDE DEF W
  <2>2. i \in Nat /\ \A j \in W : i >= j
    BY <2>1
  <2>3. Max(W) \in W /\ \A j \in W : Max(W) >= j
    BY <2>1, <2>2 DEF Max
  <2>4. Max(W) = i
    <3>1. Max(W) \in Nat /\ Max(W) <= i /\ Max(W) >= i
      BY <2>1, <2>3
    <3> QED BY <2>2, <3>1
  <2> QED BY <1>2, <2>1, <2>4
<1>5. ASSUME Names(l, id) PROVE \E i : LastAbout(l, id, i)
  <2>1. W \in SUBSET Nat /\ W # {} /\ \A i \in W : i <= Len(l)
    BY <1>1, <1>5 DEF Names
  <2> HIDE DEF W
  <2>2. PICK i \in W : \A j \in W : j <= i
    BY <1>1, <2>1, GreatestNumber
  <2> QED BY <2>2 DEF W, LastAbout
<1> QED BY <1>3, <1>4, <1>5

\* What is logged has the last word on the faults it names, and no say on others.
LEMMA AppendedWord ==
    ASSUME NEW l \in Seq(Event), NEW q \in Seq(Event), NEW h, NEW id
    PROVE  /\ Names(q, id) => \E i \in DOMAIN q :
                 Tells(q[i], id) /\ WordIn(l \o q, h, id) = q[i].type
           /\ ~Names(q, id) => WordIn(l \o q, h, id) = WordIn(l, h, id)
<1> DEFINE c == l \o q
<1>1. /\ Len(l) \in Nat /\ DOMAIN l = 1 .. Len(l)
      /\ Len(q) \in Nat /\ DOMAIN q = 1 .. Len(q)
  BY LenProperties
<1>2. /\ c \in Seq(Event) /\ DOMAIN c = 1 .. Len(l) + Len(q)
      /\ \A i \in 1 .. Len(l) + Len(q) : c[i] = IF i <= Len(l) THEN l[i] ELSE q[i - Len(l)]
  <2>1. /\ c \in Seq(Event) /\ Len(c) = Len(l) + Len(q)
        /\ \A i \in 1 .. Len(l) + Len(q) : c[i] = IF i <= Len(l) THEN l[i] ELSE q[i - Len(l)]
    BY ConcatProperties
  <2> HIDE DEF c
  <2> QED BY <2>1, LenProperties
<1> HIDE DEF c
<1>3. /\ \A i \in DOMAIN l : i \in DOMAIN c /\ c[i] = l[i]
      /\ \A i \in DOMAIN q : Len(l) + i \in DOMAIN c /\ c[Len(l) + i] = q[i]
  BY <1>1, <1>2
<1>4. \A j \in DOMAIN c :
         \/ j \in DOMAIN l
         \/ j - Len(l) \in DOMAIN q /\ c[j] = q[j - Len(l)]
  BY <1>1, <1>2
<1>5. CASE Names(q, id)
  <2>1. PICK i : LastAbout(q, id, i)
    BY <1>5, WordFacts
  <2>2. i \in DOMAIN q /\ Tells(q[i], id) /\ i \in Nat
    BY <1>1, <2>1 DEF LastAbout
  <2>3. LastAbout(c, id, Len(l) + i)
    <3>1. ASSUME NEW j \in DOMAIN c, Tells(c[j], id) PROVE j <= Len(l) + i
      <4>1. CASE j \in DOMAIN l
        BY <1>1, <2>2, <4>1
      <4>2. CASE j - Len(l) \in DOMAIN q /\ c[j] = q[j - Len(l)]
        <5>1. j - Len(l) <= i
          BY <2>1, <3>1, <4>2 DEF LastAbout
        <5> QED BY <1>1, <1>2, <2>2, <5>1
      <4> QED BY <1>4, <4>1, <4>2
    <3> QED BY <1>3, <2>2, <3>1 DEF LastAbout
  <2>4. WordIn(c, h, id) = q[i].type
    BY <1>2, <1>3, <2>2, <2>3, WordFacts
  <2> QED BY <1>5, <2>2, <2>4 DEF c
<1>6. CASE ~Names(q, id)
  <2>1. \A j \in DOMAIN c : Tells(c[j], id) => j \in DOMAIN l /\ c[j] = l[j]
    BY <1>3, <1>4, <1>6 DEF Names
  <2>2. CASE Names(l, id)
    <3>1. PICK i : LastAbout(l, id, i)
      BY <2>2, WordFacts
    <3>2. LastAbout(c, id, i) /\ c[i] = l[i]
      BY <1>3, <2>1, <3>1 DEF LastAbout
    <3>3. WordIn(c, h, id) = c[i].type /\ WordIn(l, h, id) = l[i].type
      BY <1>2, <3>1, <3>2, WordFacts
    <3> QED BY <1>6, <3>2, <3>3 DEF c
  <2>3. CASE ~Names(l, id)
    <3>1. ~Names(c, id)
      BY <2>1, <2>3 DEF Names
    <3>2. WordIn(c, h, id) = h[id] /\ WordIn(l, h, id) = h[id]
      BY <1>2, <2>3, <3>1, WordFacts
    <3> QED BY <1>6, <3>2 DEF c
  <2> QED BY <2>2, <2>3
<1> QED BY <1>5, <1>6

\* Handing on the oldest event changes no last word, if it is remembered.
LEMMA TakenWord ==
    ASSUME NEW l \in Seq(Event), l # <<>>, NEW h, NEW g, NEW id,
           g[id] = IF Tells(Head(l), id) THEN Head(l).type ELSE h[id]
    PROVE  WordIn(Tail(l), g, id) = WordIn(l, h, id)
<1> DEFINE t == Tail(l)
<1>1. /\ Len(l) \in Nat /\ Len(l) # 0 /\ DOMAIN l = 1 .. Len(l)
      /\ t \in Seq(Event) /\ DOMAIN t = 1 .. Len(l) - 1
      /\ \A i \in DOMAIN t : t[i] = l[i + 1]
      /\ Head(l) = l[1]
  <2>1. Len(l) \in Nat /\ Len(l) # 0 /\ DOMAIN l = 1 .. Len(l)
    BY LenProperties, EmptySeq
  <2>2. t \in Seq(Event) /\ Len(t) = Len(l) - 1 /\ \A i \in 1 .. Len(t) : t[i] = l[i + 1]
    BY HeadTailProperties
  <2> HIDE DEF t
  <2> QED BY <2>1, <2>2, LenProperties
<1> HIDE DEF t
<1>2. \A j \in DOMAIN l : j = 1 \/ (j - 1 \in DOMAIN t /\ t[j - 1] = l[j])
  BY <1>1
<1>3. CASE Names(t, id)
  <2>1. PICK i : LastAbout(t, id, i)
    BY <1>1, <1>3, WordFacts
  <2>2. i \in DOMAIN t /\ i \in Nat /\ i + 1 \in DOMAIN l /\ l[i + 1] = t[i]
    BY <1>1, <2>1 DEF LastAbout
  <2>3. ASSUME NEW j \in DOMAIN l, Tells(l[j], id) PROVE j <= i + 1
    <3>1. CASE j = 1
      BY <2>2, <3>1
    <3>2. CASE j - 1 \in DOMAIN t /\ t[j - 1] = l[j]
      <4>1. j - 1 <= i
        BY <2>1, <2>3, <3>2 DEF LastAbout
      <4> QED BY <1>1, <2>2, <4>1
    <3> QED BY <1>2, <3>1, <3>2
  <2>4. LastAbout(l, id, i + 1)
    BY <2>1, <2>2, <2>3 DEF LastAbout
  <2>5. WordIn(t, g, id) = t[i].type /\ WordIn(l, h, id) = l[i + 1].type
    BY <1>1, <2>1, <2>4, WordFacts
  <2> QED BY <2>2, <2>5 DEF t
<1>4. CASE ~Names(t, id)
  <2>1. \A j \in DOMAIN l : Tells(l[j], id) => j = 1
    BY <1>2, <1>4 DEF Names
  <2>2. WordIn(t, g, id) = g[id]
    BY <1>1, <1>4, WordFacts
  <2>3. CASE Tells(Head(l), id)
    <3>1. LastAbout(l, id, 1)
      BY <1>1, <2>1, <2>3 DEF LastAbout
    <3>2. WordIn(l, h, id) = l[1].type
      BY <3>1, WordFacts
    <3> QED BY <1>1, <2>2, <2>3, <3>2 DEF t
  <2>4. CASE ~Tells(Head(l), id)
    <3>1. ~Names(l, id)
      BY <1>1, <2>1, <2>4 DEF Names
    <3> QED BY <2>2, <2>4, <3>1, WordFacts DEF t
  <2> QED BY <2>3, <2>4
<1> QED BY <1>3, <1>4

-----------------------------------------------------------------------------
(* What a step logs.                                                       *)

\* The events that are true of the records after the step; a notice always is.
Truths == {e \in Event : e.type \in Story =>
                        /\ e.fault \in DOMAIN faults'
                        /\ faults'[e.fault].state \in StatesNamed(e.type)}

\* Whatever event names the one state names the other.
SameWord(s, t) == \A w \in Story : s \in StatesNamed(w) => t \in StatesNamed(w)

ReportsIInv ==
    /\ NodeIInv
    /\ log \in Seq(Event)
    /\ heard \in [FaultIds -> Story \cup {None, "LOST"}]
    /\ EventsTellFaults

LEMMA Words ==
    /\ SameWord("SUSPECTED", "NORMAL")
    /\ SameWord("UNDER_REPAIR", "VERIFYING")
    /\ \A s : SameWord(s, s)
    /\ {"FAULT_SUSPECTED", "FAULT_CONFIRMED", "FAULT_ACKNOWLEDGED", "FAULT_REMINDER_DUE",
        "FAULT_ESCALATED", "FAULT_REPAIR_STARTED", "FAULT_VERIFICATION_FAILED",
        "FAULT_CLOSED"} \subseteq Story
    /\ {"FAULT_NOTIFIED", "FAULT_NOTIFICATION_FAILED"} \subseteq EventType \ Story
  BY DEF SameWord, StatesNamed, EventType, Story, Notices

LEMMA TruthsAreEvents ==
    ASSUME NEW q \in Seq(Truths)
    PROVE  /\ q \in Seq(Event) /\ DOMAIN q = 1 .. Len(q) /\ Len(q) \in Nat
           /\ \A i \in DOMAIN q : q[i] \in Truths
<1>1. Len(q) \in Nat /\ DOMAIN q = 1 .. Len(q) /\ \A i \in 1 .. Len(q) : q[i] \in Truths
  BY LenProperties, ElementOfSeq
<1>2. \A i \in 1 .. Len(q) : q[i] \in Event
  BY <1>1 DEF Truths
<1>3. SubSeq(q, 1, Len(q)) \in Seq(Event)
  BY <1>1, <1>2, SubSeqProperties
<1>4. SubSeq(q, 1, Len(q)) = q
  BY SubSeqFull
<1> QED BY <1>1, <1>3, <1>4

LEMMA AboutTruth ==
    ASSUME NEW id \in DOMAIN faults', id \in FaultIds, NEW type \in Story,
           faults'[id].state \in StatesNamed(type)
    PROVE  About(id, type) \in Seq(Truths) /\ Names(About(id, type), id)
<1> DEFINE e == [fault |-> id, type |-> type]
<1>1. e \in Truths /\ Tells(e, id)
  BY DEF Truths, Event, EventType, Tells
<1> HIDE DEF e
<1>2. About(id, type) = <<e>>
  BY DEF About, e
<1>3. <<e>> \in Seq(Truths) /\ 1 \in DOMAIN <<e>> /\ <<e>>[1] = e
  BY <1>1
<1> QED BY <1>1, <1>2, <1>3 DEF Names

LEMMA NoticeTruth ==
    ASSUME NEW id \in FaultIds, NEW type \in EventType \ Story
    PROVE  About(id, type) \in Seq(Truths)
<1> DEFINE e == [fault |-> id, type |-> type]
<1>1. e \in Truths
  BY DEF Truths, Event
<1> HIDE DEF e
<1>2. About(id, type) = <<e>>
  BY DEF About, e
<1> QED BY <1>1, <1>2

LEMMA JoinedNames ==
    ASSUME NEW p \in Seq(Truths), NEW q \in Seq(Truths), NEW id, Names(p, id)
    PROVE  Names(p \o q, id)
<1>1. /\ Len(p) \in Nat /\ DOMAIN p = 1 .. Len(p)
      /\ Len(q) \in Nat /\ DOMAIN q = 1 .. Len(q)
  BY LenProperties
<1>2. /\ DOMAIN (p \o q) = 1 .. Len(p) + Len(q)
      /\ \A i \in 1 .. Len(p) + Len(q) : (p \o q)[i] = IF i <= Len(p) THEN p[i]
                                                         ELSE q[i - Len(p)]
  BY <1>1, ConcatProperties, LenProperties
<1>3. \A i \in DOMAIN p : i \in DOMAIN (p \o q) /\ (p \o q)[i] = p[i]
  BY <1>1, <1>2
<1> QED BY <1>3 DEF Names

\* A fault that true events name has a true last word.
LEMMA ToldWord ==
    ASSUME log \in Seq(Event), NEW events \in Seq(Event),
           \A i \in DOMAIN events : events[i] \in Truths,
           NEW id, Names(events, id)
    PROVE  /\ WordIn(log \o events, heard, id) # None
           /\ faults'[id].state \in StatesNamed(WordIn(log \o events, heard, id))
<1> DEFINE w == WordIn(log \o events, heard, id)
<1>1. \E i \in DOMAIN events : Tells(events[i], id) /\ w = events[i].type
  BY AppendedWord
<1> HIDE DEF w
<1>2. PICK i \in DOMAIN events : Tells(events[i], id) /\ w = events[i].type
  BY <1>1
<1>3. faults'[id].state \in StatesNamed(w) /\ w \in EventType
  BY <1>2 DEF Truths, Event, Tells
<1> QED BY <1>3, ReportAssumption DEF w

\* A step that logs true events, and one of each fault whose last word no
\* longer holds, keeps the story.
LEMMA LoggedTells ==
    ASSUME ReportsIInv, DOMAIN faults' \subseteq FaultIds,
           NEW events \in Seq(Truths), Log(events),
           \A id \in DOMAIN faults' :
              \/ Names(events, id)
              \/ id \in DOMAIN faults /\ SameWord(faults[id].state, faults'[id].state)
    PROVE  log' \in Seq(Event) /\ heard' = heard /\ EventsTellFaults'
<1>1. log \in Seq(Event) /\ events \in Seq(Event) /\ \A i \in DOMAIN events : events[i] \in Truths
  BY TruthsAreEvents DEF ReportsIInv
<1>2. log' = log \o events /\ heard' = heard
  BY DEF Log
<1>3. log' \in Seq(Event)
  BY <1>1, <1>2, ConcatProperties
<1>4. ASSUME NEW id \in DOMAIN faults', heard[id] # "LOST"
      PROVE  /\ WordIn(log \o events, heard, id) # None
             /\ faults'[id].state \in StatesNamed(WordIn(log \o events, heard, id))
  <2> DEFINE w == WordIn(log \o events, heard, id)
  <2>1. CASE Names(events, id)
    BY <1>1, <2>1, ToldWord
  <2>2. CASE ~Names(events, id) /\ id \in DOMAIN faults
             /\ SameWord(faults[id].state, faults'[id].state)
    <3> DEFINE v == WordIn(log, heard, id)
    <3>1. w = v
      BY <1>1, <2>2, AppendedWord
    <3>2. v # None /\ faults[id].state \in StatesNamed(v)
      BY <1>4, <2>2 DEF ReportsIInv, EventsTellFaults, LastWord, WordIn
    <3>3. v \in Story
      <4>1. CASE Names(log, id)
        <5>1. PICK i : LastAbout(log, id, i) /\ v = log[i].type
          BY <1>1, <4>1, WordFacts
        <5>2. log[i].type \in Story
          BY <5>1 DEF LastAbout, Tells
        <5> HIDE DEF v
        <5> QED BY <5>1, <5>2
      <4>2. CASE ~Names(log, id)
        <5>1. v = heard[id]
          BY <1>1, <4>2, WordFacts
        <5> HIDE DEF v
        <5> QED BY <1>4, <3>2, <5>1 DEF ReportsIInv
      <4> QED BY <4>1, <4>2
    <3> HIDE DEF v
    <3> QED BY <2>2, <3>1, <3>2, <3>3 DEF SameWord
  <2> QED BY <2>1, <2>2
<1>5. EventsTellFaults'
  BY <1>2, <1>4 DEF EventsTellFaults, LastWord, WordIn
<1> QED BY <1>2, <1>3, <1>5

\* Only the note of a fault that is CONFIRMED ages.
LEMMA AgedTruths ==
    ASSUME DOMAIN faults' \subseteq FaultIds, faults' \in Seq(Fault),
           NEW returned, ServiceNotifications(returned)
    PROVE  Aged(returned) \in Seq(Truths)
<1> DEFINE Entry(id) ==
      IF notes'[id].state = Notified(id, returned).state THEN <<>>
      ELSE About(id, IF notes'[id].state = "ESCALATED" THEN "FAULT_ESCALATED"
                                                       ELSE "FAULT_REMINDER_DUE")
           entries == [id \in DOMAIN faults' |-> Entry(id)]
<1>1. ASSUME NEW id \in DOMAIN faults' PROVE Entry(id) \in Seq(Truths)
  <2>1. CASE notes'[id].state = Notified(id, returned).state
    BY <2>1, EmptySeq
  <2>2. CASE notes'[id].state # Notified(id, returned).state
    <3> DEFINE type == IF notes'[id].state = "ESCALATED" THEN "FAULT_ESCALATED"
                                                        ELSE "FAULT_REMINDER_DUE"
    <3>1. notes'[id] = Serviced(id, returned)
      BY DEF ServiceNotifications
    <3>2. faults'[id].state = "CONFIRMED"
      BY <2>2, <3>1 DEF Serviced
    <3>3. type \in Story /\ StatesNamed(type) = {"CONFIRMED"}
      BY DEF Story, StatesNamed
    <3>4. Entry(id) = About(id, type)
      BY <2>2
    <3> HIDE DEF type, Entry
    <3> QED BY <3>2, <3>3, <3>4, AboutTruth
  <2> QED BY <2>1, <2>2
<1>2. DOMAIN faults' = 1 .. Len(faults') /\ Len(faults') \in Nat
  BY LenProperties
<1>3. Aged(returned) = FlattenSeq(entries)
  BY DEF Aged
<1>4. entries \in Seq(Seq(Truths))
  <2> HIDE DEF Entry
  <2> QED BY <1>1, <1>2
<1> HIDE DEF entries
<1> QED BY <1>3, <1>4, FlattenType

-----------------------------------------------------------------------------
(* The steps.                                                              *)

\* A step of the node that logs as LoggedTells asks keeps the invariant.
LEMMA StoryGoesOn ==
    ASSUME ReportsIInv, NodeIInv',
           NEW events \in Seq(Truths), Log(events),
           \A id \in DOMAIN faults' :
              \/ Names(events, id)
              \/ id \in DOMAIN faults /\ SameWord(faults[id].state, faults'[id].state)
    PROVE  ReportsIInv'
<1>1. DOMAIN faults' \subseteq FaultIds
  BY DEF NodeIInv, RecordsStamped
<1>2. log' \in Seq(Event) /\ heard' = heard /\ EventsTellFaults'
  BY <1>1, LoggedTells
<1> QED BY <1>2 DEF ReportsIInv

\* So does a step that leaves the records alone and logs true events.
LEMMA RecordsRest ==
    ASSUME ReportsIInv, NodeIInv', faults' = faults,
           NEW events \in Seq(Truths), Log(events)
    PROVE  ReportsIInv'
<1>1. \A id \in DOMAIN faults' :
         id \in DOMAIN faults /\ SameWord(faults[id].state, faults'[id].state)
  BY Words
<1> QED BY <1>1, StoryGoesOn

\* And one that rewrites a single record.
LEMMA RecordMoves ==
    ASSUME ReportsIInv, NodeIInv', NEW id \in DOMAIN faults, NEW g \in Fault,
           faults' = [faults EXCEPT ![id] = g],
           NEW events \in Seq(Truths), Log(events),
           Names(events, id) \/ SameWord(faults[id].state, g.state)
    PROVE  ReportsIInv'
<1>1. TypeOK
  BY DEF ReportsIInv, NodeIInv, IInv
<1>2. /\ DOMAIN faults' = DOMAIN faults
      /\ \A j \in DOMAIN faults : faults'[j] = IF j = id THEN g ELSE faults[j]
  BY <1>1, RewriteFacts
<1>3. \A j \in DOMAIN faults' :
         \/ Names(events, j)
         \/ j \in DOMAIN faults /\ SameWord(faults[j].state, faults'[j].state)
  BY <1>2, Words
<1> QED BY <1>3, StoryGoesOn

LEMMA NormalTells ==
    ASSUME ReportsIInv, NodeIInv', CycleNormal
    PROVE  ReportsIInv'
<1>1. ObserveNormal /\ ServiceNotifications(None) /\ Log(Aged(None))
  BY DEF CycleNormal, StepNormal
<1>2. DOMAIN faults' \subseteq FaultIds /\ faults' \in Seq(Fault)
  BY DEF NodeIInv, RecordsStamped, IInv, TypeOK
<1>3. Aged(None) \in Seq(Truths)
  BY <1>1, <1>2, AgedTruths
<1>4. faults \in Seq(Fault) /\ \A id \in DOMAIN faults : faults[id] \in Fault
  BY LenProperties, ElementOfSeq DEF ReportsIInv, NodeIInv, IInv, TypeOK
<1>5. /\ DOMAIN faults' = DOMAIN faults
      /\ \A id \in DOMAIN faults :
            \/ faults'[id] = faults[id]
            \/ faults[id].state = "SUSPECTED" /\ faults'[id] = Moved(faults[id], "NORMAL")
  BY <1>1 DEF ObserveNormal, Clear
<1>6. \A id \in DOMAIN faults : Moved(faults[id], "NORMAL").state = "NORMAL"
  BY <1>4 DEF Moved, Fault
<1>7. \A id \in DOMAIN faults' :
         id \in DOMAIN faults /\ SameWord(faults[id].state, faults'[id].state)
  BY <1>5, <1>6, Words
<1> QED BY <1>1, <1>3, <1>7, StoryGoesOn

\* What an abnormal diagnosis does to the records: the one handed back is new,
\* is confirmed or keeps its state; the others are untouched.
LEMMA AbnormalRecords ==
    ASSUME NodeIInv, NEW k \in Keys, Raise(k) \/ Repeat(k)
    PROVE  LET id == activeByKey'[k]
           IN  /\ id \in DOMAIN faults'
               /\ \A j \in DOMAIN faults' : j # id => j \in DOMAIN faults /\ faults'[j] = faults[j]
               /\ \/ faults'[id].state \in {"SUSPECTED", "CONFIRMED"}
                  \/ id \in DOMAIN faults /\ faults'[id].state = faults[id].state
               /\ faults'[id].state = "CONFIRMED" /\ id \in DOMAIN faults =>
                     faults[id].state \in {"SUSPECTED", "CONFIRMED"}
<1>1. TypeOK /\ faults \in Seq(Fault) /\ now \in Nat
  BY DEF NodeIInv, IInv, TypeOK
<1>2. CASE Raise(k)
  <2> DEFINE g == Judged(NewFault(k))
             new == Len(faults) + 1
  <2>1. NewFault(k) \in Fault /\ NewFault(k).state = "SUSPECTED" /\ RepairStory(NewFault(k))
    BY <1>1, NewFaultType
  <2>2. g \in Fault /\ g.state \in {"SUSPECTED", "CONFIRMED"}
    BY <1>1, <2>1, ObservedRecord DEF Succeeds
  <2>3. faults' = Append(faults, g) /\ activeByKey'[k] = new
    BY <1>1, <1>2 DEF Raise, TypeOK
  <2> HIDE DEF g
  <2>4. /\ DOMAIN faults = 1 .. Len(faults) /\ Len(faults) \in Nat
        /\ DOMAIN faults' = 1 .. new
        /\ faults'[new] = g
        /\ \A j \in DOMAIN faults : faults'[j] = faults[j]
    BY <1>1, <2>2, <2>3, AppendProperties, LenProperties
  <2>5. new \notin DOMAIN faults /\ \A j \in DOMAIN faults' : j # new => j \in DOMAIN faults
    BY <2>4
  <2> QED BY <2>2, <2>3, <2>4, <2>5
<1>3. CASE Repeat(k)
  <2> DEFINE id == activeByKey[k]
             g == Judged(Counted(faults[id]))
  <2>1. id \in DOMAIN faults /\ faults[id] \in Fault /\ RepairStory(faults[id])
    BY <1>1, <1>3, LenProperties, ElementOfSeq
    DEF NodeIInv, IInv, Repeat, ActiveIndexExact, RepairStoryTold
  <2>2. /\ Counted(faults[id]) \in Fault /\ RepairStory(Counted(faults[id]))
        /\ Counted(faults[id]).state = faults[id].state
    BY <1>1, <2>1, ObservedRecord DEF Succeeds
  <2>3. /\ g \in Fault
        /\ \/ g.state = faults[id].state
           \/ faults[id].state = "SUSPECTED" /\ g.state = "CONFIRMED"
    BY <1>1, <2>2, ObservedRecord DEF Succeeds
  <2>4. faults' = [faults EXCEPT ![id] = g] /\ activeByKey' = activeByKey
    BY <1>3 DEF Repeat
  <2> HIDE DEF g
  <2>5. /\ DOMAIN faults' = DOMAIN faults
        /\ \A j \in DOMAIN faults : faults'[j] = IF j = id THEN g ELSE faults[j]
    BY <1>1, <2>1, <2>3, <2>4, RewriteFacts
  <2> QED BY <2>1, <2>3, <2>4, <2>5
<1> QED BY <1>2, <1>3

\* What the engine and the notification of one fault log is true, and names the
\* fault unless its state is the one it had.
LEMMA AnnouncedTruths ==
    ASSUME NEW id \in DOMAIN faults', id \in FaultIds,
           \/ faults'[id].state \in {"SUSPECTED", "CONFIRMED"}
           \/ id \in DOMAIN faults /\ faults'[id].state = faults[id].state,
           faults'[id].state = "CONFIRMED" /\ id \in DOMAIN faults =>
              faults[id].state \in {"SUSPECTED", "CONFIRMED"}
    PROVE  /\ Observed(id) \in Seq(Truths)
           /\ Announced(id) \in Seq(Truths)
           /\ \/ Names(Observed(id), id)
              \/ id \in DOMAIN faults /\ faults'[id].state = faults[id].state
<1>1. Announced(id) \in Seq(Truths)
  <2>1. CASE faults'[id].state = "CONFIRMED" /\ notePolicy.ackRequired
    <3>1. Announced(id) = About(id, "FAULT_NOTIFIED")
      BY <2>1 DEF Announced
    <3> QED BY <3>1, Words, NoticeTruth
  <2>2. CASE ~(faults'[id].state = "CONFIRMED" /\ notePolicy.ackRequired)
    BY <2>2, EmptySeq DEF Announced
  <2> QED BY <2>1, <2>2
<1>2. CASE faults'[id].state = "SUSPECTED"
  <2>1. "FAULT_SUSPECTED" \in Story /\ faults'[id].state \in StatesNamed("FAULT_SUSPECTED")
    BY <1>2, Words DEF StatesNamed
  <2>2. Observed(id) = About(id, "FAULT_SUSPECTED")
    BY <1>2 DEF Observed
  <2> QED BY <1>1, <2>1, <2>2, AboutTruth
<1>3. CASE /\ faults'[id].state = "CONFIRMED"
           /\ id \in DOMAIN faults => faults[id].state = "SUSPECTED"
  <2>1. "FAULT_CONFIRMED" \in Story /\ faults'[id].state \in StatesNamed("FAULT_CONFIRMED")
    BY <1>3, Words DEF StatesNamed
  <2>2. Observed(id) = About(id, "FAULT_CONFIRMED")
    BY <1>3 DEF Observed
  <2> QED BY <1>1, <2>1, <2>2, AboutTruth
<1>4. CASE /\ faults'[id].state # "SUSPECTED"
           /\ ~(/\ faults'[id].state = "CONFIRMED"
                /\ id \in DOMAIN faults => faults[id].state = "SUSPECTED")
  <2>1. Observed(id) = <<>>
    BY <1>4 DEF Observed
  <2>2. id \in DOMAIN faults /\ faults'[id].state = faults[id].state
    BY <1>4
  <2> QED BY <1>1, <2>1, <2>2, EmptySeq
<1> QED BY <1>2, <1>3, <1>4

LEMMA AbnormalTells ==
    ASSUME ReportsIInv, NodeIInv', NEW k \in Keys, CycleAbnormal(k)
    PROVE  ReportsIInv'
<1> DEFINE id == activeByKey'[k]
<1>1. /\ Raise(k) \/ Repeat(k)
      /\ ServiceNotifications(id)
      /\ Log(Observed(id) \o Announced(id) \o Aged(id))
  BY DEF CycleAbnormal, StepAbnormal
<1>2. /\ id \in DOMAIN faults'
      /\ \A j \in DOMAIN faults' : j # id => j \in DOMAIN faults /\ faults'[j] = faults[j]
      /\ \/ faults'[id].state \in {"SUSPECTED", "CONFIRMED"}
         \/ id \in DOMAIN faults /\ faults'[id].state = faults[id].state
      /\ faults'[id].state = "CONFIRMED" /\ id \in DOMAIN faults =>
            faults[id].state \in {"SUSPECTED", "CONFIRMED"}
  BY <1>1, AbnormalRecords DEF ReportsIInv
<1> HIDE DEF id
<1>3. DOMAIN faults' \subseteq FaultIds /\ faults' \in Seq(Fault)
  BY DEF NodeIInv, RecordsStamped, IInv, TypeOK
<1>4. Aged(id) \in Seq(Truths)
  BY <1>1, <1>3, AgedTruths
<1>5. /\ Observed(id) \in Seq(Truths) /\ Announced(id) \in Seq(Truths)
      /\ \/ Names(Observed(id), id)
         \/ id \in DOMAIN faults /\ faults'[id].state = faults[id].state
  BY <1>2, <1>3, AnnouncedTruths
<1>6. Observed(id) \o Announced(id) \in Seq(Truths)
  BY <1>5, ConcatProperties
<1> DEFINE events == Observed(id) \o Announced(id) \o Aged(id)
<1>7. events \in Seq(Truths)
  BY <1>4, <1>6, ConcatProperties
<1>8. Names(Observed(id), id) => Names(events, id)
  BY <1>4, <1>5, <1>6, JoinedNames
<1>9. Log(events)
  BY <1>1
<1> HIDE DEF events
<1>10. ASSUME NEW j \in DOMAIN faults'
       PROVE  \/ Names(events, j)
              \/ j \in DOMAIN faults /\ SameWord(faults[j].state, faults'[j].state)
  <2>1. CASE j # id
    BY <1>2, <2>1, Words
  <2>2. CASE j = id
    BY <1>5, <1>8, <2>2, Words
  <2> QED BY <2>1, <2>2
<1> QED BY <1>7, <1>9, <1>10, StoryGoesOn

\* What an operator's action logs is true of the record it rewrites, or leaves a
\* record whose last word holds still.
LEMMA OperatorTells ==
    ASSUME ReportsIInv, NodeIInv', NEW id \in DOMAIN faults, OperatorEvents(id)
    PROVE  ReportsIInv'
<1> DEFINE f == faults[id]
<1>1. id \in FaultIds /\ f \in Fault /\ faults \in Seq(Fault)
  BY LenProperties, ElementOfSeq
  DEF ReportsIInv, NodeIInv, RecordsStamped, IInv, TypeOK
<1>2. ASSUME NEW g, g \in Fault, faults' = [faults EXCEPT ![id] = g],
             NEW type \in Story, g.state \in StatesNamed(type)
      PROVE  About(id, type) \in Seq(Truths) /\ Names(About(id, type), id)
  <2>1. TypeOK
    BY DEF ReportsIInv, NodeIInv, IInv
  <2>2. id \in DOMAIN faults' /\ faults'[id] = g
    BY <1>2, <2>1, RewriteFacts
  <2> QED BY <1>1, <1>2, <2>2, AboutTruth
<1>3. CASE /\ Acknowledge(id)
           /\ Log(About(id, "FAULT_ACKNOWLEDGED") \o
                  IF notes[id].state = "NOT_REQUIRED" THEN <<>>
                  ELSE About(id, "FAULT_ACKNOWLEDGED"))
  <2> DEFINE g == Moved(f, "ACKNOWLEDGED")
             again == IF notes[id].state = "NOT_REQUIRED" THEN <<>>
                      ELSE About(id, "FAULT_ACKNOWLEDGED")
             events == About(id, "FAULT_ACKNOWLEDGED") \o again
  <2>1. g \in Fault /\ g.state = "ACKNOWLEDGED"
    BY <1>1 DEF Moved, Fault, FaultState
  <2>2. faults' = [faults EXCEPT ![id] = g] /\ Log(events)
    BY <1>3 DEF Acknowledge
  <2>3. "FAULT_ACKNOWLEDGED" \in Story /\ g.state \in StatesNamed("FAULT_ACKNOWLEDGED")
    BY <2>1, Words DEF StatesNamed
  <2> HIDE DEF g
  <2>4. /\ About(id, "FAULT_ACKNOWLEDGED") \in Seq(Truths)
        /\ Names(About(id, "FAULT_ACKNOWLEDGED"), id)
    BY <1>2, <2>1, <2>2, <2>3
  <2>5. again \in Seq(Truths)
    BY <2>4, EmptySeq
  <2> HIDE DEF again
  <2>6. events \in Seq(Truths) /\ Names(events, id)
    BY <2>4, <2>5, ConcatProperties, JoinedNames
  <2> HIDE DEF events
  <2> QED BY <2>1, <2>2, <2>6, RecordMoves
<1>4. CASE StartRepair(id) /\ Log(About(id, "FAULT_REPAIR_STARTED"))
  <2> DEFINE g == [Moved(f, "UNDER_REPAIR") EXCEPT !.repair = "IN_PROGRESS"]
  <2>1. g \in Fault /\ g.state = "UNDER_REPAIR"
    BY <1>1 DEF Moved, Fault, FaultState, RepairStatus
  <2>2. faults' = [faults EXCEPT ![id] = g] /\ Log(About(id, "FAULT_REPAIR_STARTED"))
    BY <1>4 DEF StartRepair
  <2>3. "FAULT_REPAIR_STARTED" \in Story /\ g.state \in StatesNamed("FAULT_REPAIR_STARTED")
    BY <2>1, Words DEF StatesNamed
  <2> HIDE DEF g
  <2> QED BY <1>2, <2>1, <2>2, <2>3, RecordMoves
<1>5. CASE ReportRepaired(id) /\ Log(<<>>)
  <2> DEFINE g == [Moved(f, "VERIFYING") EXCEPT !.repair = "REPAIRED",
                                                !.verification = "VERIFYING"]
  <2>1. g \in Fault /\ g.state = "VERIFYING"
    BY <1>1 DEF Moved, Fault, FaultState, RepairStatus, VerificationStatus
  <2>2. faults[id].state = "UNDER_REPAIR" /\ faults' = [faults EXCEPT ![id] = g]
    BY <1>5 DEF ReportRepaired
  <2>3. Log(<<>>) /\ <<>> \in Seq(Truths)
    BY <1>5, EmptySeq
  <2> HIDE DEF g
  <2>4. SameWord(faults[id].state, g.state)
    BY <2>1, <2>2, Words
  <2> QED BY <2>1, <2>2, <2>3, <2>4, RecordMoves
<1>6. CASE VerifyPassed(id) /\ Log(About(id, "FAULT_CLOSED"))
  <2> DEFINE g == [Moved(f, "CLOSED") EXCEPT !.verification = "VERIFIED"]
  <2>1. g \in Fault /\ g.state = "CLOSED"
    BY <1>1 DEF Moved, Fault, FaultState, VerificationStatus
  <2>2. faults' = [faults EXCEPT ![id] = g] /\ Log(About(id, "FAULT_CLOSED"))
    BY <1>6 DEF VerifyPassed
  <2>3. "FAULT_CLOSED" \in Story /\ g.state \in StatesNamed("FAULT_CLOSED")
    BY <2>1, Words DEF StatesNamed
  <2> HIDE DEF g
  <2> QED BY <1>2, <2>1, <2>2, <2>3, RecordMoves
<1>7. CASE VerifyFailed(id) /\ Log(About(id, "FAULT_VERIFICATION_FAILED"))
  <2> DEFINE g == [Moved(f, "UNDER_REPAIR") EXCEPT
                     !.repair = "NOT_REPAIRED",
                     !.verification = "VERIFICATION_FAILED"]
  <2>1. g \in Fault /\ g.state = "UNDER_REPAIR"
    BY <1>1 DEF Moved, Fault, FaultState, RepairStatus, VerificationStatus
  <2>2. faults' = [faults EXCEPT ![id] = g] /\ Log(About(id, "FAULT_VERIFICATION_FAILED"))
    BY <1>7 DEF VerifyFailed
  <2>3. /\ "FAULT_VERIFICATION_FAILED" \in Story
        /\ g.state \in StatesNamed("FAULT_VERIFICATION_FAILED")
    BY <2>1, Words DEF StatesNamed
  <2> HIDE DEF g
  <2> QED BY <1>2, <2>1, <2>2, <2>3, RecordMoves
<1> QED BY <1>3, <1>4, <1>5, <1>6, <1>7 DEF OperatorEvents

\* A delivery report logs a notice or nothing, in whatever state the fault is.
LEMMA DeliveryTells ==
    ASSUME ReportsIInv, NodeIInv', NEW id \in DOMAIN faults, DeliveryEvents(id)
    PROVE  ReportsIInv'
<1>1. id \in FaultIds /\ faults' = faults
  BY DEF ReportsIInv, NodeIInv, RecordsStamped, DeliveryEvents,
         ReportUndelivered, ReportDelivered, engineVars
<1>2. \A type \in {"FAULT_NOTIFICATION_FAILED", "FAULT_NOTIFIED"} :
         About(id, type) \in Seq(Truths)
  BY <1>1, Words, NoticeTruth
<1>3. PICK events \in Seq(Truths) : Log(events)
  <2>1. \/ Log(About(id, "FAULT_NOTIFICATION_FAILED"))
        \/ Log(About(id, "FAULT_NOTIFIED"))
        \/ Log(<<>>)
    BY DEF DeliveryEvents
  <2> QED BY <1>2, <2>1, EmptySeq
<1> QED BY <1>1, <1>3, RecordsRest

\* Handing an event on, heard or lost, takes it out of the log and into what
\* was heard; only the loss ends what can be said of its fault.
LEMMA AnswerTells ==
    ASSUME ReportsIInv, NodeIInv', ReportEvent \/ LoseEvent
    PROVE  ReportsIInv'
<1> DEFINE e == Head(log)
<1>1. PICK word \in {e.type, "LOST"} :
         /\ log # <<>> /\ log' = Tail(log) /\ faults' = faults
         /\ heard' = [heard EXCEPT ![e.fault] =
                        IF e.type \in Story /\ @ # "LOST" THEN word ELSE @]
  BY DEF ReportEvent, LoseEvent, Answered, Reported, nodeVars, engineVars
<1>2. log \in Seq(Event) /\ heard \in [FaultIds -> Story \cup {None, "LOST"}]
  BY DEF ReportsIInv
<1>3. e \in Event /\ Tail(log) \in Seq(Event)
  BY <1>1, <1>2, HeadTailProperties
<1> HIDE DEF e
<1>4. e.fault \in FaultIds /\ (e.type \in Story => word \in Story \cup {"LOST"})
  BY <1>3 DEF Event
<1>5. heard' \in [FaultIds -> Story \cup {None, "LOST"}]
  BY <1>1, <1>2, <1>4
<1>6. ASSUME NEW id \in DOMAIN faults, heard'[id] # "LOST"
      PROVE  /\ heard[id] # "LOST"
             /\ heard'[id] = IF Tells(e, id) THEN e.type ELSE heard[id]
  <2>1. id \in FaultIds
    BY DEF ReportsIInv, NodeIInv, RecordsStamped
  <2>2. heard'[id] = IF e.fault = id /\ e.type \in Story /\ heard[id] # "LOST"
                     THEN word ELSE heard[id]
    BY <1>1, <1>2, <1>4, <2>1
  <2> QED BY <1>6, <2>2 DEF Tells
<1>7. ASSUME NEW id \in DOMAIN faults, heard'[id] # "LOST"
      PROVE  /\ WordIn(Tail(log), heard', id) # None
             /\ faults[id].state \in StatesNamed(WordIn(Tail(log), heard', id))
  <2>1. /\ WordIn(log, heard, id) # None
        /\ faults[id].state \in StatesNamed(WordIn(log, heard, id))
    BY <1>6, <1>7 DEF ReportsIInv, EventsTellFaults, LastWord, WordIn
  <2>2. heard'[id] = IF Tells(Head(log), id) THEN Head(log).type ELSE heard[id]
    BY <1>6, <1>7 DEF e
  <2>3. log \in Seq(Event) /\ log # <<>>
    BY <1>1, <1>2
  <2>4. WordIn(Tail(log), heard', id) = WordIn(log, heard, id)
    BY <2>2, <2>3, TakenWord
  <2> QED BY <2>1, <2>4
<1>8. EventsTellFaults'
  BY <1>1, <1>7 DEF EventsTellFaults, LastWord, WordIn
<1> QED BY <1>1, <1>3, <1>5, <1>8 DEF ReportsIInv

\* What leaves the records, the log and what was heard alone.
LEMMA NothingTold ==
    ASSUME ReportsIInv, NodeIInv', faults' = faults, log' = log, heard' = heard
    PROVE  ReportsIInv'
<1>1. \A id : LastWord(id)' = LastWord(id)
  BY DEF LastWord
<1>2. EventsTellFaults'
  BY <1>1 DEF ReportsIInv, EventsTellFaults
<1> QED BY <1>2 DEF ReportsIInv

\* A step of this module is a step of the node, or leaves the node alone.
LEMMA NodeSteps ==
    ASSUME [ReportsNext]_allVars
    PROVE  [NodeNext]_vars
<1>1. UNCHANGED nodeVars => UNCHANGED vars
  BY DEF nodeVars, engineVars, noteVars, vars
<1>2. CycleNormal => Step
  BY DEF CycleNormal, Step
<1>3. ASSUME NEW k \in Keys, CycleAbnormal(k) PROVE Step
  BY <1>3 DEF CycleAbnormal, Step
<1>4. ASSUME NEW id \in DOMAIN faults, OperatorEvents(id), UNCHANGED noteVars
      PROVE  OperatorAction
  BY <1>4 DEF OperatorEvents, OperatorAction, Operate
<1>5. ASSUME NEW id \in DOMAIN faults \cap Reportable, DeliveryEvents(id)
      PROVE  ReportUndelivered(id) \/ ReportDelivered(id)
  BY <1>5 DEF DeliveryEvents
<1>6. Unlogged => NodeNext
  BY DEF Unlogged, NodeNext
<1>7. ReportEvent \/ LoseEvent => UNCHANGED nodeVars
  BY DEF ReportEvent, LoseEvent, Answered
<1>8. UNCHANGED allVars => UNCHANGED nodeVars
  BY DEF allVars, nodeVars
<1> QED BY <1>1, <1>2, <1>3, <1>4, <1>5, <1>6, <1>7, <1>8 DEF ReportsNext, NodeNext

LEMMA ReportsNextIInv == ReportsIInv /\ [ReportsNext]_allVars => ReportsIInv'
<1> SUFFICES ASSUME ReportsIInv, [ReportsNext]_allVars PROVE ReportsIInv'
  OBVIOUS
<1>1. NodeIInv'
  BY NodeSteps, NodeNextIInv DEF ReportsIInv
<1>2. CASE CycleNormal
  BY <1>1, <1>2, NormalTells
<1>3. ASSUME NEW k \in Keys, CycleAbnormal(k) PROVE ReportsIInv'
  BY <1>1, <1>3, AbnormalTells
<1>4. ASSUME NEW id \in DOMAIN faults, OperatorEvents(id) PROVE ReportsIInv'
  BY <1>1, <1>4, OperatorTells
<1>5. ASSUME NEW id \in DOMAIN faults \cap Reportable, DeliveryEvents(id) PROVE ReportsIInv'
  BY <1>1, <1>5, DeliveryTells
<1>6. CASE Unlogged
  <2>1. faults' = faults /\ log' = log /\ heard' = heard
    BY <1>6 DEF Unlogged, Clock, Advance, ConfigWrite, SetPolicy
  <2> QED BY <1>1, <2>1, NothingTold
<1>7. CASE ReportEvent \/ LoseEvent
  BY <1>1, <1>7, AnswerTells
<1>8. CASE UNCHANGED allVars
  <2>1. faults' = faults /\ log' = log /\ heard' = heard
    BY <1>8 DEF allVars, engineVars
  <2> QED BY <1>1, <2>1, NothingTold
<1> QED BY <1>2, <1>3, <1>4, <1>5, <1>6, <1>7, <1>8 DEF ReportsNext

LEMMA InitReportsIInv == ReportsInit => ReportsIInv
<1> SUFFICES ASSUME ReportsInit PROVE ReportsIInv
  OBVIOUS
<1>1. NodeIInv
  BY InitNodeIInv DEF ReportsInit
<1>2. faults = <<>> /\ DOMAIN faults = {}
  BY DEF ReportsInit, NodeInit, Init
<1> QED BY <1>1, <1>2, EmptySeq DEF ReportsIInv, ReportsInit, EventsTellFaults

-----------------------------------------------------------------------------
(* The theorems.                                                           *)

\* Whatever the order of control cycles, operators' actions, policy changes,
\* requests and delivery reports, late ones too, and however many events wait:
\* the last event of the story of a fault that was heard or is still to be
\* handed on names the state the fault is in, unless an answer that tells of
\* that fault was lost.
THEOREM EventsTellTheStory == ReportsSpec => []EventsTellFaults
<1>1. ReportsIInv => EventsTellFaults
  BY DEF ReportsIInv
<1> QED BY <1>1, InitReportsIInv, ReportsNextIInv, PTL DEF ReportsSpec

\* Logging, answering and losing answers change nothing about the faults: a
\* node that is polled, with its notifications and events, still implements
\* the ledger.
THEOREM PolledNodeImplementsLedger == ReportsSpec => LedgerSpec
<1>1. ReportsInit => Init
  BY DEF ReportsInit, NodeInit
<1>2. [ReportsNext]_allVars => [Next]_engineVars
  BY NodeSteps, EngineSteps
<1> QED BY <1>1, <1>2, EngineImplementsLedger, PTL DEF ReportsSpec, Spec

\* What the controller has heard of the story of a fault it lost nothing of
\* and of which nothing waits: never that it was closed while it is not, and
\* that it was closed when it is.
HeardIsTrue ==
    \A id \in DOMAIN faults :
        (heard[id] # "LOST" /\ ~Names(log, id)) =>
            (heard[id] = "FAULT_CLOSED" <=> faults[id].state = "CLOSED")

\* The safety half of ClosureHeard: once its log holds nothing more of the story
\* of a fault, the node owes the controller no word about its closure.  Notices
\* of its notification, reported after the closure, do not undo that.
THEOREM DrainedIsTrue == ReportsSpec => []HeardIsTrue
<1>1. ASSUME ReportsIInv PROVE HeardIsTrue
  <2> SUFFICES ASSUME NEW id \in DOMAIN faults, heard[id] # "LOST", ~Names(log, id)
               PROVE  heard[id] = "FAULT_CLOSED" <=> faults[id].state = "CLOSED"
    BY DEF HeardIsTrue
  <2>1. WordIn(log, heard, id) = heard[id]
    BY <1>1, WordFacts DEF ReportsIInv
  <2>2. heard[id] # None /\ faults[id].state \in StatesNamed(heard[id])
    BY <1>1, <2>1 DEF ReportsIInv, EventsTellFaults, LastWord, WordIn
  <2>3. StatesNamed("FAULT_CLOSED") = {"CLOSED"}
    BY DEF StatesNamed
  <2>4. heard[id] # "FAULT_CLOSED" => "CLOSED" \notin StatesNamed(heard[id])
    BY DEF StatesNamed
  <2> QED BY <2>2, <2>3, <2>4
<1> QED BY <1>1, InitReportsIInv, ReportsNextIInv, PTL DEF ReportsSpec
=============================================================================
