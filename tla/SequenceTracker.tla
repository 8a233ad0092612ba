-------------------------- MODULE SequenceTracker --------------------------
(***************************************************************************)
(* Sequence tracking of the frames from one source (SequenceTracker in     *)
(* group_controller.py): numbers live in a space of Modulus and wrap, and  *)
(* ahead and behind are told by the distance modulo that space.  How often *)
(* a number was recorded is left out: only its presence is ever read.      *)
(***************************************************************************)
EXTENDS Integers

CONSTANTS
    Modulus,  \* _SEQUENCE_MODULUS, even
    Window,   \* _DEFAULT_SEQUENCE_WINDOW
    None

ASSUME TrackerAssumption ==
    /\ Modulus \in Nat /\ Modulus >= 2
    /\ Window \in Nat \ {0}
    /\ None \notin Nat

SequenceNumber == 0 .. Modulus - 1
Half == Modulus \div 2

Tracker == [seen : SUBSET SequenceNumber, newest : SequenceNumber \cup {None}]

FreshTracker == [seen |-> {}, newest |-> None]

Ahead(t, s) == (s - t.newest) % Modulus

\* Slip: the numbers already processed are not remembered, only the newest.
ClassifyByNewest(t, s) ==
    IF t.newest = None                         THEN "new"
    ELSE IF Ahead(t, s) = 0                    THEN "duplicate"
    ELSE IF Ahead(t, s) < Half                 THEN "new"
    ELSE IF Modulus - Ahead(t, s) <= Window    THEN "duplicate"
    ELSE "stale"

\* Slip: a late number that was never processed is let in.
ClassifyLate(t, s) ==
    IF t.newest = None                         THEN "new"
    ELSE IF s \in t.seen \/ Ahead(t, s) = 0    THEN "duplicate"
    ELSE IF Ahead(t, s) < Half                 THEN "new"
    ELSE IF Modulus - Ahead(t, s) <= Window    THEN "new"
    ELSE "stale"

\* classify: the tests of the code, in its order.
Classify(t, s) ==
    IF t.newest = None                          THEN "new"
    ELSE IF s \in t.seen \/ Ahead(t, s) = 0     THEN "duplicate"
    ELSE IF Ahead(t, s) < Half                  THEN "new"
    ELSE IF Modulus - Ahead(t, s) <= Window     THEN "duplicate"
    ELSE "stale"

\* Slip: the number expected next is kept instead.
RecordNext(t, s) ==
    [seen   |-> t.seen \cup {s},
     newest |-> IF t.newest = None \/ Ahead(t, s) \in 1 .. Half - 1 THEN s + 1 ELSE t.newest]

\* record: the newest number only ever moves ahead.
Record(t, s) ==
    [seen   |-> t.seen \cup {s},
     newest |-> IF t.newest = None \/ Ahead(t, s) \in 1 .. Half - 1 THEN s ELSE t.newest]
=============================================================================
