----------------------------- MODULE GroupLink -----------------------------
(***************************************************************************)
(* The field bus between the group controller and its lamp nodes           *)
(* (group_controller.py, comm/bus.py, lamp_node.py).  The controller sends *)
(* requests, each a synchronous call of the bus; a node answers when the   *)
(* host program runs process_incoming(); the host carries the answers back *)
(* to the bus, and may lose, repeat or reorder them; the controller takes  *)
(* what arrived when the host runs collect_responses().                    *)
(*                                                                         *)
(* pending_requests, which grows and is never read, the counters and the   *)
(* events are left out.                                                    *)
(***************************************************************************)
EXTENDS SequenceTracker, Sequences, FiniteSets, CommHealth

CONSTANTS
    Addresses,   \* bus addresses of nodes
    RetryLimit,  \* poll_retry_count
    MaxLives,    \* bound on the nodes built for one address
    MaxInbox,    \* bound on the requests waiting at a node
    MaxHeld,     \* bound on one node's answers with the host, and on all
                 \* that wait at the controller
    MaxCorrupt   \* bound on the frames corrupted

ASSUME LinkAssumption ==
    /\ Addresses \subseteq Nat
    /\ IsFiniteSet(Addresses)
    /\ RetryLimit \in Nat
    /\ {MaxLives, MaxInbox, MaxHeld, MaxCorrupt} \subseteq Nat

VARIABLES
    registrations,  \* _registrations: address -> registration, or None
    masterSeq,      \* the controller's _sequence, up to Modulus
    incoming,       \* the controller's _incoming
    nodes,          \* the lamp nodes: their _sequence, _incoming, and their life
    held,           \* answers in the hands of the host program
    silent,         \* the addresses the bus does not reach: in _silent, or detached
    corruptNext,    \* the bus's _corrupt_next
    corrupted       \* how often corrupt_next_frame() was called

vars == <<registrations, masterSeq, incoming, nodes, held, silent, corruptNext, corrupted>>

\* An answer: its source, its number, and which node built for that address
\* made it (a history: the frame itself does not tell).
Frame == [source : Addresses, sequence : SequenceNumber, life : Nat]

Request == {"STATUS_REQUEST", "CONFIG_READ"}

Registration == [tracker : Tracker, comm : Link, awaiting : BOOLEAN,
                 accepted : Seq(Frame)]  \* history: the frames processed, in order

Node == [sequence : 0 .. Modulus, inbox : Seq(Request), life : Nat]

FreshRegistration ==
    [tracker |-> FreshTracker, comm |-> FreshLink, awaiting |-> FALSE, accepted |-> <<>>]

Registered == {a \in Addresses : registrations[a] # None}

-----------------------------------------------------------------------------
(* The bus.                                                                *)

\* send() reaches a node that is attached and not silent.
Reachable(a) == a \notin silent

\* Frames of one kind are put into the inboxes of the nodes in A.
Deliver(A, request) ==
    nodes' = [a \in Addresses |->
                IF a \in A THEN [nodes[a] EXCEPT !.inbox = Append(@, request)] ELSE nodes[a]]

Room(A) == \A a \in A : Len(nodes[a].inbox) < MaxInbox

-----------------------------------------------------------------------------
(* The controller's requests.                                              *)

\* Numbers are never taken modulo Modulus: past the last one the constructor
\* of Frame raises, and does so for every later request.
First(A) == CHOOSE a \in A : \A b \in A : a <= b
Turn(a)  == Cardinality({b \in Registered : b <= a})
Numbered == {a \in Registered : masterSeq + Turn(a) < Modulus}

\* A corrupted frame fails its CRC at the first receiver, inside send(): the
\* exception ends the whole round.
Aborts == corruptNext /\ Numbered # {} /\ Reachable(First(Numbered))

Attempted == IF Aborts THEN {First(Numbered)} ELSE Numbered

\* Slip: the failure is recorded where the bus delivered.
PolledUpsideDown(a) ==
    IF ~Reachable(a)
    THEN [registrations[a] EXCEPT !.awaiting = TRUE]
    ELSE [registrations[a] EXCEPT !.awaiting = FALSE,
                                  !.comm = RecordFailure(@, RetryLimit)]

\* One node's registration after its turn.
Polled(a) ==
    IF Reachable(a)
    THEN [registrations[a] EXCEPT !.awaiting = TRUE]
    ELSE [registrations[a] EXCEPT !.awaiting = FALSE,
                                  !.comm = RecordFailure(@, RetryLimit)]

\* poll: every registered node in the order of the addresses.
Poll(request) ==
    LET reached == IF Aborts THEN {} ELSE {a \in Attempted : Reachable(a)}
        sent    == Cardinality(Attempted)
    IN  /\ masterSeq < Modulus
        /\ Registered # {}
        /\ Room(reached)
        /\ registrations' = [a \in Addresses |->
                               IF a \in Attempted THEN Polled(a) ELSE registrations[a]]
        /\ Deliver(reached, request)
        /\ masterSeq' = masterSeq + sent + IF Numbered # Registered /\ ~Aborts THEN 1 ELSE 0
        /\ corruptNext' = (corruptNext /\ Attempted = {})
        /\ UNCHANGED <<incoming, held, silent, corrupted>>

\* forward_control, distribute_configuration, identify: one frame to one
\* node, which leaves the registration as it is.
SendOne(a) ==
    LET reached == IF Reachable(a) /\ ~corruptNext THEN {a} ELSE {}
    IN  /\ a \in Registered
        /\ masterSeq + 1 < Modulus
        /\ Room(reached)
        /\ Deliver(reached, "STATUS_REQUEST")
        /\ masterSeq' = masterSeq + 1
        /\ corruptNext' = FALSE
        /\ UNCHANGED <<registrations, incoming, held, silent, corrupted>>

\* synchronize_time: the same number to every node.
SynchronizeTime ==
    LET aborts  == corruptNext /\ Reachable(First(Registered))
        reached == IF aborts THEN {} ELSE {a \in Registered : Reachable(a)}
    IN  /\ Registered # {}
        /\ masterSeq + 1 < Modulus
        /\ Room(reached)
        /\ Deliver(reached, "STATUS_REQUEST")
        /\ masterSeq' = masterSeq + 1
        /\ corruptNext' = FALSE
        /\ UNCHANGED <<registrations, incoming, held, silent, corrupted>>

-----------------------------------------------------------------------------
(* The node and the host program.                                          *)

\* process_incoming: the whole inbox.  A handler may have nothing to answer
\* (no measurement, fault or event yet): `answered' are the requests that are
\* answered.  The answer to a CONFIG_READ, and any answer past the last
\* number, raises after it took its number, up to Modulus; the requests before
\* it are gone with their answers, the ones after it wait.
ProcessIncoming(a) ==
    LET n == nodes[a]
        NumberOf(i, answered) ==
            LET m == n.sequence + Cardinality({j \in answered : j <= i})
            IN  IF m < Modulus THEN m ELSE Modulus
        Raises(answered) == {i \in answered : \/ n.inbox[i] = "CONFIG_READ"
                                              \/ NumberOf(i, answered) = Modulus}
    IN  /\ n.inbox # <<>>
        /\ \E answered \in SUBSET DOMAIN n.inbox :
             /\ \A i \in DOMAIN n.inbox : n.inbox[i] = "CONFIG_READ" => i \in answered
             /\ IF Raises(answered) = {}
                THEN /\ nodes' = [nodes EXCEPT
                                    ![a].sequence = @ + Cardinality(answered),
                                    ![a].inbox = <<>>]
                     /\ held' = held \cup
                          {[source |-> a, sequence |-> NumberOf(i, answered),
                            life |-> n.life] : i \in answered}
                ELSE LET i == First(Raises(answered))
                     IN  /\ nodes' = [nodes EXCEPT
                                        ![a].sequence = NumberOf(i, answered),
                                        ![a].inbox = SubSeq(@, i + 1, Len(@))]
                         /\ UNCHANGED held
        /\ Cardinality({f \in held' : f.source = a}) <= MaxHeld
        /\ UNCHANGED <<registrations, masterSeq, incoming, silent, corruptNext, corrupted>>

\* The host sends an answer it holds, and keeps a copy or not.  A corrupted
\* one raises and reaches nobody.
SendAnswer(f, keep) ==
    /\ Len(incoming) < MaxHeld
    /\ incoming' = IF corruptNext THEN incoming ELSE Append(incoming, f)
    /\ held' = IF keep THEN held ELSE held \ {f}
    /\ corruptNext' = FALSE
    /\ UNCHANGED <<registrations, masterSeq, nodes, silent, corrupted>>

\* The host loses an answer, or a silent controller misses it.
LoseAnswer(f) ==
    /\ held' = held \ {f}
    /\ UNCHANGED <<registrations, masterSeq, incoming, nodes, silent, corruptNext, corrupted>>

-----------------------------------------------------------------------------
(* The controller takes what arrived.                                      *)

\* Slip: the number of a discarded frame is recorded as well.
HandledAlways(r, f) ==
    IF Classify(r.tracker, f.sequence) = "new"
    THEN [tracker  |-> Record(r.tracker, f.sequence), comm |-> RecordSuccess(r.comm),
          awaiting |-> FALSE, accepted |-> Append(r.accepted, f)]
    ELSE [r EXCEPT !.tracker = Record(@, f.sequence)]

\* _handle_frame for the registration of the frame's source.
Handled(r, f) ==
    IF Classify(r.tracker, f.sequence) = "new"
    THEN [tracker  |-> Record(r.tracker, f.sequence),
          comm     |-> RecordSuccess(r.comm),
          awaiting |-> FALSE,
          accepted |-> Append(r.accepted, f)]
    ELSE r

\* The registration of a after the first i frames, in order of arrival, for
\* every i.
Collected(a) ==
    LET after[i \in 0 .. Len(incoming)] ==
          IF i = 0 THEN registrations[a]
          ELSE IF incoming[i].source = a THEN Handled(after[i - 1], incoming[i])
          ELSE after[i - 1]
    IN  after

\* collect_responses: every frame that arrived; one from an address that is
\* not registered is rejected.
CollectResponses ==
    /\ incoming # <<>>
    /\ registrations' = [a \in Addresses |->
          IF a \in Registered THEN Collected(a)[Len(incoming)] ELSE None]
    /\ incoming' = <<>>
    /\ UNCHANGED <<masterSeq, nodes, held, silent, corruptNext, corrupted>>

-----------------------------------------------------------------------------
(* Configuration and fault injection.                                      *)

RegisterNode(a) ==
    /\ a \notin Registered
    /\ registrations' = [registrations EXCEPT ![a] = FreshRegistration]
    /\ UNCHANGED <<masterSeq, incoming, nodes, held, silent, corruptNext, corrupted>>

UnregisterNode(a) ==
    /\ a \in Registered
    /\ registrations' = [registrations EXCEPT ![a] = None]
    /\ UNCHANGED <<masterSeq, incoming, nodes, held, silent, corruptNext, corrupted>>

\* A node is built anew and attached at the address: it counts from the start.
Replace(a) ==
    /\ nodes[a].life < MaxLives
    /\ nodes' = [nodes EXCEPT ![a] = [sequence |-> 0, inbox |-> <<>>, life |-> @.life + 1]]
    /\ UNCHANGED <<registrations, masterSeq, incoming, held, silent, corruptNext, corrupted>>

\* set_silent, and detaching and attaching again.
SetSilent(a) ==
    /\ silent' = IF a \in silent THEN silent \ {a} ELSE silent \cup {a}
    /\ UNCHANGED <<registrations, masterSeq, incoming, nodes, held, corruptNext, corrupted>>

CorruptNextFrame ==
    /\ corrupted < MaxCorrupt
    /\ corruptNext' = TRUE
    /\ corrupted' = corrupted + 1
    /\ UNCHANGED <<registrations, masterSeq, incoming, nodes, held, silent>>
-----------------------------------------------------------------------------

Init ==
    /\ registrations = [a \in Addresses |-> FreshRegistration]
    /\ masterSeq = 0
    /\ incoming = <<>>
    /\ nodes = [a \in Addresses |-> [sequence |-> 0, inbox |-> <<>>, life |-> 1]]
    /\ held = {}
    /\ silent = {}
    /\ corruptNext = FALSE
    /\ corrupted = 0

Next ==
    \/ \E request \in Request : Poll(request)
    \/ SynchronizeTime
    \/ CollectResponses
    \/ \E a \in Addresses : \/ SendOne(a)
                             \/ ProcessIncoming(a)
                             \/ RegisterNode(a)
                             \/ UnregisterNode(a)
                             \/ Replace(a)
                             \/ SetSilent(a)
    \/ \E f \in held : LoseAnswer(f) \/ \E keep \in BOOLEAN : SendAnswer(f, keep)
    \/ CorruptNextFrame

Spec == Init /\ [][Next]_vars

-----------------------------------------------------------------------------
(* Properties.                                                             *)

\* Every variable stays within its type.
TypeOK ==
    /\ registrations \in [Addresses -> Registration \cup {None}]
    /\ masterSeq \in 0 .. Modulus
    /\ incoming \in Seq(Frame)
    /\ nodes \in [Addresses -> Node]
    /\ held \subseteq Frame
    /\ silent \subseteq Addresses
    /\ corruptNext \in BOOLEAN
    /\ corrupted \in 0 .. MaxCorrupt

Accepted(a) == registrations[a].accepted

\* No answer is processed twice while its node stays registered, however
\* often the host repeats it and in whatever order it comes (PR-COMM-005).
\* The memory of numbers and the marker of the newest both have to hold for
\* that, through frames built anew with the same numbers.
AcceptedOnce ==
    \A a \in Registered : \A i, j \in DOMAIN Accepted(a) :
        Accepted(a)[i].sequence = Accepted(a)[j].sequence => i = j

\* Nothing overtakes: an accepted answer is newer than the one accepted
\* before it, unless it lags by more than half the number space, where the
\* numbers no longer tell.
AcceptedForward ==
    \A a \in Registered : \A i \in DOMAIN Accepted(a) \ {1} :
        LET lag == Accepted(a)[i - 1].sequence - Accepted(a)[i].sequence
        IN  lag < 0 \/ lag > Half

\* Nothing new is dropped: an answer the controller took from its queue was
\* processed, or an answer with the same or a later number was, or it is half
\* the number space or more ahead of one that was the last to be processed,
\* where the numbers no longer tell.
Excused(f, r, s) ==
    \E j \in DOMAIN s.accepted :
        LET g == s.accepted[j]
        IN  \/ g.sequence >= f.sequence
            \/ j >= Len(r.accepted) /\ f.sequence - g.sequence >= Half

NothingNewDropped ==
    [][CollectResponses =>
         \A i \in DOMAIN incoming :
            LET f == incoming[i]
            IN  f.source \in Registered =>
                  Excused(f, registrations[f.source], registrations'[f.source])]_vars

\* State and failure count agree: a link is degraded after exactly the
\* retries it is granted and lost only beyond that (docs/05 8), for a limit
\* of zero too.
Retries == IF RetryLimit = 0 THEN 1 ELSE RetryLimit

HealthMatchesFailures ==
    \A a \in Registered :
        LET l == registrations[a].comm
        IN  CASE l.state \in {"COMM_HEALTHY", "RECOVERY"} -> l.failures = 0
              [] l.state = "RETRY"                        -> l.failures \in 1 .. Retries
              [] l.state = "DEGRADED"                     -> l.failures = Retries + 1
              [] l.state = "COMM_FAULT"                   -> l.failures >= 1

\* Health follows traffic: the failures of a link grow only in a step that
\* did not reach its node, and are forgotten only when a new answer of that
\* node was accepted; a duplicate counts neither way.
HealthFollowsTraffic ==
    [][\A a \in Registered : registrations'[a] # None /\ registrations[a] # registrations'[a] =>
         LET r == registrations[a]
             s == registrations'[a]
         IN  /\ s.comm.failures > r.comm.failures => ~Reachable(a)
             /\ s.comm.state # r.comm.state /\ s.comm.failures = 0
                   => Len(s.accepted) > Len(r.accepted)
             /\ Len(s.accepted) > Len(r.accepted)
                   => s.comm.failures = 0 /\ ~s.awaiting]_vars

\* docs/05_communication_architecture.md:231: RETRY, a response was missed;
\* :189-190: on timeout, retry and in the end mark the node.  A node that is
\* polled anew when it has dealt with the last poll, and the answer it owes
\* is nowhere on its way, has a failure counted against it.
Silenced(a) ==
    /\ registrations[a].awaiting
    /\ nodes[a].inbox = <<>>
    /\ \A f \in held : f.source # a
    /\ \A i \in DOMAIN incoming : incoming[i].source # a

MissedResponseCounted ==
    [][(\E request \in Request : Poll(request)) =>
         \A a \in Attempted : Silenced(a) => registrations'[a].comm.failures > 0]_vars
=============================================================================
