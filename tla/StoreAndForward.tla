-------------------------- MODULE StoreAndForward --------------------------
(***************************************************************************)
(* Store-and-forward of the group controller (group_controller.py): what   *)
(* the controller ingests is buffered in its record store, and a call of   *)
(* forward_upstream() offers every pending record to the upstream link,    *)
(* which may be down, go down on the way, refuse a record, or take it and  *)
(* not say so; or which is up and takes everything, as the in-memory link  *)
(* of the repository.  Around it the store loses power, recovers, suffers  *)
(* damage and deletes.                                                     *)
(***************************************************************************)
EXTENDS RecordStore

CONSTANT Outcomes  \* what a link in trouble may do with one record

\* InMemoryUpstreamLink takes every record while it is available; another
\* UpstreamLink may fail between available() and upload(), or raise, which
\* leaves that record as "refused" does and the later ones untouched.
ASSUME LinkAssumption ==
    Outcomes \subseteq {"accepted", "refused", "unanswered", "unavailable"}

VARIABLES
    link,     \* "up", "down", or "flaky": available, for the moment
    taken,    \* history: the records the upstream has ever taken
    sent,     \* history: the records it took in this step
    damaged   \* history: the records the medium has damaged

vars == <<records, pending, sequence, full, powerLost, now, link, taken, sent, damaged>>

RecordIds == 1 .. MaxRecords

\* _buffer_record: an ingested payload is stored, or STORAGE_FULL is recorded.
BufferRecord ==
    /\ Create \/ CreateRefused
    /\ sent' = {}
    /\ UNCHANGED <<link, taken, damaged>>

\* Slip: a record whose upload was not answered counts as confirmed.
AfterUploadAssumed(r, outcome) ==
    IF outcome \in {"accepted", "unanswered"} THEN [r EXCEPT !.state = "RETAINED"]
    ELSE IF outcome = "refused" THEN [r EXCEPT !.state = "UPLOADED"]
    ELSE r

\* Slips: a refused record leaves the queue; a confirmed one stays.
UnconfirmedOnceTried(outcome) ==
    Without(pending, {s \in Queued : outcome[s] \in {"accepted", "refused"}})
UnconfirmedForever(outcome) == pending

\* What is left of the queue.
Unconfirmed(outcome) == Without(pending, {s \in Queued : outcome[s] = "accepted"})

\* forward_upstream: mark_uploaded, upload and mark_confirmed for each record
\* that was pending when the call began.
AfterUpload(r, outcome) ==
    IF outcome = "accepted" THEN [r EXCEPT !.state = "RETAINED"]
    ELSE IF outcome \in {"refused", "unanswered"} THEN [r EXCEPT !.state = "UPLOADED"]
    ELSE r

ForwardUpstream(outcome) ==
    /\ records' = [s \in Stored |-> IF s \in Queued
                                    THEN AfterUpload(records[s], outcome[s])
                                    ELSE records[s]]
    /\ pending' = Unconfirmed(outcome)
    /\ sent' = {s \in Queued : outcome[s] \in {"accepted", "unanswered"}}
    /\ taken' = taken \cup sent'
    /\ UNCHANGED <<sequence, full, powerLost, now, link, damaged>>

Forward ==
    \/ link = "up" /\ ForwardUpstream([s \in Queued |-> "accepted"])
    \/ link = "flaky" /\ \E outcome \in [Queued -> Outcomes] : ForwardUpstream(outcome)

SetLink(state) ==
    /\ link' = state
    /\ sent' = {}
    /\ UNCHANGED <<storeVars, taken, damaged>>

Damage(s) ==
    /\ Corrupt(s)
    /\ damaged' = damaged \cup {s}
    /\ sent' = {}
    /\ UNCHANGED <<link, taken>>

Maintain ==
    /\ \/ DetectCorruption
       \/ PowerLoss
       \/ Recover
       \/ \E s \in Stored : Delete(s)
       \/ Tick
    /\ sent' = {}
    /\ UNCHANGED <<link, taken, damaged>>

Init ==
    /\ StoreInit
    /\ link \in {"up", "down", "flaky"}
    /\ taken = {}
    /\ sent = {}
    /\ damaged = {}

Next ==
    \/ BufferRecord
    \/ Forward
    \/ \E state \in {"up", "down", "flaky"} : SetLink(state)
    \/ \E s \in Stored : Damage(s)
    \/ Maintain

\* The host program calls forward_upstream() again and again.
Spec == Init /\ [][Next]_vars /\ WF_vars(Forward)

-----------------------------------------------------------------------------
(* Properties.                                                             *)

\* Every variable stays within its type.
TypeOK ==
    /\ StoreTypeOK
    /\ link \in {"up", "down", "flaky"}
    /\ sent \subseteq taken
    /\ taken \subseteq RecordIds
    /\ damaged \subseteq RecordIds

\* No silent loss (docs/06 9.4): a record that was accepted for storage is
\* still queued, or the upstream has taken it, or the medium damaged it; and
\* a record of the store out of the queue has been taken upstream.  Queue,
\* dict and link are updated by different calls, in different orders.
NoSilentLoss ==
    /\ \A s \in 1 .. sequence : s \in Queued \/ s \in taken \/ s \in damaged
    /\ Stored \ Queued \subseteq taken

\* The queue and the lifecycle states agree: the queue is in order of creation
\* without repetition, every entry is a stored record, and a valid record is
\* queued exactly while it awaits upload or confirmation (PR-STORAGE-008).
QueueMatchesStates ==
    /\ \A i, j \in DOMAIN pending : i < j => pending[i] < pending[j]
    /\ Queued \subseteq Stored
    /\ \A s \in Stored : records[s].valid =>
          (s \in Queued <=> records[s].state \in {"PENDING_UPLOAD", "UPLOADED"})

\* A power loss and the recovery after it cost nothing but damaged records: a
\* valid record never leaves the store, and what leaves the queue was taken
\* upstream in that very step or is invalid.
ValidRecordsSurvive ==
    [][/\ \A s \in Stored : records[s].valid => s \in DOMAIN records'
       /\ \A s \in Queued \ Queued' : s \in sent' \/ ~records[s].valid]_vars

\* A confirmed record is not sent again (tests/test_group_controller.py:323),
\* not after a power loss, a recovery or a deletion either.
NoUploadOnceConfirmed ==
    [][\A s \in Stored : records[s].state \in {"RETAINED", "DELETED"} =>
          s \notin sent']_vars

\* Once the link stays up, every stored record reaches the upstream or is
\* damaged.
EveryRecordForwarded ==
    <>[](link = "up") => \A s \in RecordIds :
        s <= sequence ~> s \in taken \/ s \in damaged

\* Store, queue and link together are a delivery of records: each record has
\* one of the fates of the abstract specification, and every call, loss and
\* recovery moves it along as Delivery says.  The fate is read from the
\* record's lifecycle state alone; that the queue follows it is what makes the
\* right records go up.
FateOf(s) ==
    IF s > sequence           THEN "absent"
    ELSE IF s \in damaged     THEN "damaged"
    ELSE IF s \notin Stored   THEN "lost"
    ELSE IF records[s].state \in {"PENDING_UPLOAD", "UPLOADED"} THEN "waiting"
    ELSE "delivered"

Promise == INSTANCE Delivery WITH Records <- RecordIds,
                                  fate <- [s \in RecordIds |-> FateOf(s)],
                                  sent <- sent

DeliverySpec == Promise!Spec

\* docs/06_storage_and_logging.md:95 and :223: a corrupt record is excluded
\* from upload.
CorruptNotUploaded ==
    [][\A s \in Stored : s \in sent' => records[s].valid]_vars
=============================================================================
