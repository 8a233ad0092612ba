---------------------------- MODULE RecordStore ----------------------------
(***************************************************************************)
(* The record store of a node or of the group controller (storage.py):     *)
(* the dict _records, the upload queue _pending_upload and the flags.      *)
(*                                                                         *)
(* A record's payload, CRC and commit marker matter through is_valid()     *)
(* only: create() sets CRC and marker before the record enters the dict,   *)
(* so a stored record is valid until the medium damages it.  Its           *)
(* transient states inside one call (CREATED, STORED, CONFIRMED) are       *)
(* never seen between calls.                                               *)
(***************************************************************************)
EXTENDS Integers, Sequences, FiniteSets

CONSTANTS
    Capacity,      \* capacity, or None when unlimited
    MinRetention,  \* RetentionPolicy.minimum_retention_ticks, or None
    None,
    MaxRecords,    \* bound on the number of records ever created
    MaxTick        \* bound on the clock

ASSUME StoreAssumption ==
    /\ None \notin Nat
    /\ Capacity \in (Nat \ {0}) \cup {None}
    /\ MinRetention \in Nat \cup {None}
    /\ MaxRecords \in Nat /\ MaxTick \in Nat

VARIABLES
    records,    \* _records: sequence number -> record
    pending,    \* _pending_upload: sequence numbers, oldest first
    sequence,   \* _sequence
    full,       \* _full
    powerLost,  \* _power_lost
    now         \* the owner's clock

storeVars == <<records, pending, sequence, full, powerLost, now>>

RecordLifecycleState == {"PENDING_UPLOAD", "UPLOADED", "RETAINED", "DELETED",
                         "CORRUPT"}
Record == [state : RecordLifecycleState, valid : BOOLEAN, stamp : Nat]

Stored == DOMAIN records
Queued == {pending[i] : i \in DOMAIN pending}
Invalid == {s \in Stored : ~records[s].valid}

\* Queue q after the removal of the members of S, each at its only place.  (A
\* recursive function where SelectSeq would do, because the proofs look inside.)
Without(q, S) ==
    LET kept[i \in 0 .. Len(q)] ==
            IF i = 0 THEN <<>>
            ELSE IF q[i] \in S THEN kept[i - 1]
            ELSE Append(kept[i - 1], q[i])
    IN  kept[Len(q)]

-----------------------------------------------------------------------------
\* create: refused after a power loss, and when the dict is at capacity.  A
\* deleted record still counts: it stays in the dict.
AtCapacity == Capacity # None /\ Cardinality(Stored) >= Capacity

Create ==
    /\ ~powerLost
    /\ ~AtCapacity
    /\ sequence < MaxRecords
    /\ sequence' = sequence + 1
    /\ records' = [s \in Stored \cup {sequence'} |->
                     IF s = sequence'
                     THEN [state |-> "PENDING_UPLOAD", valid |-> TRUE, stamp |-> now]
                     ELSE records[s]]
    /\ pending' = Append(pending, sequence')
    /\ UNCHANGED <<full, powerLost, now>>

\* StorageFullError: the flag is set, and nothing resets it.
CreateRefused ==
    /\ ~powerLost
    /\ AtCapacity
    /\ full' = TRUE
    /\ UNCHANGED <<records, pending, sequence, powerLost, now>>

\* The medium damages a record, whatever its state.
Corrupt(s) ==
    /\ records' = [records EXCEPT ![s].state = "CORRUPT", ![s].valid = FALSE]
    /\ UNCHANGED <<pending, sequence, full, powerLost, now>>

DetectCorruption ==
    /\ records' = [s \in Stored |->
                     IF ~records[s].valid /\ records[s].state # "DELETED"
                     THEN [records[s] EXCEPT !.state = "CORRUPT"]
                     ELSE records[s]]
    /\ UNCHANGED <<pending, sequence, full, powerLost, now>>

PowerLoss ==
    /\ powerLost' = TRUE
    /\ UNCHANGED <<records, pending, sequence, full, now>>

\* Slips: the numbering starts over; records whose upload was interrupted are
\* discarded; the queue is lost.
RecoverRenumbering ==
    /\ powerLost' = FALSE
    /\ sequence' = 0
    /\ UNCHANGED <<records, pending, full, now>>

RecoverUninterrupted ==
    LET Lost == Invalid \cup {s \in Stored : records[s].state = "UPLOADED"}
    IN  /\ powerLost' = FALSE
        /\ records' = [s \in Stored \ Lost |-> records[s]]
        /\ pending' = Without(pending, Lost)
        /\ UNCHANGED <<sequence, full, now>>

RecoverUnqueued ==
    /\ powerLost' = FALSE
    /\ records' = [s \in Stored \ Invalid |-> records[s]]
    /\ pending' = <<>>
    /\ UNCHANGED <<sequence, full, now>>

\* recover: every invalid record leaves the dict and the queue.
Recover ==
    /\ powerLost' = FALSE
    /\ records' = [s \in Stored \ Invalid |-> records[s]]
    /\ pending' = Without(pending, Invalid)
    /\ UNCHANGED <<sequence, full, now>>

WithinMinimumRetention(s) ==
    MinRetention # None /\ now - records[s].stamp < MinRetention

\* Slip: a record that is still queued is deleted.
DeleteQueued(s) ==
    /\ ~WithinMinimumRetention(s)
    /\ records' = [records EXCEPT ![s].state = "DELETED"]
    /\ UNCHANGED <<pending, sequence, full, powerLost, now>>

\* delete: an explicit request.  The record keeps its place in the dict.
Delete(s) ==
    /\ s \notin Queued
    /\ ~WithinMinimumRetention(s)
    /\ records' = [records EXCEPT ![s].state = "DELETED"]
    /\ UNCHANGED <<pending, sequence, full, powerLost, now>>

Tick ==
    /\ now < MaxTick
    /\ now' = now + 1
    /\ UNCHANGED <<records, pending, sequence, full, powerLost>>

StoreInit ==
    /\ records = <<>>
    /\ pending = <<>>
    /\ sequence = 0
    /\ full = FALSE
    /\ powerLost = FALSE
    /\ now = 0

StoreTypeOK ==
    /\ Stored \subseteq 1 .. sequence
    /\ records \in [Stored -> Record]
    /\ pending \in Seq(Nat)
    /\ sequence \in 0 .. MaxRecords
    /\ full \in BOOLEAN
    /\ powerLost \in BOOLEAN
    /\ now \in Nat
=============================================================================
