# A TLA+ model of the SSL street lighting prototype

SSL is a Python prototype of a street lighting control system: lamp nodes that
each run one lamp, a field bus, and a group controller that polls the nodes and
forwards what they report to an upstream service. The code under `src/src/sslv1`
is a single-threaded library. A host program (the simulation harness, a test)
calls it: `step()` on a node for one control cycle, `process_incoming()` on a
node to handle its inbox, `poll()`, `forward_control()`, `collect_responses()` and
`forward_upstream()` on the controller, `send()` on the bus. Nothing in the
library fixes an order of these calls, so the order, and what is lost between
them, is where its difficulties lie. The models let the host call anything at
any time.

This directory holds the models, the TLC configurations that check them on
small instances, and proofs for TLAPS: every safety property the runs check is
also a theorem, for the fault engine, the fault path of a node and its reporting,
what a node measures and diagnoses, the command path, the link between
controller and nodes, and the record store with its way upstream.

## 1. Inventory

File names are relative to `src/src/sslv1`.

| Component | State | Operations | Modules |
|---|---|---|---|
| Fault engine (`fault.py`) | `_faults`, `_active_by_key`, `_policy` | `observe`, `acknowledge`, `start_repair`, `report_repaired`, `verify`, `set_policy` | `FaultLedger`, `FaultEngine`, `FaultEvidence` |
| Notification engine (`notification.py`) | per fault: notification state, `_last_notified`, `_delivery_attempts` | `on_fault_confirmed`, `notify`, `delivery_failed`, `tick`, `acknowledge` | `Notification`, composed in `LampNodeFaults` |
| Lamp node (`nodes/lamp_node.py`) | the components above and below, `_incoming`, `_sequence`, `_energy`, reporting queues | `step`, `start`, `restart`, `process_incoming`, operator API | `LampNodeFaults` (faults), `NodeTelemetry` (measurement), `CommandPath` (commands), `NodeReports` (event reports), the node half of `GroupLink` |
| Control model (`control.py`) | configured mode, override, protection, lamp | `decide`, `apply_override`, `set_protection`, `restart` | `LampControl` |
| Commands and authorization (`command.py`, `authorization.py`) | records by command identity | `submit`, `check` | `CommandLedger`, `CommandPath` |
| Group controller, link side (`nodes/group_controller.py`, `comm/state_machine.py`) | `_registrations` with a sequence tracker and a link health each, `_sequence`, `_incoming` | `poll`, `forward_control`, `distribute_configuration`, `synchronize_time`, `collect_responses`, registration | `SequenceTracker`, `CommHealth`, `GroupLink` |
| Group controller, upstream side | its record store, the upstream link | `_buffer_record`, `forward_upstream` | `Delivery`, `StoreAndForward` |
| Record store (`storage.py`) | `_records`, `_pending_upload`, `_sequence`, `_full`, `_power_lost` | `create`, `mark_*`, `corrupt`, `detect_corruption`, `power_loss`, `recover`, `delete` | `RecordStore` |
| Field bus (`comm/bus.py`) | attached nodes, `_silent`, `_corrupt_next` | `attach`, `detach`, `send`, `set_silent`, `corrupt_next_frame` | part of `GroupLink` |
| Time model (`time_model.py`) | clock, drift, synchronization state and tick | `advance`, `synchronize`, `mark_unsynchronized`, `mark_lost` | `TimeModel`, composed in `NodeTelemetry` |
| Diagnostics (`diagnostics.py`), measurement (`measurement.py`) | a configuration each | `evaluate`, `assess` | `Diagnostics`, composed in `NodeTelemetry` |
| Event log (`event.py`) | the events of a device | `append` | fault events, in `NodeReports` |
| Configuration (`configuration.py`) | - | `validate` | as assumptions |
| Payloads (`comm/protocol.py`), frames, identity, enumerations | - | encoding | no |

### How the components interact

A control cycle (`LampNode.step`) reads the sensor, asks the control model for
the lamp state, measures, diagnoses, feeds the diagnosis to the fault engine,
notifies the fault the engine hands back, and ages the notifications of all
confirmed faults. The controller sends requests through the bus, which calls
the node's `receive` at once; the node only queues the frame. It answers when the
host runs `process_incoming()`, and the host has to carry the answers back to
the bus. The controller queues them and takes them in `collect_responses()`: it
checks source and sequence number, updates the link's health, and buffers the
content in its record store. `forward_upstream()` offers every buffered record to
the upstream link. A command goes to the node directly, or through the
controller, which runs a command lifecycle of its own beside the node's.

### What is hard, and what has to be right

- **Fault engine.** Two collections kept in step by hand (records and index of
  open faults), over raising, clearing, closing and raising again; a counting
  window anchored at a first observation, under a policy that may be replaced
  while it counts. *Right:* one open record per diagnosis, in both directions; a
  confirmation only on enough evidence; dead records stay dead; repair and
  verification status agree with the lifecycle; the lifecycle is the documented
  one.
- **Notification.** Tied to the fault engine by a return value; ages against the
  clock while operators acknowledge, policies change and a delivery layer reports,
  perhaps when the fault is closed already. *Right:* every confirmed fault is
  notified, the node tells nobody of a suspicion, no timer is passed over, an
  acknowledgement ends the reminding, silence escalates.
- **Commands and control.** Retries with the same identity on two paths, lost
  frames, restarts that clear some of the state, overrides and protection that
  move the lamp between cycles. *Right:* a command has its effect once and the
  node's record says so; the latest order the node authorized prevails; a cycle
  follows the priority order; the dead band keeps the lamp from flickering.
- **Link.** Answers repeated, reordered, lost, numbered in a space that wraps in
  the receiver and not in the sender; exceptions that end a round half way.
  *Right:* each answer is processed at most once and in order, nothing new is
  dropped, health says what happened on the link.
- **Store-and-forward.** A record's state, the queue and the upstream change in
  different calls, any of which may fail, with power losses, damage, deletion
  and a full store around them. *Right:* no silent loss, queue and states agree,
  recovery keeps what is valid, what was confirmed is not sent again, everything
  arrives once the link stays up.

- **Time and diagnosis.** A local clock that drifts, a master that may be behind
  it, a state that is re-evaluated on some calls only; thirteen diagnostic rules
  of which the first that applies wins; a configuration held in six places and
  replaced while the node runs. *Right:* measurements are in order and do not
  claim a better time than the node has; a bad sensor neither hides a broken lamp
  nor is taken for one; no rule shadows a documented signature; diagnosis and
  observed state agree.
- **Reporting.** One event per request, counted as reported before its answer is
  delivered; answers lost; notices of a notification among the events, at any time.
  *Right:* the events tell the story of each fault in order and to its end unless
  one is lost.

`PROJECT.json` lists the hazards one by one, at their lines, with the properties
that would catch each.

## 2. Modules and how they correspond to the code

State variables and operators keep the code's names in TLA+ spelling
(`_active_by_key` is `activeByKey`, `record_failure` is `RecordFailure`);
`PROJECT.json` gives the lines of every definition. Some conventions hold
throughout. An operation that the code rejects with an exception before it
changed anything is a disabled action; one that raises half way is an action
with the partial effect. Events, log texts and counters nobody reads are left
out. History variables, which the code does not have, are marked as such
where they are declared. Definitions marked *Slip* are plausible
mistakes in the definition below them; no specification uses them, and each
makes the property named beside it in `PROJECT.json` fail.

**`FaultLedger`** is the abstract specification: one lifecycle state per fault
key, moved along the documented transitions.

**`FaultEngine`** is `fault.py`. A sequence of records indexed by the identifier
stands for the dict, which only grows. `observe()` is split by what it finds:
`Raise` (no open record), `Repeat` (an open one), `ObserveNormal` (a normal
diagnosis). Each of them is the whole call, confirmation included. The five
operator calls are one action each; `SetPolicy` is what a configuration write
does to the engine; `Advance` is the caller's clock.

**`FaultEvidence`** adds a history of the diagnoses themselves, so that
confirmations can be judged on it and not on the counter that decided them.

**`Notification`** gives `notification.py` as functions on the state kept for one
fault. **`LampNodeFaults`** composes it with the engine: `StepNormal` and
`StepAbnormal` are one control cycle with both halves in the order of `step()`, a
`ConfigWrite` replaces both policies at once, and a delivery layer may report on
a record at any time (`notify`, `delivery_failed`): neither call asks what state the
fault is in, so a report may come early, late, or where no notification is
required.

**`NodeReports`** composes `LampNodeFaults` with what the node logs about its
faults and what it answers to the controller's polls. Each action of the node
logs what the code logs, in its order (`Observed`, `Announced`, `Aged`), into the
part of the event log not yet reported. `ReportEvent` is the request for an event
with its answer ingested, `LoseEvent` the same with the answer lost. Request, answer
and delivery are one step, since an answer holds copies and `GroupLink` shows that
answers are taken in order or not at all. The events are of two kinds: the *story*
of a fault, from its suspicion to its closure, and *notices* of what became of its
notification, which a delivery layer may cause in any state of the fault. What the
controller heard (`heard`) is the last event of the story. It can tell the two kinds
apart: a sent notification is logged as FAULT_CONFIRMED, like the confirmation, but
with severity INFO where that has ERROR (`lamp_node.py:918`), and an answer carries
the severity.

**`TimeModel`** gives `time_model.py` as functions on one device's time, and
**`Diagnostics`** gives `diagnostics.py` and what it needs of `measurement.py` as
functions of the readings, the configuration and the communication status;
a reading may be missing (`None`). **`NodeTelemetry`** composes them into the
measuring half of `step()`: time moves on, then a measurement is stamped, the
lamp's state derived from it, and the whole diagnosed. Between cycles the host
moves the clock, the controller's time and configurations arrive, the time is
declared unsynchronized or lost, and the communication status is set. The
configuration of the node (`config`) and that of validator and engine (`rules`)
are two variables, as they are two objects in the code. Loads are compared as
integers; the product of voltage and current is compared with the measured power
within the tolerance.

**`LampControl`** gives `control.py` as functions on the state of one lamp;
whether the schedule is on is an input. **`CommandPath`** has the operator, the
group controller and the node: `Operate` is the node's own API, `ForwardControl`
the controller's (first the frame, then the controller's own lifecycle), and
`ProcessIncoming` the node's inbox loop for control and configuration frames;
`Cycle`, `SetProtection` and `Restart` are the node's life around it. One
`Submitted` models `CommandService.submit` for the node: duplicate check,
authorization, execution, verification.

**`CommandLedger`** is the abstract specification of the command side of a lamp:
what became of each command (new, refused, done), how often it was carried out,
and the override in force. Some new commands are settled in one step, since an
inbox is worked off in one call; a restart forgets the override and nothing else.
`CommandPath` maps to it by `FateOf` on the node's records; FAILED, which no
execution reaches, has no counterpart.

**`SequenceTracker`** and **`CommHealth`** give the two per-source state machines
as functions. **`GroupLink`** composes them with the bus, the nodes' inboxes and
numbering, and a host that carries answers and may lose, repeat or reorder
them. A poll is one action for the whole round, including the round that a
corrupted frame or an exhausted number space ends half way; `CollectResponses`
gives each registration what the frames of its address make of it in order of
arrival (`Collected`). A node may be
replaced by a new one at its address, which starts counting anew.

**`RecordStore`** is `storage.py`; **`StoreAndForward`** adds the controller's
buffering, the forwarding call and the link. A link that is up accepts every
record, one that is down accepts none; with a flaky one the outcome of each record
of a call is chosen: accepted, refused, taken without an answer, or unavailable
half way. The call is one step because nothing else runs in it.

**`Delivery`** is the abstract specification of both: the fate of each record is
absent, waiting, delivered or damaged, it is accepted in the order of its number,
sent while it waits and not once it was delivered. `StoreAndForward` maps to it by
`FateOf`: a number not yet given out is absent; a damaged record is damaged
wherever it is; PENDING_UPLOAD and UPLOADED are waiting, since an upload without
an answer is repeated; every other state is delivered. A record that left the
store undamaged would be "lost", which is no fate of `Delivery`: that nothing is
lost is part of what the refinement shows.

The `MC*` modules give constants their values and declare symmetry. The modules
named `*_proofs` hold the theorems of section 4.

## 3. What is checked

Every run is exhaustive within its bounds, and deadlock is checked in all of
them. State counts are distinct states.

| Run | States | What it shows |
|---|---|---|
| `fault_evidence` | 1.5 million | `ActiveIndexExact`, `RepairStoryTold`, `RecordsFinal`, `ConfirmationEvidenced`; the engine implements the ledger (`LedgerSpec`, refinement by `LifeOf`) |
| `lamp_node_faults` | 0.2 million | `SuspicionsSilent`, `ConfirmedNotified`, `OnlyUnacknowledgedRemind`, `StepServesTimers`; `UnansweredEscalates` under fairness |
| `store_and_forward` | 0.1 million | `NoSilentLoss`, `QueueMatchesStates`, `ValidRecordsSurvive`, `NoUploadOnceConfirmed`; store, queue and link implement `Delivery` (`DeliverySpec`, refinement by `FateOf`); `EveryRecordForwarded` under fairness |
| `group_link` | 0.9 million | `HealthFollowsTraffic` with two nodes: what happens to one link leaves the other alone |
| `sequence_numbers` | 0.6 million | `AcceptedOnce`, `AcceptedForward`, `NothingNewDropped`, `HealthMatchesFailures`, with one node |
| `command_path` | 0.1 million | `RecordTellsEffect`, `OverrideIsLatest`, `CycleObeysPriority`, `DeadBandSeparates`; the node implements `CommandLedger` (`CommandSpec`, refinement by `FateOf`) |
| `telemetry` | 0.2 million | `MeasurementsInOrder`, `StampsHonest`, `UncertaintyLasts`, `SensorBlamesNoLamp`, `SignatureDiagnosed`, `NormalMeansActual` |
| `node_reports` | 0.6 million | `EventsTellFaults`; `ClosureHeard` under fairness |

Each run but three also checks the type invariant of its module (`TypeOK`,
`NodeTypeOK`, `TelemetryTypeOK`). `sequence_numbers` and `node_reports` leave it to
the runs of the same modules or of those they compose, and `fault_evidence` to
`lamp_node_faults`, whose `NodeTypeOK` contains that of the engine. Four more runs
end in a violation, each of a sentence of the documentation (section 5).

### Bounds, and why they are enough

- `fault_evidence`: two keys and two records are the least at which records
  compete for the index and a key gets a second record; the clock of 3 ticks
  lets the window of a three-observation policy expire and count anew
  (`MaxCount` 3), while the other policy confirms at once; either may replace the
  other. Keys are symmetric.
- `lamp_node_faults`: two records, reminder after 1 tick and escalation after 2,
  of 2 ticks in all, so that both come due in one tick when cycles are skipped;
  acknowledgement required or not; one retry and two attempts, so that a note
  reaches `DELIVERY_FAILED`. A delivery layer reports on the first record only
  (`Reportable`), in every state of it: the second would repeat what the first
  shows. No symmetry, because liveness is checked.
- `store_and_forward`: three records against a capacity of two, so that the store
  is full, and a retention of one tick of two, so that deletion is first refused
  and then allowed. Three records are also the least at which the queue has a
  first, a middle and a last to lose. No symmetry: records are numbered.
- `group_link`: a modulus of 4 lets both nodes and the controller run out of
  numbers; one corrupted frame; two nodes. `sequence_numbers`: a modulus of 6 has
  numbers on either side of half the space, at it and in the window; two answers
  under way can be reordered; a second node at the address repeats the numbers.
  The code's values are 65536 and 32; how classification works depends only on
  order and on the place of half and window, which the small spaces keep. In both
  runs frames at the controller, answers with the host and inboxes are bounded
  by `MaxHeld` and `MaxInbox`.
- `telemetry`: a clock of 3 ticks and a threshold of two, or none, so that a time
  becomes uncertain and is synchronized again; a device with and without drift;
  two configurations, one with the current of the default configuration that
  counts both as none and as unexpected, one that measures every second tick.
  The readings are a lamp as it should be, lit or not, and each way one reading
  of it can be off; the theorems of section 4 are about all readings.
- `node_reports`: two faults, three unreported events, as many as one cycle logs,
  so that an event waits behind others. A clock of one tick reaches a reminder;
  escalation, which needs two, is logged by the same operator. Only the first
  fault is reported on by a delivery layer (`Reportable`), early and late, up to and
  after its closure.
- `command_path`: two identities are the least at which an old command is retried
  after a new one; light levels 0 to 2 with dead bands of one and of two. The
  inbox holds one frame: what is processed in one call has the effect of the same
  frames processed in consecutive calls, because `process_incoming` does nothing
  between two frames but the node's handling of the first.

### Fairness

`LampNodeFaults` assumes that the host runs control cycles again and again and
that its clock advances (weak fairness of `Step` and of `Clock`): `step()` is the
periodic main call of a node, and every escalation the documentation promises
presupposes it. No operator action, delivery report or configuration write is
fair. `StoreAndForward` assumes that the host calls `forward_upstream()` again and
again (weak fairness of `Forward`), which is all that the controller offers for
moving records; that the link comes up and stays up is a premise of
`EveryRecordForwarded` (`<>[](link = "up")`), not of the specification. `NodeReports`
assumes that the controller polls for events again and again and that some answer
gets through (weak fairness of `ReportEvent`): `poll()` is the controller's periodic
call, and a link on which every answer is lost tells nothing. Any one answer may still be lost; the
properties allow for it. The other specifications are used for safety only and
state no fairness.

## 4. What is proved

Forty-five theorems are checked by TLAPS, in the modules named `*_proofs`. They hold
for every value of the constants that meets the named assumptions; the bounds of
the runs are among the constants, and need only be numbers. Every invariant, every
action property and every refinement that a run checks is stated by one of them.

| Module | Theorems |
|---|---|
| `FaultEngine_proofs` | `TypeCorrect`, `IndexExact`, `RepairStoryHolds`: the invariants `TypeOK`, `ActiveIndexExact`, `RepairStoryTold`; `EngineImplementsLedger`: the engine implements `FaultLedger`; `RecordsStayFinal`: `RecordsFinal` |
| `FaultEvidence_proofs` | `ConfirmationRestsOnEvidence`: `ConfirmationEvidenced`; `HistoryIsPassive`: with the history of diagnoses the engine does what it does without |
| `LampNodeFaults_proofs` | `NodeTypeCorrect`, `SuspicionsStaySilent`, `ConfirmedAreNotified`: the invariants of `LampNodeFaults`; `AcknowledgedRest`, `TimersServed`: `OnlyUnacknowledgedRemind`, `StepServesTimers`; `NodeRunsEngine`: a node implements `FaultEngine`, so that `NodeImplementsLedger`: `LedgerSpec`, and `NodeRecordsStayFinal`: `RecordsFinal` |
| `NodeReports_proofs` | `EventsTellTheStory`: `EventsTellFaults`; `DrainedIsTrue`: the safety half of `ClosureHeard`; `PolledNodeImplementsLedger`: `LedgerSpec`, through the node |
| `NodeTelemetry_proofs` | `TelemetryTypeCorrect`, `MeasurementsOrdered`, `StampsAreHonest`, `UncertaintyStays`, `SensorHarmless`, `SignaturesFound`, `NormalLampsObey`: every property of `NodeTelemetry` |
| `StoreAndForward_proofs` | `StoreTypesKept`, `NothingLostSilently`, `QueueAgreesWithStates`, `ValidRecordsKept`, `ConfirmedNotResent`: the safety properties of `StoreAndForward`; `DamageIsTracked`: a record is invalid exactly if it was damaged; `StoreImplementsDelivery`: store, queue and link implement `Delivery`; `OneCallSuffices`: the safety half of `EveryRecordForwarded` |
| `GroupLink_proofs` | `LinkTypesKept`, `NothingTwice`, `NothingOvertakes`, `HealthIsCounted`, `NewIsProcessed`, `HealthTellsTraffic`: `TypeOK`, `AcceptedOnce`, `AcceptedForward`, `HealthMatchesFailures`, `NothingNewDropped`, `HealthFollowsTraffic`, every property of `GroupLink` |
| `CommandPath_proofs` | `CommandTypesKept`, `RecordsTellEffects`, `OverrideFollowsOrders`, `PriorityObeyed`, `FlickerFree`: the properties of `CommandPath`; `NodeKeepsLedger`: the node implements `CommandLedger` |

### From which assumptions

- Fault engine and node: confirmation policies have positive numbers
  (`PolicyAssumption`), notification policies are what validation lets through
  (`NotePolicyAssumption`), and there is at least one of each.
- Telemetry: readings are integers or missing, configurations are valid in the
  sense of `LampConfiguration.validate` (`ConfigurationAssumption`), drifts and
  thresholds are natural numbers, zero included (`DeviceAssumption`).
- Store: capacity and retention are numbers or absent, the capacity positive
  (`StoreAssumption`); a link in trouble does what `Outcomes` lists
  (`LinkAssumption`).
- Commands: configurations are valid and light levels are numbers
  (`CommandAssumption`). How long the inbox is does not matter.
- Reporting: what is assumed of the engine and of notifications, and that the log's
  bound is a number (`ReportAssumption`).
- Link: a number space of two numbers or more and a positive window
  (`TrackerAssumption`); finitely many addresses, and a limit of retries and bounds
  that are numbers, zero included (`LinkAssumption` of `GroupLink`).
- `None` is not a number, a command or an event, where it stands beside them.

### Along which argument

**Fault engine.** The inductive invariant is `IInv == TypeOK /\ ActiveIndexExact /\
RepairStoryTold`. None of the parts is inductive without the others. That a
record closed by `VerifyPassed` was the entry its key had follows from the exact
index; so does that a `Repeat` writes to an open record, on which the repair
story of its successor rests; and types are needed to speak of either. A lemma
common to most actions (`RewriteOpen`) says that rewriting an open record to an
open record of the same key leaves the index exact. The refinement maps a key to
the state of its index entry, and to NORMAL where there is none (`LifeOf`); each
action of the engine then is one action of the ledger or a stutter.

**Evidence.** `EvidenceKept` says what a counter means: the diagnoses seen of a key
are in the order of time, and the count of a suspicion counts back over the last
of them from its window's anchor. It needs the exact index, since a diagnosis is
counted on the record the index names.

**Node.** `NodeIInv` joins the engine's invariant with that about the notes of
confirmed faults (`ConfirmedNotified`) and with what connects them: a confirmed
record carries the tick of its confirmation. A record without such a tick is not
confirmed, which is why a cycle leaves its note alone (`SuspicionsStaySilent`).
`Recorded` says what a step of the engine looks like from the
notes, so that the notification half is argued once for all actions. That the node
runs the engine and nothing else on its records (`NodeRunsEngine`) carries every
theorem about the engine over to the node.

**Reports.** The controller's word on a fault is the last event of its story,
delivered or still in the log; the invariant is that this word names the state the
record is in, unless an event was lost on the way (`EventsTellFaults`, with the types of log
and deliveries and the node's invariant). Each action is argued in two halves: what
the word is after a batch of events is appended (`AppendedWord`), or one is taken
from the front (`TakenWord`), whatever the batch is; and that every event of a story
that an action logs names the state its fault ends in (`Truths`), while a fault
nothing is logged of keeps a state its last word names (`LoggedTells`). Notices are
no word on a fault, so a delivery report in any state changes none (`DeliveryTells`).

**Link.** The inductive invariant says of each registration that its tracker
remembers exactly the numbers processed, and the last of them as the newest
(`Remembered`); without it neither `AcceptedOnce` nor `AcceptedForward` is inductive.
`ClassifiedNew` is what `classify` decides, for any modulus and window: what is taken
for new is unseen and ahead of the newest. What one frame does to a registration
(`HandledSound`) is lifted to a whole call by induction on the frames that arrived
(`CollectedSound`), which also shows that none that is new was dropped. The numbers a
round of polls hands out fit the space, or the round ends before (`RoundFits`).

**Telemetry.** `HistoryTold` ties the time model to the histories the properties
speak of: the tick of the last synchronization is the model's own, None before the
first, an uncertain time is an old one, counted from tick 0 where there was no
synchronization, and no measurement is of the future. That sensors blame no
lamp and that no rule shadows a signature are lemmas about `Evaluate` alone; the
type invariant adds that validator and engine judge by the node's
configuration.

**Store-and-forward.** `IInv` says that records are numbered in order and invalid
exactly if damaged (`RecordsTracked`), that the queue is in order and agrees with
the states (`QueueKept`), and that what left the queue was taken or damaged.
`StoreMoves` sums up what any step that does not create a record may do to records
and queue; the action properties follow from it. The refinement needs one fact
more, that no number up to `sequence` is missing but for damage (`NoneLost`).

**Command path.** `Good` is what one handled frame preserves of a node: its records
tell its effects and its override is the latest order. `SwitchedByThreshold`
remembers that the sensor logic switched the lamp on the right side of a
threshold still in force; between two switchings the light has then crossed the
band. The refinement of `CommandLedger` rests on `Settled`, a relation of a node
before and after: every command is as it was, newly refused, or newly done with one
execution more, and the override is as it was unless some command is newly done. It
is transitive, and so holds of a whole inbox because it holds of one frame.

**Queues of any length.** What a call does to a whole queue or inbox is a recursive
function on the length (`Without`, `Processed`, `Collected`), and that it preserves a
property is an induction on that length. It is stated on a set of numbers
(`NumberInduction`: a set with 0 and the successor of each member holds every
number), which follows from the well-foundedness of the numbers without an operator
as parameter. The same induction gives the type of a flattened sequence
(`FlattenType`): the events that ageing logs are each true of their fault, and in
what order they stand does not matter (`AgedTruths`).

### Only model-checked

Liveness, which is out of the prover's reach. Of each of the three properties the
part that is about single steps is a theorem:

- `UnansweredEscalates`: `TimersServed` says that the next cycle serves every timer
  that is due. That cycles and ticks keep coming, and that this ends in an
  escalation, is model-checked.
- `EveryRecordForwarded`: `OneCallSuffices` says that one call with the link up empties
  the queue for good. That there is such a call is model-checked.
- `ClosureHeard`: `DrainedIsTrue` says that once nothing of a fault's story waits and
  nothing of it was lost, the controller has heard that it is closed exactly if it
  is. That the log drains is model-checked.

## 5. Where the code and its documentation disagree

Each is shown by a run that states the documentation's sentence and has TLC find
the behaviour of the code that breaks it. The table gives the lines.

| Run | The documentation | The code |
|---|---|---|
| `escalates_on_time` | a sent notification is not sent again in every cycle and escalates when its timeout is reached (docs/04, 313-322) | while the diagnosis persists, every cycle initialises and sends the notification of a confirmed fault again (`lamp_node.py:277`), so its timers start over and it never escalates |
| `corrupt_upload` | a record whose CRC does not match is excluded from upload (docs/06, 95 and 223) | `forward_upstream()` (`group_controller.py:638`) uploads whatever is queued, and damage does not unqueue |
| `missed_response` | a missed response leads to RETRY, and repeated ones to a fault (docs/05, 188-190 and 231) | `poll()` (`group_controller.py:325`) counts only requests the bus could not deliver |
| `verified_at_node` | a command is not successful merely because it was received (docs/02, 290-297) | the controller's executor and verifier always succeed (`group_controller.py:661`), and the node's acknowledgement changes nothing |

Further disagreements were met while the models were written. The models follow
the code; no run is about these:

- `forward_control()` sends the frame and only then asks whether the caller may
  command (`group_controller.py:502`-`504`), and the node judges the command by an
  actor it makes up (`lamp_node.py:1071`), since the frame does not name the caller.
  A VIEWER's forwarded LAMP_ON is REJECTED in the controller's record and executed at
  the node; so is an OPERATOR's, because to the controller every forwarded command
  is a SET_MODE. PR-CONTROL-004 (docs/02, 329-330) has commands that are not
  authorized rejected "rather than executed", and PR-SECURITY-001 (docs/02,
  1387-1388) has overrides accepted "only from an authorized operator".
  `RecordTellsEffect`, `OverrideIsLatest` and the refinement of `CommandLedger` are
  therefore about the node and its own record; *authorized* means by the node, for the
  actor it made up, and they promise nothing about the caller over the bus.
- A device that was never synchronized, with a threshold above zero, is
  UNSYNCHRONIZED until its clock reaches the threshold (`time_model.py:154`-`157`): it
  counts from tick 0. The comment there (`time_model.py:150`) and the name of
  `test_time_never_synchronized_is_uncertain_from_the_start` (tests/test_time.py, 113)
  say that such a device is uncertain from the start; the test advances it beyond
  the threshold before it looks. `StampsHonest` states what the code does, in a part
  of its own.
- A delivery report on a fault that was acknowledged or closed is taken and logged
  (`notification.py:126`-`181`), so the last event of a closed fault may be
  FAULT_NOTIFICATION_FAILED. Where no notification is required, `delivery_failed()`
  counts the attempt and then raises. No retry is made by the code: a note that is
  PENDING again, or DELIVERY_FAILED, waits for the next abnormal cycle to be set up
  anew, and does not age.
- A notification that was sent is logged with the type of the confirmation
  (`lamp_node.py:918`); only the severity tells the two apart.
- An override moves the lamp at once (`control.py:134`), under protection too, and
  the next cycle takes it back; PR-CONTROL-001 (docs/02, 267-274) puts protection
  first. `CycleObeysPriority` is therefore about cycles.
- The controller stamps every record it makes SYNCHRONIZED
  (`group_controller.py:714`), whatever the node's stamp says; PR-TIME-002 asks for
  an indication of uncertainty.
- A reading that is missing goes out as 0 (`lamp_node.py:422`), so that the
  controller cannot tell it from a valid zero; PR-MEASURE-004 asks that one can.
- `test_synchronizing_backwards_marks_the_time_uncertain` is named for what the
  code does not do: after synchronizing to a master behind it, the node is
  SYNCHRONIZED (`time_model.py:129`).
- `mark_unsynchronized()` after `mark_lost()` (`time_model.py:135`) makes a time that
  was lost merely unsynchronized again, within the threshold.
- The energy counter is packed into a signed 32-bit number of mWh
  (`lamp_node.py:428`); beyond 2147 kWh every answer to a measurement request
  raises.
- A fault event that is reported does not say which fault it is about, so the
  controller cannot connect it to a fault report.
- A lamp commanded on whose current is not known is diagnosed NORMAL, and at a
  current equal to both thresholds, as the default configuration has them, a lamp
  is diagnosed to have an open load while its actual state is ON.
- A configured mode in a configuration write is accepted and reaches the
  configuration, but not the control model, which keeps the mode it has
  (`lamp_node.py:560`).

## 6. What is not modelled

- **Fault reports** (`lamp_node.py:504`): the answer to a FAULT_REPORT is the state of
  the first active fault when it is made. It changes nothing at the node, so one that
  is lost is made up for by the answer to the next request.
- **Payload and frame bytes** (`comm/protocol.py`, the encoding in
  `comm/frame.py`): stateless encoding. A frame is a record; a corrupted one is one
  that raises at its receiver. That the encoder of a CONFIG_ACK refuses what a
  CONFIG_READ hands it is part of `GroupLink`; that the reason of an event may be
  too long to encode is not, so that an event report that raises after the event
  was marked is a lost answer like any other (`LoseEvent`).
- **Accumulated energy**: a counter that is only added to and sent. `CommandPath`
  has the one decision that depends on it.
- **The node's own record store and reporting interval:** the store is the module
  `RecordStore`; a node creates records in it and does nothing else with them.
- **Events of other sources, audit log:** append-only output that influences
  nothing modelled. An event of another source costs a request more, which
  `ReportEvent` abstracts from.
- **Schedules and wall-clock time:** `LampControl` takes "the schedule is on" as an
  input, which covers every schedule; conversions of ticks are left out.
- **Floating point:** thresholds, readings and light levels are integers. The code
  only compares them, but for the product of voltage and current, for which
  integers leave out rounding.
- **Identity, enumerations and errors:** value types without state.

## 7. Plan

The order is by what matters most to the system. Done, in this order:

1. `FaultLedger`, `FaultEngine`, `FaultEvidence`.
2. `Notification`, and `LampNodeFaults`, which composes it with the engine.
3. `RecordStore`, and `StoreAndForward`, which composes it with the upstream.
4. `SequenceTracker`, `CommHealth`, and `GroupLink`, which composes them with bus
   and nodes.
5. `LampControl`, and `CommandPath`, which composes it with both command services.
6. `NodeReports`, which composes `LampNodeFaults` with events and the requests that
   drain them.
7. `TimeModel` and `Diagnostics`, composed with measurement in `NodeTelemetry`.
8. `Delivery`, the abstract store-and-forward.
9. The proofs about the components of items 1 to 8 but the link.
10. The proofs about the link, with the folds of `GroupLink` written as a recursive
    function, as those of `CommandPath` are.
11. `CommandLedger`, the abstract command, and that the node implements it.
12. `EventsTellFaults` as a theorem, on top of `NodeIInv`, and the composition
    theorems (`NodeRunsEngine`, `HistoryIsPassive`, `PolledNodeImplementsLedger`).

Next:

13. **Energy** as a counter of a fixed width, and with it what a request costs whose
    answer cannot be encoded.
14. **The log and the escalation as ranking arguments:** for `ClosureHeard` and
    `UnansweredEscalates`, a number that every fair step lowers, as an action property
    that can be proved, so that only the temporal induction stays with TLC.

## 8. Running

In this directory:

```
tlc -workers 2 -config MCFaultEvidence.cfg MCFaultEvidence.tla
tlapm FaultEngine_proofs.tla
```

and likewise for the other configurations, which `PROJECT.json` names with their
modules, and for `FaultEvidence_proofs`, `LampNodeFaults_proofs`,
`NodeReports_proofs`, `NodeTelemetry_proofs`, `StoreAndForward_proofs`,
`GroupLink_proofs` and `CommandPath_proofs`. No run and no proof module takes
more than a few minutes.
