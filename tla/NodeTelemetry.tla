--------------------------- MODULE NodeTelemetry ---------------------------
(***************************************************************************)
(* What a lamp node says of its lamp (lamp_node.py): every control cycle   *)
(* advances the node's time, stamps a measurement, derives the state of    *)
(* the lamp from it and diagnoses it.  Between cycles the controller sends *)
(* the time and configurations, the host lets the clock run, declares the  *)
(* time unsynchronized or lost and sets the communication status.          *)
(*                                                                         *)
(* A TIME_SYNC frame carries whatever number the controller's caller chose *)
(* and is handled whenever the inbox is processed, so a frame of any       *)
(* number may be handled at any time; one that is lost is none.            *)
(***************************************************************************)
EXTENDS Diagnostics

CONSTANTS
    Evidence,               \* the readings a cycle may find
    LightLevels,            \* light levels among them
    Statuses,               \* what the host may set the communication status to
    Configurations,         \* what a configuration write may install
    Drifts,                 \* drift_ticks_per_tick of the device
    UncertaintyThresholds,  \* uncertainty_threshold_ticks of the device
    MaxTick                 \* bound on the node's clock

ASSUME EvidenceAssumption ==
    /\ Evidence \subseteq Sources
    /\ LightLevels \subseteq Reading
    /\ Statuses \subseteq CommunicationStatus
ASSUME ConfigurationAssumption ==
    /\ Configurations \subseteq Configuration /\ Configurations # {}
    /\ \A c \in Configurations : Valid(c)
ASSUME DeviceAssumption ==
    Drifts \subseteq Nat /\ UncertaintyThresholds \subseteq Nat /\ MaxTick \in Nat

INSTANCE TimeModel

VARIABLES
    time,      \* the node's TimeModel, with its clock
    comm,      \* _comm_status
    config,    \* self.config
    rules,     \* the configuration of the validator and the diagnostic engine
    last,      \* _last_measurement with its diagnosis, or None
    syncedAt,  \* history: the node's tick when it last handled a TIME_SYNC,
               \* None if it never did
    inSync     \* history: it has, and nobody has declared the time lost since

history == <<syncedAt, inSync>>
vars == <<time, comm, config, rules, last, syncedAt, inSync>>

Measurement == [ticks : Nat, sync : TimeSyncState, sources : Evidence,
                commanded : {"ON", "OFF"}, actual : LampState,
                diagnosis : DiagnosticClassification]

-----------------------------------------------------------------------------

\* _build_measurement and the diagnosis of it.  Whether the voltage is valid
\* the node tells the engine from its own copy of the configuration, which is
\* the engine's as well (TelemetryTypeOK).
Measured(s, commanded) ==
    [ticks |-> time'.ticks, sync |-> time'.sync, sources |-> s, commanded |-> commanded,
     actual |-> DeriveActualState(config, s),
     diagnosis |-> Evaluate(rules, s, commanded, comm)]

\* step: time moves on by the measurement interval before anything is
\* measured.  What the control model commands is its own affair.
Step(s, commanded) ==
    /\ time' = Advanced(time, config.interval)
    /\ time'.ticks <= MaxTick
    /\ last' = Measured(s, commanded)
    /\ UNCHANGED <<comm, config, rules, history>>

\* The host moves the clock itself: nothing is re-evaluated.
AdvanceClock ==
    /\ time.ticks < MaxTick
    /\ time' = [time EXCEPT !.ticks = @ + 1]
    /\ UNCHANGED <<comm, config, rules, last, history>>

HandleTimeSync(m) ==
    /\ time' = Synchronized(time, m)
    /\ comm' = "COMM_HEALTHY"
    /\ syncedAt' = time'.ticks
    /\ inSync' = TRUE
    /\ UNCHANGED <<config, rules, last>>

MarkUnsynchronized ==
    /\ time' = MarkedUnsynchronized(time)
    /\ inSync' = FALSE
    /\ UNCHANGED <<comm, config, rules, last, syncedAt>>

MarkLost ==
    /\ time' = MarkedLost(time)
    /\ inSync' = FALSE
    /\ UNCHANGED <<comm, config, rules, last, syncedAt>>

SetCommunicationStatus(status) ==
    /\ comm' = status
    /\ UNCHANGED <<time, config, rules, last, history>>

\* Slip: the diagnostic engine keeps the configuration it was built with.
HandleConfigWriteKeepingRules(c) ==
    /\ config' = c
    /\ UNCHANGED <<time, comm, rules, last, history>>

\* An accepted CONFIG_WRITE; a rejected one changes nothing.
HandleConfigWrite(c) ==
    /\ config' = c
    /\ rules' = c
    /\ UNCHANGED <<time, comm, last, history>>

Init ==
    /\ \E d \in Drifts, u \in UncertaintyThresholds : time = NewTime(d, u)
    /\ comm = "COMM_HEALTHY"
    /\ config \in Configurations
    /\ rules = config
    /\ last = None
    /\ syncedAt = None
    /\ inSync = FALSE

Next ==
    \/ \E s \in Evidence, commanded \in {"ON", "OFF"} : Step(s, commanded)
    \/ AdvanceClock
    \/ \E m \in 0 .. MaxTick : HandleTimeSync(m)
    \/ MarkUnsynchronized
    \/ MarkLost
    \/ \E status \in Statuses : SetCommunicationStatus(status)
    \/ \E c \in Configurations : HandleConfigWrite(c)

Spec == Init /\ [][Next]_vars

-----------------------------------------------------------------------------
(* Properties.                                                             *)

\* Every variable stays within its type, and no cycle judges by another
\* configuration than the node's.
TelemetryTypeOK ==
    /\ time \in Time
    /\ comm \in CommunicationStatus
    /\ config \in Configurations
    /\ rules = config
    /\ last \in Measurement \cup {None}
    /\ syncedAt \in Nat \cup {None}
    /\ inSync \in BOOLEAN

\* A measurement never pretends to a better time than the node has
\* (PR-TIME-002), however its clock got there.  One stamped SYNCHRONIZED was
\* taken after a TIME_SYNC and before the time was declared lost.  One that is
\* not marked uncertain was taken within the threshold of the last TIME_SYNC;
\* by a node that never handled any it is stamped UNSYNCHRONIZED, and was taken
\* within the threshold of tick 0.
Certain(m) == m.sync \in {"SYNCHRONIZED", "UNSYNCHRONIZED"}

StampsHonest ==
    [][last' # last =>
        /\ last'.sync = "SYNCHRONIZED" => inSync
        /\ Certain(last') /\ syncedAt # None =>
              last'.ticks - syncedAt < time.threshold
        /\ Certain(last') /\ syncedAt = None =>
              last'.sync = "UNSYNCHRONIZED" /\ last'.ticks < time.threshold]_vars

\* Measurements are stamped in the order they were taken, each later than the
\* one before: neither a master behind the node's clock nor a time frame that
\* was long under way takes the clock back (time_model.py:129).
MeasurementsInOrder ==
    [][last' # last /\ last # None => last.ticks < last'.ticks]_vars

\* What has become uncertain stays so until the node is synchronized: in
\* particular losing synchronization a second time does not make the time
\* merely unsynchronized again (time_model.py:135).
UncertaintyLasts ==
    [][time.sync = "UNCERTAIN" => time'.sync # "UNSYNCHRONIZED"]_vars

\* A bad sensor is never taken for a lamp failure and never hides one
\* (PR-DIAG-006): a diagnosis that blames something other than the light does
\* not depend on what the light sensor says, in any of its states.
LightDiagnoses == {"NORMAL", "SENSOR_ABNORMALITY", "MEASUREMENT_ABNORMALITY",
                   "ENVIRONMENTAL_OR_EXTERNAL", "INSUFFICIENT_EVIDENCE"}

SensorBlamesNoLamp ==
    [][last' # last =>
        \A sensor \in SensorStatus, light \in LightLevels :
            LET other == Evaluate(rules, [last'.sources EXCEPT !.sensor = sensor,
                                                              !.light = light],
                                  last'.commanded, comm)
            IN  other # last'.diagnosis =>
                    {other, last'.diagnosis} \subseteq LightDiagnoses]_vars

\* The documented signatures (docs/04 3.1, PR-DIAG-002 to -005) with the
\* diagnosis each must get.
Signatures(c, s, commanded, diagnosis) ==
    LET on  == commanded = "ON"
        lit == on /\ s.feedback = "ON" /\ VoltageValid(c, s) /\ s.current # None
    IN  /\ (/\ lit
            /\ c.expectedCurrentMin <= s.current
            /\ s.current <= c.overCurrentMax
            /\ s.sensor = "VALID" /\ ~OutOfRange(c, s)
            /\ PowerConsistent(c, s)) => diagnosis = "NORMAL"
        /\ (lit /\ s.current <= c.underCurrentMin) => diagnosis = "POSSIBLE_OPEN_LOAD"
        /\ (on /\ s.voltage = None) => diagnosis = "SUPPLY_ABNORMALITY"
        /\ (/\ ~on /\ s.feedback = "OFF" /\ s.current # None
            /\ s.current >= c.unexpectedCurrentMin) => diagnosis = "UNEXPECTED_CURRENT"

\* Every cycle diagnoses them so, whatever else is wrong, as long as the
\* controller is sound and the evidence is not stale: none of the rules shadows
\* one of them.
SignatureDiagnosed ==
    [][(last' # last /\ last'.sources.controller = "NORMAL" /\ comm # "COMM_FAULT") =>
          Signatures(rules, last'.sources, last'.commanded, last'.diagnosis)]_vars

\* Diagnosis and observed state do not contradict each other: a lamp found
\* normal, its current known, is seen in the state it was commanded to.  The
\* two are computed by different code from different copies of the
\* configuration, and both may be replaced between cycles.  It takes a
\* configuration in which a lamp that draws its expected current draws more
\* than counts as unexpected, which validate() does not ask for.
NormalMeansActual ==
    [][(/\ last' # last
        /\ last'.diagnosis = "NORMAL"
        /\ last'.sources.current # None
        /\ config.unexpectedCurrentMin <= config.expectedCurrentMin)
          => last'.actual = last'.commanded]_vars
=============================================================================
