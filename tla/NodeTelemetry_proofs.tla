------------------------ MODULE NodeTelemetry_proofs ------------------------
(***************************************************************************)
(* What a lamp node measures and diagnoses, for every set of readings,     *)
(* configurations, drifts and thresholds.  The lemmas of the first part    *)
(* are about the diagnosis as a function; those of the second about the    *)
(* time model; the inductive invariant of the third ties the two histories *)
(* to the time model.                                                      *)
(***************************************************************************)
EXTENDS NodeTelemetry, TLAPS

-----------------------------------------------------------------------------
(* The diagnosis.                                                          *)

\* A diagnosis is one of the classifications.
LEMMA EvaluateType ==
    ASSUME NEW c, NEW s, NEW commanded, NEW status
    PROVE  Evaluate(c, s, commanded, status) \in DiagnosticClassification
  BY DEF Evaluate, LoadDiagnosis, EvidenceDiagnosis, DiagnosticClassification

\* A derived lamp state is one of the lamp states.
LEMMA DeriveType ==
    ASSUME NEW c, NEW s
    PROVE  DeriveActualState(c, s) \in LampState
  BY DEF DeriveActualState, LampState

\* Evidence that differs in the light and the sensor state alone changes a
\* diagnosis only among the light diagnoses.
ButForLight(r, s) ==
    /\ r.voltage = s.voltage
    /\ r.current = s.current
    /\ r.power = s.power
    /\ r.feedback = s.feedback
    /\ r.controller = s.controller

LEMMA LightMatters ==
    ASSUME NEW c, NEW r, NEW s, ButForLight(r, s),
           NEW commanded \in {"ON", "OFF"}, NEW status,
           Evaluate(c, r, commanded, status) # Evaluate(c, s, commanded, status)
    PROVE  {Evaluate(c, r, commanded, status), Evaluate(c, s, commanded, status)}
              \subseteq LightDiagnoses
<1> USE DEF ButForLight
<1>1. /\ VoltageValid(c, r) = VoltageValid(c, s)
      /\ NearZero(c, r) = NearZero(c, s)
      /\ BelowExpected(c, r) = BelowExpected(c, s)
      /\ AboveMaximum(c, r) = AboveMaximum(c, s)
      /\ Unexpected(c, r) = Unexpected(c, s)
  BY DEF VoltageValid, NearZero, BelowExpected, AboveMaximum, Unexpected
<1>2. \/ LoadDiagnosis(c, r, commanded) = LoadDiagnosis(c, s, commanded)
      \/ {LoadDiagnosis(c, r, commanded), LoadDiagnosis(c, s, commanded)}
            \subseteq {"NORMAL", "ENVIRONMENTAL_OR_EXTERNAL"}
  BY <1>1 DEF LoadDiagnosis
<1>3. {EvidenceDiagnosis(c, r), EvidenceDiagnosis(c, s)} \subseteq LightDiagnoses
  BY DEF EvidenceDiagnosis, LightDiagnoses
<1> QED BY <1>1, <1>2, <1>3 DEF Evaluate, LightDiagnoses

\* Where a lamp is found normal and its current is known, the current and the
\* feedback derive the state it was commanded to.
LEMMA NormalDerives ==
    ASSUME NEW c \in Configuration, NEW s \in Sources,
           NEW commanded \in {"ON", "OFF"}, NEW status,
           Evaluate(c, s, commanded, status) = "NORMAL",
           s.current # None,
           c.unexpectedCurrentMin <= c.expectedCurrentMin
    PROVE  DeriveActualState(c, s) = commanded
<1>1. LoadDiagnosis(c, s, commanded) = "NORMAL" /\ EvidenceDiagnosis(c, s) = "NORMAL"
  BY DEF Evaluate
<1>2. s.feedback = commanded
  BY <1>1 DEF LoadDiagnosis, EvidenceDiagnosis
<1>3. s.current \in Int /\ c.expectedCurrentMin \in Int /\ c.unexpectedCurrentMin \in Int
  BY DEF Sources, Reading, Configuration
<1>4. CASE commanded = "ON"
  <2>1. ~BelowExpected(c, s)
    BY <1>1, <1>2, <1>4 DEF LoadDiagnosis
  <2>2. s.current >= c.unexpectedCurrentMin
    BY <2>1, <1>3 DEF BelowExpected
  <2> QED BY <2>2, <1>2, <1>4 DEF DeriveActualState
<1>5. CASE commanded = "OFF"
  <2>1. ~Unexpected(c, s)
    BY <1>1, <1>2, <1>5 DEF LoadDiagnosis
  <2>2. ~(s.current >= c.unexpectedCurrentMin)
    BY <2>1 DEF Unexpected
  <2> QED BY <2>2, <1>2, <1>5 DEF DeriveActualState
<1> QED BY <1>4, <1>5

\* The documented signatures get their diagnosis.
LEMMA EvaluateSignatures ==
    ASSUME NEW c \in Configuration, Valid(c), NEW s \in Sources,
           NEW commanded \in {"ON", "OFF"}, NEW status,
           s.controller = "NORMAL", status # "COMM_FAULT"
    PROVE  Signatures(c, s, commanded, Evaluate(c, s, commanded, status))
<1> DEFINE d   == Evaluate(c, s, commanded, status)
           lit == /\ commanded = "ON" /\ s.feedback = "ON"
                  /\ VoltageValid(c, s) /\ s.current # None
<1>1. /\ c.underCurrentMin \in Int /\ c.expectedCurrentMin \in Int
      /\ c.overCurrentMax \in Int /\ c.underCurrentMin < c.expectedCurrentMin
      /\ s.current # None => s.current \in Int
  BY DEF Valid, Configuration, Sources, Reading
<1>2. ASSUME lit, c.expectedCurrentMin <= s.current, s.current <= c.overCurrentMax,
             s.sensor = "VALID", ~OutOfRange(c, s), PowerConsistent(c, s)
      PROVE  d = "NORMAL"
  <2>1. ~NearZero(c, s) /\ ~BelowExpected(c, s) /\ ~AboveMaximum(c, s)
    BY <1>1, <1>2 DEF NearZero, BelowExpected, AboveMaximum
  <2>2. LoadDiagnosis(c, s, commanded) = "NORMAL"
    BY <2>1, <1>2 DEF LoadDiagnosis
  <2>3. EvidenceDiagnosis(c, s) = "NORMAL"
    BY <1>2 DEF EvidenceDiagnosis, BadLight
  <2> QED BY <2>2, <2>3, <1>2 DEF Evaluate
<1>3. ASSUME lit, s.current <= c.underCurrentMin
      PROVE  d = "POSSIBLE_OPEN_LOAD"
  <2>1. LoadDiagnosis(c, s, commanded) = "POSSIBLE_OPEN_LOAD"
    BY <1>3 DEF LoadDiagnosis, NearZero
  <2> QED BY <2>1, <1>3 DEF Evaluate
<1>4. ASSUME commanded = "ON", s.voltage = None
      PROVE  d = "SUPPLY_ABNORMALITY"
  BY <1>4 DEF Evaluate, VoltageValid
<1>5. ASSUME commanded # "ON", s.feedback = "OFF", s.current # None,
             s.current >= c.unexpectedCurrentMin
      PROVE  d = "UNEXPECTED_CURRENT"
  <2>1. LoadDiagnosis(c, s, commanded) = "UNEXPECTED_CURRENT"
    BY <1>5 DEF LoadDiagnosis, Unexpected
  <2> QED BY <2>1, <1>5 DEF Evaluate
<1> QED BY <1>2, <1>3, <1>4, <1>5 DEF Signatures

-----------------------------------------------------------------------------
(* The time model.                                                         *)

\* What a time counts from is a tick.
LEMMA ReferenceNat ==
    ASSUME NEW t \in Time
    PROVE  t.ticks \in Nat /\ t.threshold \in Nat /\ Reference(t) \in Nat
  BY DEF Time, Reference

\* Re-evaluating the uncertainty changes nothing but the synchronization
\* state, makes nothing but UNCERTAIN of it, and leaves no certain time that
\* is as old as the threshold.
LEMMA RefreshedTime ==
    ASSUME NEW t \in Time
    PROVE  LET r == Refreshed(t) IN
           /\ r \in Time
           /\ r.ticks = t.ticks /\ r.lastSync = t.lastSync /\ r.threshold = t.threshold
           /\ r.sync \in {t.sync, "UNCERTAIN"}
           /\ r.sync \in {"SYNCHRONIZED", "UNSYNCHRONIZED"} =>
                 r.ticks - Reference(r) < r.threshold
           /\ r.sync = "UNCERTAIN" =>
                 t.sync = "UNCERTAIN" \/ r.ticks - Reference(r) >= r.threshold
<1>1. CASE t.sync # "LOST" /\ t.ticks - Reference(t) >= t.threshold
  BY <1>1 DEF Refreshed, Time, TimeSyncState, Reference
<1>2. CASE t.sync = "LOST"
  BY <1>2 DEF Refreshed
<1>3. CASE ~(t.ticks - Reference(t) >= t.threshold)
  BY <1>3, ReferenceNat DEF Refreshed, Time
<1> QED BY <1>1, <1>2, <1>3

\* Time that advances by something moves on, by as much at least.
LEMMA AdvancedTime ==
    ASSUME NEW t \in Time, NEW d \in Nat \ {0}
    PROVE  LET a == Advanced(t, d) IN
           /\ a \in Time
           /\ t.ticks + d <= a.ticks
           /\ a.lastSync = t.lastSync /\ a.threshold = t.threshold
           /\ a.sync \in {t.sync, "UNCERTAIN"}
           /\ a.sync \in {"SYNCHRONIZED", "UNSYNCHRONIZED"} =>
                 a.ticks - Reference(a) < a.threshold
           /\ a.sync = "UNCERTAIN" =>
                 t.sync = "UNCERTAIN" \/ a.ticks - Reference(a) >= a.threshold
<1> DEFINE by == d * (IF t.sync = "SYNCHRONIZED" THEN 1 ELSE 1 + t.drift)
           moved == [t EXCEPT !.ticks = @ + by]
<1>1. by \in Nat /\ d <= by
  <2>1. t.drift \in Nat
    BY DEF Time
  <2>2. d * t.drift \in Nat /\ d * (1 + t.drift) = d + d * t.drift
    BY <2>1
  <2>3. d * 1 = d
    OBVIOUS
  <2>4. CASE t.sync = "SYNCHRONIZED"
    BY <2>3, <2>4
  <2>5. CASE t.sync # "SYNCHRONIZED"
    BY <2>2, <2>5
  <2> QED BY <2>4, <2>5
<1>2. Advanced(t, d) = Refreshed(moved)
  BY DEF Advanced
<1> HIDE DEF by
<1>3. /\ moved \in Time
      /\ moved.ticks = t.ticks + by
      /\ moved.lastSync = t.lastSync /\ moved.threshold = t.threshold
      /\ moved.sync = t.sync
  BY <1>1 DEF Time
<1>4. t.ticks \in Nat
  BY DEF Time
<1> HIDE DEF moved
<1> QED BY <1>1, <1>2, <1>3, <1>4, RefreshedTime

-----------------------------------------------------------------------------
(* The inductive invariant: the two histories are what the time model has  *)
(* of them, an uncertain time is an old one, and no measurement is of the  *)
(* future.                                                                 *)

HistoryTold ==
    /\ time.lastSync = syncedAt
    /\ time.sync = "SYNCHRONIZED" => inSync
    /\ inSync => syncedAt # None
    /\ time.sync = "UNCERTAIN" => time.ticks - Reference(time) >= time.threshold
    /\ last # None => last.ticks <= time.ticks

IInv == TelemetryTypeOK /\ HistoryTold

USE EvidenceAssumption, ConfigurationAssumption, DeviceAssumption

\* A node starts as the invariant says.
LEMMA InitIInv == Init => IInv
<1> SUFFICES ASSUME Init PROVE IInv
  OBVIOUS
<1> PICK d \in Drifts, u \in UncertaintyThresholds : time = NewTime(d, u)
  BY DEF Init
<1>1. time \in Time
  BY DEF NewTime, Time, TimeSyncState
<1>2. TelemetryTypeOK
  BY <1>1 DEF Init, TelemetryTypeOK, CommunicationStatus
<1>3. HistoryTold
  BY DEF Init, HistoryTold, NewTime
<1> QED BY <1>2, <1>3 DEF IInv

\* A cycle keeps the invariant, and its measurement is later than the time it
\* began at.
LEMMA StepIInv ==
    ASSUME IInv, NEW s \in Evidence, NEW commanded \in {"ON", "OFF"}, Step(s, commanded)
    PROVE  IInv' /\ time.ticks < last'.ticks
<1>1. config.interval \in Nat \ {0}
  BY DEF IInv, TelemetryTypeOK, Configuration, Valid
<1>2. time \in Time /\ time' = Advanced(time, config.interval)
  BY DEF IInv, TelemetryTypeOK, Step
<1>3. /\ time' \in Time
      /\ time.ticks + config.interval <= time'.ticks
      /\ time'.lastSync = time.lastSync
      /\ time'.sync \in {time.sync, "UNCERTAIN"}
      /\ time'.sync = "UNCERTAIN" =>
            time.sync = "UNCERTAIN" \/ time'.ticks - Reference(time') >= time'.threshold
      /\ time'.threshold = time.threshold
  BY <1>1, <1>2, AdvancedTime
<1>4. /\ time.ticks \in Nat /\ time.threshold \in Nat /\ Reference(time) \in Nat
      /\ time'.ticks \in Nat /\ Reference(time') = Reference(time)
  BY <1>2, <1>3, ReferenceNat DEF Reference
<1>5. last' = Measured(s, commanded)
  BY DEF Step
<1>6. last' \in Measurement /\ last'.ticks = time'.ticks
  <2>1. time'.sync \in TimeSyncState
    BY <1>3 DEF Time
  <2> QED BY <1>4, <1>5, <2>1, DeriveType, EvaluateType DEF Measured, Measurement
<1>7. TelemetryTypeOK'
  BY <1>3, <1>6 DEF IInv, TelemetryTypeOK, Step, history
<1>8. HistoryTold'
  BY <1>1, <1>3, <1>4, <1>6 DEF IInv, HistoryTold, Step, history
<1>9. time.ticks < last'.ticks
  BY <1>1, <1>3, <1>4, <1>6
<1> QED BY <1>7, <1>8, <1>9 DEF IInv

\* The invariant is inductive.
LEMMA NextIInv == IInv /\ [Next]_vars => IInv'
<1> SUFFICES ASSUME IInv, [Next]_vars PROVE IInv'
  OBVIOUS
<1> USE DEF IInv, TelemetryTypeOK, HistoryTold
<1>t. time \in Time /\ time.ticks \in Nat /\ Reference(time) \in Nat
      /\ time.threshold \in Nat
  BY ReferenceNat
<1>m. last # None => last.ticks \in Nat
  BY DEF Measurement
<1>1. ASSUME NEW s \in Evidence, NEW commanded \in {"ON", "OFF"}, Step(s, commanded)
      PROVE  IInv'
  BY <1>1, StepIInv
<1>2. CASE AdvanceClock
  <2>1. time' \in Time
    BY <1>2, <1>t DEF AdvanceClock, Time
  <2>2. time'.ticks = time.ticks + 1 /\ time'.lastSync = time.lastSync
        /\ time'.sync = time.sync /\ time'.threshold = time.threshold
        /\ Reference(time') = Reference(time)
    BY <1>2, <1>t DEF AdvanceClock, Time, Reference
  <2> QED BY <2>1, <2>2, <1>2, <1>t, <1>m DEF AdvanceClock, history
<1>3. ASSUME NEW m \in 0 .. MaxTick, HandleTimeSync(m)
      PROVE  IInv'
  <2> DEFINE here == IF time.ticks < m THEN m ELSE time.ticks
  <2>1. here \in Nat /\ time.ticks <= here
    BY <1>t
  <2>2. time' = [time EXCEPT !.ticks = here, !.sync = "SYNCHRONIZED", !.lastSync = here]
    BY <1>3 DEF HandleTimeSync, Synchronized
  <2> HIDE DEF here
  <2>3. time' \in Time /\ time'.ticks = here /\ time'.lastSync = here
        /\ time'.sync = "SYNCHRONIZED"
    BY <2>1, <2>2, <1>t DEF Time, TimeSyncState
  <2>4. here # None
    BY <2>1, NoneIsNoReading
  <2> QED BY <2>1, <2>3, <2>4, <1>3, <1>t, <1>m DEF HandleTimeSync, CommunicationStatus
<1>4. CASE MarkUnsynchronized
  <2> DEFINE t == [time EXCEPT !.sync = "UNSYNCHRONIZED"]
  <2>1. t \in Time /\ t.sync = "UNSYNCHRONIZED" /\ t.ticks = time.ticks
        /\ t.lastSync = time.lastSync
    BY <1>t DEF Time, TimeSyncState
  <2>2. time' = Refreshed(t)
    BY <1>4 DEF MarkUnsynchronized, MarkedUnsynchronized
  <2> HIDE DEF t
  <2>3. /\ time' \in Time /\ time'.ticks = time.ticks /\ time'.lastSync = time.lastSync
        /\ time'.sync \in {"UNSYNCHRONIZED", "UNCERTAIN"}
        /\ time'.sync = "UNCERTAIN" => time'.ticks - Reference(time') >= time'.threshold
    BY <2>1, <2>2, RefreshedTime
  <2> QED BY <2>3, <1>4, <1>t, <1>m DEF MarkUnsynchronized
<1>5. CASE MarkLost
  <2>1. time' \in Time /\ time'.sync = "LOST" /\ time'.ticks = time.ticks
        /\ time'.lastSync = time.lastSync
    BY <1>5, <1>t DEF MarkLost, MarkedLost, Time, TimeSyncState
  <2> QED BY <2>1, <1>5, <1>t, <1>m DEF MarkLost
<1>6. ASSUME NEW status \in Statuses, SetCommunicationStatus(status)
      PROVE  IInv'
  BY <1>6 DEF SetCommunicationStatus, history
<1>7. ASSUME NEW c \in Configurations, HandleConfigWrite(c)
      PROVE  IInv'
  BY <1>7 DEF HandleConfigWrite, history
<1>8. CASE UNCHANGED vars
  BY <1>8 DEF vars
<1> QED BY <1>1, <1>2, <1>3, <1>4, <1>5, <1>6, <1>7, <1>8 DEF Next

\* The invariant holds throughout.
LEMMA IInvHolds == Spec => []IInv
  BY InitIInv, NextIInv, PTL DEF Spec

\* A measurement that appears is the one a cycle made.
LEMMA CycleMeasures ==
    ASSUME [Next]_vars, last' # last
    PROVE  \E s \in Evidence, commanded \in {"ON", "OFF"} : Step(s, commanded)
  BY DEF Next, vars, history, AdvanceClock, HandleTimeSync, MarkUnsynchronized, MarkLost,
         SetCommunicationStatus, HandleConfigWrite

\* What is proved of every cycle's measurement.
LEMMA MeasurementFields ==
    ASSUME NEW s, NEW commanded, Step(s, commanded)
    PROVE  /\ last'.sources = s /\ last'.commanded = commanded
           /\ last'.ticks = time'.ticks /\ last'.sync = time'.sync
           /\ last'.actual = DeriveActualState(config, s)
           /\ last'.diagnosis = Evaluate(rules, s, commanded, comm)
  BY DEF Step, Measured

-----------------------------------------------------------------------------
(* The theorems.                                                           *)

\* The variables keep their types, and no cycle judges by a configuration
\* that is not the node's, whatever is written when.
THEOREM TelemetryTypeCorrect == Spec => []TelemetryTypeOK
<1>1. IInv => TelemetryTypeOK
  BY DEF IInv
<1> QED BY <1>1, IInvHolds, PTL

\* Measurements carry increasing times, for every drift and every master time.
THEOREM MeasurementsOrdered == Spec => MeasurementsInOrder
<1>1. IInv /\ [Next]_vars =>
        [last' # last /\ last # None => last.ticks < last'.ticks]_vars
  <2> SUFFICES ASSUME IInv, [Next]_vars, last' # last, last # None
               PROVE  last.ticks < last'.ticks
    OBVIOUS
  <2> PICK s \in Evidence, commanded \in {"ON", "OFF"} : Step(s, commanded)
    BY CycleMeasures
  <2>1. time.ticks < last'.ticks /\ IInv'
    BY StepIInv
  <2>2. last.ticks \in Nat /\ time.ticks \in Nat /\ last.ticks <= time.ticks
    BY DEF IInv, TelemetryTypeOK, HistoryTold, Measurement, Time
  <2>3. time'.ticks \in Nat /\ last'.ticks = time'.ticks
    BY <2>1, MeasurementFields DEF IInv, TelemetryTypeOK, Time
  <2> QED BY <2>1, <2>2, <2>3
<1> QED BY <1>1, IInvHolds, PTL DEF Spec, MeasurementsInOrder

\* No measurement pretends to a better time than the node has: the first two
\* parts are about a node that was synchronized, the third is about one that
\* never was.
THEOREM StampsAreHonest == Spec => StampsHonest
<1> DEFINE Honest ==
        last' # last =>
            /\ last'.sync = "SYNCHRONIZED" => inSync
            /\ Certain(last') /\ syncedAt # None =>
                  last'.ticks - syncedAt < time.threshold
            /\ Certain(last') /\ syncedAt = None =>
                  last'.sync = "UNSYNCHRONIZED" /\ last'.ticks < time.threshold
<1>1. IInv /\ [Next]_vars => [Honest]_vars
  <2> SUFFICES ASSUME IInv, [Next]_vars, last' # last PROVE Honest
    OBVIOUS
  <2> PICK s \in Evidence, commanded \in {"ON", "OFF"} : Step(s, commanded)
    BY CycleMeasures
  <2>1. config.interval \in Nat \ {0} /\ time \in Time
    BY DEF IInv, TelemetryTypeOK, Configuration, Valid
  <2>2. time' = Advanced(time, config.interval)
    BY DEF Step
  <2>3. /\ time'.lastSync = time.lastSync /\ time'.threshold = time.threshold
        /\ time'.sync \in {time.sync, "UNCERTAIN"}
        /\ time'.sync \in {"SYNCHRONIZED", "UNSYNCHRONIZED"} =>
              time'.ticks - Reference(time') < time'.threshold
    BY <2>1, <2>2, AdvancedTime
  <2>4. last'.ticks = time'.ticks /\ last'.sync = time'.sync
    BY MeasurementFields
  <2>5. Reference(time') = IF syncedAt = None THEN 0 ELSE syncedAt
    BY <2>3 DEF IInv, HistoryTold, Reference
  <2>6. time'.ticks \in Nat
    BY <2>1, <2>2, AdvancedTime, ReferenceNat
  <2> QED BY <2>3, <2>4, <2>5, <2>6 DEF IInv, HistoryTold, Certain
<1> QED BY <1>1, IInvHolds, PTL DEF Spec, StampsHonest

\* An uncertain time is never called merely unsynchronized.
THEOREM UncertaintyStays == Spec => UncertaintyLasts
<1>1. IInv /\ [Next]_vars =>
        [time.sync = "UNCERTAIN" => time'.sync # "UNSYNCHRONIZED"]_vars
  <2> SUFFICES ASSUME IInv, [Next]_vars, time.sync = "UNCERTAIN"
               PROVE  time'.sync # "UNSYNCHRONIZED"
    OBVIOUS
  <2>1. /\ time \in Time
        /\ time.ticks - Reference(time) >= time.threshold
    BY DEF IInv, TelemetryTypeOK, HistoryTold
  <2>2. ASSUME NEW s \in Evidence, NEW commanded \in {"ON", "OFF"}, Step(s, commanded)
        PROVE  time'.sync = "UNCERTAIN"
    <3>1. config.interval \in Nat \ {0} /\ time' = Advanced(time, config.interval)
      BY <2>2 DEF IInv, TelemetryTypeOK, Configuration, Valid, Step
    <3> QED BY <3>1, <2>1, AdvancedTime
  <2>3. CASE AdvanceClock
    BY <2>3, <2>1 DEF AdvanceClock, Time
  <2>4. ASSUME NEW m \in 0 .. MaxTick, HandleTimeSync(m)
        PROVE  time'.sync # "UNSYNCHRONIZED"
    BY <2>4, <2>1 DEF HandleTimeSync, Synchronized, Time
  <2>5. CASE MarkUnsynchronized
    BY <2>5, <2>1 DEF MarkUnsynchronized, MarkedUnsynchronized, Refreshed, Reference, Time
  <2>6. CASE MarkLost
    BY <2>6, <2>1 DEF MarkLost, MarkedLost, Time
  <2>7. CASE UNCHANGED time
    BY <2>7
  <2> QED BY <2>2, <2>3, <2>4, <2>5, <2>6, <2>7
          DEF Next, vars, SetCommunicationStatus, HandleConfigWrite
<1> QED BY <1>1, IInvHolds, PTL DEF Spec, UncertaintyLasts

\* What the light sensor says decides between the light diagnoses only.
THEOREM SensorHarmless == Spec => SensorBlamesNoLamp
<1> DEFINE Harmless ==
        last' # last =>
            \A sensor \in SensorStatus, light \in LightLevels :
                LET other == Evaluate(rules, [last'.sources EXCEPT !.sensor = sensor,
                                                                  !.light = light],
                                      last'.commanded, comm)
                IN  other # last'.diagnosis =>
                        {other, last'.diagnosis} \subseteq LightDiagnoses
<1>1. [Next]_vars => [Harmless]_vars
  <2> SUFFICES ASSUME [Next]_vars, last' # last PROVE Harmless
    OBVIOUS
  <2> PICK s \in Evidence, commanded \in {"ON", "OFF"} : Step(s, commanded)
    BY CycleMeasures
  <2>1. s \in Sources
    OBVIOUS
  <2>2. /\ last'.sources = s /\ last'.commanded = commanded
        /\ last'.diagnosis = Evaluate(rules, s, commanded, comm)
    BY MeasurementFields
  <2>3. ASSUME NEW sensor \in SensorStatus, NEW light \in LightLevels,
               NEW r, r = [last'.sources EXCEPT !.sensor = sensor, !.light = light],
               Evaluate(rules, r, commanded, comm) # last'.diagnosis
        PROVE  {Evaluate(rules, r, commanded, comm), last'.diagnosis}
                  \subseteq LightDiagnoses
    <3>1. ButForLight(r, s)
      BY <2>1, <2>2, <2>3 DEF ButForLight, Sources
    <3> QED BY <3>1, <2>2, <2>3, LightMatters
  <2> QED BY <2>2, <2>3
<1> QED BY <1>1, PTL DEF Spec, SensorBlamesNoLamp

\* Every cycle gives the documented signatures their diagnosis.
THEOREM SignaturesFound == Spec => SignatureDiagnosed
<1>1. IInv /\ [Next]_vars =>
        [(last' # last /\ last'.sources.controller = "NORMAL" /\ comm # "COMM_FAULT") =>
            Signatures(rules, last'.sources, last'.commanded, last'.diagnosis)]_vars
  <2> SUFFICES ASSUME IInv, [Next]_vars, last' # last,
                      last'.sources.controller = "NORMAL", comm # "COMM_FAULT"
               PROVE  Signatures(rules, last'.sources, last'.commanded, last'.diagnosis)
    OBVIOUS
  <2> PICK s \in Evidence, commanded \in {"ON", "OFF"} : Step(s, commanded)
    BY CycleMeasures
  <2>1. s \in Sources /\ rules \in Configuration /\ Valid(rules)
    BY DEF IInv, TelemetryTypeOK
  <2>2. /\ last'.sources = s /\ last'.commanded = commanded
        /\ last'.diagnosis = Evaluate(rules, s, commanded, comm)
    BY MeasurementFields
  <2> QED BY <2>1, <2>2, EvaluateSignatures
<1> QED BY <1>1, IInvHolds, PTL DEF Spec, SignatureDiagnosed

\* Where a lamp is diagnosed normal, it is seen in the state it was commanded
\* to.
THEOREM NormalLampsObey == Spec => NormalMeansActual
<1>1. IInv /\ [Next]_vars =>
        [(/\ last' # last
          /\ last'.diagnosis = "NORMAL"
          /\ last'.sources.current # None
          /\ config.unexpectedCurrentMin <= config.expectedCurrentMin)
            => last'.actual = last'.commanded]_vars
  <2> SUFFICES ASSUME IInv, [Next]_vars, last' # last,
                      last'.diagnosis = "NORMAL", last'.sources.current # None,
                      config.unexpectedCurrentMin <= config.expectedCurrentMin
               PROVE  last'.actual = last'.commanded
    OBVIOUS
  <2> PICK s \in Evidence, commanded \in {"ON", "OFF"} : Step(s, commanded)
    BY CycleMeasures
  <2>1. s \in Sources /\ config \in Configuration /\ rules = config
    BY DEF IInv, TelemetryTypeOK
  <2>2. /\ last'.sources = s /\ last'.commanded = commanded
        /\ last'.actual = DeriveActualState(config, s)
        /\ last'.diagnosis = Evaluate(config, s, commanded, comm)
    BY <2>1, MeasurementFields
  <2> QED BY <2>1, <2>2, NormalDerives
<1> QED BY <1>1, IInvHolds, PTL DEF Spec, NormalMeansActual

=============================================================================
