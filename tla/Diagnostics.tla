---------------------------- MODULE Diagnostics ----------------------------
(***************************************************************************)
(* Diagnosis and validation of one measurement, as functions of the        *)
(* configuration and the evidence (diagnostics.py, measurement.py and the  *)
(* helpers of lamp_node.py).  A reading is an integer in some unit, or     *)
(* None where the hardware had nothing to say.                             *)
(*                                                                         *)
(* A result is its classification: the fault category follows from it, and *)
(* confidence and reason are read by nothing.                              *)
(***************************************************************************)
EXTENDS Integers

CONSTANT None  \* Python's None

ASSUME NoneIsNoReading == None \notin Int

Reading == Int \cup {None}

LampState            == {"ON", "OFF", "UNKNOWN"}
SensorStatus         == {"VALID", "DEGRADED", "INVALID"}
CommunicationStatus  == {"COMM_HEALTHY", "RETRY", "DEGRADED", "COMM_FAULT", "RECOVERY"}
ControllerStatus     == {"NORMAL", "DEGRADED", "FAULT", "RESTARTED"}

DiagnosticClassification ==
    {"NORMAL", "POSSIBLE_OPEN_LOAD", "POSSIBLE_UNDER_CURRENT", "POSSIBLE_OVER_CURRENT",
     "UNEXPECTED_CURRENT", "SWITCHING_PATH_INCONSISTENCY", "SUPPLY_ABNORMALITY",
     "SENSOR_ABNORMALITY", "MEASUREMENT_ABNORMALITY", "COMMUNICATION_ABNORMALITY",
     "CONTROLLER_ABNORMALITY", "ENVIRONMENTAL_OR_EXTERNAL", "INSUFFICIENT_EVIDENCE"}

\* LampNodeSources: the readings of one cycle.
Sources == [voltage : Reading, current : Reading, power : Reading, light : Reading,
            feedback : LampState, sensor : SensorStatus, controller : ControllerStatus]

\* The part of LampConfiguration that bears on a measurement and its
\* diagnosis.  The tolerance is a percentage.
Configuration ==
    [voltageMin : Int, voltageMax : Int, underCurrentMin : Int,
     expectedCurrentMin : Int, overCurrentMax : Int, unexpectedCurrentMin : Int,
     lightOff : Int, lightMin : Int, lightMax : Int, tolerance : Int, interval : Int]

\* What validate() asks of it.  It leaves the place of unexpectedCurrentMin
\* among the other currents open.
Valid(c) ==
    /\ c.voltageMin < c.voltageMax
    /\ 0 <= c.underCurrentMin
    /\ c.underCurrentMin < c.expectedCurrentMin
    /\ c.expectedCurrentMin < c.overCurrentMax
    /\ 0 <= c.unexpectedCurrentMin
    /\ 0 <= c.tolerance /\ c.tolerance <= 100
    /\ c.lightMin < c.lightMax
    /\ 0 < c.interval

-----------------------------------------------------------------------------
(* The node's own derivations.                                             *)

VoltageValid(c, s) ==
    s.voltage # None /\ c.voltageMin <= s.voltage /\ s.voltage <= c.voltageMax

\* Slip: a lamp that draws just the threshold counts as off.
DerivedBelow(c, s) ==
    LET flows == s.current # None /\ s.current > c.unexpectedCurrentMin
    IN  IF s.feedback = "ON" /\ flows        THEN "ON"
        ELSE IF s.feedback = "OFF" /\ ~flows THEN "OFF"
        ELSE "UNKNOWN"

\* _derive_actual_state
DeriveActualState(c, s) ==
    LET flows == s.current # None /\ s.current >= c.unexpectedCurrentMin
    IN  IF s.feedback = "ON" /\ flows        THEN "ON"
        ELSE IF s.feedback = "OFF" /\ ~flows THEN "OFF"
        ELSE "UNKNOWN"

\* The consistency check of MeasurementValidator.assess: power is voltage
\* times current within the tolerance, where all three are there.
Magnitude(n) == IF n < 0 THEN -n ELSE n

PowerConsistent(c, s) ==
    None \in {s.voltage, s.current, s.power} \/
        LET expected == s.voltage * s.current
            scale    == IF Magnitude(expected) < 1 THEN 1 ELSE Magnitude(expected)
        IN  100 * Magnitude(s.power - expected) <= scale * c.tolerance

-----------------------------------------------------------------------------
(* DiagnosticEngine.evaluate: the first rule that applies.                 *)

NearZero(c, s)      == s.current # None /\ s.current <= c.underCurrentMin
BelowExpected(c, s) == s.current # None /\ s.current < c.expectedCurrentMin
AboveMaximum(c, s)  == s.current # None /\ s.current > c.overCurrentMax
Unexpected(c, s)    == s.current # None /\ s.current >= c.unexpectedCurrentMin
Bright(c, s)        == s.light # None /\ s.light >= c.lightOff
OutOfRange(c, s)    == s.light # None /\ ~(c.lightMin <= s.light /\ s.light <= c.lightMax)

BadLight(c, s)      == s.sensor = "INVALID" \/ OutOfRange(c, s)

\* Rules 4 to 8: what the load and the switching path look like on a sound
\* supply, NORMAL where they are as commanded.
LoadDiagnosis(c, s, commanded) ==
    IF commanded = "ON" /\ s.feedback = "ON" /\ NearZero(c, s)
                                                     THEN "POSSIBLE_OPEN_LOAD"
    ELSE IF commanded = "ON" /\ AboveMaximum(c, s)   THEN "POSSIBLE_OVER_CURRENT"
    ELSE IF commanded = "OFF" /\ s.feedback = "OFF" /\ Unexpected(c, s)
                                                     THEN "UNEXPECTED_CURRENT"
    ELSE IF commanded = "OFF" /\ s.feedback = "OFF" /\ NearZero(c, s) /\ Bright(c, s)
                                                     THEN "ENVIRONMENTAL_OR_EXTERNAL"
    ELSE IF s.feedback \notin {"UNKNOWN", commanded} THEN "SWITCHING_PATH_INCONSISTENCY"
    ELSE IF commanded = "ON" /\ BelowExpected(c, s)  THEN "POSSIBLE_UNDER_CURRENT"
    ELSE "NORMAL"

\* Rules 9 to 13: how far the evidence itself can be trusted.
EvidenceDiagnosis(c, s) ==
    IF BadLight(c, s)                THEN "SENSOR_ABNORMALITY"
    ELSE IF ~PowerConsistent(c, s)   THEN "MEASUREMENT_ABNORMALITY"
    ELSE IF s.feedback = "UNKNOWN"   THEN "INSUFFICIENT_EVIDENCE"
    ELSE "NORMAL"

\* Slip: the evidence is doubted before the load is judged.
EvaluateSensorFirst(c, s, commanded, comm) ==
    IF s.controller # "NORMAL"                       THEN "CONTROLLER_ABNORMALITY"
    ELSE IF comm = "COMM_FAULT"                      THEN "COMMUNICATION_ABNORMALITY"
    ELSE IF commanded = "ON" /\ ~VoltageValid(c, s)  THEN "SUPPLY_ABNORMALITY"
    ELSE IF EvidenceDiagnosis(c, s) # "NORMAL"       THEN EvidenceDiagnosis(c, s)
    ELSE LoadDiagnosis(c, s, commanded)

\* Slip: the load is judged before the supply.
EvaluateLoadFirst(c, s, commanded, comm) ==
    IF s.controller # "NORMAL"                       THEN "CONTROLLER_ABNORMALITY"
    ELSE IF comm = "COMM_FAULT"                      THEN "COMMUNICATION_ABNORMALITY"
    ELSE IF LoadDiagnosis(c, s, commanded) # "NORMAL"
                                                     THEN LoadDiagnosis(c, s, commanded)
    ELSE IF commanded = "ON" /\ ~VoltageValid(c, s)  THEN "SUPPLY_ABNORMALITY"
    ELSE EvidenceDiagnosis(c, s)

Evaluate(c, s, commanded, comm) ==
    IF s.controller # "NORMAL"                       THEN "CONTROLLER_ABNORMALITY"
    ELSE IF comm = "COMM_FAULT"                      THEN "COMMUNICATION_ABNORMALITY"
    ELSE IF commanded = "ON" /\ ~VoltageValid(c, s)  THEN "SUPPLY_ABNORMALITY"
    ELSE IF LoadDiagnosis(c, s, commanded) # "NORMAL"
                                                     THEN LoadDiagnosis(c, s, commanded)
    ELSE EvidenceDiagnosis(c, s)
=============================================================================
