-------------------------- MODULE MCNodeTelemetry --------------------------
(* Instances of NodeTelemetry for TLC: a lamp that runs as it should, and    *)
(* every way the readings of a cycle can be off.                           *)
EXTENDS NodeTelemetry

\* The default configuration has one current for "none" and "unexpected".
Default == [voltageMin |-> 2, voltageMax |-> 4, underCurrentMin |-> 1,
            expectedCurrentMin |-> 2, overCurrentMax |-> 4, unexpectedCurrentMin |-> 1,
            lightOff |-> 2, lightMin |-> 0, lightMax |-> 3, tolerance |-> 25,
            interval |-> 1]
Coarse == [Default EXCEPT !.expectedCurrentMin = 3, !.unexpectedCurrentMin = 3,
                          !.interval = 2]

MCConfigurations == {Default, Coarse}

MCLightLevels == {None, 0, 2, 4}

Lit == [voltage |-> 3, current |-> 3, power |-> 9, light |-> 1, feedback |-> "ON",
        sensor |-> "VALID", controller |-> "NORMAL"]
Unlit == [Lit EXCEPT !.current = 0, !.power = 0, !.feedback = "OFF"]

MCEvidence ==
    {Lit, Unlit} \cup
    {[Lit EXCEPT !.current = a, !.power = 3 * a] : a \in {1, 2, 5}} \cup
    {[Unlit EXCEPT !.current = a, !.power = 3 * a] : a \in {1, 3}} \cup
    {[Lit EXCEPT !.voltage = None, !.current = 0, !.power = None],
     [Lit EXCEPT !.voltage = 5],
     [Lit EXCEPT !.current = None],
     [Lit EXCEPT !.power = 4],
     [Lit EXCEPT !.feedback = "UNKNOWN"],
     [Lit EXCEPT !.sensor = "INVALID"],
     [Lit EXCEPT !.controller = "FAULT"],
     [Unlit EXCEPT !.light = 2],
     [Unlit EXCEPT !.light = 4]}
=============================================================================
