---------------------------- MODULE LampControl ----------------------------
(***************************************************************************)
(* The control model of one lamp (control.py), as functions on its state:  *)
(* the configured mode, the active override, the protection condition and  *)
(* the lamp itself.  A cycle decides the lamp by the first layer with an   *)
(* opinion: protection, override, then the configured automatic mode.      *)
(* Lamp states are Booleans (ON is TRUE); a light level is None when there *)
(* is no valid reading; whether the schedule is on at a tick is an input.  *)
(***************************************************************************)
EXTENDS Integers

CONSTANT None

ConfiguredMode == {"AUTO_SENSOR", "AUTO_SCHEDULE_SENSOR", "FIXED_SCHEDULE"}
OverrideState == {"NONE", "FORCE_ON", "FORCE_OFF"}

Control == [mode : ConfiguredMode, override : OverrideState,
            protected : BOOLEAN, forced : BOOLEAN, on : BOOLEAN]

\* The part of LampConfiguration that decides the lamp; validate() keeps the
\* thresholds apart.
Configuration ==
    {c \in [onThreshold : Nat, offThreshold : Nat,
            outOfWindow : BOOLEAN, restartDefault : BOOLEAN] :
        c.onThreshold < c.offThreshold}

\* apply_override and clear_override: a forced state is taken at once.
WithOverride(c, override) ==
    [c EXCEPT !.override = override,
              !.on = (@ /\ override # "FORCE_OFF") \/ override = "FORCE_ON"]

\* set_protection, whose default is no protection and OFF.
WithProtection(c, active, forced) == [c EXCEPT !.protected = active, !.forced = forced]

\* Slip: the override outlives the restart.
RestartedOverridden(c, config) ==
    [WithProtection(c, FALSE, FALSE) EXCEPT !.on = config.restartDefault]

\* start and restart.
Restarted(c, config) ==
    [WithProtection(WithOverride(c, "NONE"), FALSE, FALSE) EXCEPT
        !.on = config.restartDefault]

-----------------------------------------------------------------------------
(* decide.                                                                 *)

Dark(config, light)   == light # None /\ light <= config.onThreshold
Bright(config, light) == light # None /\ light >= config.offThreshold

\* Slip: no dead band.
SensedAtOnce(c, config, light) == Dark(config, light) \/ (c.on /\ light = None)

\* Within the dead band, and without a reading, the lamp stays as it is.
Sensed(c, config, light) == Dark(config, light) \/ (c.on /\ ~Bright(config, light))

SensorDecides(c, scheduled) ==
    /\ ~c.protected
    /\ c.override = "NONE"
    /\ c.mode = "AUTO_SENSOR" \/ (c.mode = "AUTO_SCHEDULE_SENSOR" /\ scheduled)

Automatic(c, config, light, scheduled) ==
    CASE SensorDecides(c, scheduled)   -> Sensed(c, config, light)
      [] c.mode = "FIXED_SCHEDULE"     -> scheduled
      [] OTHER                         -> config.outOfWindow

\* Slip: an override goes before protection.
DecidedOverrideFirst(c, config, light, scheduled) ==
    [c EXCEPT !.on = IF c.override # "NONE" THEN c.override = "FORCE_ON"
                     ELSE IF c.protected THEN c.forced
                     ELSE Automatic(c, config, light, scheduled)]

Decided(c, config, light, scheduled) ==
    [c EXCEPT !.on = IF c.protected THEN c.forced
                     ELSE IF c.override # "NONE" THEN c.override = "FORCE_ON"
                     ELSE Automatic(c, config, light, scheduled)]
=============================================================================
