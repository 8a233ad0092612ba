----------------------------- MODULE CommHealth -----------------------------
(***************************************************************************)
(* The communication state machine of one link (comm/state_machine.py), as *)
(* functions on its state and its count of consecutive failures.  The      *)
(* count of successes is left out: RECOVERY asks for one, and has just     *)
(* counted it.                                                             *)
(***************************************************************************)
EXTENDS Integers

CommState == {"COMM_HEALTHY", "RETRY", "DEGRADED", "COMM_FAULT", "RECOVERY"}

Link == [state : CommState, failures : Nat]

FreshLink == [state |-> "COMM_HEALTHY", failures |-> 0]

\* record_success: a lost link recovers in two steps, any other in one.
RecordSuccess(l) ==
    [state    |-> IF l.state = "COMM_FAULT" THEN "RECOVERY" ELSE "COMM_HEALTHY",
     failures |-> 0]

\* Slip: the failure at hand is not counted.
NextOnFailureLate(l, limit) ==
    CASE l.state = "RETRY"    -> IF l.failures > limit THEN "DEGRADED" ELSE "RETRY"
      [] l.state = "DEGRADED" -> "COMM_FAULT"
      [] l.state = "RECOVERY" -> "COMM_FAULT"
      [] OTHER                -> IF l.state = "COMM_HEALTHY" THEN "RETRY" ELSE l.state

NextOnFailure(l, limit) ==
    CASE l.state = "COMM_HEALTHY" -> "RETRY"
      [] l.state = "RETRY"        -> IF l.failures + 1 > limit THEN "DEGRADED" ELSE "RETRY"
      [] l.state = "DEGRADED"     -> "COMM_FAULT"
      [] l.state = "RECOVERY"     -> "COMM_FAULT"
      [] l.state = "COMM_FAULT"   -> "COMM_FAULT"

\* record_failure.
RecordFailure(l, limit) ==
    [state |-> NextOnFailure(l, limit), failures |-> l.failures + 1]
=============================================================================
