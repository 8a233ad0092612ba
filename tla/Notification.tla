---------------------------- MODULE Notification ----------------------------
(***************************************************************************)
(* The notification state machine of one fault record (notification.py),   *)
(* as functions on the triple the engine keeps for a fault: its            *)
(* notification_state, its entry in _last_notified and its entry in        *)
(* _delivery_attempts.  A policy is a record; a tick is passed in, as in   *)
(* the code.  The lifecycle state of the fault is never touched here.      *)
(***************************************************************************)
EXTENDS Integers

CONSTANT None

NotificationState == {"NOT_REQUIRED", "PENDING", "ACK_PENDING", "REMINDER_DUE",
                      "ESCALATED", "DELIVERY_FAILED"}   \* SENT never rests

Note == [state : NotificationState, last : Nat \cup {None}, attempts : Nat]

\* LampConfiguration.validate: the escalation timeout exceeds the reminder
\* interval, which is positive.
NotificationPolicy ==
    {p \in [ackRequired : BOOLEAN, reminder : Nat \ {0}, escalation : Nat,
            retries : Nat] : p.reminder < p.escalation}

\* What a new Fault carries, absent from both dictionaries.
NewNote == [state |-> "PENDING", last |-> None, attempts |-> 0]

\* Slip: the attempts are left out.
InitialisedUncounted(p, n, t) ==
    IF p.ackRequired
    THEN [state |-> "PENDING", last |-> t, attempts |-> None]
    ELSE [n EXCEPT !.state = "NOT_REQUIRED"]

\* on_fault_confirmed: assigned, not moved along the transition table.
Initialised(p, n, t) ==
    IF p.ackRequired
    THEN [state |-> "PENDING", last |-> t, attempts |-> 0]
    ELSE [n EXCEPT !.state = "NOT_REQUIRED"]

\* notify(delivered=True): PENDING -> SENT -> ACK_PENDING in one call; any
\* other state is left alone.
Delivered(n, t) ==
    IF n.state = "PENDING" THEN [n EXCEPT !.state = "ACK_PENDING", !.last = t] ELSE n

\* delivery_failed: the attempt is counted; the state falls to DELIVERY_FAILED
\* and, while retries are left, back to PENDING.  From DELIVERY_FAILED it only
\* counts; from NOT_REQUIRED it counts, and raises IllegalTransitionError.
NotDelivered(p, n) ==
    [n EXCEPT !.attempts = @ + 1,
              !.state = IF @ \in {"NOT_REQUIRED", "DELIVERY_FAILED"} THEN @
                        ELSE IF n.attempts + 1 <= p.retries THEN "PENDING"
                        ELSE "DELIVERY_FAILED"]

\* tick: only a delivered, unanswered notification ages.
Awaiting(n) == n.state \in {"ACK_PENDING", "REMINDER_DUE"}
EscalationDue(p, n, t) == Awaiting(n) /\ t - n.last >= p.escalation
ReminderDue(p, n, t) == n.state = "ACK_PENDING" /\ t - n.last >= p.reminder

\* Slip: the reminder is looked at first.
TickedReminderFirst(p, n, t) ==
    IF ReminderDue(p, n, t) THEN [n EXCEPT !.state = "REMINDER_DUE"]
    ELSE IF EscalationDue(p, n, t) THEN [n EXCEPT !.state = "ESCALATED"]
    ELSE n

\* Slip: nothing escalates once it was reminded of.
TickedOnce(p, n, t) ==
    IF n.state # "ACK_PENDING" THEN n
    ELSE IF EscalationDue(p, n, t) THEN [n EXCEPT !.state = "ESCALATED"]
    ELSE IF ReminderDue(p, n, t) THEN [n EXCEPT !.state = "REMINDER_DUE"]
    ELSE n

Ticked(p, n, t) ==
    IF EscalationDue(p, n, t) THEN [n EXCEPT !.state = "ESCALATED"]
    ELSE IF ReminderDue(p, n, t) THEN [n EXCEPT !.state = "REMINDER_DUE"]
    ELSE n
=============================================================================
