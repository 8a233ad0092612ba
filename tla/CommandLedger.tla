--------------------------- MODULE CommandLedger ---------------------------
(***************************************************************************)
(* What a lamp promises those who command it.  A command is settled once   *)
(* and for good: refused, or carried out exactly one time, however often   *)
(* and by whatever way it is asked for again.  The lamp's manual override  *)
(* is moved only by commands carried out for the first time, and is        *)
(* forgotten only by a restart, which forgets nothing else.                *)
(***************************************************************************)
EXTENDS Naturals

CONSTANT Commands   \* command identities

VARIABLES
    fate,      \* what became of each command: "new", "refused" or "done"
    runs,      \* how often each was carried out
    override   \* the manual override in force

ledgerVars == <<fate, runs, override>>

\* Some new commands are settled, in one sweep of the inbox or one by one.
Settle(done, refused) ==
    /\ done \cap refused = {}
    /\ \A c \in done \cup refused : fate[c] = "new"
    /\ fate' = [c \in Commands |-> IF c \in done THEN "done"
                                   ELSE IF c \in refused THEN "refused"
                                   ELSE fate[c]]
    /\ runs' = [c \in Commands |-> IF c \in done THEN runs[c] + 1 ELSE runs[c]]
    /\ done = {} => UNCHANGED override

\* A restart.
Forget ==
    /\ override' = "NONE"
    /\ UNCHANGED <<fate, runs>>

Init ==
    /\ fate = [c \in Commands |-> "new"]
    /\ runs = [c \in Commands |-> 0]
    /\ override = "NONE"

Next ==
    \/ \E done, refused \in SUBSET Commands : Settle(done, refused)
    \/ Forget

Spec == Init /\ [][Next]_ledgerVars
=============================================================================
