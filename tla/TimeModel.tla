----------------------------- MODULE TimeModel -----------------------------
(***************************************************************************)
(* The logical time of one device (time_model.py), as functions on its     *)
(* clock, its synchronization state, the tick of its last synchronization, *)
(* None before the first, and its two parameters.                          *)
(***************************************************************************)
EXTENDS Integers

CONSTANT None

TimeSyncState == {"SYNCHRONIZED", "UNSYNCHRONIZED", "UNCERTAIN", "LOST"}

Time == [ticks : Nat, sync : TimeSyncState, lastSync : Nat \cup {None},
         drift : Nat, threshold : Nat]

NewTime(drift, threshold) ==
    [ticks |-> 0, sync |-> "UNSYNCHRONIZED", lastSync |-> None,
     drift |-> drift, threshold |-> threshold]

\* _refresh_uncertainty: the clock has walked too far from the last
\* synchronization, or from tick 0 where there was none; a lost time stays
\* lost.
Reference(t) == IF t.lastSync = None THEN 0 ELSE t.lastSync

Refreshed(t) ==
    IF t.sync # "LOST" /\ t.ticks - Reference(t) >= t.threshold
    THEN [t EXCEPT !.sync = "UNCERTAIN"] ELSE t

\* Slip: the uncertainty is left to be looked at later.
AdvancedStale(t, d) ==
    [t EXCEPT !.ticks = @ + d * (IF t.sync = "SYNCHRONIZED" THEN 1 ELSE 1 + t.drift)]

\* advance: the modelled drift comes on top unless the device is synchronized.
Advanced(t, d) ==
    Refreshed([t EXCEPT
        !.ticks = @ + d * (IF t.sync = "SYNCHRONIZED" THEN 1 ELSE 1 + t.drift)])

\* Slip: an earlier master time rewinds the clock.
SynchronizedRewinding(t, m) ==
    [t EXCEPT !.ticks = m, !.sync = "SYNCHRONIZED", !.lastSync = m]

\* synchronize: a clock behind the master is moved forward, one ahead of it
\* stays where it is; either is synchronized from now on.
Synchronized(t, m) ==
    LET here == IF t.ticks < m THEN m ELSE t.ticks
    IN  [t EXCEPT !.ticks = here, !.sync = "SYNCHRONIZED", !.lastSync = here]

\* Slip: the state is assigned and not re-evaluated.
MarkedUnsynchronizedOnly(t) == [t EXCEPT !.sync = "UNSYNCHRONIZED"]

MarkedUnsynchronized(t) == Refreshed([t EXCEPT !.sync = "UNSYNCHRONIZED"])

MarkedLost(t) == [t EXCEPT !.sync = "LOST"]
=============================================================================
