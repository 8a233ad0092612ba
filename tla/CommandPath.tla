---------------------------- MODULE CommandPath ----------------------------
(***************************************************************************)
(* Commands to one lamp (command.py, authorization.py, and the control     *)
(* side of lamp_node.py and group_controller.py).  An operator commands    *)
(* the node directly, or through the group controller, which puts the      *)
(* command on the bus first and then runs its own copy of the command      *)
(* lifecycle; the node runs its own when it processes its inbox.  Callers  *)
(* retry with the same identity; the bus may lose or corrupt a frame.      *)
(* Meanwhile the node runs control cycles, restarts, is put under          *)
(* protection and is configured anew.                                      *)
(*                                                                         *)
(* The passing states of one submit() (CREATED to ACKNOWLEDGED) are never  *)
(* seen between calls.  Measurement, diagnosis and faults, the rest of a   *)
(* control cycle, do not touch this state: LampNodeFaults models them.     *)
(***************************************************************************)
EXTENDS LampControl, Sequences, FiniteSets

CONSTANTS
    CommandIds,  \* command identities
    Configs,     \* configurations a write may install
    Levels,      \* light levels
    MaxInbox     \* bound on the requests waiting at the node

\* Where a command record comes to rest.  (FAILED is never reached: every
\* executor and verifier below succeeds once the command is authorized.)
CommandState == {"REJECTED", "FAILED", "ACTUAL_STATE_VERIFIED"}

ASSUME CommandAssumption ==
    /\ Configs \subseteq Configuration /\ Configs # {}
    /\ Levels \subseteq Nat
    /\ None \notin Nat \cup CommandIds \cup CommandState
    /\ MaxInbox \in Nat

VARIABLES
    node,        \* the node: control, configuration, energy, command records
    gcCommands,  \* the controller's command records, by identity
    inbox,       \* the node's _incoming
    switched     \* history: the light level at which the sensor logic switched
                 \* the lamp last, if nothing else has come between

vars == <<node, gcCommands, inbox, switched>>

ControlSubtype == {"LAMP_ON", "LAMP_OFF", "RETURN_TO_AUTO", "SET_MODE", "RESET_ENERGY"}

Node == [control : Control, config : Configs,
         energy : BOOLEAN,                          \* more than zero
         commands : [CommandIds -> CommandState \cup {None}],
         executions : [CommandIds -> Nat],          \* history: runs of the executor
         latest : OverrideState]                    \* history: see Ordered

-----------------------------------------------------------------------------
(* Authorization.                                                          *)

\* An actor that is not authenticated may do nothing; ADMIN and OWNER may
\* do to a lamp what an ENGINEER may.
Role == {"UNAUTHENTICATED", "VIEWER", "OPERATOR", "ENGINEER"}

Authorized(role, action) ==
    role \in (IF action = "CONTROL_LAMP" THEN {"OPERATOR", "ENGINEER"} ELSE {"ENGINEER"})

ActionFor(subtype) ==
    CASE subtype = "SET_MODE"     -> "CONFIGURE"
      [] subtype = "RESET_ENERGY" -> "RESET_ENERGY"
      [] OTHER                    -> "CONTROL_LAMP"

\* The actor the node makes up for a command that came over the bus, whoever
\* gave it to the controller: the frame does not say.
RoleForSubtype(subtype) == IF subtype = "RESET_ENERGY" THEN "ENGINEER" ELSE "OPERATOR"

-----------------------------------------------------------------------------
(* The node's command service.                                             *)

Demanded(subtype, otherwise) ==
    CASE subtype = "LAMP_ON"        -> "FORCE_ON"
      [] subtype = "LAMP_OFF"       -> "FORCE_OFF"
      [] subtype = "RETURN_TO_AUTO" -> "NONE"
      [] OTHER                      -> otherwise

\* _execute_command.
Executed(n, c) ==
    [n EXCEPT
       !.control = CASE c.subtype \in {"LAMP_ON", "LAMP_OFF", "RETURN_TO_AUTO"} ->
                          WithOverride(@, Demanded(c.subtype, None))
                     [] c.subtype = "SET_MODE" -> [@ EXCEPT !.mode = c.mode]
                     [] OTHER                  -> @,
       !.energy = @ /\ c.subtype # "RESET_ENERGY",
       !.executions[c.id] = @ + 1]

\* _verify_command, on the state the execution left.
Verified(n, c) ==
    CASE c.subtype = "LAMP_ON"        -> n.control.on
      [] c.subtype = "LAMP_OFF"       -> ~n.control.on
      [] c.subtype = "RETURN_TO_AUTO" -> n.control.override = "NONE"
      [] c.subtype = "RESET_ENERGY"   -> ~n.energy
      [] OTHER                        -> TRUE

\* History: the override asked for by the latest command that was new and that
\* the node authorized, over the bus for the actor it made up, since it started.
Ordered(n, c) ==
    IF n.commands[c.id] = None /\ Authorized(c.role, ActionFor(c.subtype))
    THEN Demanded(c.subtype, n.latest)
    ELSE n.latest

\* Slip: the authorization status is kept in place of the state.
RecordedByType(n, id, state) ==
    [n EXCEPT !.commands[id] = IF state = "REJECTED" THEN "UNAUTHORIZED" ELSE state]

Recorded(n, id, state) == [n EXCEPT !.commands[id] = state]

\* Slip: a repeated command runs again.
SubmittedAgain(n, c) ==
    IF ~Authorized(c.role, ActionFor(c.subtype)) THEN Recorded(n, c.id, "REJECTED")
    ELSE LET m == [Executed(n, c) EXCEPT !.latest = Ordered(n, c)]
         IN  Recorded(m, c.id, IF Verified(m, c) THEN "ACTUAL_STATE_VERIFIED" ELSE "FAILED")

\* submit: an identity that was seen before, with whatever result, is
\* answered from its record.
Submitted(n, c) ==
    IF n.commands[c.id] # None THEN n
    ELSE IF ~Authorized(c.role, ActionFor(c.subtype)) THEN Recorded(n, c.id, "REJECTED")
    ELSE LET m == [Executed(n, c) EXCEPT !.latest = Ordered(n, c)]
         IN  Recorded(m, c.id, IF Verified(m, c) THEN "ACTUAL_STATE_VERIFIED" ELSE "FAILED")

\* What moves the lamp or its thresholds other than the sensor ends a history
\* of switching.
Unswitched(n) ==
    switched' = IF n.control = node.control /\ n.config = node.config THEN switched ELSE None

\* What set_configured_mode is given; the others take no parameter.
Parameters(subtype) == IF subtype = "SET_MODE" THEN ConfiguredMode ELSE {None}

\* force_on, force_off, return_to_auto, set_configured_mode, reset_energy: the
\* node makes up a new identity.
Operate(id, subtype, mode, role) ==
    LET c == [id |-> id, subtype |-> subtype, mode |-> mode, role |-> role]
    IN  /\ node.commands[id] = None
        /\ gcCommands[id] = None
        /\ \A i \in DOMAIN inbox : inbox[i].id # id
        /\ node' = Submitted(node, c)
        /\ Unswitched(node')
        /\ UNCHANGED <<gcCommands, inbox>>

-----------------------------------------------------------------------------
(* Over the bus.                                                           *)

\* An accepted CONFIG_WRITE replaces the configuration; the configured mode
\* in it does not reach the control model.
Configured(n, config) == [n EXCEPT !.config = config]

\* _handle_frame for the frames of this module.  A SET_MODE carries its mode
\* as a code, but comes from an actor who may not configure.
Handled(n, request) ==
    IF request.id = None THEN Configured(n, request.config)
    ELSE Submitted(n, [id |-> request.id, subtype |-> request.subtype,
                       mode |-> n.control.mode, role |-> RoleForSubtype(request.subtype)])

\* The node after its inbox q, in order of arrival.  (A recursive function where
\* FoldLeft would do, because the proofs look inside.)
Processed(n, q) ==
    LET after[i \in 0 .. Len(q)] == IF i = 0 THEN n ELSE Handled(after[i - 1], q[i])
    IN  after[Len(q)]

\* process_incoming: the whole inbox.
ProcessIncoming ==
    /\ inbox # <<>>
    /\ node' = Processed(node, inbox)
    /\ inbox' = <<>>
    /\ Unswitched(node')
    /\ UNCHANGED gcCommands

\* The controller's lifecycle: to it every forwarded command is a SET_MODE,
\* which executes and verifies by having been forwarded.
GcSubmitted(id, subtype, role) ==
    IF gcCommands[id] # None THEN gcCommands
    ELSE [gcCommands EXCEPT
            ![id] = IF Authorized(role, IF subtype = "RESET_ENERGY" THEN "RESET_ENERGY"
                                                                    ELSE "CONFIGURE")
                    THEN "ACTUAL_STATE_VERIFIED" ELSE "REJECTED"]

\* forward_control, with an identity of the caller's or a new one: the frame
\* goes out first, retry or not, and before anything asks whether the caller may
\* command.  A silent node misses it; a corrupted one
\* raises, so that nothing is recorded.
ForwardControl(id, subtype, role) ==
    /\ UNCHANGED <<node, switched>>
    /\ \/ /\ Len(inbox) < MaxInbox
          /\ inbox' = Append(inbox, [id |-> id, subtype |-> subtype])
          /\ gcCommands' = GcSubmitted(id, subtype, role)
       \/ /\ gcCommands' = GcSubmitted(id, subtype, role)
          /\ UNCHANGED inbox

\* distribute_configuration, where it reaches the node.  The controller also
\* records a command, under an identity no other command has.
DistributeConfiguration(config) ==
    /\ Len(inbox) < MaxInbox
    /\ inbox' = Append(inbox, [id |-> None, config |-> config])
    /\ UNCHANGED <<node, gcCommands, switched>>

-----------------------------------------------------------------------------
(* The node's own life.                                                    *)

\* step: the cycle decides the lamp and accumulates energy, if any is used.
Step(light, scheduled) ==
    LET control == Decided(node.control, node.config, light, scheduled)
    IN  /\ \E energy \in {node.energy, TRUE} :
              node' = [node EXCEPT !.control = control, !.energy = energy]
        /\ switched' = IF ~SensorDecides(node.control, scheduled) THEN None
                       ELSE IF control.on # node.control.on THEN light
                       ELSE switched
        /\ UNCHANGED <<gcCommands, inbox>>

Cycle == \E light \in Levels \cup {None}, scheduled \in BOOLEAN : Step(light, scheduled)

SetProtection(active, forced) ==
    /\ node' = [node EXCEPT !.control = WithProtection(@, active, forced)]
    /\ Unswitched(node')
    /\ UNCHANGED <<gcCommands, inbox>>

\* Slip: the command records are lost with the control state.
RestartForgetting ==
    /\ node' = [node EXCEPT !.control = Restarted(@, node.config), !.latest = "NONE",
                            !.commands = [id \in CommandIds |-> None]]
    /\ switched' = None
    /\ UNCHANGED <<gcCommands, inbox>>

\* start and restart: configuration, configured mode, energy, inbox and
\* command records survive.
Restart ==
    /\ node' = [node EXCEPT !.control = Restarted(@, node.config), !.latest = "NONE"]
    /\ switched' = None
    /\ UNCHANGED <<gcCommands, inbox>>

Init ==
    /\ \E config \in Configs, mode \in ConfiguredMode :
         node = [control |-> Restarted([mode |-> mode, override |-> "NONE",
                                        protected |-> FALSE, forced |-> FALSE,
                                        on |-> FALSE], config),
                 config |-> config, energy |-> FALSE,
                 commands |-> [id \in CommandIds |-> None],
                 executions |-> [id \in CommandIds |-> 0],
                 latest |-> "NONE"]
    /\ gcCommands = [id \in CommandIds |-> None]
    /\ inbox = <<>>
    /\ switched = None

Next ==
    \/ Cycle
    \/ Restart
    \/ ProcessIncoming
    \/ \E active, forced \in BOOLEAN : SetProtection(active, forced)
    \/ \E config \in Configs : DistributeConfiguration(config)
    \/ \E id \in CommandIds, subtype \in ControlSubtype, role \in Role :
         \/ ForwardControl(id, subtype, role)
         \/ \E mode \in Parameters(subtype) : Operate(id, subtype, mode, role)

Spec == Init /\ [][Next]_vars

-----------------------------------------------------------------------------
(* Properties.                                                             *)

\* Every variable stays within its type.
TypeOK ==
    /\ node \in Node
    /\ gcCommands \in [CommandIds -> CommandState \cup {None}]
    /\ \A i \in DOMAIN inbox : inbox[i].id \in CommandIds \cup {None}
    /\ switched \in Levels \cup {None}

\* The node's record of a command tells the command's effect at the node: it was
\* executed once if the record says so and never otherwise, whatever was retried
\* under its identity, directly or over the bus (PR-CONTROL-003).  This is no
\* word about the caller: of a command that came over the bus the node's record
\* says what the actor the node made up may do, and the controller may have
\* REJECTED the same command after it sent it.
RecordTellsEffect ==
    \A id \in CommandIds :
        node.executions[id] =
            IF node.commands[id] = "ACTUAL_STATE_VERIFIED" THEN 1 ELSE 0

\* The override in force is the one asked for by the latest command that was
\* new and that the node authorized, if the node has not restarted since
\* (PR-CONTROL-005): the retry of an older command does not undo a newer one.
\* Over the bus `authorized' is said of the actor the node makes up, who may
\* always command the lamp, and not of the caller.
OverrideIsLatest == node.control.override = node.latest

\* A cycle obeys the priority order (PR-CONTROL-001) with respect to what was
\* ordered: protection before the latest order, and that before the automatic
\* mode, whatever the light, the schedule and the configuration are.
CycleObeysPriority ==
    [][Cycle =>
         /\ node.control.protected => node'.control.on = node.control.forced
         /\ ~node.control.protected /\ node.latest # "NONE" =>
               node'.control.on = (node.latest = "FORCE_ON")]_vars

\* The node implements CommandLedger: the node settles a command once for good,
\* across retries, both ways to the node and restarts, and nothing but a
\* command carried out for the first time, or a restart, moves the override
\* (PR-CONTROL-003, PR-CONTROL-005).  Refused is what the node refused.
FateOf(state) ==
    CASE state = None                    -> "new"
      [] state = "REJECTED"              -> "refused"
      [] state = "ACTUAL_STATE_VERIFIED" -> "done"
      [] OTHER                           -> state

Ledger == INSTANCE CommandLedger WITH
    Commands <- CommandIds,
    fate     <- [id \in CommandIds |-> FateOf(node.commands[id])],
    runs     <- node.executions,
    override <- node.control.override

CommandSpec == Ledger!Spec

\* The dead band keeps the lamp from flickering (PR-LIGHT-001): where the
\* sensor logic switches it twice in a row, the light has changed by at least
\* the band, in the right direction.
DeadBandSeparates ==
    [][(switched # None /\ switched' # None /\ node'.control.on # node.control.on)
         => LET band == node.config.offThreshold - node.config.onThreshold
            IN  IF node'.control.on THEN switched - switched' >= band
                                    ELSE switched' - switched >= band]_vars

\* docs/02_product_requirements.md:290-297 (PR-CONTROL-002): a command is not
\* successful merely because it was received.  A command the controller calls
\* ACTUAL_STATE_VERIFIED is one the node verified, once nothing of it is on
\* its way.
VerifiedAtNode ==
    \A id \in CommandIds :
        (/\ gcCommands[id] = "ACTUAL_STATE_VERIFIED"
         /\ \A i \in DOMAIN inbox : inbox[i].id # id)
            => node.commands[id] = "ACTUAL_STATE_VERIFIED"
=============================================================================
