------------------------- MODULE CommandPath_proofs -------------------------
(***************************************************************************)
(* What the command path promises, for any commands, configurations, light *)
(* levels and any length of the node's inbox.                              *)
(***************************************************************************)
EXTENDS CommandPath, SequenceTheorems, WellFoundedInduction, TLAPS

-----------------------------------------------------------------------------
(* One command.                                                            *)

\* A node whose records tell the effects of its commands, and whose override
\* is the latest that was ordered.
Good(n) ==
    /\ n \in Node
    /\ \A id \in CommandIds :
          n.executions[id] = IF n.commands[id] = "ACTUAL_STATE_VERIFIED" THEN 1 ELSE 0
    /\ n.control.override = n.latest

Command ==
    {c \in [id : CommandIds, subtype : ControlSubtype,
            mode : ConfiguredMode \cup {None}, role : Role] :
        c.subtype = "SET_MODE" => c.mode \in ConfiguredMode}

LEMMA OverrideFacts ==
    ASSUME NEW c \in Control, NEW override \in OverrideState
    PROVE  /\ WithOverride(c, override) \in Control
           /\ WithOverride(c, override).override = override
           /\ override = "FORCE_ON"  => WithOverride(c, override).on = TRUE
           /\ override = "FORCE_OFF" => WithOverride(c, override).on = FALSE
  BY DEF WithOverride, Control, OverrideState

\* What an execution changes, by fields.
LEMMA ExecutedFacts ==
    ASSUME NEW n \in Node, NEW c \in Command
    PROVE  /\ Executed(n, c) \in Node
           /\ Executed(n, c).control.override = Demanded(c.subtype, n.control.override)
           /\ Executed(n, c).commands = n.commands
           /\ Executed(n, c).executions = [n.executions EXCEPT ![c.id] = @ + 1]
           /\ Executed(n, c).latest = n.latest
           /\ Executed(n, c).config = n.config
           /\ Verified(Executed(n, c), c)
<1> DEFINE e == Executed(n, c)
           ctl == CASE c.subtype \in {"LAMP_ON", "LAMP_OFF", "RETURN_TO_AUTO"} ->
                         WithOverride(n.control, Demanded(c.subtype, None))
                    [] c.subtype = "SET_MODE" -> [n.control EXCEPT !.mode = c.mode]
                    [] OTHER                  -> n.control
           used == n.energy /\ c.subtype # "RESET_ENERGY"
           runs == [n.executions EXCEPT ![c.id] = @ + 1]
<1>1. e = [n EXCEPT !.control = ctl, !.energy = used, !.executions = runs]
  BY DEF Executed, Node
<1>2. /\ n.control \in Control /\ n.config \in Configs /\ n.energy \in BOOLEAN
      /\ n.commands \in [CommandIds -> CommandState \cup {None}]
      /\ n.executions \in [CommandIds -> Nat] /\ n.latest \in OverrideState
      /\ c.id \in CommandIds /\ c.subtype \in ControlSubtype
      /\ c.subtype = "SET_MODE" => c.mode \in ConfiguredMode
  BY DEF Node, Command
<1>3. /\ ctl \in Control
      /\ ctl.override = Demanded(c.subtype, n.control.override)
      /\ c.subtype = "LAMP_ON" => ctl.on = TRUE
      /\ c.subtype = "LAMP_OFF" => ctl.on = FALSE
  <2>1. CASE c.subtype \in {"LAMP_ON", "LAMP_OFF", "RETURN_TO_AUTO"}
    <3> DEFINE d == Demanded(c.subtype, None)
    <3>1. /\ d \in OverrideState
          /\ d = Demanded(c.subtype, n.control.override)
          /\ c.subtype = "LAMP_ON" => d = "FORCE_ON"
          /\ c.subtype = "LAMP_OFF" => d = "FORCE_OFF"
      BY <2>1 DEF Demanded, OverrideState
    <3>2. ctl = WithOverride(n.control, d)
      BY <2>1
    <3> HIDE DEF d, ctl
    <3> QED BY <1>2, <3>1, <3>2, OverrideFacts
  <2>2. CASE c.subtype = "SET_MODE"
    <3>1. ctl = [n.control EXCEPT !.mode = c.mode]
      BY <2>2
    <3> HIDE DEF ctl
    <3>2. ctl \in Control /\ ctl.override = n.control.override
      BY <1>2, <2>2, <3>1 DEF Control
    <3> QED BY <2>2, <3>2 DEF Demanded
  <2>3. CASE c.subtype = "RESET_ENERGY"
    <3>1. ctl = n.control
      BY <2>3
    <3> HIDE DEF ctl
    <3> QED BY <1>2, <2>3, <3>1 DEF Demanded
  <2> HIDE DEF ctl
  <2> QED BY <1>2, <2>1, <2>2, <2>3 DEF ControlSubtype
<1>4. used \in BOOLEAN /\ (c.subtype = "RESET_ENERGY" => used = FALSE)
  BY <1>2
<1>5. runs \in [CommandIds -> Nat]
  BY <1>2
<1> HIDE DEF e, ctl, used, runs
<1>6. /\ e \in Node /\ e.control = ctl /\ e.energy = used
      /\ e.config = n.config /\ e.commands = n.commands /\ e.latest = n.latest
      /\ e.executions = runs
  BY <1>1, <1>2, <1>3, <1>4, <1>5 DEF Node
<1>7. Verified(e, c)
  <2>1. c.subtype = "RETURN_TO_AUTO" => e.control.override = "NONE"
    BY <1>3, <1>6 DEF Demanded
  <2> QED BY <1>2, <1>3, <1>4, <1>6, <2>1 DEF Verified, ControlSubtype
<1> QED BY <1>3, <1>6, <1>7 DEF e, runs

\* A command keeps a node good, new or repeated, whoever sent it.
LEMMA SubmittedGood ==
    ASSUME NEW n, Good(n), NEW c \in Command
    PROVE  Good(Submitted(n, c))
<1>1. /\ n \in Node /\ c.id \in CommandIds /\ c.subtype \in ControlSubtype
      /\ n.control \in Control /\ n.latest \in OverrideState
      /\ n.commands \in [CommandIds -> CommandState \cup {None}]
      /\ n.executions \in [CommandIds -> Nat]
  BY DEF Good, Node, Command
<1>2. CASE n.commands[c.id] # None
  BY <1>2 DEF Submitted
<1>3. CASE n.commands[c.id] = None /\ ~Authorized(c.role, ActionFor(c.subtype))
  <2> DEFINE r == Recorded(n, c.id, "REJECTED")
  <2>1. /\ r \in Node /\ r.control = n.control /\ r.latest = n.latest
        /\ r.executions = n.executions
        /\ r.commands = [n.commands EXCEPT ![c.id] = "REJECTED"]
    BY <1>1 DEF Recorded, Node, CommandState
  <2>2. n.executions[c.id] = 0
    BY <1>1, <1>3, CommandAssumption DEF Good, CommandState
  <2>3. Submitted(n, c) = r
    BY <1>3 DEF Submitted
  <2> HIDE DEF r
  <2>4. \A id \in CommandIds :
           r.executions[id] = IF r.commands[id] = "ACTUAL_STATE_VERIFIED" THEN 1 ELSE 0
    BY <1>1, <2>1, <2>2 DEF Good
  <2> QED BY <2>1, <2>3, <2>4 DEF Good
<1>4. CASE n.commands[c.id] = None /\ Authorized(c.role, ActionFor(c.subtype))
  <2> DEFINE e == Executed(n, c)
             m == [e EXCEPT !.latest = Ordered(n, c)]
             r == Recorded(m, c.id, "ACTUAL_STATE_VERIFIED")
  <2>1. /\ e \in Node /\ e.commands = n.commands
        /\ e.control.override = Demanded(c.subtype, n.control.override)
        /\ e.executions = [n.executions EXCEPT ![c.id] = @ + 1]
        /\ Verified(e, c)
    BY <1>1, ExecutedFacts
  <2>2. Ordered(n, c) = Demanded(c.subtype, n.latest)
    BY <1>4 DEF Ordered
  <2>3. Demanded(c.subtype, n.latest) \in OverrideState
    BY <1>1 DEF Demanded, OverrideState
  <2> HIDE DEF e
  <2>4. /\ m \in Node /\ m.control = e.control /\ m.energy = e.energy
        /\ m.commands = e.commands /\ m.executions = e.executions
        /\ m.latest = Demanded(c.subtype, n.latest)
    BY <2>1, <2>2, <2>3 DEF Node
  <2> HIDE DEF m
  <2>5. Verified(m, c)
    BY <2>1, <2>4 DEF Verified
  <2>6. Submitted(n, c) = r
    BY <1>4, <2>5, CommandAssumption DEF Submitted, m, e
  <2>7. /\ r \in Node /\ r.control = m.control /\ r.latest = m.latest
        /\ r.executions = m.executions
        /\ r.commands = [m.commands EXCEPT ![c.id] = "ACTUAL_STATE_VERIFIED"]
    BY <1>1, <2>4 DEF Recorded, Node, CommandState
  <2>8. n.executions[c.id] = 0
    BY <1>1, <1>4, CommandAssumption DEF Good, CommandState
  <2> HIDE DEF r
  <2>9. \A id \in CommandIds :
           r.executions[id] = IF r.commands[id] = "ACTUAL_STATE_VERIFIED" THEN 1 ELSE 0
    BY <1>1, <2>1, <2>4, <2>7, <2>8 DEF Good
  <2>10. r.control.override = r.latest
    BY <2>1, <2>4, <2>7 DEF Good
  <2> QED BY <2>6, <2>7, <2>9, <2>10 DEF Good
<1> QED BY <1>2, <1>3, <1>4

LEMMA ConfiguredGood ==
    ASSUME NEW n, Good(n), NEW config \in Configs
    PROVE  Good(Configured(n, config))
<1>1. /\ Configured(n, config) \in Node
      /\ Configured(n, config).control = n.control
      /\ Configured(n, config).latest = n.latest
      /\ Configured(n, config).commands = n.commands
      /\ Configured(n, config).executions = n.executions
  BY DEF Configured, Good, Node
<1> QED BY <1>1 DEF Good

-----------------------------------------------------------------------------
(* A whole inbox.                                                          *)

Request == [id : CommandIds, subtype : ControlSubtype]
             \cup [id : {None}, config : Configs]

LEMMA HandledGood ==
    ASSUME NEW n, Good(n), NEW request \in Request
    PROVE  Good(Handled(n, request))
<1>1. CASE request \in [id : {None}, config : Configs]
  BY <1>1, ConfiguredGood DEF Handled
<1>2. CASE request \in [id : CommandIds, subtype : ControlSubtype]
  <2> DEFINE c == [id |-> request.id, subtype |-> request.subtype,
                   mode |-> n.control.mode, role |-> RoleForSubtype(request.subtype)]
  <2>1. request.id # None
    BY <1>2, CommandAssumption
  <2>2. n.control.mode \in ConfiguredMode
    BY DEF Good, Node, Control
  <2>3. RoleForSubtype(request.subtype) \in Role
    BY DEF RoleForSubtype, Role
  <2>4. c \in Command
    BY <1>2, <2>2, <2>3 DEF Command
  <2>5. Handled(n, request) = Submitted(n, c)
    BY <2>1 DEF Handled
  <2> HIDE DEF c
  <2> QED BY <2>4, <2>5, SubmittedGood
<1> QED BY <1>1, <1>2 DEF Request

\* A set with 0 and the successor of each of its members holds every number:
\* there is no least number outside it.
LEMMA NumberInduction ==
    ASSUME NEW T, 0 \in T, \A i \in Nat : i \in T => i + 1 \in T
    PROVE  Nat \subseteq T
<1> SUFFICES ASSUME Nat \ T # {} PROVE FALSE
  OBVIOUS
<1> DEFINE R == OpToRel(<, Nat)
<1>1. PICK i \in Nat \ T : \A j \in Nat \ T : ~(<<j, i>> \in R)
  <2>1. IsWellFoundedOn(R, Nat) /\ Nat \ T \subseteq Nat
    BY NatLessThanWellFounded
  <2> QED BY <2>1, WFMin, Zenon
<1>2. \A j \in Nat \ T : ~(j < i)
  BY <1>1 DEF OpToRel
<1>3. i # 0 /\ i - 1 \in Nat /\ i - 1 < i
  OBVIOUS
<1> QED BY <1>2, <1>3

After(n, q, f, i) == IF i = 0 THEN n ELSE Handled(f[i - 1], q[i])

\* The recursion of Processed defines a function.
LEMMA ProcessedExists ==
    ASSUME NEW n, NEW q, Len(q) \in Nat
    PROVE  \E f : f = [i \in 0 .. Len(q) |-> After(n, q, f, i)]
<1> DEFINE T == {k \in Nat : \E f : f = [i \in 0 .. k |-> After(n, q, f, i)]}
<1>1. 0 \in T
  <2> DEFINE f == [i \in 0 .. 0 |-> n]
  <2>1. f = [i \in 0 .. 0 |-> After(n, q, f, i)]
    BY DEF After
  <2> QED BY <2>1
<1>2. ASSUME NEW k \in Nat, k \in T PROVE k + 1 \in T
  <2>1. PICK f : f = [i \in 0 .. k |-> After(n, q, f, i)]
    BY <1>2
  <2> DEFINE g == [i \in 0 .. k + 1 |-> IF i = k + 1 THEN Handled(f[k], q[k + 1])
                                                     ELSE f[i]]
  <2>2. \A i \in 0 .. k : g[i] = f[i] /\ f[i] = After(n, q, f, i)
    BY <2>1
  <2>3. g[k + 1] = Handled(f[k], q[k + 1])
    OBVIOUS
  <2>4. g = [i \in 0 .. k + 1 |-> g[i]]
    OBVIOUS
  <2> HIDE DEF g
  <2>5. ASSUME NEW i \in 0 .. k + 1 PROVE g[i] = After(n, q, g, i)
    <3>1. CASE i = 0
      <4>1. 0 \in 0 .. k
        OBVIOUS
      <4>2. g[0] = After(n, q, f, 0)
        BY <2>2, <4>1
      <4> QED BY <3>1, <4>2 DEF After
    <3>2. CASE i \in 1 .. k
      <4>1. i - 1 \in 0 .. k /\ i \in 0 .. k
        BY <3>2
      <4>2. g[i] = After(n, q, f, i) /\ g[i - 1] = f[i - 1]
        BY <2>2, <4>1
      <4> QED BY <3>2, <4>2 DEF After
    <3>3. CASE i = k + 1
      <4>1. i - 1 = k /\ k \in 0 .. k /\ i # 0
        BY <3>3
      <4>2. g[k] = f[k]
        BY <2>2, <4>1
      <4> QED BY <2>3, <3>3, <4>1, <4>2 DEF After
    <3> QED BY <3>1, <3>2, <3>3
  <2>6. g = [i \in 0 .. k + 1 |-> After(n, q, g, i)]
    BY <2>4, <2>5
  <2> QED BY <2>6
<1> HIDE DEF T
<1>3. Nat \subseteq T
  BY <1>1, <1>2, NumberInduction
<1> QED BY <1>3 DEF T

\* However long the inbox is, a good node is good after it.
LEMMA ProcessedGood ==
    ASSUME NEW n, Good(n), NEW q \in Seq(Request)
    PROVE  Good(Processed(n, q))
<1>1. Len(q) \in Nat /\ \A i \in 1 .. Len(q) : q[i] \in Request
  BY LenProperties, ElementOfSeq
<1> DEFINE after == CHOOSE f : f = [i \in 0 .. Len(q) |-> After(n, q, f, i)]
           T == {k \in Nat : k <= Len(q) => Good(after[k])}
<1>2. after = [i \in 0 .. Len(q) |-> After(n, q, after, i)]
  BY <1>1, ProcessedExists
<1>3. Processed(n, q) = after[Len(q)]
  BY DEF Processed, After
<1> HIDE DEF after
<1>4. \A i \in 0 .. Len(q) : after[i] = After(n, q, after, i)
  BY <1>2
<1>5. 0 \in T
  <2>1. after[0] = n
    BY <1>1, <1>4 DEF After
  <2> QED BY <2>1
<1>6. ASSUME NEW k \in Nat, k \in T PROVE k + 1 \in T
  <2> SUFFICES ASSUME k + 1 <= Len(q) PROVE Good(after[k + 1])
    OBVIOUS
  <2>1. Good(after[k]) /\ q[k + 1] \in Request
    BY <1>1, <1>6
  <2>2. after[k + 1] = Handled(after[k], q[k + 1])
    BY <1>1, <1>4 DEF After
  <2> HIDE DEF T
  <2> QED BY <2>1, <2>2, HandledGood
<1> HIDE DEF T
<1>7. Nat \subseteq T
  BY <1>5, <1>6, NumberInduction
<1> QED BY <1>1, <1>3, <1>7 DEF T

-----------------------------------------------------------------------------
(* The inductive invariant.                                                *)

\* The lamp was switched where the sensor logic switches, under the
\* configuration that is still in force.
SwitchedByThreshold ==
    switched # None =>
        IF node.control.on THEN switched <= node.config.onThreshold
                           ELSE switched >= node.config.offThreshold

IInv ==
    /\ Good(node)
    /\ gcCommands \in [CommandIds -> CommandState \cup {None}]
    /\ inbox \in Seq(Request)
    /\ switched \in Levels \cup {None}
    /\ SwitchedByThreshold

LEMMA NodeFacts ==
    ASSUME NEW n, Good(n)
    PROVE  /\ n \in Node /\ n.control \in Control /\ n.config \in Configs
           /\ n.config \in Configuration /\ n.energy \in BOOLEAN
           /\ n.commands \in [CommandIds -> CommandState \cup {None}]
           /\ n.executions \in [CommandIds -> Nat]
           /\ n.latest \in OverrideState /\ n.control.override = n.latest
           /\ n.control.on \in BOOLEAN
           /\ n.config.onThreshold \in Nat /\ n.config.offThreshold \in Nat
  BY CommandAssumption DEF Good, Node, Control, Configuration

\* Another control state or configuration, the same records.
LEMMA SameRecords ==
    ASSUME NEW n, Good(n), NEW control \in Control, NEW energy \in BOOLEAN,
           NEW latest \in OverrideState, control.override = latest
    PROVE  Good([n EXCEPT !.control = control, !.energy = energy, !.latest = latest])
<1> DEFINE m == [n EXCEPT !.control = control, !.energy = energy, !.latest = latest]
<1>0. n \in Node
  BY DEF Good
<1>1. /\ m \in Node /\ m.control = control /\ m.latest = latest
      /\ m.commands = n.commands /\ m.executions = n.executions
  BY <1>0 DEF Node
<1> HIDE DEF m
<1>2. Good(m)
  BY <1>1 DEF Good
<1> QED BY <1>2 DEF m

LEMMA UnswitchedKept ==
    ASSUME IInv, Unswitched(node')
    PROVE  switched' \in Levels \cup {None} /\ SwitchedByThreshold'
  BY DEF IInv, Unswitched, SwitchedByThreshold

LEMMA RestartedFacts ==
    ASSUME NEW c \in Control, NEW config \in Configuration
    PROVE  /\ Restarted(c, config) \in Control
           /\ Restarted(c, config).override = "NONE"
<1> DEFINE a == WithOverride(c, "NONE")
           b == WithProtection(a, FALSE, FALSE)
<1>1. a \in Control /\ a.override = "NONE"
  BY OverrideFacts DEF OverrideState
<1> HIDE DEF a
<1>2. b \in Control /\ b.override = "NONE"
  BY <1>1 DEF WithProtection, Control
<1> HIDE DEF b
<1>3. config.restartDefault \in BOOLEAN
  BY DEF Configuration
<1>4. [b EXCEPT !.on = config.restartDefault] \in Control
  BY <1>2, <1>3 DEF Control
<1>5. [b EXCEPT !.on = config.restartDefault].override = "NONE"
  BY <1>2 DEF Control
<1> QED BY <1>4, <1>5 DEF Restarted, a, b

LEMMA DecidedFacts ==
    ASSUME NEW c \in Control, NEW config \in Configuration, NEW light, NEW scheduled \in BOOLEAN
    PROVE  LET d == Decided(c, config, light, scheduled)
           IN  /\ d \in Control /\ d.override = c.override
               /\ c.protected => d.on = c.forced
               /\ ~c.protected /\ c.override # "NONE" => d.on = (c.override = "FORCE_ON")
               /\ SensorDecides(c, scheduled) => d.on = Sensed(c, config, light)
<1> DEFINE on == IF c.protected THEN c.forced
                 ELSE IF c.override # "NONE" THEN c.override = "FORCE_ON"
                 ELSE Automatic(c, config, light, scheduled)
<1>1. /\ c.protected \in BOOLEAN /\ c.forced \in BOOLEAN /\ c.on \in BOOLEAN
      /\ c.mode \in ConfiguredMode /\ config.outOfWindow \in BOOLEAN
  BY DEF Control, Configuration
<1>2. Sensed(c, config, light) \in BOOLEAN
  BY DEF Sensed
<1>3. Automatic(c, config, light, scheduled) \in BOOLEAN
  BY <1>1, <1>2 DEF Automatic
<1>4. on \in BOOLEAN
  BY <1>1, <1>3
<1>5. /\ c.protected => on = c.forced
      /\ ~c.protected /\ c.override # "NONE" => on = (c.override = "FORCE_ON")
      /\ SensorDecides(c, scheduled) => on = Sensed(c, config, light)
  BY <1>1 DEF SensorDecides, Automatic
<1>6. Decided(c, config, light, scheduled) = [c EXCEPT !.on = on]
  BY DEF Decided
<1> HIDE DEF on
<1>7. [c EXCEPT !.on = on] \in Control /\ [c EXCEPT !.on = on].on = on
      /\ [c EXCEPT !.on = on].override = c.override
  BY <1>4 DEF Control
<1> QED BY <1>5, <1>6, <1>7

\* A cycle, and what it does to the lamp.
LEMMA StepFacts ==
    ASSUME IInv, NEW light \in Levels \cup {None}, NEW scheduled \in BOOLEAN,
           Step(light, scheduled)
    PROVE  /\ Good(node') /\ node'.config = node.config
           /\ node'.control = Decided(node.control, node.config, light, scheduled)
           /\ switched' = IF ~SensorDecides(node.control, scheduled) THEN None
                          ELSE IF node'.control.on # node.control.on THEN light
                          ELSE switched
<1> DEFINE control == Decided(node.control, node.config, light, scheduled)
<1>1. Good(node)
  BY DEF IInv
<1>2. PICK energy \in {node.energy, TRUE} :
          node' = [node EXCEPT !.control = control, !.energy = energy]
  BY DEF Step
<1>3. control \in Control /\ control.override = node.control.override
  BY <1>1, NodeFacts, DecidedFacts
<1>4. switched' = IF ~SensorDecides(node.control, scheduled) THEN None
                  ELSE IF control.on # node.control.on THEN light
                  ELSE switched
  BY DEF Step
<1> HIDE DEF control
<1>5. energy \in BOOLEAN
  BY <1>1, NodeFacts
<1>6. node' = [node EXCEPT !.control = control, !.energy = energy, !.latest = node.latest]
      /\ node'.control = control /\ node'.config = node.config
  <2>1. node \in Node
    BY <1>1 DEF Good
  <2> QED BY <1>2, <2>1 DEF Node
<1>7. Good(node')
  BY <1>1, <1>3, <1>5, <1>6, NodeFacts, SameRecords
<1> QED BY <1>4, <1>6, <1>7 DEF control

\* Where the sensor logic switches the lamp, the light is past the threshold.
LEMMA StepKept ==
    ASSUME IInv, NEW light \in Levels \cup {None}, NEW scheduled \in BOOLEAN,
           Step(light, scheduled)
    PROVE  IInv'
<1>1. Good(node) /\ inbox' = inbox /\ gcCommands' = gcCommands
  BY DEF IInv, Step
<1>2. switched' \in Levels \cup {None}
  BY StepFacts DEF IInv
<1>3. ASSUME switched' # None
      PROVE  IF node'.control.on THEN switched' <= node'.config.onThreshold
                                 ELSE switched' >= node'.config.offThreshold
  <2>1. SensorDecides(node.control, scheduled)
    BY <1>3, StepFacts
  <2>2. node'.control.on = Sensed(node.control, node.config, light)
    <3>1. node.control \in Control /\ node.config \in Configuration
      BY <1>1, NodeFacts
    <3>2. Decided(node.control, node.config, light, scheduled).on =
            Sensed(node.control, node.config, light)
      BY <2>1, <3>1, DecidedFacts
    <3> QED BY <3>2, StepFacts
  <2>3. CASE node'.control.on = node.control.on
    BY <1>3, <2>1, <2>3, StepFacts DEF IInv, SwitchedByThreshold
  <2>4. CASE node'.control.on # node.control.on
    <3>1. switched' = light
      BY <2>1, <2>4, StepFacts
    <3>2. node'.config = node.config /\ node.control.on \in BOOLEAN
      BY <1>1, StepFacts, NodeFacts
    <3> QED BY <2>2, <2>4, <3>1, <3>2 DEF Sensed, Dark, Bright
  <2> QED BY <2>3, <2>4
<1> QED BY <1>1, <1>2, <1>3, StepFacts DEF IInv, SwitchedByThreshold

LEMMA InitIInv == Init => IInv
<1> SUFFICES ASSUME Init PROVE IInv
  OBVIOUS
<1>1. PICK config \in Configs, mode \in ConfiguredMode :
         node = [control |-> Restarted([mode |-> mode, override |-> "NONE",
                                        protected |-> FALSE, forced |-> FALSE,
                                        on |-> FALSE], config),
                 config |-> config, energy |-> FALSE,
                 commands |-> [id \in CommandIds |-> None],
                 executions |-> [id \in CommandIds |-> 0],
                 latest |-> "NONE"]
  BY DEF Init
<1> DEFINE fresh == [mode |-> mode, override |-> "NONE", protected |-> FALSE,
                     forced |-> FALSE, on |-> FALSE]
<1>2. fresh \in Control
  BY DEF Control, OverrideState
<1>3. config \in Configuration
  BY CommandAssumption
<1> HIDE DEF fresh
<1>4. Restarted(fresh, config) \in Control /\ Restarted(fresh, config).override = "NONE"
  BY <1>2, <1>3, RestartedFacts
<1>5. node = [control |-> Restarted(fresh, config), config |-> config, energy |-> FALSE,
              commands |-> [id \in CommandIds |-> None],
              executions |-> [id \in CommandIds |-> 0], latest |-> "NONE"]
  BY <1>1 DEF fresh
<1>6. node \in Node
  BY <1>4, <1>5 DEF Node, OverrideState
<1>7. Good(node)
  BY <1>4, <1>5, <1>6, CommandAssumption DEF Good, CommandState
<1>8. inbox \in Seq(Request)
  BY EmptySeq DEF Init
<1> QED BY <1>7, <1>8 DEF Init, IInv, SwitchedByThreshold

LEMMA OperateKept ==
    ASSUME IInv, NEW id \in CommandIds, NEW subtype \in ControlSubtype, NEW role \in Role,
           NEW mode \in Parameters(subtype), Operate(id, subtype, mode, role)
    PROVE  IInv'
<1> DEFINE c == [id |-> id, subtype |-> subtype, mode |-> mode, role |-> role]
<1>1. c \in Command
  BY DEF Command, Parameters
<1>2. /\ node' = Submitted(node, c) /\ Unswitched(node')
      /\ UNCHANGED <<gcCommands, inbox>>
  BY DEF Operate
<1> HIDE DEF c
<1>3. Good(node')
  BY <1>1, <1>2, SubmittedGood DEF IInv
<1> QED BY <1>2, <1>3, UnswitchedKept DEF IInv

LEMMA ForwardKept ==
    ASSUME IInv, NEW id \in CommandIds, NEW subtype \in ControlSubtype, NEW role \in Role,
           ForwardControl(id, subtype, role)
    PROVE  IInv'
<1>1. UNCHANGED <<node, switched>>
  BY DEF ForwardControl
<1>2. GcSubmitted(id, subtype, role) \in [CommandIds -> CommandState \cup {None}]
  BY DEF IInv, GcSubmitted, CommandState
<1>3. [id |-> id, subtype |-> subtype] \in Request
  BY DEF Request
<1>4. inbox' \in Seq(Request) /\ gcCommands' = GcSubmitted(id, subtype, role)
  BY <1>3, AppendProperties DEF IInv, ForwardControl
<1> QED BY <1>1, <1>2, <1>4 DEF IInv, SwitchedByThreshold

LEMMA DistributeKept ==
    ASSUME IInv, NEW config \in Configs, DistributeConfiguration(config)
    PROVE  IInv'
<1>1. UNCHANGED <<node, gcCommands, switched>>
  BY DEF DistributeConfiguration
<1>2. [id |-> None, config |-> config] \in Request
  BY DEF Request
<1>3. inbox' \in Seq(Request)
  BY <1>2, AppendProperties DEF IInv, DistributeConfiguration
<1> QED BY <1>1, <1>3 DEF IInv, SwitchedByThreshold

LEMMA ProcessKept ==
    ASSUME IInv, ProcessIncoming
    PROVE  IInv'
<1>1. /\ node' = Processed(node, inbox) /\ inbox' = <<>> /\ gcCommands' = gcCommands
      /\ Unswitched(node')
  BY DEF ProcessIncoming
<1>2. Good(node')
  BY <1>1, ProcessedGood DEF IInv
<1>3. inbox' \in Seq(Request)
  BY <1>1, EmptySeq
<1> QED BY <1>1, <1>2, <1>3, UnswitchedKept DEF IInv

LEMMA ProtectionKept ==
    ASSUME IInv, NEW active \in BOOLEAN, NEW forced \in BOOLEAN,
           SetProtection(active, forced)
    PROVE  IInv'
<1> DEFINE control == WithProtection(node.control, active, forced)
<1>1. Good(node) /\ UNCHANGED <<gcCommands, inbox>> /\ Unswitched(node')
  BY DEF IInv, SetProtection
<1>2. control \in Control /\ control.override = node.control.override
  BY <1>1, NodeFacts DEF WithProtection, Control
<1>3. node' = [node EXCEPT !.control = control]
  BY DEF SetProtection
<1> HIDE DEF control
<1>4. node' = [node EXCEPT !.control = control, !.energy = node.energy,
                           !.latest = node.latest]
  BY <1>1, <1>3, NodeFacts DEF Node
<1>5. Good(node')
  BY <1>1, <1>2, <1>4, NodeFacts, SameRecords
<1> QED BY <1>1, <1>5, UnswitchedKept DEF IInv

LEMMA RestartKept ==
    ASSUME IInv, Restart
    PROVE  IInv'
<1> DEFINE control == Restarted(node.control, node.config)
<1>1. Good(node) /\ UNCHANGED <<gcCommands, inbox>> /\ switched' = None
  BY DEF IInv, Restart
<1>2. control \in Control /\ control.override = "NONE"
  BY <1>1, NodeFacts, RestartedFacts
<1>3. node' = [node EXCEPT !.control = control, !.latest = "NONE"]
  BY DEF Restart
<1> HIDE DEF control
<1>4. node' = [node EXCEPT !.control = control, !.energy = node.energy,
                           !.latest = "NONE"]
  BY <1>1, <1>3, NodeFacts DEF Node
<1>5. Good(node')
  BY <1>1, <1>2, <1>4, NodeFacts, SameRecords DEF OverrideState
<1> QED BY <1>1, <1>5 DEF IInv, SwitchedByThreshold

LEMMA NextIInv == IInv /\ [Next]_vars => IInv'
<1> SUFFICES ASSUME IInv, [Next]_vars PROVE IInv'
  OBVIOUS
<1>1. CASE Cycle
  BY <1>1, StepKept DEF Cycle
<1>2. CASE Restart
  BY <1>2, RestartKept
<1>3. CASE ProcessIncoming
  BY <1>3, ProcessKept
<1>4. ASSUME NEW active \in BOOLEAN, NEW forced \in BOOLEAN, SetProtection(active, forced)
      PROVE  IInv'
  BY <1>4, ProtectionKept
<1>5. ASSUME NEW config \in Configs, DistributeConfiguration(config) PROVE IInv'
  BY <1>5, DistributeKept
<1>6. ASSUME NEW id \in CommandIds, NEW subtype \in ControlSubtype, NEW role \in Role,
             \/ ForwardControl(id, subtype, role)
             \/ \E mode \in Parameters(subtype) : Operate(id, subtype, mode, role)
      PROVE  IInv'
  BY <1>6, ForwardKept, OperateKept
<1>7. CASE UNCHANGED vars
  BY <1>7 DEF vars, IInv, SwitchedByThreshold
<1> QED BY <1>1, <1>2, <1>3, <1>4, <1>5, <1>6, <1>7 DEF Next

LEMMA IInvHolds == Spec => []IInv
  BY InitIInv, NextIInv, PTL DEF Spec

-----------------------------------------------------------------------------
(* The theorems.                                                           *)

\* Node, records, inbox and history keep their types.
THEOREM CommandTypesKept == Spec => []TypeOK
<1>1. IInv => TypeOK
  <2> SUFFICES ASSUME IInv PROVE TypeOK
    OBVIOUS
  <2>1. \A i \in DOMAIN inbox : inbox[i] \in Request
    BY LenProperties, ElementOfSeq DEF IInv
  <2>2. \A r \in Request : r.id \in CommandIds \cup {None}
    BY DEF Request
  <2> QED BY <2>1, <2>2 DEF IInv, Good, TypeOK
<1> QED BY <1>1, IInvHolds, PTL

\* The node executes a command once if its own record says so, and never
\* otherwise.  The record judges a command from the bus by the actor the node
\* made up.
THEOREM RecordsTellEffects == Spec => []RecordTellsEffect
<1>1. IInv => RecordTellsEffect
  BY DEF IInv, Good, RecordTellsEffect
<1> QED BY <1>1, IInvHolds, PTL

\* The override in force is the one ordered last by a command the node
\* authorized.
THEOREM OverrideFollowsOrders == Spec => []OverrideIsLatest
<1>1. IInv => OverrideIsLatest
  BY DEF IInv, Good, OverrideIsLatest
<1> QED BY <1>1, IInvHolds, PTL

\* Protection goes before the latest order, and that before the automatic mode.
THEOREM PriorityObeyed == Spec => CycleObeysPriority
<1> DEFINE Obeyed == Cycle =>
               /\ node.control.protected => node'.control.on = node.control.forced
               /\ ~node.control.protected /\ node.latest # "NONE" =>
                     node'.control.on = (node.latest = "FORCE_ON")
<1>1. ASSUME IInv PROVE Obeyed
  <2> SUFFICES ASSUME Cycle PROVE Obeyed
    OBVIOUS
  <2>1. PICK light \in Levels \cup {None}, scheduled \in BOOLEAN : Step(light, scheduled)
    BY DEF Cycle
  <2>2. Good(node)
    BY <1>1 DEF IInv
  <2>3. node'.control = Decided(node.control, node.config, light, scheduled)
    BY <1>1, <2>1, StepFacts
  <2> QED BY <2>2, <2>3, NodeFacts, DecidedFacts
<1>2. IInv => [Obeyed]_vars
  BY <1>1
<1> QED BY <1>2, IInvHolds, PTL DEF CycleObeysPriority

\* Between two switchings by the sensor logic the light has crossed the band.
THEOREM FlickerFree == Spec => DeadBandSeparates
<1> DEFINE Apart == (switched # None /\ switched' # None
                        /\ node'.control.on # node.control.on)
               => LET band == node.config.offThreshold - node.config.onThreshold
                  IN  IF node'.control.on THEN switched - switched' >= band
                                          ELSE switched' - switched >= band
<1>1. ASSUME IInv, IInv', [Next]_vars PROVE [Apart]_vars
  <2> SUFFICES ASSUME switched # None, switched' # None,
                      node'.control.on # node.control.on
               PROVE  Apart
    OBVIOUS
  <2>1. Good(node) /\ Good(node') /\ switched \in Nat /\ switched' \in Nat
    BY <1>1, CommandAssumption DEF IInv
  <2>2. node'.config = node.config
    <3>1. CASE Cycle
      BY <1>1, <3>1, StepFacts DEF Cycle
    <3>2. CASE Unswitched(node')
      BY <3>2 DEF Unswitched
    <3>3. CASE node' = node
      BY <3>3
    <3>4. Cycle \/ Unswitched(node') \/ node' = node \/ switched' = None
      BY <1>1 DEF Next, vars, Restart, ProcessIncoming, SetProtection, ForwardControl,
                  DistributeConfiguration, Operate
    <3> QED BY <3>1, <3>2, <3>3, <3>4
  <2> QED BY <1>1, <2>1, <2>2, NodeFacts DEF IInv, SwitchedByThreshold
<1>2. IInv /\ IInv' /\ [Next]_vars => [Apart]_vars
  BY <1>1
<1> QED BY <1>2, IInvHolds, PTL DEF Spec, DeadBandSeparates

-----------------------------------------------------------------------------
(* The node implements CommandLedger.                                      *)

\* From n to m some new commands were settled; the override moved only if one
\* of them was carried out.
Settled(n, m) ==
    /\ \A id \in CommandIds :
          \/ /\ m.commands[id] = n.commands[id]
             /\ m.executions[id] = n.executions[id]
          \/ /\ n.commands[id] = None
             /\ m.commands[id] = "REJECTED"
             /\ m.executions[id] = n.executions[id]
          \/ /\ n.commands[id] = None
             /\ m.commands[id] = "ACTUAL_STATE_VERIFIED"
             /\ m.executions[id] = n.executions[id] + 1
    /\ \/ m.control.override = n.control.override
       \/ \E id \in CommandIds :
             n.commands[id] = None /\ m.commands[id] = "ACTUAL_STATE_VERIFIED"

LEMMA SettledTransitive ==
    ASSUME NEW n, NEW m, NEW k, Settled(n, m), Settled(m, k)
    PROVE  Settled(n, k)
<1>1. None # "REJECTED" /\ None # "ACTUAL_STATE_VERIFIED"
  BY CommandAssumption DEF CommandState
<1>2. ASSUME NEW id \in CommandIds
      PROVE  \/ k.commands[id] = n.commands[id] /\ k.executions[id] = n.executions[id]
             \/ /\ n.commands[id] = None /\ k.commands[id] = "REJECTED"
                /\ k.executions[id] = n.executions[id]
             \/ /\ n.commands[id] = None /\ k.commands[id] = "ACTUAL_STATE_VERIFIED"
                /\ k.executions[id] = n.executions[id] + 1
  BY <1>1 DEF Settled
<1>3. \/ k.control.override = n.control.override
      \/ \E id \in CommandIds :
            n.commands[id] = None /\ k.commands[id] = "ACTUAL_STATE_VERIFIED"
  BY <1>1 DEF Settled
<1> QED BY <1>2, <1>3 DEF Settled

\* A command, new or repeated, settles itself at most.
LEMMA SubmittedSettles ==
    ASSUME NEW n, Good(n), NEW c \in Command
    PROVE  Settled(n, Submitted(n, c))
<1>1. /\ n \in Node /\ c.id \in CommandIds
      /\ n.commands \in [CommandIds -> CommandState \cup {None}]
      /\ n.executions \in [CommandIds -> Nat]
  BY DEF Good, Node, Command
<1>2. CASE n.commands[c.id] # None
  <2>1. Submitted(n, c) = n
    BY <1>2 DEF Submitted
  <2> QED BY <2>1 DEF Settled
<1>3. CASE n.commands[c.id] = None /\ ~Authorized(c.role, ActionFor(c.subtype))
  <2>1. Submitted(n, c) = Recorded(n, c.id, "REJECTED")
    BY <1>3 DEF Submitted
  <2> DEFINE r == Recorded(n, c.id, "REJECTED")
  <2>2. /\ r.control = n.control /\ r.executions = n.executions
        /\ r.commands = [n.commands EXCEPT ![c.id] = "REJECTED"]
    BY <1>1 DEF Recorded, Node
  <2> HIDE DEF r
  <2>3. Settled(n, r)
    BY <1>1, <1>3, <2>2 DEF Settled
  <2> QED BY <2>1, <2>3 DEF r
<1>4. CASE n.commands[c.id] = None /\ Authorized(c.role, ActionFor(c.subtype))
  <2> DEFINE e == Executed(n, c)
             m == [e EXCEPT !.latest = Ordered(n, c)]
             r == Recorded(m, c.id, "ACTUAL_STATE_VERIFIED")
  <2>1. /\ e \in Node /\ e.commands = n.commands
        /\ e.executions = [n.executions EXCEPT ![c.id] = @ + 1]
        /\ Verified(e, c)
    BY <1>1, ExecutedFacts
  <2> HIDE DEF e
  <2>2. /\ m.control = e.control /\ m.energy = e.energy
        /\ m.commands = e.commands /\ m.executions = e.executions
        /\ r.executions = m.executions
        /\ r.commands = [m.commands EXCEPT ![c.id] = "ACTUAL_STATE_VERIFIED"]
    BY <2>1 DEF Node, Recorded
  <2> HIDE DEF m
  <2>3. Verified(m, c)
    BY <2>1, <2>2 DEF Verified
  <2>4. Submitted(n, c) = r
    BY <1>4, <2>3, CommandAssumption DEF Submitted, m, e
  <2> HIDE DEF r
  <2>5. Settled(n, r)
    BY <1>1, <1>4, <2>1, <2>2 DEF Settled
  <2> QED BY <2>4, <2>5
<1> QED BY <1>2, <1>3, <1>4

LEMMA HandledSettles ==
    ASSUME NEW n, Good(n), NEW request \in Request
    PROVE  Settled(n, Handled(n, request))
<1>1. CASE request \in [id : {None}, config : Configs]
  <2>1. Handled(n, request) = Configured(n, request.config)
    BY <1>1 DEF Handled
  <2>2. /\ Configured(n, request.config).control = n.control
        /\ Configured(n, request.config).commands = n.commands
        /\ Configured(n, request.config).executions = n.executions
    BY DEF Configured, Good, Node
  <2> QED BY <2>1, <2>2 DEF Settled
<1>2. CASE request \in [id : CommandIds, subtype : ControlSubtype]
  <2> DEFINE c == [id |-> request.id, subtype |-> request.subtype,
                   mode |-> n.control.mode, role |-> RoleForSubtype(request.subtype)]
  <2>1. request.id # None
    BY <1>2, CommandAssumption
  <2>2. n.control.mode \in ConfiguredMode
    BY DEF Good, Node, Control
  <2>3. RoleForSubtype(request.subtype) \in Role
    BY DEF RoleForSubtype, Role
  <2>4. c \in Command
    BY <1>2, <2>2, <2>3 DEF Command
  <2>5. Handled(n, request) = Submitted(n, c)
    BY <2>1 DEF Handled
  <2> HIDE DEF c
  <2> QED BY <2>4, <2>5, SubmittedSettles
<1> QED BY <1>1, <1>2 DEF Request

\* However long the inbox is, one sweep of it settles new commands only.
LEMMA ProcessedSettles ==
    ASSUME NEW n, Good(n), NEW q \in Seq(Request)
    PROVE  Settled(n, Processed(n, q))
<1>1. Len(q) \in Nat /\ \A i \in 1 .. Len(q) : q[i] \in Request
  BY LenProperties, ElementOfSeq
<1> DEFINE after == CHOOSE f : f = [i \in 0 .. Len(q) |-> After(n, q, f, i)]
           T == {k \in Nat : k <= Len(q) => Good(after[k]) /\ Settled(n, after[k])}
<1>2. after = [i \in 0 .. Len(q) |-> After(n, q, after, i)]
  BY <1>1, ProcessedExists
<1>3. Processed(n, q) = after[Len(q)]
  BY DEF Processed, After
<1> HIDE DEF after
<1>4. \A i \in 0 .. Len(q) : after[i] = After(n, q, after, i)
  BY <1>2
<1>5. 0 \in T
  <2>1. after[0] = n
    BY <1>1, <1>4 DEF After
  <2>2. Settled(n, n)
    BY DEF Settled
  <2> QED BY <2>1, <2>2
<1>6. ASSUME NEW k \in Nat, k \in T PROVE k + 1 \in T
  <2> SUFFICES ASSUME k + 1 <= Len(q)
               PROVE  Good(after[k + 1]) /\ Settled(n, after[k + 1])
    OBVIOUS
  <2>1. Good(after[k]) /\ Settled(n, after[k]) /\ q[k + 1] \in Request
    BY <1>1, <1>6
  <2>2. after[k + 1] = Handled(after[k], q[k + 1])
    BY <1>1, <1>4 DEF After
  <2> HIDE DEF T
  <2>3. Good(after[k + 1]) /\ Settled(after[k], after[k + 1])
    BY <2>1, <2>2, HandledGood, HandledSettles
  <2> QED BY <2>1, <2>3, SettledTransitive
<1> HIDE DEF T
<1>7. Nat \subseteq T
  BY <1>5, <1>6, NumberInduction
<1> QED BY <1>1, <1>3, <1>7 DEF T

LEMMA Fates ==
    /\ FateOf(None) = "new"
    /\ FateOf("REJECTED") = "refused"
    /\ FateOf("ACTUAL_STATE_VERIFIED") = "done"
<1>1. None # "REJECTED" /\ None # "ACTUAL_STATE_VERIFIED"
  BY CommandAssumption DEF CommandState
<1> QED BY <1>1 DEF FateOf

\* What settles commands at the node is a step of the ledger.
LEMMA SettledIsStep ==
    ASSUME Good(node), Good(node'), Settled(node, node')
    PROVE  Ledger!Next
<1> DEFINE done    == {id \in CommandIds : node.commands[id] = None
                                 /\ node'.commands[id] = "ACTUAL_STATE_VERIFIED"}
           refused == {id \in CommandIds : node.commands[id] = None
                                 /\ node'.commands[id] = "REJECTED"}
           fate(n) == [id \in CommandIds |-> FateOf(n.commands[id])]
<1>1. None # "REJECTED" /\ None # "ACTUAL_STATE_VERIFIED"
  BY CommandAssumption DEF CommandState
<1>2. done \cap refused = {}
  OBVIOUS
<1>3. \A id \in done \cup refused : fate(node)[id] = "new"
  BY Fates
<1>4. fate(node') = [id \in CommandIds |-> IF id \in done THEN "done"
                                          ELSE IF id \in refused THEN "refused"
                                          ELSE fate(node)[id]]
  <2>1. ASSUME NEW id \in CommandIds
        PROVE  FateOf(node'.commands[id]) =
                  IF id \in done THEN "done"
                  ELSE IF id \in refused THEN "refused"
                  ELSE FateOf(node.commands[id])
    BY <1>1, Fates DEF Settled
  <2> QED BY <2>1
<1>5. node'.executions = [id \in CommandIds |-> IF id \in done THEN node.executions[id] + 1
                                               ELSE node.executions[id]]
  <2>1. node'.executions \in [CommandIds -> Nat]
    BY DEF Good, Node
  <2>2. ASSUME NEW id \in CommandIds
        PROVE  node'.executions[id] = IF id \in done THEN node.executions[id] + 1
                                      ELSE node.executions[id]
    BY <1>1 DEF Settled
  <2> QED BY <2>1, <2>2
<1>6. done = {} => node'.control.override = node.control.override
  BY DEF Settled
<1>7. done \in SUBSET CommandIds /\ refused \in SUBSET CommandIds
  OBVIOUS
<1> HIDE DEF done, refused
<1>8. Ledger!Settle(done, refused)
  BY <1>2, <1>3, <1>4, <1>5, <1>6 DEF Ledger!Settle
<1> QED BY <1>7, <1>8 DEF Ledger!Next

LEMMA InitIsLedger == Init => Ledger!Init
<1> SUFFICES ASSUME Init PROVE Ledger!Init
  OBVIOUS
<1>1. Good(node)
  BY InitIInv DEF IInv
<1>2. /\ node.commands = [id \in CommandIds |-> None]
      /\ node.executions = [id \in CommandIds |-> 0]
      /\ node.latest = "NONE"
  BY DEF Init
<1>3. node.control.override = "NONE"
  BY <1>1, <1>2 DEF Good
<1> QED BY <1>2, <1>3, Fates DEF Ledger!Init

\* Every step of the command path is one of the ledger, or none of its concern.
LEMMA NextIsLedger ==
    ASSUME IInv, IInv', [Next]_vars
    PROVE  [Ledger!Next]_(Ledger!ledgerVars)
<1>1. Good(node) /\ Good(node')
  BY DEF IInv
<1>2. CASE Settled(node, node')
  BY <1>1, <1>2, SettledIsStep
<1>3. CASE Restart
  <2>1. node' = [node EXCEPT !.control = Restarted(node.control, node.config),
                             !.latest = "NONE"]
    BY <1>3 DEF Restart
  <2>2. /\ node'.commands = node.commands /\ node'.executions = node.executions
        /\ node'.latest = "NONE"
    BY <1>1, <2>1 DEF Good, Node
  <2>3. node'.control.override = "NONE"
    BY <1>1, <2>2 DEF Good
  <2> QED BY <2>2, <2>3 DEF Ledger!Next, Ledger!Forget
<1>4. ASSUME Cycle PROVE Settled(node, node')
  <2>1. PICK light \in Levels \cup {None}, scheduled \in BOOLEAN : Step(light, scheduled)
    BY <1>4 DEF Cycle
  <2>2. node'.commands = node.commands /\ node'.executions = node.executions
    BY <1>1, <2>1 DEF Step, Good, Node
  <2>3. node'.control.override = node.control.override
    <3>1. node'.control = Decided(node.control, node.config, light, scheduled)
      BY <2>1, StepFacts
    <3> QED BY <1>1, <3>1, NodeFacts, DecidedFacts
  <2> QED BY <2>2, <2>3 DEF Settled
<1>5. ASSUME ProcessIncoming PROVE Settled(node, node')
  BY <1>1, <1>5, ProcessedSettles DEF ProcessIncoming, IInv
<1>6. ASSUME NEW active \in BOOLEAN, NEW forced \in BOOLEAN, SetProtection(active, forced)
      PROVE  Settled(node, node')
  <2>1. /\ node'.commands = node.commands /\ node'.executions = node.executions
        /\ node'.control.override = node.control.override
    BY <1>1, <1>6 DEF SetProtection, WithProtection, Good, Node, Control
  <2> QED BY <2>1 DEF Settled
<1>7. ASSUME NEW id \in CommandIds, NEW subtype \in ControlSubtype, NEW role \in Role,
             NEW mode \in Parameters(subtype), Operate(id, subtype, mode, role)
      PROVE  Settled(node, node')
  <2> DEFINE c == [id |-> id, subtype |-> subtype, mode |-> mode, role |-> role]
  <2>1. c \in Command
    BY DEF Command, Parameters
  <2>2. node' = Submitted(node, c)
    BY <1>7 DEF Operate
  <2> HIDE DEF c
  <2> QED BY <1>1, <2>1, <2>2, SubmittedSettles
<1>8. node' = node => Settled(node, node')
  BY DEF Settled
<1>9. \/ Restart \/ Cycle \/ ProcessIncoming
      \/ \E active, forced \in BOOLEAN : SetProtection(active, forced)
      \/ \E id \in CommandIds, subtype \in ControlSubtype, role \in Role :
            \E mode \in Parameters(subtype) : Operate(id, subtype, mode, role)
      \/ node' = node
  BY DEF Next, vars, DistributeConfiguration, ForwardControl
<1> QED BY <1>2, <1>3, <1>4, <1>5, <1>6, <1>7, <1>8, <1>9

\* Commands are settled once and for good, at most one execution each, and only
\* a command carried out for the first time, or a restart, moves the override.
THEOREM NodeKeepsLedger == Spec => CommandSpec
<1>1. IInv /\ IInv' /\ [Next]_vars => [Ledger!Next]_(Ledger!ledgerVars)
  BY NextIsLedger
<1> QED BY <1>1, InitIsLedger, IInvHolds, PTL DEF Spec, CommandSpec, Ledger!Spec
=============================================================================
