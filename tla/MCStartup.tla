------------------------------- MODULE MCStartup -------------------------------
(***************************************************************************)
(* What a run rests on before anything moves, in one state space: the       *)
(* configuration, linted and built; the state table, searched for routes;   *)
(* and the QC rules, ordered and evaluated.  The three share no state, and  *)
(* a behaviour is one of the three.                                         *)
(*                                                                          *)
(* Configuration is checked on a small plant that is sound, and on every    *)
(* other that differs from it in at most two files.                         *)
(***************************************************************************)
EXTENDS Configuration, StateRouting, QualityControl, TLC

CONSTANTS blend, press

MCRoutes == <<<<press>>, <<press, blend, press>>>>

(* A unit with a press and a deduster, a product, two tests one of which    *)
(* reads the other, a failure mode and what diagnoses it.                   *)
MCRole == {"productive", "downtime", "fault", "idle"}

Sound ==
  [states   |-> [ids |-> {"idle", "run", "down"}, initial |-> "idle",
                 moves |-> [idle |-> {"run"}, run |-> {"idle", "down"}, down |-> {"idle"}],
                 roles |-> [productive |-> {"run"}, downtime |-> {"down"},
                            fault |-> {"down"}, idle |-> {"idle"}]],
   eventTypes |-> [failure |-> "MAJOR", tick |-> "INFO"],
   severities |-> {"INFO", "MAJOR"},
   units    |-> [U1 |-> [sequence |-> 1, stage |-> "press"]],
   profiles |-> [rotary |-> {"force", "vibration"}],
   factors  |-> {"run", "fault"},
   classes  |-> [press |-> [profile |-> "rotary", bindings |-> << >>, modes |-> {}],
                 deduster |-> [profile |-> None,
                               bindings |-> <<[tag |-> "vibration", mode |-> "define"]>>,
                               modes |-> {"bearing"}]],
   layout   |-> [U1 |-> <<[class |-> "press", prefix |-> "P", count |-> 1, bindings |-> << >>],
                          [class |-> "deduster", prefix |-> "D", count |-> 2, bindings |-> << >>]>>],
   products |-> [tablet |-> [route |-> <<"press">>, measured |-> [press |-> {"force"}],
                             tests |-> {1, 2}, overrides |-> << >>]],
   qc       |-> <<[stage |-> "press", reads |-> {}, measured |-> {"force"},
                   low |-> 1, target |-> 2, high |-> 3],
                  [stage |-> "press", reads |-> {1}, measured |-> {},
                   low |-> Absent, target |-> 2, high |-> 3]>>,
   modes    |-> [bearing |-> [classes |-> {}, profiles |-> {}, precursors |-> {"vibration"},
                              detectable |-> TRUE, severity |-> "MAJOR", cause |-> "wear"]],
   hazardInputs |-> {"age_years"},
   evidence |-> [shaking |-> [tag |-> "vibration", signal |-> None]],
   rca      |-> {[cause |-> "wear", evidence |-> {"shaking"}]},
   deviations |-> {[event |-> "failure", severity |-> "MAJOR"]},
   actions  |-> {[type |-> "inject_failure", mode |-> "bearing", class |-> "press",
                  unit |-> None, state |-> None]},
   topicFields |-> {"machine_id"}]

Press == Sound.layout.U1[1]
Deduster == Sound.layout.U1[2]
Tablet == Sound.products.tablet
Bearing == Sound.modes.bearing
FailPress == CHOOSE a \in Sound.actions : TRUE

(* Edits of each file.                                                      *)
StatesEdits ==
  {[Sound.states EXCEPT !.roles.fault = {}], [Sound.states EXCEPT !.roles.downtime = {"gone"}],
   [Sound.states EXCEPT !.moves.run = {"idle"}], [Sound.states EXCEPT !.ids = @ \ {"down"}],
   [Sound.states EXCEPT !.initial = "gone"]}
EventTypesEdits == {[failure |-> "MAJOR"], [tick |-> "INFO"], [failure |-> "GRAVE", tick |-> "INFO"]}
UnitsEdits ==
  {[U1 |-> [sequence |-> 1, stage |-> "press"], U2 |-> [sequence |-> 2, stage |-> "pack"]],
   [U1 |-> [sequence |-> 1, stage |-> "press"], U2 |-> [sequence |-> 1, stage |-> "pack"]],
   [U1 |-> [sequence |-> 1, stage |-> "pack"]]}
ProfilesEdits == {[rotary |-> {"force"}], [rotary |-> {"vibration"}], [other |-> {"force"}]}
FactorsEdits == {{"nowhere"}}
ClassesEdits ==
  {[Sound.classes EXCEPT !.press.bindings = <<[tag |-> t, mode |-> m]>>] :
     t \in {"force", "vibration", "speed"}, m \in {"remove", "override", "define"}}
  \cup {[Sound.classes EXCEPT !.press.modes = {"gone"}],
        [Sound.classes EXCEPT !.press.profile = None],
        [Sound.classes EXCEPT !.deduster.bindings = <<[tag |-> "speed", mode |-> "define"]>>]}
LayoutEdits ==
  {[U1 |-> <<[Press EXCEPT !.bindings = <<[tag |-> t, mode |-> m]>>], Deduster>>] :
     t \in {"force", "speed"}, m \in {"remove", "adjust", "define"}}
  \cup {[U1 |-> <<Press, [Deduster EXCEPT !.prefix = "P"]>>],
        [U1 |-> <<Press, [Press EXCEPT !.bindings = <<[tag |-> "speed", mode |-> "define"]>>]>>],
        [U1 |-> <<Press>>, U2 |-> <<Deduster>>],
        [U1 |-> <<Press>>, U2 |-> <<[Deduster EXCEPT !.prefix = "P"]>>],
        [U1 |-> <<Press, [Deduster EXCEPT !.class = "gone"]>>],
        [U2 |-> <<Press>>]}
Window(l, t, h) == [low |-> l, target |-> t, high |-> h]
ProductsEdits ==
  {[tablet |-> [Tablet EXCEPT !.overrides = q :> w]] :
     q \in {1, 2, 3}, w \in {Window(Absent, Absent, 2), Window(3, Absent, Absent),
                             Window(4, 5, Absent), Window(1, 2, 3)}}
  \cup {[tablet |-> [Tablet EXCEPT !.tests = {1, 3}, !.overrides = 3 :> Window(1, 2, 3)]],
        [tablet |-> [Tablet EXCEPT !.tests = {}]], [tablet |-> [Tablet EXCEPT !.tests = {2}]],
        [tablet |-> [Tablet EXCEPT !.route = <<"pack">>]],
        [tablet |-> [Tablet EXCEPT !.measured = [press |-> {"speed"}]]],
        [tablet |-> [Tablet EXCEPT !.measured = [pack |-> {"force"}]]]}
QcEdits ==
  {[Sound.qc EXCEPT ![1].reads = r] : r \in {{1}, {2}, {3}}}
  \cup {[Sound.qc EXCEPT ![2].high = 1], [Sound.qc EXCEPT ![2].high = Absent],
        [Sound.qc EXCEPT ![2].reads = {}], [Sound.qc EXCEPT ![1].stage = "pack"],
        [Sound.qc EXCEPT ![1].measured = {"ph"}], <<Sound.qc[1]>>}
ModesEdits ==
  {[bearing |-> [Bearing EXCEPT !.classes = {k}, !.precursors = t]] :
     k \in {"press", "deduster", "gone"}, t \in {{}, {"force"}, {"vibration"}, {"speed"}}}
  \cup {[bearing |-> [Bearing EXCEPT !.precursors = {"force"}]],
        [bearing |-> [Bearing EXCEPT !.profiles = {"other"}]],
        [bearing |-> [Bearing EXCEPT !.severity = "GRAVE"]],
        [bearing |-> [Bearing EXCEPT !.cause = "age"]], [seal |-> Bearing]}
EvidenceEdits ==
  {[shaking |-> [tag |-> "speed", signal |-> None]], [shaking |-> [tag |-> None, signal |-> None]],
   [shaking |-> [tag |-> None, signal |-> "hunch"]], [other |-> Sound.evidence.shaking]}
RcaEdits ==
  {{}, {[cause |-> "age", evidence |-> {"shaking"}]}, {[cause |-> "wear", evidence |-> {}]}}
DeviationsEdits == {{[event |-> "gone", severity |-> "MAJOR"]}, {[event |-> "failure", severity |-> "GRAVE"]}}
ActionsEdits ==
  {{[FailPress EXCEPT !.type = "explode"]}, {[FailPress EXCEPT !.mode = "gone"]},
   {[FailPress EXCEPT !.class = "gone"]}, {[FailPress EXCEPT !.unit = "U2"]},
   {[FailPress EXCEPT !.type = "force_state"]}}

Versions ==
  [states |-> StatesEdits, eventTypes |-> EventTypesEdits, severities |-> {{"INFO"}},
   units |-> UnitsEdits, profiles |-> ProfilesEdits, factors |-> FactorsEdits,
   classes |-> ClassesEdits, layout |-> LayoutEdits, products |-> ProductsEdits, qc |-> QcEdits,
   modes |-> ModesEdits, hazardInputs |-> {{"mood"}}, evidence |-> EvidenceEdits,
   rca |-> RcaEdits, deviations |-> DeviationsEdits, actions |-> ActionsEdits,
   topicFields |-> {{"colour"}}]
MCEdits == [file \in DOMAIN Versions |-> Versions[file] \cup {Sound[file]}]

(* The two that do not take part in a behaviour.                            *)
NoRouting ==
  /\ table = << >> /\ source = 1 /\ target = 1 /\ pc = "done"
  /\ queue = << >> /\ seen = {} /\ route = << >> /\ position = 1
NoConfiguration ==
  /\ config = << >> /\ phase = "off"
  /\ built = 0 /\ held = << >> /\ machines = << >> /\ cache = << >>
NoBatch ==
  /\ inputs = [p \in Param |-> {}] /\ stageOf = << >> /\ final = {} /\ tests = {} /\ process = << >>
  /\ qcPhase = "off" /\ order = << >> /\ completed = 0 /\ parameters = << >> /\ results = << >>

StartupInit ==
  \/ ConfigInit /\ NoRouting /\ NoBatch
  \/ RoutingInit /\ NoConfiguration /\ NoBatch
  \/ QcInit /\ NoConfiguration /\ NoRouting

StartupNext ==
  \/ ConfigNext  /\ UNCHANGED <<routing, qc>>
  \/ RoutingNext /\ UNCHANGED <<configuring, qc>>
  \/ QcNext      /\ UNCHANGED <<configuring, routing>>

StartupSpec == StartupInit /\ [][StartupNext]_<<configuring, routing, qc>>
=============================================================================
