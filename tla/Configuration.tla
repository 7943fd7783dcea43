----------------------------- MODULE Configuration -----------------------------
(***************************************************************************)
(* From the files to a running plant: lint_config checks every reference    *)
(* one file makes to another, Registries.build and FactoryBuilder then      *)
(* resolve them, and the engine looks names up as it runs.  The linter and  *)
(* the registries are separate code that must agree.                        *)
(*                                                                          *)
(* A file is a field of the record config.  A section keyed by identifiers  *)
(* is a function, None stands for an absent value.  What pydantic checks    *)
(* of one field on its own, and identifiers declared twice, are left out.   *)
(***************************************************************************)
EXTENDS Integers, Sequences, SequencesExt, FiniteSets, Functions, TLC, QcRules

CONSTANTS
  Base,         \* bound: a configuration the linter accepts
  Edits,        \* bound: for each file, the versions of it tried, Base's among them
  None,         \* an absent identifier
  Role,         \* the fields of StateRolesConfig, without initial
  Emitted,      \* EMITTED_EVENT_TYPES
  QcDriver,     \* QC_DRIVERS
  HazardDriver, \* HAZARD_DRIVERS
  RcaSignal,    \* RCA_SIGNALS
  ActionType,   \* SCENARIO_ACTIONS
  Placeholder   \* _TOPIC_PLACEHOLDERS

VARIABLES
  config,    \* FactoryConfig
  phase,     \* "lint", "refused", "lint raised", "build", "plant", "running" or "raised"
  built,     \* how many of the groups are built
  held,      \* Unit.machines, the units' lists one after the other
  machines,  \* Plant.machines, by identifier
  cache      \* EquipmentRegistry._group_cache

building    == <<built, held, machines, cache>>
configuring == <<config, phase, building>>

ConfigInit ==
  /\ \E f, g \in DOMAIN Edits : \E v \in Edits[f], w \in Edits[g] :
       config = [Base EXCEPT ![f] = v, ![g] = w]
  /\ phase = "lint"
  /\ built = 0 /\ held = << >> /\ machines = << >> /\ cache = << >>

-----------------------------------------------------------------------------
(* Sensor bindings: the tags of an equipment class, or of one machine group *)
(* of it.  A binding removes a tag, overrides fields of an inherited one,   *)
(* adjusts fields with no baseline of its own, or defines a new one.        *)
Unresolved == [ok |-> FALSE, tags |-> {}]

ApplyBinding(resolved, binding) ==
  CASE binding.mode = "remove" /\ binding.tag \in resolved.tags ->
         [resolved EXCEPT !.tags = @ \ {binding.tag}]
    [] binding.mode # "remove" /\ binding.tag \in resolved.tags -> resolved
    [] binding.mode = "define" /\ binding.tag \notin resolved.tags ->
         [resolved EXCEPT !.tags = @ \cup {binding.tag}]
    [] OTHER -> Unresolved

(* resolve_sensor_specs: the profile, the class's bindings, the group's.    *)
(* An exception is Unresolved, and nothing is applied after it.             *)
Resolve(c, class, extra) ==
  LET spec == c.classes[class]
      base == CASE spec.profile = None -> [ok |-> TRUE, tags |-> {}]
                [] spec.profile \in DOMAIN c.profiles ->
                     [ok |-> TRUE, tags |-> c.profiles[spec.profile]]
                [] OTHER -> Unresolved
  IN  FoldLeft(LAMBDA r, b : IF r.ok THEN ApplyBinding(r, b) ELSE r, base, spec.bindings \o extra)

ClassTags(c, class) == Resolve(c, class, << >>).tags
AllTags(c)          == UNION {ClassTags(c, class) : class \in DOMAIN c.classes}

Stages(c)      == {c.units[u].stage : u \in DOMAIN c.units}
RouteOf(p)     == ToSet(p.route)
Parameters(c)  == UNION {UNION Range(c.products[p].measured) : p \in DOMAIN c.products}
ReadsOf(c)       == [q \in DOMAIN c.qc |-> c.qc[q].reads \cap DOMAIN c.qc]

-----------------------------------------------------------------------------
(* The linter, a definition for each file.  First the roles it takes the    *)
(* engine not to do without.                                                *)
RequiredRoles(s) == \A r \in {"productive", "downtime", "fault"} : s.roles[r] # {}

(* _lint_states.                                                            *)
StatesSound(s) ==
  /\ DOMAIN s.moves \subseteq s.ids
  /\ UNION Range(s.moves) \subseteq s.ids
  /\ s.initial \in s.ids
  /\ UNION Range(s.roles) \subseteq s.ids
  /\ RequiredRoles(s)
  /\ s.ids \subseteq {s.initial} \cup UNION Range(s.moves)

(* _lint_event_types and _lint_units.                                       *)
EventTypesSound(c) == Range(c.eventTypes) \subseteq c.severities
UnitsSound(c) ==
  \A u, v \in DOMAIN c.units : c.units[u].sequence = c.units[v].sequence => u = v

(* The equipment classes of _lint_machines.                                 *)
ClassesSound(c) ==
  \A class \in DOMAIN c.classes :
    /\ Resolve(c, class, << >>).ok
    /\ ClassTags(c, class) # {}
    /\ c.classes[class].modes \subseteq DOMAIN c.modes
    /\ c.factors \subseteq c.states.ids \cup Role

(* Mutant: a prefix may be used again.                                      *)
AnyPrefixes(groups) == TRUE
DistinctPrefixes(groups) ==
  \A i, j \in DOMAIN groups : groups[i].prefix = groups[j].prefix => i = j

(* The layout of _lint_machines.  A prefix is compared within its unit.     *)
LayoutSound(c) ==
  /\ DOMAIN c.layout = DOMAIN c.units
  /\ \A u \in DOMAIN c.layout :
       /\ DistinctPrefixes(c.layout[u])
       /\ \A i \in DOMAIN c.layout[u] :
            LET g == c.layout[u][i] IN
            g.class \in DOMAIN c.classes /\ Resolve(c, g.class, g.bindings).ok

(* Limits and a target, any of the limits absent.  Numbers are natural, -1  *)
(* is an absent limit.                                                      *)
Absent == -1
Encloses(w) ==
  /\ w.low # Absent /\ w.high # Absent => w.low < w.high
  /\ w.low # Absent => w.target >= w.low
  /\ w.high # Absent => w.target <= w.high

(* The linter's effective window of an override, which QcRegistry.effective *)
(* computes again.                                                          *)
Override(base, w) ==
  [low    |-> IF w.low    # Absent THEN w.low    ELSE base.low,
   target |-> IF w.target # Absent THEN w.target ELSE base.target,
   high   |-> IF w.high   # Absent THEN w.high   ELSE base.high]

(* qc_by_id[qc_id] in _lint_products, for a test the product lists and      *)
(* qc_rules.yaml does not declare.                                          *)
LintRaises(c) ==
  \E p \in DOMAIN c.products : \E q \in DOMAIN c.products[p].overrides :
    q \in c.products[p].tests /\ q \notin DOMAIN c.qc

OverridesSound(c, p) ==
  \A q \in DOMAIN p.overrides : q \in p.tests /\ Encloses(Override(c.qc[q], p.overrides[q]))

(* _lint_products.                                                          *)
ProductsSound(c) ==
  \A id \in DOMAIN c.products :
    LET p == c.products[id] IN
    /\ RouteOf(p) \subseteq Stages(c)
    /\ DOMAIN p.measured \subseteq RouteOf(p)
    /\ UNION Range(p.measured) \subseteq AllTags(c)
    /\ p.tests # {}
    /\ \A q \in p.tests : q \in DOMAIN c.qc /\ c.qc[q].stage \in RouteOf(p)
    /\ OverridesSound(c, p)

(* _lint_qc_rules.  The names a transfer reads are those of other QC        *)
(* parameters, its reads, and the rest, its measured.                       *)
QcRulesSound(c) ==
  /\ \A id \in DOMAIN c.qc :
       LET q == c.qc[id] IN
       /\ q.stage \in Stages(c)
       /\ q.reads \subseteq DOMAIN c.qc
       /\ q.measured \subseteq Parameters(c) \cup QcDriver
       /\ Encloses(q)
       /\ {q.low, q.high} # {Absent}
       /\ q.reads # {} \/ q.measured # {}
  /\ DependencyCycles(ReadsOf(c)) = {}

(* _applicable_classes.                                                     *)
LintApplies(c, m, class) ==
  /\ m.classes # {} => class \in m.classes
  /\ m.profiles # {} => c.classes[class].profile \in m.profiles
ApplicableClasses(c, m) == {class \in DOMAIN c.classes : LintApplies(c, m, class)}

(* Mutant: one class that shows a precursor is enough.                      *)
ShowsSomewhere(c, m) ==
  \E class \in ApplicableClasses(c, m) : m.precursors \cap ClassTags(c, class) # {}
ShowsEverywhere(c, m) ==
  \A class \in ApplicableClasses(c, m) : m.precursors \cap ClassTags(c, class) # {}

(* _lint_failures.                                                          *)
FailuresSound(c) ==
  /\ \A id \in DOMAIN c.modes :
       LET m == c.modes[id] IN
       /\ m.severity \in c.severities
       /\ m.classes \subseteq DOMAIN c.classes
       /\ m.profiles \subseteq DOMAIN c.profiles
       /\ ApplicableClasses(c, m) # {}
       /\ m.detectable => m.precursors # {} /\ ShowsEverywhere(c, m)
       /\ m.precursors \subseteq UNION {ClassTags(c, k) : k \in ApplicableClasses(c, m)}
  /\ c.hazardInputs \subseteq HazardDriver

CausesCovered(c) ==
  {c.modes[m].cause : m \in DOMAIN c.modes} \subseteq {r.cause : r \in c.rca}

(* _lint_rca_rules.                                                         *)
RcaRulesSound(c) ==
  /\ \A e \in Range(c.evidence) :
       /\ e.tag # None \/ e.signal # None
       /\ e.tag # None => e.tag \in AllTags(c)
       /\ e.signal # None => e.signal \in RcaSignal
  /\ \A r \in c.rca : r.evidence # {} /\ r.evidence \subseteq DOMAIN c.evidence
  /\ CausesCovered(c)

(* _lint_deviations_and_scenarios.                                          *)
ScriptsSound(c) ==
  /\ \A r \in c.deviations : r.event \in DOMAIN c.eventTypes /\ r.severity \in c.severities
  /\ \A a \in c.actions :
       /\ a.type \in ActionType
       /\ a.mode # None => a.mode \in DOMAIN c.modes
       /\ a.class # None => a.class \in DOMAIN c.classes
       /\ a.unit # None => a.unit \in DOMAIN c.units
       /\ a.type = "force_state" => a.state \in c.states.ids

(* _lint_sinks.                                                             *)
SinksSound(c) == c.topicFields \subseteq Placeholder

(* lint_config returns no issue.                                            *)
Accepted(c) ==
  /\ StatesSound(c.states) /\ EventTypesSound(c) /\ UnitsSound(c)
  /\ ClassesSound(c) /\ LayoutSound(c)
  /\ ProductsSound(c) /\ QcRulesSound(c)
  /\ FailuresSound(c) /\ RcaRulesSound(c)
  /\ ScriptsSound(c) /\ SinksSound(c)

-----------------------------------------------------------------------------
Lint ==
  /\ phase = "lint"
  /\ phase' = CASE LintRaises(config) -> "lint raised"
                [] ~LintRaises(config) /\ Accepted(config) -> "build"
                [] OTHER -> "refused"
  /\ UNCHANGED <<config, building>>

(* Registries.build and verify_emitters.                                    *)
BuildRegistries ==
  /\ phase = "build"
  /\ phase' = IF /\ \A class \in DOMAIN config.classes : Resolve(config, class, << >>).ok
                 /\ Len(EvaluationOrder(ReadsOf(config))) = Cardinality(DOMAIN config.qc)
                 /\ Emitted \subseteq DOMAIN config.eventTypes
              THEN "plant" ELSE "raised"
  /\ UNCHANGED <<config, building>>

(* The groups in the order FactoryBuilder takes them.                       *)
UnitOrder(c) ==
  SetToSortSeq(DOMAIN c.units, LAMBDA u, v : c.units[u].sequence < c.units[v].sequence)
Groups(c) ==
  FlattenSeq([i \in DOMAIN UnitOrder(c) |->
    LET u == UnitOrder(c)[i] IN [j \in DOMAIN c.layout[u] |-> <<u, j>>]])

(* sensors_for_group: remembered by unit and prefix.                        *)
GroupSensors(u, g) ==
  IF <<u, g.prefix>> \in DOMAIN cache THEN cache[<<u, g.prefix>>]
  ELSE Resolve(config, g.class, g.bindings).tags

(* The machines of a group.  An identifier is the prefix and an index: the  *)
(* unit is no part of it.                                                   *)
Made(u, g, tags) ==
  [n \in 1..g.count |-> [id |-> <<g.prefix, n>>, unit |-> u, group |-> g, tags |-> tags]]

(* One turn of _build_machines: the unit's list grows by the machines, and  *)
(* the plant's index has each under its identifier, whoever had it before.  *)
BuildGroup ==
  /\ phase = "plant" /\ built < Len(Groups(config))
  /\ LET u == Groups(config)[built + 1][1]
         g == config.layout[u][Groups(config)[built + 1][2]]
         tags == GroupSensors(u, g)
         made == Made(u, g, tags)
     IN  IF g.class \in DOMAIN config.classes /\ Resolve(config, g.class, g.bindings).ok
         THEN /\ built' = built + 1
              /\ held' = held \o made
              /\ machines' = [n \in {m.id : m \in ToSet(made)} |-> made[n[2]]] @@ machines
              /\ cache' = (<<u, g.prefix>> :> tags) @@ cache
              /\ UNCHANGED phase
         ELSE phase' = "raised" /\ UNCHANGED building
  /\ UNCHANGED config

Run ==
  /\ phase = "plant" /\ built = Len(Groups(config))
  /\ phase' = "running"
  /\ UNCHANGED <<config, building>>

ConfigNext == Lint \/ BuildRegistries \/ BuildGroup \/ Run

ConfigSpec == ConfigInit /\ [][ConfigNext]_configuring

-----------------------------------------------------------------------------
(* FailureRegistry: the classes a mode can affect, the class's own list of  *)
(* modes included, which the linter does not look at.                       *)
RegistryApplies(c, id, class) ==
  /\ c.classes[class].modes # {} => id \in c.classes[class].modes
  /\ LintApplies(c, c.modes[id], class)

(* QcRegistry.effective.                                                    *)
Effective(c, p, q) ==
  IF q \in DOMAIN p.overrides THEN Override(c.qc[q], p.overrides[q]) ELSE c.qc[q]

(* The first state of a role, as StateRegistry.first finds it.              *)
FirstExists(c, role) == c.states.roles[role] \cap c.states.ids # {}

OwnSensors(m) == m.tags = Resolve(config, m.group.class, m.group.bindings).tags

(* A configuration the linter accepts builds: no sensor binding, evaluation *)
(* order or equipment class fails after it, only an event type the engine   *)
(* publishes and the file omits.  Every machine of every group is on the    *)
(* list of its unit, with the sensors its own group resolves to, although   *)
(* they are cached by unit and prefix.  In the plant's index it is found    *)
(* under its identifier, or a machine of another unit is: within a unit no  *)
(* two are given one identifier ("machine ids would collide", linter.py:238,*)
(* plant.py:225), between units the linter does not look.                   *)
AcceptedConfigurationsBuild ==
  /\ phase = "raised" => ~(Emitted \subseteq DOMAIN config.eventTypes)
  /\ \A k \in DOMAIN held :
       /\ OwnSensors(held[k])
       /\ held[k].id \in DOMAIN machines
       /\ machines[held[k].id] = held[k] \/ machines[held[k].id].unit # held[k].unit
  /\ phase = "running" =>
       \A u \in DOMAIN config.layout : \A i \in DOMAIN config.layout[u] :
         LET g == config.layout[u][i] IN
         \A n \in 1..g.count : \E k \in DOMAIN held :
           held[k].id = <<g.prefix, n>> /\ held[k].unit = u /\ held[k].group = g

(* What a running engine looks up by name is there: the states of the roles *)
(* the linter requires; a unit for every stage of a route; every test a     *)
(* product lists, in the evaluation order, with limits around its target;   *)
(* for a failure mode, on every class the failure registry applies it to, a *)
(* precursor that class shows if it is detectable, and a rule with declared *)
(* evidence for its cause; the event of a deviation rule; and what a        *)
(* scenario names.                                                          *)
NothingDangles ==
  phase = "running" =>
    /\ \A role \in {"productive", "downtime", "fault"} : FirstExists(config, role)
    /\ \A p \in Range(config.products) :
         /\ \A s \in RouteOf(p) : \E u \in DOMAIN config.layout : config.units[u].stage = s
         /\ \A q \in p.tests :
              /\ q \in ToSet(EvaluationOrder(ReadsOf(config)))
              /\ config.qc[q].stage \in RouteOf(p)
              /\ Encloses(Effective(config, p, q))
    /\ \A id \in DOMAIN config.modes :
         LET m == config.modes[id] IN
         /\ \A class \in DOMAIN config.classes :
              m.detectable /\ RegistryApplies(config, id, class)
                => m.precursors \cap ClassTags(config, class) # {}
         /\ \E r \in config.rca :
              r.cause = m.cause /\ r.evidence # {} /\ r.evidence \subseteq DOMAIN config.evidence
    /\ \A r \in config.deviations : r.event \in DOMAIN config.eventTypes
    /\ \A a \in config.actions :
         /\ a.mode \in DOMAIN config.modes \cup {None}
         /\ a.class \in DOMAIN config.classes \cup {None}
=============================================================================
