---------------------------- MODULE MachineStates ----------------------------
(***************************************************************************)
(* The state registry: which machine states a plant declares, which moves   *)
(* between them are legal, and what each state means (its roles).  The      *)
(* program reads all of it from states.yaml and names no state in Python,   *)
(* so the states, the table and the roles are parameters here too.          *)
(*                                                                          *)
(* A machine never sits in an intermediate state of a route: the routing    *)
(* happens inside one callback.  Only where a route ends is visible to the  *)
(* other components, and that is what ForceRoute gives; the search that     *)
(* finds the route is modelled in StateRouting.                             *)
(***************************************************************************)
CONSTANTS
  State,        \* the declared state ids
  Transitions,  \* state -> the states it may move to directly
  Role,         \* role name -> the states that have the role
  First,        \* role name -> the canonical (first declared) state, or NoState
  Initial,      \* the state every machine is built in
  NoState       \* "this plant has no state with that role"

RoleName == {"productive", "downtime", "idle", "warning", "fault",
             "maintenance", "cleaning", "offline", "starting", "planned_stop"}

(* What the configuration models and the linter leave true of any plant     *)
(* they accept, plus the two roles the engine reads without a fallback      *)
(* (registry.first("idle") and first("maintenance") raise when empty).      *)
ASSUME StateModel ==
  /\ NoState \notin State
  /\ Initial \in State
  /\ Transitions \in [State -> SUBSET State]
  /\ Role \in [RoleName -> SUBSET State]
  /\ First \in [RoleName -> State \cup {NoState}]
  /\ \A r \in RoleName : IF Role[r] = {} THEN First[r] = NoState
                                         ELSE First[r] \in Role[r]
  /\ \A r \in {"productive", "downtime", "idle", "fault", "maintenance"} :
        Role[r] # {}

(* What any usable table has, and both shipped ones do; nothing checks it,   *)
(* and the safety of the floor rests on it: a producing machine can fault,  *)
(* no state a machine is stopped or parked in counts as producing, and only *)
(* a producing machine shows a warning.                                     *)
ASSUME Stoppable ==
  /\ \A s \in Role["productive"] : First["fault"] \in Transitions[s]
  /\ \A r \in {"fault", "maintenance", "idle", "cleaning", "offline"} :
        First[r] \notin Role["productive"]
  /\ \A s \in State \ Role["productive"] : First["warning"] \notin Transitions[s]

IsProductive(s)  == s \in Role["productive"]
IsDowntime(s)    == s \in Role["downtime"]
IsOffline(s)     == s \in Role["offline"]
IsPlannedStop(s) == s \in Role["planned_stop"]
IsStarting(s)    == s \in Role["starting"]
Has(r)           == First[r] # NoState

CanTransition(s, t) == t \in Transitions[s]

(* Machine.transition_to(..., strict=False): an illegal move is refused and *)
(* the machine stays where it is; so does a move to where it already is.    *)
TransitionTo(s, t) == IF CanTransition(s, t) THEN t ELSE s

(* The states a machine in s can be walked to: those that belong to every   *)
(* set of states that contains s and is closed under the transition table.  *)
Closed(S)  == \A s \in S : Transitions[s] \subseteq S
Reachable  == [s \in State |->
                 {t \in State : \A S \in SUBSET State :
                                   s \in S /\ Closed(S) => t \in S}]

CanRoute(s, t) == t \in Reachable[s]

(* Machine.force_route_to: walk the table to t when a route exists,         *)
(* otherwise do nothing (the caller sees False).                            *)
ForceRoute(s, t) == IF CanRoute(s, t) THEN t ELSE s

(* Again not checked by the program and true of both shipped models; that    *)
(* nothing is left standing after a repair, and that utilities stay powered, *)
(* rests on it.  A machine that is down can be walked to idle; failing and   *)
(* maintenance count as downtime, and no other state a machine is built in   *)
(* or moved to by a callback does; only parking takes a machine offline; a   *)
(* machine that shows a warning still produces.                             *)
ASSUME Recoverable ==
  /\ \A s \in Role["downtime"] : CanRoute(s, First["idle"])
  /\ {First["fault"], First["maintenance"]} \subseteq Role["downtime"]
  /\ Initial \notin Role["downtime"]
  /\ \A r \in {"productive", "warning", "idle", "cleaning", "offline"} :
        First[r] \notin Role["downtime"]
  /\ \A r \in {"productive", "warning", "fault", "maintenance", "idle"} :
        First[r] \notin Role["offline"]
  /\ Has("warning") => IsProductive(First["warning"])
=============================================================================
