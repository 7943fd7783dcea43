----------------------------- MODULE RepairCycle -----------------------------
(***************************************************************************)
(* What failures and maintenance promise together, without jobs, timers,    *)
(* batches or shifts: a degradation episode develops on one machine, faults *)
(* at most once, and is closed once, as averted before the fault or as      *)
(* repaired after it; and a machine with an unrepaired fault produces       *)
(* nothing, however production is started and stopped around it.            *)
(***************************************************************************)
CONSTANTS Machine, Episode, None

VARIABLES
  on,         \* the machine an episode develops on, None before it begins
  outcome,    \* "unborn", "developing", "faulted", "averted" or "repaired"
  producing   \* the machines now making product

cycle == <<on, outcome, producing>>

Broken == {on[e] : e \in {x \in Episode : outcome[x] = "faulted"}}

Init ==
  /\ on = [e \in Episode |-> None]
  /\ outcome = [e \in Episode |-> "unborn"]
  /\ producing \in SUBSET Machine

(* Production is started and stopped at will, but not on a broken machine.  *)
Dispatch == producing' \in SUBSET (Machine \ Broken)

Operate == Dispatch /\ UNCHANGED <<on, outcome>>

Begin(e, m) ==
  /\ outcome[e] = "unborn"
  /\ on' = [on EXCEPT ![e] = m]
  /\ outcome' = [outcome EXCEPT ![e] = "developing"]
  /\ Dispatch

Fail(e) ==
  /\ outcome[e] = "developing"
  /\ outcome' = [outcome EXCEPT ![e] = "faulted"]
  /\ producing' = producing \ {on[e]}
  /\ UNCHANGED on

(* A completed job closes every episode of its machine, and starts nothing. *)
Repair(m) ==
  /\ outcome' = [e \in Episode |->
                   IF on[e] = m /\ outcome[e] = "developing" THEN "averted"
                   ELSE IF on[e] = m /\ outcome[e] = "faulted" THEN "repaired"
                   ELSE outcome[e]]
  /\ producing' \in {producing, producing \ {m}}
  /\ UNCHANGED on

Next ==
  \/ Operate
  \/ \E e \in Episode, m \in Machine : Begin(e, m)
  \/ \E e \in Episode : Fail(e)
  \/ \E m \in Machine : Repair(m)

Spec == Init /\ [][Next]_cycle
=============================================================================
