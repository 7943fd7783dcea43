----------------------------- MODULE QualityChain -----------------------------
(***************************************************************************)
(* Events -> deviation -> investigation -> CAPA -> verification: the        *)
(* simulator's subscription to the event bus, DeviationManager, RcaEngine   *)
(* and CapaManager, with as much of a batch as they look at: the machine it *)
(* is on, the machines it has used, and its QC results.                     *)
(*                                                                          *)
(* A handler runs inside publish, so opening a deviation is part of the     *)
(* action that publishes the event.  The investigation is a callback some   *)
(* hours later; batches move on, finish and fail in between.                *)
(*                                                                          *)
(* Not represented: evidence, causes and confidence (an investigation ends  *)
(* the same way whatever it concludes), severities, and rows.               *)
(***************************************************************************)
EXTENDS Naturals, FiniteSets

CONSTANTS
  Machine,
  MaxBatches,      \* bound: batches in a behaviour
  MaxDeviations,   \* bound: deviations in a behaviour
  Required,        \* rca_rules.yaml verification_batches
  None             \* no machine, no batch

Batch     == 1..MaxBatches
Deviation == 1..MaxDeviations

ASSUME QualityParameters ==
  /\ {MaxBatches, MaxDeviations} \subseteq Nat
  /\ Required \in Nat \ {0}
  /\ None \notin Machine \cup Nat

VARIABLES
  devStatus,     \* Deviation.status
  devRule,       \* what the rule of the event requires: "capa", "rca" or "nothing"
  devMachine,    \* Deviation.machine_id
  devBatch,      \* Deviation.batch_id
  analysis,      \* the deviations whose investigation is scheduled
  capaStatus,    \* Capa.status of the CAPA the investigation opened
  passed,        \* Capa.verification_batches_passed
  verifiedBy,    \* Capa.verified_batch_ids
  openByMachine, \* CapaManager._open_by_machine
  batchStatus,   \* not ordered, in process, or its disposition
  onMachine,     \* the machine whose stage the batch is in
  machinesUsed,  \* Batch.machines_used
  failedQc,      \* whether Batch.qc_results holds a failure
  deviationIds   \* Batch.deviation_ids

devVars   == <<devStatus, devRule, devMachine, devBatch, analysis>>
capaVars  == <<capaStatus, passed, verifiedBy, openByMachine>>
batchVars == <<batchStatus, onMachine, machinesUsed, failedQc>>
quality   == <<devVars, capaVars, batchVars, deviationIds>>

Rule == {"capa", "rca", "nothing"}

Init ==
  /\ devStatus = [d \in Deviation |-> "unborn"]
  /\ devRule = [d \in Deviation |-> "nothing"]
  /\ devMachine = [d \in Deviation |-> None]
  /\ devBatch = [d \in Deviation |-> None]
  /\ analysis = {}
  /\ capaStatus = [d \in Deviation |-> "none"]
  /\ passed = [d \in Deviation |-> 0]
  /\ verifiedBy = [d \in Deviation |-> {}]
  /\ openByMachine = [m \in Machine |-> {}]
  /\ batchStatus = [b \in Batch |-> "unborn"]
  /\ onMachine = [b \in Batch |-> None]
  /\ machinesUsed = [b \in Batch |-> {}]
  /\ failedQc = [b \in Batch |-> FALSE]
  /\ deviationIds = [b \in Batch |-> {}]

IsNext(status, i) == status[i] = "unborn" /\ \A k \in 1..(i - 1) : status[k] # "unborn"
Active(b)         == b # None /\ batchStatus[b] = "active"
BatchOn(m)        == {b \in Batch : onMachine[b] = m}

-----------------------------------------------------------------------------
(* The next deviations, in the order the identifiers are handed out.        *)
AreNext(D) ==
  \A d \in D : /\ devStatus[d] = "unborn"
               /\ \A k \in 1..(d - 1) : k \in D \/ devStatus[k] # "unborn"

(* _maybe_open_deviation and DeviationManager.open, once for each event of  *)
(* one kind that a callback publishes: a deviation that needs no            *)
(* investigation is closed on the spot, the others are to be investigated;  *)
(* a batch still in process is told of it.                                  *)
OpenDeviations(D, rule, m, b) ==
  /\ AreNext(D)
  /\ devStatus' = [d \in Deviation |-> IF d \notin D THEN devStatus[d]
                                       ELSE IF rule = "nothing" THEN "CLOSED"
                                       ELSE "INVESTIGATION"]
  /\ devRule' = [d \in Deviation |-> IF d \in D THEN rule ELSE devRule[d]]
  /\ devMachine' = [d \in Deviation |-> IF d \in D THEN m ELSE devMachine[d]]
  /\ devBatch' = [d \in Deviation |-> IF d \in D THEN b ELSE devBatch[d]]
  /\ analysis' = IF rule = "nothing" THEN analysis ELSE analysis \cup D
  /\ deviationIds' = IF Active(b) THEN [deviationIds EXCEPT ![b] = @ \cup D]
                                  ELSE deviationIds

(* An event of a machine: a failure, an alarm or a failed in-process test,  *)
(* published with the batch that is on the machine, if there is one.        *)
MachineEvent(d, rule, m, b, qc) ==
  /\ IF BatchOn(m) = {} THEN b = None /\ ~qc ELSE b \in BatchOn(m)
  /\ OpenDeviations({d}, rule, m, b)
  /\ failedQc' = IF qc THEN [failedQc EXCEPT ![b] = TRUE] ELSE failedQc
  /\ UNCHANGED <<capaVars, batchStatus, onMachine, machinesUsed>>

(* An event of the plant: an excursion or a shortage.                       *)
PlantEvent(d, rule) ==
  /\ OpenDeviations({d}, rule, None, None)
  /\ UNCHANGED <<capaVars, batchVars>>

(* Mutant of OpenCapa: the CAPA is not filed.                               *)
OpenCapaUnfiled(d) ==
  capaStatus' = [capaStatus EXCEPT ![d] = "OPEN"] /\ UNCHANGED openByMachine

(* CapaManager.open, filed under the machine of the deviation if it has one. *)
OpenCapa(d) ==
  /\ capaStatus' = [capaStatus EXCEPT ![d] = "OPEN"]
  /\ openByMachine' = [m \in Machine |-> IF m = devMachine[d] THEN openByMachine[m] \cup {d}
                                                              ELSE openByMachine[m]]

(* Mutant of Investigate: a deviation that needs no CAPA is left as it is.  *)
InvestigateForCapa(d) ==
  /\ d \in analysis
  /\ analysis' = analysis \ {d}
  /\ IF devRule[d] = "capa"
     THEN OpenCapa(d) /\ devStatus' = [devStatus EXCEPT ![d] = "CAPA_PENDING"]
     ELSE UNCHANGED <<devStatus, capaStatus, openByMachine>>
  /\ UNCHANGED <<devRule, devMachine, devBatch, passed, verifiedBy, batchVars, deviationIds>>

(* _investigate: the deviation waits for its CAPA, or is closed when the    *)
(* rule asks for none.                                                      *)
Investigate(d) ==
  /\ d \in analysis
  /\ analysis' = analysis \ {d}
  /\ IF devRule[d] = "capa"
     THEN OpenCapa(d) /\ devStatus' = [devStatus EXCEPT ![d] = "CAPA_PENDING"]
     ELSE /\ devStatus' = [devStatus EXCEPT ![d] = "CLOSED"]
          /\ UNCHANGED <<capaStatus, openByMachine>>
  /\ UNCHANGED <<devRule, devMachine, devBatch, passed, verifiedBy, batchVars, deviationIds>>

-----------------------------------------------------------------------------
(* A batch is ordered and starts its first stage, or it starts the next;    *)
(* record_stage adds the machine to those it has used.                      *)
StartStage(b, m) ==
  /\ Active(b) \/ IsNext(batchStatus, b)
  /\ onMachine[b] = None
  /\ BatchOn(m) = {}
  /\ batchStatus' = [batchStatus EXCEPT ![b] = "active"]
  /\ onMachine' = [onMachine EXCEPT ![b] = m]
  /\ machinesUsed' = [machinesUsed EXCEPT ![b] = @ \cup {m}]
  /\ UNCHANGED <<devVars, capaVars, failedQc, deviationIds>>

(* The end of a stage that is not the last.                                 *)
EndStage(b) ==
  /\ Active(b) /\ onMachine[b] # None
  /\ onMachine' = [onMachine EXCEPT ![b] = None]
  /\ UNCHANGED <<devVars, capaVars, batchStatus, machinesUsed, failedQc, deviationIds>>

(* CapaManager.register_verification_batch, called for each machine the     *)
(* batch has used: the CAPAs of those machines count the batch.             *)
Counting(b) == UNION {openByMachine[m] : m \in machinesUsed[b]}

Verified(b) == {c \in Counting(b) : passed[c] + 1 >= Required}

(* Mutant of Verify: a batch counts withheld or not, and for two stages.    *)
VerifyPerStage(b, released) ==
  /\ passed' = [c \in Deviation |-> IF c \in Counting(b) THEN passed[c] + 2 ELSE passed[c]]
  /\ verifiedBy' = [c \in Deviation |-> IF c \in Counting(b) THEN verifiedBy[c] \cup {b}
                                                             ELSE verifiedBy[c]]
  /\ UNCHANGED <<capaStatus, openByMachine>>

Verify(b, released) ==
  IF ~released THEN UNCHANGED capaVars
  ELSE /\ passed' = [c \in Deviation |-> IF c \in Counting(b) THEN passed[c] + 1 ELSE passed[c]]
       /\ verifiedBy' = [c \in Deviation |-> IF c \in Counting(b) THEN verifiedBy[c] \cup {b}
                                                                  ELSE verifiedBy[c]]
       /\ capaStatus' = [c \in Deviation |-> IF c \in Verified(b) THEN "CLOSED"
                                             ELSE IF c \in Counting(b) THEN "VERIFICATION"
                                             ELSE capaStatus[c]]
       /\ openByMachine' = [m \in Machine |-> openByMachine[m] \ Verified(b)]

(* Mutant of FinishBatch: the batch leaves _active before its final tests   *)
(* are recorded.                                                            *)
FinishBatchLate(b, D, rule) ==
  /\ Active(b) /\ onMachine[b] # None
  /\ AreNext(D)
  /\ devStatus' = [d \in Deviation |-> IF d \in D THEN "CLOSED" ELSE devStatus[d]]
  /\ devBatch' = [d \in Deviation |-> IF d \in D THEN b ELSE devBatch[d]]
  /\ batchStatus' = [batchStatus EXCEPT ![b] = "WITHHELD"]
  /\ onMachine' = [onMachine EXCEPT ![b] = None]
  /\ UNCHANGED <<devRule, devMachine, analysis, capaVars, machinesUsed, failedQc, deviationIds>>

(* The end of the last stage, with _finish_batch: every failed final test   *)
(* (D) is an event that names the batch and no machine; the batch is        *)
(* released unless a test failed now or on the way, and leaves _active.     *)
FinishBatch(b, D, rule) ==
  LET released == ~failedQc[b] /\ D = {} IN
  /\ Active(b) /\ onMachine[b] # None
  /\ OpenDeviations(D, rule, None, b)
  /\ failedQc' = [failedQc EXCEPT ![b] = @ \/ D # {}]
  /\ batchStatus' = [batchStatus EXCEPT ![b] = IF released THEN "RELEASED" ELSE "WITHHELD"]
  /\ onMachine' = [onMachine EXCEPT ![b] = None]
  /\ Verify(b, released)
  /\ UNCHANGED machinesUsed

Next ==
  \/ \E d \in Deviation, rule \in Rule, m \in Machine, b \in Batch \cup {None}, qc \in BOOLEAN :
        MachineEvent(d, rule, m, b, qc)
  \/ \E d \in Deviation, rule \in Rule : PlantEvent(d, rule)
  \/ \E d \in Deviation : Investigate(d)
  \/ \E b \in Batch, m \in Machine : StartStage(b, m)
  \/ \E b \in Batch : EndStage(b)
  \/ \E b \in Batch, D \in SUBSET Deviation, rule \in Rule : FinishBatch(b, D, rule)

Spec == Init /\ [][Next]_quality

(* A scheduled investigation runs a finite time later.                      *)
FairSpec == Spec /\ \A d \in Deviation : WF_quality(Investigate(d))

-----------------------------------------------------------------------------
(* "Forward and reverse traversal": a batch names exactly the deviations    *)
(* that name it, also those its own final tests open while it is finishing. *)
DeviationsWalkBothWays ==
  \A d \in Deviation, b \in Batch : devBatch[d] = b <=> d \in deviationIds[b]

(* Verification counts batches, once each, and only batches that were       *)
(* released and did run on the machine; the CAPA is closed by exactly as    *)
(* many as the configuration asks for, however many CAPAs a batch counts    *)
(* for and in whatever order investigations and batches end.                *)
VerifiedByReleasedBatches ==
  \A d \in Deviation :
    /\ passed[d] = Cardinality(verifiedBy[d])
    /\ capaStatus[d] = "CLOSED" <=> passed[d] = Required
    /\ \A b \in verifiedBy[d] :
         batchStatus[b] = "RELEASED" /\ devMachine[d] \in machinesUsed[b]

(* The index a finished batch is looked up in holds, for each machine, the  *)
(* CAPAs of that machine that are still open, and no others.                *)
OpenIndexIsExact ==
  \A m \in Machine :
    openByMachine[m] = {d \in Deviation : /\ devMachine[d] = m
                                          /\ capaStatus[d] \in {"OPEN", "VERIFICATION"}}

(* No investigation is lost: every deviation that needs one ends up closed  *)
(* or with a CAPA.                                                          *)
EveryDeviationConcludes ==
  \A d \in Deviation :
    devStatus[d] = "INVESTIGATION" ~> devStatus[d] \in {"CAPA_PENDING", "CLOSED"}
=============================================================================
