----------------------------- MODULE QualitySafety -----------------------------
(***************************************************************************)
(* Proofs about the quality chain, for any machines, any number of batches  *)
(* and deviations, and any number of batches that verify a CAPA:            *)
(*                                                                          *)
(*   BothWays        batches and deviations name one another                *)
(*   IndexedExactly  the index of open CAPAs is exact                       *)
(*   VerifiedOnce    a CAPA is verified and closed by released batches of   *)
(*                   its machine, each counted once                         *)
(*                                                                          *)
(* The three rest on one invariant: an id that was not handed out carries   *)
(* nothing, an investigation that is to come has no CAPA yet, a batch on a  *)
(* machine is in process, and a CAPA is open until the last batch it needs. *)
(***************************************************************************)
EXTENDS QualityChain, FiniteSetTheorems, TLAPS

CapaStatus == {"none", "OPEN", "VERIFICATION", "CLOSED"}

Types ==
  /\ devStatus \in [Deviation -> {"unborn", "INVESTIGATION", "CAPA_PENDING", "CLOSED"}]
  /\ devRule \in [Deviation -> Rule]
  /\ devMachine \in [Deviation -> Machine \cup {None}]
  /\ devBatch \in [Deviation -> Batch \cup {None}]
  /\ analysis \subseteq Deviation
  /\ capaStatus \in [Deviation -> CapaStatus]
  /\ passed \in [Deviation -> Nat]
  /\ verifiedBy \in [Deviation -> SUBSET Batch]
  /\ openByMachine \in [Machine -> SUBSET Deviation]
  /\ batchStatus \in [Batch -> {"unborn", "active", "RELEASED", "WITHHELD"}]
  /\ onMachine \in [Batch -> Machine \cup {None}]
  /\ machinesUsed \in [Batch -> SUBSET Machine]
  /\ failedQc \in [Batch -> BOOLEAN]
  /\ deviationIds \in [Batch -> SUBSET Deviation]

(* A deviation that was not opened names no batch and awaits nothing.       *)
UnbornBlank ==
  \A d \in Deviation : devStatus[d] = "unborn" =>
    devBatch[d] = None /\ d \notin analysis /\ capaStatus[d] = "none"

(* A CAPA is opened by the investigation, and counts nothing before.        *)
OpenedByInvestigation ==
  \A d \in Deviation :
    /\ d \in analysis => capaStatus[d] = "none"
    /\ capaStatus[d] = "none" => verifiedBy[d] = {}

OnlyActiveRun == \A b \in Batch : onMachine[b] # None => batchStatus[b] = "active"

(* It is not counted beyond what the configuration asks for.                *)
NoneOverCounted == \A d \in Deviation : passed[d] <= Required

QualityInv ==
  /\ Types /\ UnbornBlank /\ OpenedByInvestigation /\ OnlyActiveRun /\ NoneOverCounted
  /\ DeviationsWalkBothWays /\ OpenIndexIsExact /\ VerifiedByReleasedBatches

(* Nothing but the model numbers is a number, and none of them is None.     *)
LEMMA NoneIsNothing == \A b \in Batch : b # None
BY QualityParameters DEF Batch

-----------------------------------------------------------------------------
(* Deviations that are opened                                               *)

(* They are typed, and the batch they name, if any, is told of them because *)
(* it is in process.                                                        *)
LEMMA OpeningLinks ==
  ASSUME Types, UnbornBlank, DeviationsWalkBothWays,
         NEW D \in SUBSET Deviation, NEW rule \in Rule, NEW m \in Machine \cup {None},
         NEW b \in Batch \cup {None}, b # None => Active(b),
         OpenDeviations(D, rule, m, b)
  PROVE  /\ devStatus' \in [Deviation -> {"unborn", "INVESTIGATION", "CAPA_PENDING", "CLOSED"}]
         /\ devRule' \in [Deviation -> Rule]
         /\ devMachine' \in [Deviation -> Machine \cup {None}]
         /\ devBatch' \in [Deviation -> Batch \cup {None}]
         /\ analysis' \subseteq Deviation
         /\ deviationIds' \in [Batch -> SUBSET Deviation]
         /\ DeviationsWalkBothWays'
<1>1. /\ devStatus' \in [Deviation -> {"unborn", "INVESTIGATION", "CAPA_PENDING", "CLOSED"}]
      /\ devRule' \in [Deviation -> Rule]
      /\ devMachine' \in [Deviation -> Machine \cup {None}]
      /\ devBatch' \in [Deviation -> Batch \cup {None}]
      /\ analysis' \subseteq Deviation
  BY DEF Types, OpenDeviations
<1>2. \A c \in Batch : deviationIds'[c] = IF c = b THEN deviationIds[c] \cup D
                                                   ELSE deviationIds[c]
  BY NoneIsNothing DEF Types, OpenDeviations, Active
<1>3. deviationIds' \in [Batch -> SUBSET Deviation]
  BY DEF Types, OpenDeviations, Active
<1>4. ASSUME NEW d \in Deviation, NEW c \in Batch
      PROVE  devBatch'[d] = c <=> d \in deviationIds'[c]
  <2>1. CASE d \in D
    <3>1. d \notin deviationIds[c]
      BY <2>1, NoneIsNothing
      DEF OpenDeviations, AreNext, UnbornBlank, DeviationsWalkBothWays
    <3>2. devBatch'[d] = b
      BY <2>1 DEF OpenDeviations
    <3>3. QED
      BY <1>2, <2>1, <3>1, <3>2
  <2>2. CASE d \notin D
    BY <1>2, <2>2 DEF OpenDeviations, DeviationsWalkBothWays
  <2>3. QED
    BY <2>1, <2>2
<1>5. QED
  BY <1>1, <1>3, <1>4 DEF DeviationsWalkBothWays

(* None of them had a CAPA, so the index and the counts do not notice.      *)
LEMMA OpeningKeepsCapas ==
  ASSUME QualityInv, NEW D \in SUBSET Deviation, NEW rule \in Rule, NEW m, NEW b,
         OpenDeviations(D, rule, m, b)
  PROVE  /\ \A d \in D : d \notin analysis /\ capaStatus[d] = "none" /\ verifiedBy[d] = {}
         /\ \A x \in Machine : openByMachine[x] \cap D = {}
         /\ \A d \in Deviation : devStatus'[d] = "unborn" => d \notin D /\ devStatus[d] = "unborn"
         /\ \A d \in Deviation \ D : /\ devMachine'[d] = devMachine[d]
                                     /\ devBatch'[d] = devBatch[d]
                                     /\ d \in analysis' => d \in analysis
<1>1. \A d \in D : d \notin analysis /\ capaStatus[d] = "none" /\ verifiedBy[d] = {}
  BY DEF QualityInv, OpenDeviations, AreNext, UnbornBlank, OpenedByInvestigation
<1>2. \A x \in Machine : openByMachine[x] \cap D = {}
  BY <1>1 DEF QualityInv, OpenIndexIsExact
<1>3. QED
  BY <1>1, <1>2 DEF OpenDeviations

(* A deviation opened by an event that changes nothing about CAPAs.         *)
LEMMA EventKeepsInv ==
  ASSUME QualityInv, NEW d \in Deviation, NEW rule \in Rule, NEW m \in Machine \cup {None},
         NEW b \in Batch \cup {None}, b # None => Active(b),
         OpenDeviations({d}, rule, m, b),
         failedQc' \in [Batch -> BOOLEAN],
         UNCHANGED <<capaVars, batchStatus, onMachine, machinesUsed>>
  PROVE  QualityInv'
<1> USE DEF QualityInv, capaVars
<1>1. Types' /\ DeviationsWalkBothWays'
  BY OpeningLinks DEF Types
<1>2. UnbornBlank' /\ OpenedByInvestigation'
  BY OpeningKeepsCapas DEF UnbornBlank, OpenedByInvestigation
<1>3. OnlyActiveRun' /\ NoneOverCounted'
  BY DEF OnlyActiveRun, NoneOverCounted
<1>4. /\ capaStatus[d] = "none" /\ verifiedBy[d] = {}
      /\ \A x \in Deviation \ {d} : devMachine'[x] = devMachine[x]
  BY DEF OpenDeviations, AreNext, UnbornBlank, OpenedByInvestigation
<1>5. OpenIndexIsExact' /\ VerifiedByReleasedBatches'
  BY <1>4 DEF OpenIndexIsExact, VerifiedByReleasedBatches
<1>6. QED
  BY <1>1, <1>2, <1>3, <1>4, <1>5

LEMMA MachineEventKeepsInv ==
  ASSUME QualityInv, NEW d \in Deviation, NEW rule \in Rule, NEW m \in Machine,
         NEW b \in Batch \cup {None}, NEW qc \in BOOLEAN, MachineEvent(d, rule, m, b, qc)
  PROVE  QualityInv'
<1>1. b # None => Active(b)
  BY QualityParameters DEF MachineEvent, BatchOn, QualityInv, OnlyActiveRun, Active
<1>2. failedQc' \in [Batch -> BOOLEAN]
  BY DEF MachineEvent, QualityInv, Types
<1>3. QED
  BY <1>1, <1>2, EventKeepsInv DEF MachineEvent

LEMMA PlantEventKeepsInv ==
  ASSUME QualityInv, NEW d \in Deviation, NEW rule \in Rule, PlantEvent(d, rule)
  PROVE  QualityInv'
BY EventKeepsInv DEF PlantEvent, batchVars, QualityInv, Types

-----------------------------------------------------------------------------
(* Investigations                                                           *)

(* The CAPA an investigation opens is a new one, and is filed as it opens.  *)
LEMMA InvestigateKeepsInv ==
  ASSUME QualityInv, NEW d \in Deviation, Investigate(d)
  PROVE  QualityInv'
<1> USE DEF QualityInv, batchVars
<1>1. /\ d \in analysis /\ capaStatus[d] = "none" /\ verifiedBy[d] = {}
      /\ devStatus[d] # "unborn" /\ analysis' = analysis \ {d}
      /\ UNCHANGED <<devMachine, devBatch, deviationIds>>
  BY DEF Investigate, OpenedByInvestigation, UnbornBlank
<1>2. CASE devRule[d] = "capa"
  <2>1. /\ capaStatus' = [capaStatus EXCEPT ![d] = "OPEN"]
        /\ openByMachine' = [m \in Machine |-> IF m = devMachine[d] THEN openByMachine[m] \cup {d}
                                                                   ELSE openByMachine[m]]
        /\ devStatus' = [devStatus EXCEPT ![d] = "CAPA_PENDING"]
        /\ UNCHANGED <<devRule, passed, verifiedBy, batchStatus, onMachine, machinesUsed, failedQc>>
    BY <1>2 DEF Investigate, OpenCapa
  <2>2. Types'
    BY <1>1, <2>1 DEF Types, CapaStatus
  <2>3. UnbornBlank' /\ OpenedByInvestigation'
    BY <1>1, <2>1 DEF Types, UnbornBlank, OpenedByInvestigation
  <2>4. OnlyActiveRun' /\ NoneOverCounted' /\ DeviationsWalkBothWays'
    BY <1>1, <2>1 DEF OnlyActiveRun, NoneOverCounted, DeviationsWalkBothWays
  <2>5. OpenIndexIsExact'
    BY <1>1, <2>1 DEF Types, OpenIndexIsExact
  <2>6. VerifiedByReleasedBatches'
    BY <1>1, <2>1 DEF Types, VerifiedByReleasedBatches
  <2>7. QED
    BY <2>2, <2>3, <2>4, <2>5, <2>6
<1>3. CASE devRule[d] # "capa"
  <2>1. /\ devStatus' = [devStatus EXCEPT ![d] = "CLOSED"]
        /\ UNCHANGED <<devRule, capaVars, batchStatus, onMachine, machinesUsed, failedQc>>
    BY <1>3 DEF Investigate, capaVars
  <2>2. Types' /\ UnbornBlank' /\ OpenedByInvestigation'
    BY <1>1, <2>1 DEF capaVars, Types, UnbornBlank, OpenedByInvestigation
  <2>3. OnlyActiveRun' /\ NoneOverCounted' /\ DeviationsWalkBothWays'
    BY <1>1, <2>1 DEF capaVars, OnlyActiveRun, NoneOverCounted, DeviationsWalkBothWays
  <2>4. OpenIndexIsExact' /\ VerifiedByReleasedBatches'
    BY <1>1, <2>1 DEF capaVars, OpenIndexIsExact, VerifiedByReleasedBatches
  <2>5. QED
    BY <2>2, <2>3, <2>4
<1>4. QED
  BY <1>2, <1>3

-----------------------------------------------------------------------------
(* Batches                                                                  *)

(* A released batch starts no stage, so what it has used is settled.        *)
LEMMA StageKeepsInv ==
  ASSUME QualityInv, NEW b \in Batch, NEW m \in Machine, StartStage(b, m) \/ EndStage(b)
  PROVE  QualityInv'
<1> USE DEF QualityInv, devVars, capaVars
<1>1. /\ batchStatus[b] # "RELEASED"
      /\ \A x \in Batch \ {b} : batchStatus'[x] = batchStatus[x] /\ onMachine'[x] = onMachine[x]
      /\ batchStatus'[b] = "active"
      /\ \A x \in Batch : machinesUsed[x] \subseteq machinesUsed'[x]
      /\ UNCHANGED <<devVars, capaVars, deviationIds>>
  BY DEF StartStage, EndStage, Active, IsNext, Types
<1>2. Types'
  <2>1. CASE StartStage(b, m)
    BY <2>1 DEF StartStage, Types
  <2>2. CASE EndStage(b)
    BY <2>2 DEF EndStage, Types
  <2>3. QED
    BY <2>1, <2>2
<1>3. UnbornBlank' /\ OpenedByInvestigation' /\ NoneOverCounted' /\ DeviationsWalkBothWays'
  BY <1>1 DEF UnbornBlank, OpenedByInvestigation, NoneOverCounted, DeviationsWalkBothWays
<1>4. OnlyActiveRun'
  BY <1>1 DEF OnlyActiveRun
<1>5. OpenIndexIsExact'
  BY <1>1 DEF OpenIndexIsExact
<1>6. VerifiedByReleasedBatches'
  BY <1>1 DEF Types, VerifiedByReleasedBatches
<1>7. QED
  BY <1>2, <1>3, <1>4, <1>5, <1>6

(* What a released batch does to the CAPAs it counts for: each is open, is  *)
(* short of what it needs, and has not counted the batch before.            *)
LEMMA CountedCapas ==
  ASSUME QualityInv, NEW b \in Batch, Active(b), NEW c \in Counting(b)
  PROVE  /\ c \in Deviation
         /\ capaStatus[c] \in {"OPEN", "VERIFICATION"}
         /\ devMachine[c] \in machinesUsed[b]
         /\ b \notin verifiedBy[c]
         /\ passed[c] < Required
         /\ Cardinality(verifiedBy[c] \cup {b}) = passed[c] + 1
<1> USE DEF QualityInv
<1>1. PICK m \in machinesUsed[b] : c \in openByMachine[m]
  BY DEF Counting
<1>2. m \in Machine
  BY DEF Types
<1>3. /\ c \in Deviation /\ devMachine[c] = m
      /\ capaStatus[c] \in {"OPEN", "VERIFICATION"}
  BY <1>1, <1>2 DEF OpenIndexIsExact
<1>4. b \notin verifiedBy[c]
  BY <1>3 DEF VerifiedByReleasedBatches, Active
<1>5. passed[c] # Required /\ passed[c] <= Required
  BY <1>3 DEF VerifiedByReleasedBatches, NoneOverCounted
<1>6. passed[c] < Required
  BY <1>3, <1>5, QualityParameters DEF Types
<1>7. Cardinality(verifiedBy[c] \cup {b}) = passed[c] + 1
  <2>1. MaxBatches \in Int
    BY QualityParameters
  <2>2. IsFiniteSet(Batch)
    BY <2>1, FS_Interval DEF Batch
  <2>3. IsFiniteSet(verifiedBy[c])
    BY <1>3, <2>2, FS_Subset DEF Types
  <2>4. Cardinality(verifiedBy[c] \cup {b}) = Cardinality(verifiedBy[c]) + 1
    BY <1>4, <2>3, FS_AddElement
  <2>5. passed[c] = Cardinality(verifiedBy[c])
    BY <1>3 DEF VerifiedByReleasedBatches
  <2>6. QED
    BY <2>4, <2>5
<1>8. QED
  BY <1>1, <1>3, <1>4, <1>6, <1>7

(* Released or not, the batch leaves the CAPAs as the invariant wants them. *)
VerifiedSo(b) ==
  /\ capaStatus' \in [Deviation -> CapaStatus] /\ passed' \in [Deviation -> Nat]
  /\ verifiedBy' \in [Deviation -> SUBSET Batch]
  /\ openByMachine' \in [Machine -> SUBSET Deviation]
  /\ \A d \in Deviation :
       /\ capaStatus'[d] = "none" <=> capaStatus[d] = "none"
       /\ capaStatus[d] = "none" => verifiedBy'[d] = {}
       /\ passed'[d] <= Required
       /\ passed'[d] = Cardinality(verifiedBy'[d])
       /\ capaStatus'[d] = "CLOSED" <=> passed'[d] = Required
       /\ \A x \in verifiedBy'[d] :
            x \in verifiedBy[d] \/ (x = b /\ devMachine[d] \in machinesUsed[b])
  /\ \A m \in Machine :
       openByMachine'[m] = {d \in Deviation : /\ devMachine[d] = m
                                              /\ capaStatus'[d] \in {"OPEN", "VERIFICATION"}}

LEMMA VerifyCounts ==
  ASSUME QualityInv, NEW b \in Batch, Active(b), NEW released \in BOOLEAN,
         Verify(b, released)
  PROVE  /\ VerifiedSo(b)
         /\ ~released => verifiedBy' = verifiedBy
<1> USE DEF QualityInv
<1>1. CASE ~released
  <2>1. UNCHANGED <<capaStatus, passed, verifiedBy, openByMachine>>
    BY <1>1 DEF Verify, capaVars
  <2>2. \A d \in Deviation :
          /\ capaStatus[d] = "none" => verifiedBy[d] = {}
          /\ passed[d] <= Required
          /\ passed[d] = Cardinality(verifiedBy[d])
          /\ capaStatus[d] = "CLOSED" <=> passed[d] = Required
    BY DEF OpenedByInvestigation, NoneOverCounted, VerifiedByReleasedBatches
  <2>3. \A m \in Machine :
          openByMachine'[m] = {d \in Deviation : /\ devMachine[d] = m
                                                 /\ capaStatus'[d] \in {"OPEN", "VERIFICATION"}}
    BY <2>1 DEF OpenIndexIsExact
  <2>4. /\ capaStatus' \in [Deviation -> CapaStatus] /\ passed' \in [Deviation -> Nat]
        /\ verifiedBy' \in [Deviation -> SUBSET Batch]
        /\ openByMachine' \in [Machine -> SUBSET Deviation]
    BY <2>1 DEF Types
  <2>5. VerifiedSo(b)
    BY <2>1, <2>2, <2>3, <2>4 DEF VerifiedSo
  <2>6. QED
    BY <1>1, <2>1, <2>5
<1>2. CASE released
  <2>1. /\ passed' = [c \in Deviation |-> IF c \in Counting(b) THEN passed[c] + 1 ELSE passed[c]]
        /\ verifiedBy' = [c \in Deviation |-> IF c \in Counting(b) THEN verifiedBy[c] \cup {b}
                                                                   ELSE verifiedBy[c]]
        /\ capaStatus' = [c \in Deviation |-> IF c \in Verified(b) THEN "CLOSED"
                                              ELSE IF c \in Counting(b) THEN "VERIFICATION"
                                              ELSE capaStatus[c]]
        /\ openByMachine' = [m \in Machine |-> openByMachine[m] \ Verified(b)]
    BY <1>2 DEF Verify
  <2>2. ASSUME NEW c \in Deviation
        PROVE  c \in Verified(b) <=> c \in Counting(b) /\ passed[c] + 1 >= Required
    BY DEF Verified
  <2>3. /\ capaStatus' \in [Deviation -> CapaStatus] /\ passed' \in [Deviation -> Nat]
        /\ verifiedBy' \in [Deviation -> SUBSET Batch]
        /\ openByMachine' \in [Machine -> SUBSET Deviation]
    BY <2>1 DEF Types, CapaStatus
  <2>4. ASSUME NEW d \in Deviation, d \notin Counting(b)
        PROVE  /\ UNCHANGED <<capaStatus[d], passed[d], verifiedBy[d]>>
    BY <2>1, <2>2, <2>4
  <2>5. ASSUME NEW d \in Deviation, d \in Counting(b)
        PROVE  /\ capaStatus[d] # "none" /\ capaStatus'[d] # "none"
               /\ passed'[d] <= Required
               /\ passed'[d] = Cardinality(verifiedBy'[d])
               /\ capaStatus'[d] = "CLOSED" <=> passed'[d] = Required
               /\ capaStatus'[d] \in {"VERIFICATION", "CLOSED"}
               /\ verifiedBy'[d] = verifiedBy[d] \cup {b}
               /\ devMachine[d] \in machinesUsed[b]
    <3>1. /\ passed[d] < Required /\ capaStatus[d] \in {"OPEN", "VERIFICATION"}
          /\ Cardinality(verifiedBy[d] \cup {b}) = passed[d] + 1
          /\ devMachine[d] \in machinesUsed[b]
      BY <2>5, CountedCapas
    <3>2. /\ passed'[d] = passed[d] + 1 /\ verifiedBy'[d] = verifiedBy[d] \cup {b}
          /\ capaStatus'[d] = IF passed[d] + 1 >= Required THEN "CLOSED" ELSE "VERIFICATION"
      BY <2>1, <2>2, <2>5
    <3>3. passed[d] \in Nat /\ Required \in Nat
      BY QualityParameters DEF Types
    <3>4. QED
      BY <3>1, <3>2, <3>3
  <2>6. ASSUME NEW d \in Deviation
        PROVE  /\ capaStatus'[d] = "none" <=> capaStatus[d] = "none"
               /\ capaStatus[d] = "none" => verifiedBy'[d] = {}
               /\ passed'[d] <= Required
               /\ passed'[d] = Cardinality(verifiedBy'[d])
               /\ capaStatus'[d] = "CLOSED" <=> passed'[d] = Required
               /\ \A x \in verifiedBy'[d] :
                    x \in verifiedBy[d] \/ (x = b /\ devMachine[d] \in machinesUsed[b])
    <3>1. CASE d \in Counting(b)
      BY <2>5, <3>1
    <3>2. CASE d \notin Counting(b)
      BY <2>4, <3>2 DEF OpenedByInvestigation, NoneOverCounted, VerifiedByReleasedBatches
    <3>3. QED
      BY <3>1, <3>2
  <2>7. ASSUME NEW m \in Machine, NEW d \in Deviation
        PROVE  d \in openByMachine'[m]
                 <=> devMachine[d] = m /\ capaStatus'[d] \in {"OPEN", "VERIFICATION"}
    <3>1. d \in openByMachine[m]
            <=> devMachine[d] = m /\ capaStatus[d] \in {"OPEN", "VERIFICATION"}
      BY DEF OpenIndexIsExact
    <3>2. CASE d \in Counting(b)
      <4>1. capaStatus[d] \in {"OPEN", "VERIFICATION"}
        BY <3>2, CountedCapas
      <4>2. capaStatus'[d] \in {"OPEN", "VERIFICATION"} <=> d \notin Verified(b)
        BY <2>1, <3>2
      <4>3. QED
        BY <2>1, <3>1, <4>1, <4>2
    <3>3. CASE d \notin Counting(b)
      BY <2>1, <2>2, <3>1, <3>3
    <3>4. QED
      BY <3>2, <3>3
  <2>8. \A m \in Machine :
          openByMachine'[m] = {d \in Deviation : /\ devMachine[d] = m
                                                 /\ capaStatus'[d] \in {"OPEN", "VERIFICATION"}}
    BY <2>3, <2>7
  <2>9. QED
    BY <1>2, <2>3, <2>6, <2>8 DEF VerifiedSo
<1>3. QED
  BY <1>1, <1>2

(* The deviations its final tests open name the batch while it is still in  *)
(* process; they have no CAPA, so what the batch verifies does not touch    *)
(* them; and it counts only if it ends up released.                         *)
LEMMA FinishKeepsInv ==
  ASSUME QualityInv, NEW b \in Batch, NEW D \in SUBSET Deviation, NEW rule \in Rule,
         FinishBatch(b, D, rule)
  PROVE  QualityInv'
<1> DEFINE released == ~failedQc[b] /\ D = {}
<1> USE DEF QualityInv
<1>1. /\ Active(b) /\ released \in BOOLEAN
      /\ OpenDeviations(D, rule, None, b)
      /\ failedQc' = [failedQc EXCEPT ![b] = @ \/ D # {}]
      /\ batchStatus' = [batchStatus EXCEPT ![b] = IF released THEN "RELEASED" ELSE "WITHHELD"]
      /\ onMachine' = [onMachine EXCEPT ![b] = None]
      /\ Verify(b, released)
      /\ UNCHANGED machinesUsed
  BY DEF FinishBatch
<1>2. batchStatus[b] = "active"
  BY <1>1 DEF Active
<1>3. VerifiedSo(b) /\ (~released => verifiedBy' = verifiedBy)
  BY <1>1, VerifyCounts
<1>4. /\ \A d \in D : d \notin analysis /\ capaStatus[d] = "none" /\ verifiedBy[d] = {}
      /\ \A d \in Deviation : devStatus'[d] = "unborn" => d \notin D /\ devStatus[d] = "unborn"
      /\ \A d \in Deviation \ D : /\ devMachine'[d] = devMachine[d]
                                  /\ devBatch'[d] = devBatch[d]
                                  /\ d \in analysis' => d \in analysis
  BY <1>1, OpeningKeepsCapas
<1>5. /\ devStatus' \in [Deviation -> {"unborn", "INVESTIGATION", "CAPA_PENDING", "CLOSED"}]
      /\ devRule' \in [Deviation -> Rule]
      /\ devMachine' \in [Deviation -> Machine \cup {None}]
      /\ devBatch' \in [Deviation -> Batch \cup {None}]
      /\ analysis' \subseteq Deviation
      /\ deviationIds' \in [Batch -> SUBSET Deviation]
      /\ DeviationsWalkBothWays'
  BY <1>1, OpeningLinks
<1>6. Types'
  <2>1. /\ batchStatus' \in [Batch -> {"unborn", "active", "RELEASED", "WITHHELD"}]
        /\ onMachine' \in [Batch -> Machine \cup {None}]
        /\ machinesUsed' \in [Batch -> SUBSET Machine]
        /\ failedQc' \in [Batch -> BOOLEAN]
    BY <1>1 DEF Types
  <2>2. QED
    BY <1>3, <1>5, <2>1 DEF Types, VerifiedSo
<1>7. UnbornBlank'
  BY <1>3, <1>4 DEF UnbornBlank, VerifiedSo
<1>8. OpenedByInvestigation'
  BY <1>3, <1>4 DEF OpenedByInvestigation, VerifiedSo
<1>9. OnlyActiveRun' /\ NoneOverCounted'
  BY <1>1, <1>3 DEF OnlyActiveRun, NoneOverCounted, VerifiedSo, Types
<1>10. OpenIndexIsExact'
  BY <1>3, <1>4 DEF OpenIndexIsExact, VerifiedSo
<1>11. VerifiedByReleasedBatches'
  <2>1. ASSUME NEW d \in Deviation, NEW x \in verifiedBy'[d]
        PROVE  batchStatus'[x] = "RELEASED" /\ devMachine'[d] \in machinesUsed'[x]
    <3>1. d \notin D
      BY <1>3, <1>4, <2>1 DEF VerifiedSo
    <3>2. devMachine'[d] = devMachine[d]
      BY <1>4, <3>1
    <3>3. CASE x \in verifiedBy[d]
      <4>1. batchStatus[x] = "RELEASED" /\ devMachine[d] \in machinesUsed[x]
        BY <3>3 DEF VerifiedByReleasedBatches
      <4>2. x \in Batch /\ x # b
        BY <1>2, <3>3, <4>1 DEF Types
      <4>3. QED
        BY <1>1, <3>2, <4>1, <4>2 DEF Types
    <3>4. CASE x \notin verifiedBy[d]
      <4>1. x = b /\ devMachine[d] \in machinesUsed[b] /\ released
        BY <1>3, <2>1, <3>4 DEF VerifiedSo
      <4>2. QED
        BY <1>1, <3>2, <4>1 DEF Types
    <3>5. QED
      BY <3>3, <3>4
  <2>2. QED
    BY <1>3, <2>1 DEF VerifiedByReleasedBatches, VerifiedSo
<1>12. QED
  BY <1>5, <1>6, <1>7, <1>8, <1>9, <1>10, <1>11

-----------------------------------------------------------------------------
(* The theorems                                                             *)

LEMMA QualityInvHolds == Spec => []QualityInv
<1>1. Init => QualityInv
  <2> SUFFICES ASSUME Init
               PROVE  QualityInv
    OBVIOUS
  <2>1. Types
    BY DEF Init, Types, Rule, CapaStatus
  <2>2. UnbornBlank /\ OpenedByInvestigation /\ OnlyActiveRun /\ NoneOverCounted
    BY QualityParameters
    DEF Init, UnbornBlank, OpenedByInvestigation, OnlyActiveRun, NoneOverCounted
  <2>3. DeviationsWalkBothWays
    BY NoneIsNothing DEF Init, DeviationsWalkBothWays
  <2>4. OpenIndexIsExact
    BY DEF Init, OpenIndexIsExact
  <2>5. VerifiedByReleasedBatches
    BY QualityParameters, FS_EmptySet DEF Init, VerifiedByReleasedBatches
  <2>6. QED
    BY <2>1, <2>2, <2>3, <2>4, <2>5 DEF QualityInv
<1>2. QualityInv /\ [Next]_quality => QualityInv'
  <2> SUFFICES ASSUME QualityInv, [Next]_quality
               PROVE  QualityInv'
    OBVIOUS
  <2>1. CASE Next
    <3>1. ASSUME NEW b \in Batch, EndStage(b)
          PROVE  onMachine[b] \in Machine
      BY <3>1 DEF EndStage, QualityInv, Types
    <3>2. QED
      BY <2>1, <3>1, MachineEventKeepsInv, PlantEventKeepsInv, InvestigateKeepsInv, StageKeepsInv,
         FinishKeepsInv
      DEF Next
  <2>2. CASE UNCHANGED quality
    BY <2>2
    DEF quality, devVars, capaVars, batchVars, QualityInv, Types, UnbornBlank,
        OpenedByInvestigation, OnlyActiveRun, NoneOverCounted, DeviationsWalkBothWays,
        OpenIndexIsExact, VerifiedByReleasedBatches
  <2>3. QED
    BY <2>1, <2>2
<1>3. QED
  BY <1>1, <1>2, PTL DEF Spec

(* "Forward and reverse traversal": a batch names exactly the deviations    *)
(* that name it, also those its own final tests open while it is finishing. *)
THEOREM BothWays == Spec => []DeviationsWalkBothWays
<1>1. QualityInv => DeviationsWalkBothWays
  BY DEF QualityInv
<1>2. QED
  BY <1>1, QualityInvHolds, PTL

(* For each machine the index holds its CAPAs that are still open, and no   *)
(* others, whatever order investigations and batches end in.                *)
THEOREM IndexedExactly == Spec => []OpenIndexIsExact
<1>1. QualityInv => OpenIndexIsExact
  BY DEF QualityInv
<1>2. QED
  BY <1>1, QualityInvHolds, PTL

(* A CAPA counts each batch once, counts only released batches that ran on  *)
(* its machine, and is closed exactly when it has counted as many as the    *)
(* configuration asks for.                                                  *)
THEOREM VerifiedOnce == Spec => []VerifiedByReleasedBatches
<1>1. QualityInv => VerifiedByReleasedBatches
  BY DEF QualityInv
<1>2. QED
  BY <1>1, QualityInvHolds, PTL
=============================================================================
