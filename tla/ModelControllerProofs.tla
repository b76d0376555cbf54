------------------------ MODULE ModelControllerProofs ------------------------
(***************************************************************************)
(* Proofs about ModelController, for any configurations, client IDs, pod   *)
(* states and kinds of models, and any bounds.                             *)
(*                                                                         *)
(* A Reconcile that writes does so for a model that has its finalizer, and *)
(* what has a finalizer stays until the one worker takes it off.  That     *)
(* worker decides from a cache: what has to be shown is that the cache     *)
(* never shows a live model with a finalizer that is gone, nor a deletion  *)
(* in place of a live model with its finalizer.  Generations order what    *)
(* the worker, the cache and the API server hold.                          *)
(*                                                                         *)
(* That a settled model is right, its pods, its status and its allow-list, *)
(* is an argument about events: see "What is settled".                     *)
(* That a deletion ends and that the allow-list follows the keys is one    *)
(* about what comes next, once nobody interferes: see "Progress".          *)
(***************************************************************************)
EXTENDS ModelController, TLAPS

(***************************************************************************)
(* The inductive invariant.                                                *)
(***************************************************************************)

\* The worker's copy is no newer than the cache's, and that no newer than the model; a
\* generation names one version, but for its deletion.
Ordered ==
  /\ model.exists => model.generation <= edits
  /\ modelSeen.exists => modelSeen.generation <= edits
  /\ work # Idle => work.copy.generation <= edits
  /\ model.exists /\ modelSeen.exists => modelSeen.generation <= model.generation
  /\ work # Idle /\ model.exists => work.copy.generation <= model.generation
  /\ work # Idle /\ modelSeen.exists => work.copy.generation <= modelSeen.generation

DeletionsLast ==
  model.exists /\ modelSeen.exists /\ modelSeen.generation = model.generation
  /\ modelSeen.deleting => model.deleting

Finalized == model.exists /\ model.finalizer
Kept == Alive /\ model.finalizer
SeenKept == modelSeen.exists /\ modelSeen.finalizer /\ ~modelSeen.deleting

\* What the cache shows of deletions and finalizers.
SeenTrue ==
  /\ modelSeen.exists /\ modelSeen.deleting => ~Kept
  /\ SeenKept => Finalized

\* Where a Reconcile is when it deletes, and when it provisions.
Deleting == At("deleteSecret") \/ At("removeFinalizer")
Provisioning == PCs \ {"addFinalizer", "status", "statusEarly", "deleteSecret", "removeFinalizer"}

DeletesForNobody == Deleting => ~Kept /\ ~SeenKept
ProvisionsForSomebody == work.pc \in Provisioning => Finalized
PodsHaveModel == deployment.exists => Finalized

Parts ==
  /\ Ordered /\ DeletionsLast /\ SeenTrue
  /\ DeletesForNobody /\ ProvisionsForSomebody /\ PodsHaveModel

\* Keys are gone before the finalizer is, or were not seen.
KeysCleared ==
  /\ OrphansWereUnseen
  /\ At("removeFinalizer") => ~secret.exists \/ unseen

IInv == TypeOK /\ Parts

(***************************************************************************)
(* Shapes.                                                                 *)
(***************************************************************************)

\* A model that is there is a record.
LEMMA ModelShape ==
  ASSUME NEW m \in Model \cup {NoModel}, m.exists
  PROVE  m \in Model
BY DEF NoModel

LEMMA DeploymentShape ==
  ASSUME NEW d \in Deployment \cup {NoDeployment}, d.exists
  PROVE  d \in Deployment
BY DEF NoDeployment

LEMMA ExistsIsBoolean ==
  /\ \A m \in Model \cup {NoModel} : m.exists \in BOOLEAN
  /\ \A d \in Deployment \cup {NoDeployment} : d.exists \in BOOLEAN
<1>1. \A m \in Model : m.exists \in BOOLEAN
  BY DEF Model
<1>2. \A d \in Deployment : d.exists \in BOOLEAN
  BY DEF Deployment
<1>3. NoModel.exists \in BOOLEAN /\ NoDeployment.exists \in BOOLEAN
  BY DEF NoModel, NoDeployment
<1>4. QED
  BY <1>1, <1>2, <1>3

\* A Reconcile at a step has its record, with the copy of a model.
LEMMA AtShape ==
  ASSUME TypeOK, NEW pc \in PCs, At(pc)
  PROVE  work \in Running /\ work # Idle /\ work.copy \in Model /\ work.copy.exists
<1>1. "idle" \notin PCs
  BY DEF PCs, Objects, Owned, Optional
<1>2. work # Idle
  BY <1>1 DEF At, Idle
<1>3. QED
  BY <1>2 DEF TypeOK, Running, Model

\* The steps by name.
LEMMA PCShape ==
  /\ "idle" \notin PCs
  /\ {"addFinalizer", "setPending", "readKeys", "secret", "deployment", "phase", "policy",
      "status", "statusEarly", "deleteSecret", "removeFinalizer"} \subseteq PCs
  /\ Objects \subseteq PCs
  /\ "support" \in PCs /\ "inferencePool" \in PCs
BY DEF PCs, Objects, Owned, Optional

LEMMA OrderShape ==
  ASSUME NEW o \in Objects
  PROVE  Order[o] \in {"deployment", "epp", "externalRoute", "policy"}
<1>1. o = "support" \/ o = "epp" \/ o = "inferencePool" \/ o = "externalRoute"
  BY DEF Objects, Owned, Optional
<1>2. QED
  BY <1>1 DEF Order

LEMMA ProvisioningShape ==
  /\ {"setPending", "readKeys", "secret", "deployment", "phase", "policy"} \subseteq Provisioning
  /\ Objects \subseteq Provisioning
  /\ {"addFinalizer", "status", "statusEarly", "deleteSecret", "removeFinalizer", "idle"}
       \cap Provisioning = {}
  /\ "support" \in Provisioning /\ "inferencePool" \in Provisioning
BY DEF Provisioning, PCs, Objects, Owned, Optional

\* The record that Fetch makes of a model.
LEMMA StartShape ==
  ASSUME NEW m \in Model
  PROVE  /\ Start(m) \in Running /\ Start(m) # Idle /\ Start(m).copy = m
         /\ Start(m).pc \in {"deleteSecret", "addFinalizer", "setPending", "readKeys"}
         /\ Start(m).pc = "deleteSecret" <=> m.deleting
         /\ Start(m).pc \in {"setPending", "readKeys"} => m.finalizer /\ ~m.deleting
<1>1. /\ Start(m).pc \in {"deleteSecret", "addFinalizer", "setPending", "readKeys"}
      /\ Start(m).pc = "deleteSecret" <=> m.deleting
      /\ Start(m).pc \in {"setPending", "readKeys"} => m.finalizer /\ ~m.deleting
  BY DEF Start
<1>2. Start(m).copy = m /\ Start(m) # Idle
  BY <1>1 DEF Start, Idle
<1>3. Start(m) \in Running
  BY <1>1, PCShape DEF Start, Running, Phases
<1>4. QED
  BY <1>1, <1>2, <1>3

\* Going on keeps the copy.
LEMMA GotoShape ==
  ASSUME work \in Running, NEW pc \in PCs, Goto(pc)
  PROVE  /\ work' \in Running /\ work' # Idle
         /\ work'.copy = work.copy /\ work'.pc = pc
         /\ queued' = queued /\ timer' = timer
<1>1. work' = [work EXCEPT !.pc = pc] /\ queued' = queued /\ timer' = timer
  BY DEF Goto
<1>2. work' \in Running /\ work'.copy = work.copy /\ work'.pc = pc
  BY <1>1 DEF Running
<1>3. work' # Idle
  BY <1>2, PCShape DEF Idle
<1>4. QED
  BY <1>1, <1>2, <1>3

LEMMA PhaseShape ==
  ASSUME NEW d \in Deployment \cup {NoDeployment}, NEW download \in BOOLEAN
  PROVE  PhaseOf(d, download) \in Phases
<1>1. CASE ~d.exists
  BY <1>1 DEF PhaseOf, Phases
<1>2. CASE d.exists
  <2>1. d.pods \in {"starting", "degraded", "ready"}
    BY <1>2, DeploymentShape, PodsStart DEF Deployment
  <2>2. QED
    BY <1>2, <2>1 DEF PhaseOf, Phases
<1>3. QED
  BY <1>1, <1>2

LEMMA InPhaseShape ==
  ASSUME work \in Running, NEW p \in Phases, InPhase(p)
  PROVE  /\ work' \in Running /\ work' # Idle /\ work'.copy = work.copy
         /\ work'.pc \in {"statusEarly", "inferencePool"}
         /\ queued' = queued /\ timer' = timer
<1>1. AfterPhase(p) \in {"statusEarly", "inferencePool"}
  BY DEF AfterPhase
<1>2. /\ work' = [work EXCEPT !.pc = AfterPhase(p), !.phase = p]
      /\ queued' = queued /\ timer' = timer
  BY DEF InPhase
<1>3. work' \in Running /\ work'.copy = work.copy /\ work'.pc = AfterPhase(p)
  BY <1>1, <1>2, PCShape DEF Running
<1>4. work' # Idle
  BY <1>1, <1>3 DEF Idle
<1>5. QED
  BY <1>1, <1>2, <1>3, <1>4

LEMMA EditBound == ASSUME Edit, edits \in 0..MaxEdits
                   PROVE  /\ edits' \in 0..MaxEdits /\ edits' \in Generations
                          /\ edits' = edits + 1
BY BoundsAreNats DEF Edit, Generations

LEMMA FaultBound == ASSUME Fault, faults \in 0..MaxFaults PROVE faults' \in 0..MaxFaults
BY BoundsAreNats DEF Fault

LEMMA RefusalBound ==
  ASSUME NEW current, Refusal(current), faults \in 0..MaxFaults PROVE faults' \in 0..MaxFaults
BY FaultBound DEF Refusal
(***************************************************************************)
(* Types.                                                                  *)
(***************************************************************************)
LEMMA InitTypeOK == Init => TypeOK
<1> SUFFICES ASSUME Init PROVE TypeOK
  OBVIOUS
<1>1. secret \in Secret /\ secretSeen \in Secret /\ policy \in Policy
  BY DEF Init, Secret, NoSecret, Policy, NoPolicy
<1>2. edits \in 0..MaxEdits /\ faults \in 0..MaxFaults
  BY BoundsAreNats DEF Init
<1>3. QED
  BY <1>1, <1>2 DEF Init, TypeOK

\* Steps of a Reconcile that touch nothing but the queue and the counters.
LEMMA OnlyWorks ==
  ASSUME TypeOK, work' \in Running \cup {Idle}, queued' \in BOOLEAN, timer' \in BOOLEAN,
         edits' = edits, faults' \in 0..MaxFaults, UNCHANGED <<world, caches>>
  PROVE  TypeOK'
BY DEF TypeOK, world, aside, caches

LEMMA AgainShape ==
  ASSUME TypeOK, Again
  PROVE  work' = Idle /\ queued' \in BOOLEAN /\ timer' \in BOOLEAN
BY DEF Again, TypeOK

LEMMA DoneShape ==
  ASSUME TypeOK, Done
  PROVE  work' = Idle /\ queued' \in BOOLEAN /\ timer' \in BOOLEAN
BY DEF Done, TypeOK

\* What a Reconcile makes of a model it knows.
LEMMA ModelSteps ==
  ASSUME TypeOK, AddFinalizer \/ SetPending
  PROVE  /\ work \in Running /\ work # Idle /\ work.copy = model
         /\ model \in Model /\ model.exists /\ model' \in Model /\ model'.exists
         /\ model'.generation = model.generation /\ model'.deleting = model.deleting
         /\ AddFinalizer => work' = Idle
         /\ SetPending => /\ model'.finalizer = model.finalizer
                          /\ work' \in Running /\ work'.copy = model' /\ work'.pc = "readKeys"
<1>1. work \in Running /\ work # Idle /\ work.copy = model /\ model \in Model /\ model.exists
  BY AtShape, PCShape DEF AddFinalizer, SetPending
<1>2. /\ model' \in Model /\ model'.exists
      /\ model'.generation = model.generation /\ model'.deleting = model.deleting
      /\ SetPending => model'.finalizer = model.finalizer
  BY <1>1 DEF AddFinalizer, SetPending, Model, Phases
<1>3. SetPending => work' \in Running /\ work'.copy = model' /\ work'.pc = "readKeys"
  BY <1>1, <1>2, PCShape DEF SetPending, Running
<1>4. QED
  BY <1>1, <1>2, <1>3 DEF AddFinalizer, Again

\* updateStatus leaves all but the status alone.
LEMMA StatusShape ==
  ASSUME TypeOK, UpdateStatus
  PROVE  /\ model' \in Model \cup {NoModel}
         /\ model'.exists = model.exists
         /\ model.exists => /\ model'.generation = model.generation
                            /\ model'.deleting = model.deleting
                            /\ model'.finalizer = model.finalizer
         /\ work' = Idle /\ queued' \in BOOLEAN /\ timer' \in BOOLEAN
<1>1. work \in Running
  BY AtShape, PCShape DEF UpdateStatus
<1>2. work' = Idle /\ queued' \in BOOLEAN /\ timer' \in BOOLEAN
  BY AgainShape, DoneShape DEF UpdateStatus
<1>3. CASE modelSeen.exists
  <2>1. model \in Model /\ modelSeen = model /\ work.phase \in Phases
    BY <1>1, <1>3, ModelShape DEF UpdateStatus, TypeOK, Running
  <2>2. model' = [model EXCEPT !.phase = work.phase, !.observed = modelSeen.generation]
    BY <1>3 DEF UpdateStatus
  <2>3. QED
    BY <1>2, <2>1, <2>2 DEF Model
<1>4. CASE ~modelSeen.exists
  BY <1>2, <1>4 DEF UpdateStatus, TypeOK
<1>5. QED
  BY <1>3, <1>4

\* A Reconcile goes on with its copy, from one of some steps to one of others.
Leads(from, to) ==
  /\ work \in Running /\ work.pc \in from
  /\ work' \in Running /\ work' # Idle /\ work'.pc \in to
  /\ work'.copy = work.copy
  /\ queued' = queued /\ timer' = timer

LEMMA GotoLeads ==
  ASSUME TypeOK, NEW from \in PCs, At(from), NEW to \in PCs, Goto(to)
  PROVE  Leads({from}, {to})
BY AtShape, GotoShape DEF At, Leads

LEMMA ApplyLeads ==
  ASSUME TypeOK, NEW o \in Objects, At(o), Goto(Order[o])
  PROVE  Leads(Objects, {"deployment", "epp", "externalRoute", "policy"})
<1>1. o \in PCs /\ Order[o] \in {"deployment", "epp", "externalRoute", "policy"}
  BY OrderShape, PCShape
<1>2. Order[o] \in PCs
  BY <1>1, PCShape DEF Objects, Owned, Optional
<1>3. Leads({o}, {Order[o]})
  BY <1>1, <1>2, GotoLeads
<1>4. QED
  BY <1>1, <1>3 DEF Leads

LEMMA ReadKeysLeads ==
  ASSUME TypeOK, ReadKeys
  PROVE  Leads({"readKeys"}, {"secret"})
<1>1. work \in Running /\ work.pc = "readKeys"
  BY AtShape, PCShape DEF ReadKeys, At
<1>2. secretSeen.ids \in SUBSET ClientIDs
  BY DEF TypeOK, Secret
<1>3. work' \in Running /\ work'.copy = work.copy /\ work'.pc = "secret"
  BY <1>1, <1>2, PCShape DEF ReadKeys, Running
<1>4. work' # Idle
  BY <1>3 DEF Idle
<1>5. QED
  BY <1>1, <1>3, <1>4 DEF ReadKeys, Leads

LEMMA PhaseLeads ==
  ASSUME TypeOK, DeterminePhase
  PROVE  Leads({"phase"}, {"statusEarly", "inferencePool"})
<1>1. work \in Running /\ work.pc = "phase"
  BY AtShape, PCShape DEF DeterminePhase, At
<1>2. PhaseOf(deploymentSeen, downloadingSeen) \in Phases /\ "Error" \in Phases
  BY PhaseShape DEF TypeOK, Phases
<1>3. PICK p \in Phases : InPhase(p)
  BY <1>2 DEF DeterminePhase
<1>4. QED
  BY <1>1, <1>3, InPhaseShape DEF Leads
LEMMA TypeStep == TypeOK /\ [Next]_vars => TypeOK'
<1> SUFFICES ASSUME TypeOK, [Next]_vars PROVE TypeOK'
  OBVIOUS
<1> USE DEF world, aside, caches, queue, counts, Quiet
<1>1. CASE Fetch
  <2>1. modelSeen.exists => modelSeen \in Model
    BY ModelShape DEF TypeOK
  <2>2. work' \in Running \cup {Idle}
    BY <1>1, <2>1, StartShape DEF Fetch, TypeOK
  <2>3. QED
    BY <1>1, <2>2 DEF Fetch, TypeOK
<1>2. CASE AddFinalizer
  BY <1>2, ModelSteps, AgainShape DEF AddFinalizer, TypeOK
<1>3. CASE SetPending
  BY <1>3, ModelSteps DEF SetPending, TypeOK
<1>4. CASE ModelUpdateFails
  BY <1>4, AgainShape, RefusalBound DEF ModelUpdateFails, TypeOK
<1>5. ASSUME NEW o \in Objects, Apply(o) PROVE TypeOK'
  <2>1. work' \in Running /\ queued' = queued /\ timer' = timer
    BY <1>5, ApplyLeads DEF Apply, Leads
  <2>2. QED
    BY <1>5, <2>1 DEF Apply, TypeOK
<1>6. ASSUME NEW o \in Objects, ApplyFails(o) PROVE TypeOK'
  <2>1. work' \in Running \cup {Idle} /\ queued' \in BOOLEAN /\ timer' \in BOOLEAN
    <3>1. CASE Again
      BY <3>1, AgainShape
    <3>2. CASE Goto(Order[o])
      BY <1>6, <3>2, ApplyLeads DEF ApplyFails, Leads, TypeOK
    <3>3. QED
      BY <1>6, <3>1, <3>2 DEF ApplyFails
  <2>2. QED
    BY <1>6, <2>1, FaultBound DEF ApplyFails, TypeOK
<1>7. CASE ReadKeys
  <2>1. work' \in Running /\ queued' = queued /\ timer' = timer
    BY <1>7, ReadKeysLeads DEF Leads
  <2>2. QED
    BY <1>7, <2>1 DEF ReadKeys, TypeOK
<1>8. CASE WriteSecret
  <2>1. work' \in Running /\ queued' = queued /\ timer' = timer
    BY <1>8, GotoLeads, PCShape DEF WriteSecret, Leads
  <2>2. secret' \in Secret
    BY <1>8 DEF WriteSecret, WrittenSecret, EmptySecret, Secret, TypeOK
  <2>3. QED
    BY <1>8, <2>1, <2>2 DEF WriteSecret, TypeOK
<1>9. CASE SecretWriteFails
  BY <1>9, AgainShape, RefusalBound DEF SecretWriteFails, TypeOK
<1>10. CASE CreateDeployment \/ DeleteDeployment \/ UpdateDeployment
  <2>1. work \in Running /\ work' \in Running /\ queued' = queued /\ timer' = timer
    BY <1>10, GotoLeads, PCShape
       DEF CreateDeployment, DeleteDeployment, UpdateDeployment, Leads
  <2>2. work.copy.config \in Configs
    BY <2>1 DEF Running, Model
  <2>3. deployment' \in Deployment \cup {NoDeployment}
    <3>1. NewDeployment \in Deployment
      BY <2>2, PodsStart DEF NewDeployment, Deployment
    <3>2. CASE UpdateDeployment
      <4>1. deployment.exists
        BY <1>10, <3>2, ExistsIsBoolean DEF UpdateDeployment, TypeOK, Deployment,
                                          NoDeployment
      <4>2. deployment \in Deployment
        BY <4>1, DeploymentShape DEF TypeOK
      <4>3. QED
        BY <2>2, <3>2, <4>2 DEF UpdateDeployment, Deployment
    <3>3. QED
      BY <1>10, <3>1, <3>2 DEF CreateDeployment, DeleteDeployment, TypeOK
  <2>4. QED
    BY <1>10, <2>1, <2>3 DEF CreateDeployment, DeleteDeployment, UpdateDeployment, TypeOK
<1>11. CASE DeploymentWriteFails
  BY <1>11, AgainShape, RefusalBound DEF DeploymentWriteFails, TypeOK
<1>12. CASE DeterminePhase
  <2>1. work' \in Running /\ queued' = queued /\ timer' = timer
    BY <1>12, PhaseLeads DEF Leads
  <2>2. faults' \in 0..MaxFaults
    BY <1>12, FaultBound DEF DeterminePhase, TypeOK
  <2>3. QED
    BY <1>12, <2>1, <2>2 DEF DeterminePhase, TypeOK
<1>13. CASE WritePolicy \/ PolicyWriteFails
  <2>1. work \in Running /\ work' \in Running /\ queued' = queued /\ timer' = timer
    BY <1>13, GotoLeads, PCShape DEF WritePolicy, PolicyWriteFails, Leads
  <2>2. policy' \in Policy
    <3>1. Rendered \in Policy
      BY <2>1 DEF Rendered, Policy, Running
    <3>2. QED
      BY <1>13, <3>1 DEF WritePolicy, PolicyWriteFails, TypeOK
  <2>3. faults' \in 0..MaxFaults
    BY <1>13, FaultBound DEF WritePolicy, PolicyWriteFails, TypeOK
  <2>4. QED
    BY <1>13, <2>1, <2>2, <2>3 DEF WritePolicy, PolicyWriteFails, TypeOK
<1>14. CASE UpdateStatus
  BY <1>14, StatusShape DEF UpdateStatus, TypeOK
<1>15. CASE StatusUpdateFails
  BY <1>15, AgainShape, RefusalBound DEF StatusUpdateFails, TypeOK
<1>16. CASE DeleteSecret
  <2>1. work' \in Running /\ queued' = queued /\ timer' = timer
    BY <1>16, GotoLeads, PCShape DEF DeleteSecret, Leads
  <2>2. secret' \in Secret
    BY <1>16 DEF DeleteSecret, Cleared, NoSecret, Secret, TypeOK
  <2>3. QED
    BY <1>16, <2>1, <2>2 DEF DeleteSecret, TypeOK
<1>17. CASE SecretDeleteFails
  BY <1>17, AgainShape, FaultBound DEF SecretDeleteFails, TypeOK
<1>18. CASE RemoveFinalizer
  BY <1>18, DoneShape DEF RemoveFinalizer, Remove, TypeOK
<1>19. CASE SeeModel \/ SeeSecret \/ SeeDeployment \/ SeePods \/ TimerFires \/ Resync
  <2>1. queued' \in BOOLEAN
    BY <1>19, ExistsIsBoolean
       DEF SeeModel, SeeSecret, SeeDeployment, SeePods, TimerFires, Resync, SecretEvent,
           DeploymentEvent, TypeOK
  <2>2. QED
    BY <1>19, <2>1 DEF SeeModel, SeeSecret, SeeDeployment, SeePods, TimerFires, Resync, TypeOK
<1>20. CASE Restart
  <2>1. queued' \in BOOLEAN
    BY <1>20, ExistsIsBoolean DEF Restart, TypeOK
  <2>2. QED
    BY <1>20, <2>1, FaultBound DEF Restart, TypeOK
<1>21. ASSUME NEW c \in Configs, NEW ext \in Externals, CreateModel(c, ext) PROVE TypeOK'
  <2>1. edits' \in 0..MaxEdits /\ edits' \in Generations
    BY <1>21, EditBound DEF CreateModel, TypeOK
  <2>2. 0 \in Generations /\ "" \in Phases
    BY BoundsAreNats DEF Generations, Phases
  <2>3. model' \in Model
    BY <1>21, <2>1, <2>2, KindsOfModel DEF CreateModel, Model
  <2>4. QED
    BY <1>21, <2>1, <2>3 DEF CreateModel, TypeOK
<1>22. ASSUME NEW c \in Configs, NEW ext \in Externals, EditModel(c, ext) PROVE TypeOK'
  <2>1. model \in Model
    BY <1>22, ModelShape DEF EditModel, TypeOK
  <2>2. edits' \in 0..MaxEdits /\ edits' \in Generations
    BY <1>22, EditBound DEF EditModel, TypeOK
  <2>3. model' \in Model
    BY <1>22, <2>1, <2>2, KindsOfModel DEF EditModel, Model
  <2>4. QED
    BY <1>22, <2>2, <2>3 DEF EditModel, TypeOK
<1>23. CASE DeleteModel
  <2>1. model \in Model
    BY <1>23, ModelShape DEF DeleteModel, TypeOK
  <2>2. model' \in Model \cup {NoModel}
    BY <1>23, <2>1 DEF DeleteModel, Remove, Model
  <2>3. edits' \in 0..MaxEdits
    BY <1>23, EditBound DEF DeleteModel, TypeOK
  <2>4. QED
    BY <1>23, <2>2, <2>3 DEF DeleteModel, Remove, TypeOK
<1>24. ASSUME NEW ids \in SUBSET ClientIDs, ChangeKeys(ids) PROVE TypeOK'
  <2>1. secret' \in Secret
    BY <1>24 DEF ChangeKeys, TypeOK, Secret
  <2>2. QED
    BY <1>24, <2>1, EditBound DEF ChangeKeys, TypeOK
<1>25. ASSUME NEW s \in PodStates, PodsChange(s) PROVE TypeOK'
  <2>1. deployment \in Deployment
    BY <1>25, DeploymentShape DEF PodsChange, TypeOK
  <2>2. deployment' \in Deployment
    BY <1>25, <2>1 DEF PodsChange, Deployment
  <2>3. QED
    BY <1>25, <2>2 DEF PodsChange, TypeOK
<1>26. CASE UNCHANGED vars
  BY <1>26 DEF vars, TypeOK
<1>27. CASE DownloadStarts \/ DownloadEnds
  BY <1>27 DEF DownloadStarts, DownloadEnds, TypeOK
<1>28. QED
  BY <1>1, <1>2, <1>3, <1>4, <1>5, <1>6, <1>7, <1>8, <1>9, <1>10, <1>11, <1>12, <1>13, <1>14,
     <1>15, <1>16, <1>17, <1>18, <1>19, <1>20, <1>21, <1>22, <1>23, <1>24, <1>25, <1>26,
     <1>27
     DEF Next, ReconcileStep, WorldStep
(***************************************************************************)
(* The invariant.                                                          *)
(***************************************************************************)
LEMMA InitParts == Init => Parts
<1>1. Init => work.pc \notin Provisioning
  BY ProvisioningShape DEF Init, Idle
<1>2. QED
  BY <1>1 DEF Init, Parts, Ordered, DeletionsLast, SeenTrue, DeletesForNobody, Deleting,
       ProvisionsForSomebody, PodsHaveModel, SeenKept, Kept, Alive, At, NoModel, NoDeployment,
       Idle

\* Generations are numbers, and flags are Boolean.
LEMMA Numbers ==
  ASSUME TypeOK
  PROVE  /\ edits \in Nat
         /\ model.exists \in BOOLEAN /\ modelSeen.exists \in BOOLEAN
         /\ deployment.exists \in BOOLEAN
         /\ model.exists => /\ model.generation \in Nat /\ model.deleting \in BOOLEAN
                            /\ model.finalizer \in BOOLEAN
         /\ modelSeen.exists => /\ modelSeen.generation \in Nat /\ modelSeen.deleting \in BOOLEAN
                                /\ modelSeen.finalizer \in BOOLEAN
         /\ work # Idle => work.copy.generation \in Nat
<1>1. edits \in Nat /\ Generations \subseteq Nat
  BY BoundsAreNats DEF TypeOK, Generations
<1>2. (model.exists => model \in Model) /\ (modelSeen.exists => modelSeen \in Model)
  BY ModelShape DEF TypeOK
<1>3. work # Idle => work.copy \in Model
  BY DEF TypeOK, Running
<1>4. /\ model.exists \in BOOLEAN /\ modelSeen.exists \in BOOLEAN
      /\ deployment.exists \in BOOLEAN
  BY ExistsIsBoolean DEF TypeOK
<1>5. QED
  BY <1>1, <1>2, <1>3, <1>4 DEF Model

\* A step that leaves the model's version and its finalizer alone, and the cache, keeps the
\* invariant, when the Reconcile goes on with its copy, if it goes on at all, and turns
\* neither to provisioning nor to deleting, and pods come only for a model with a finalizer.
SameModel ==
  /\ model'.exists = model.exists
  /\ model.exists => /\ model'.generation = model.generation
                     /\ model'.deleting = model.deleting
                     /\ model'.finalizer = model.finalizer

GoesOn ==
  \/ work' = Idle
  \/ work' = work
  \/ /\ work # Idle /\ work' # Idle /\ work'.copy = work.copy
     /\ work'.pc \in Provisioning => work.pc \in Provisioning
     /\ work'.pc \in {"deleteSecret", "removeFinalizer"} => Deleting

LEMMA Frame ==
  ASSUME TypeOK, Parts, SameModel, modelSeen' = modelSeen, GoesOn,
         edits' = edits \/ edits' = edits + 1,
         deployment'.exists => deployment.exists \/ Finalized
  PROVE  Parts'
<1>1. Ordered'
  BY Numbers DEF Parts, Ordered, SameModel, GoesOn
<1>2. DeletionsLast' /\ SeenTrue'
  BY Numbers DEF Parts, DeletionsLast, SeenTrue, SeenKept, Kept, Alive, Finalized, SameModel
<1>3. (Finalized' <=> Finalized) /\ (Kept' <=> Kept) /\ (SeenKept' <=> SeenKept)
  BY DEF Finalized, Kept, Alive, SeenKept, SameModel
<1>4. DeletesForNobody'
  <2>1. Deleting' => Deleting
    BY DEF GoesOn, Deleting, At, Idle
  <2>2. QED
    BY <1>3, <2>1 DEF Parts, DeletesForNobody
<1>5. ProvisionsForSomebody'
  <2>1. work'.pc \in Provisioning => work.pc \in Provisioning
    BY ProvisioningShape DEF GoesOn, Idle
  <2>2. QED
    BY <1>3, <2>1 DEF Parts, ProvisionsForSomebody
<1>6. PodsHaveModel'
  BY <1>3 DEF Parts, PodsHaveModel
<1>7. QED
  BY <1>1, <1>2, <1>4, <1>5, <1>6 DEF Parts

\* A Reconcile that is led on without turning to something else.
LEMMA LeadsOn ==
  ASSUME NEW from, NEW to, Leads(from, to),
         \/ from \subseteq Provisioning /\ to \cap {"deleteSecret", "removeFinalizer"} = {}
         \/ from \subseteq {"deleteSecret", "removeFinalizer"} /\ to \cap Provisioning = {}
  PROVE  GoesOn
<1>1. work # Idle
  <2>1. "idle" \notin from
    BY ProvisioningShape
  <2>2. QED
    BY <2>1 DEF Leads, Idle
<1>2. QED
  BY <1>1 DEF Leads, GoesOn, Deleting, At

\* The steps of a Reconcile that the frame covers.
LEMMA GoesOnSteps ==
  ASSUME TypeOK, Parts,
         \/ ModelUpdateFails \/ (\E o \in Objects : Apply(o) \/ ApplyFails(o))
         \/ ReadKeys \/ WriteSecret \/ SecretWriteFails
         \/ CreateDeployment \/ DeleteDeployment \/ UpdateDeployment \/ DeploymentWriteFails
         \/ DeterminePhase \/ WritePolicy \/ PolicyWriteFails
         \/ StatusUpdateFails \/ DeleteSecret \/ SecretDeleteFails
  PROVE  /\ GoesOn /\ edits' = edits /\ modelSeen' = modelSeen /\ model' = model
         /\ deployment'.exists => deployment.exists \/ Finalized
<1> USE DEF world, aside, caches, counts, Quiet
<1>1. CASE \/ ModelUpdateFails \/ SecretWriteFails \/ DeploymentWriteFails
           \/ StatusUpdateFails \/ SecretDeleteFails
  BY <1>1 DEF ModelUpdateFails, SecretWriteFails, DeploymentWriteFails, StatusUpdateFails,
              SecretDeleteFails, Again, GoesOn
<1>2. ASSUME NEW o \in Objects, Apply(o) \/ ApplyFails(o)
      PROVE  /\ GoesOn /\ edits' = edits /\ modelSeen' = modelSeen /\ model' = model
             /\ deployment' = deployment
  <2>1. Goto(Order[o]) => GoesOn
    <3>1. Goto(Order[o]) => Leads(Objects, {"deployment", "epp", "externalRoute", "policy"})
      BY <1>2, ApplyLeads DEF Apply, ApplyFails
    <3>2. QED
      BY <3>1, LeadsOn, ProvisioningShape
  <2>2. Again => GoesOn
    BY DEF Again, GoesOn
  <2>3. QED
    BY <1>2, <2>1, <2>2 DEF Apply, ApplyFails
<1>3. CASE ReadKeys
  BY <1>3, ReadKeysLeads, LeadsOn, ProvisioningShape DEF ReadKeys
<1>4. CASE WriteSecret
  <2>1. Leads({"secret"}, {"support"})
    BY <1>4, GotoLeads, PCShape DEF WriteSecret
  <2>2. QED
    BY <1>4, <2>1, LeadsOn, ProvisioningShape DEF WriteSecret
<1>5. CASE CreateDeployment \/ DeleteDeployment \/ UpdateDeployment
  <2>1. Leads({"deployment"}, {"phase"})
    BY <1>5, GotoLeads, PCShape DEF CreateDeployment, DeleteDeployment, UpdateDeployment
  <2>2. GoesOn
    BY <2>1, LeadsOn, ProvisioningShape
  <2>3. Finalized
    BY <2>1, ProvisioningShape DEF Leads, Parts, ProvisionsForSomebody
  <2>4. QED
    BY <1>5, <2>2, <2>3 DEF CreateDeployment, DeleteDeployment, UpdateDeployment
<1>6. CASE DeterminePhase
  BY <1>6, PhaseLeads, LeadsOn, ProvisioningShape DEF DeterminePhase
<1>7. CASE WritePolicy \/ PolicyWriteFails
  <2>1. Leads({"policy"}, {"status"})
    BY <1>7, GotoLeads, PCShape DEF WritePolicy, PolicyWriteFails
  <2>2. QED
    BY <1>7, <2>1, LeadsOn, ProvisioningShape DEF WritePolicy, PolicyWriteFails
<1>8. CASE DeleteSecret
  <2>1. Leads({"deleteSecret"}, {"removeFinalizer"})
    BY <1>8, GotoLeads, PCShape DEF DeleteSecret
  <2>2. QED
    BY <1>8, <2>1, LeadsOn, ProvisioningShape DEF DeleteSecret
<1>9. QED
  BY <1>1, <1>2, <1>3, <1>4, <1>5, <1>6, <1>7, <1>8
LEMMA PartsStep == TypeOK /\ Parts /\ [Next]_vars => Parts'
<1> SUFFICES ASSUME TypeOK, Parts, [Next]_vars PROVE Parts'
  OBVIOUS
<1> USE DEF world, aside, caches, queue, counts, Quiet
<1>1. CASE Fetch
  <2>1. /\ model' = model /\ modelSeen' = modelSeen /\ edits' = edits
        /\ deployment' = deployment
    BY <1>1 DEF Fetch
  <2>2. CASE modelSeen.exists /\ (modelSeen.deleting => modelSeen.finalizer)
    <3>1. modelSeen \in Model /\ work' = Start(modelSeen)
      BY <1>1, <2>2, ModelShape DEF Fetch, TypeOK
    <3>2. /\ work' # Idle /\ work'.copy = modelSeen
          /\ work'.pc \in {"deleteSecret", "addFinalizer", "setPending", "readKeys"}
          /\ work'.pc = "deleteSecret" <=> modelSeen.deleting
          /\ work'.pc \in {"setPending", "readKeys"}
               => modelSeen.finalizer /\ ~modelSeen.deleting
      BY <3>1, StartShape
    <3>3. Ordered'
      BY <2>1, <2>2, <3>2, Numbers DEF Parts, Ordered
    <3>4. DeletesForNobody'
      BY <2>1, <2>2, <3>2
         DEF DeletesForNobody, Deleting, At, Parts, SeenTrue, SeenKept, Kept, Alive
    <3>5. ProvisionsForSomebody'
      <4>1. work'.pc \in Provisioning => work'.pc \in {"setPending", "readKeys"}
        BY <3>2, ProvisioningShape
      <4>2. QED
        BY <2>1, <2>2, <3>2, <4>1
           DEF ProvisionsForSomebody, Parts, SeenTrue, SeenKept, Finalized
    <3>6. DeletionsLast' /\ SeenTrue' /\ PodsHaveModel'
      BY <2>1 DEF Parts, DeletionsLast, SeenTrue, SeenKept, Kept, Alive, Finalized, PodsHaveModel
    <3>7. QED
      BY <3>3, <3>4, <3>5, <3>6 DEF Parts
  <2>3. CASE ~(modelSeen.exists /\ (modelSeen.deleting => modelSeen.finalizer))
    <3>1. work' = work
      BY <1>1, <2>3 DEF Fetch
    <3>2. QED
      BY <2>1, <3>1, Frame DEF SameModel, GoesOn
  <2>4. QED
    BY <2>2, <2>3
<1>2. CASE AddFinalizer
  <2>1. /\ work # Idle /\ work.copy = model /\ model.exists /\ model'.exists
        /\ model'.generation = model.generation /\ model'.deleting = model.deleting
        /\ work' = Idle
    BY <1>2, ModelSteps
  <2>2. modelSeen' = modelSeen /\ edits' = edits /\ deployment' = deployment
    BY <1>2 DEF AddFinalizer
  <2>3. model'.finalizer
    BY <1>2, ModelSteps DEF AddFinalizer, Model
  <2>4. modelSeen.exists => modelSeen.generation = model.generation
    BY <2>1, Numbers DEF Parts, Ordered
  <2>5. SeenTrue'
    BY <2>1, <2>2, <2>3, <2>4
       DEF Parts, SeenTrue, SeenKept, Kept, Alive, Finalized, DeletionsLast
  <2>6. Ordered' /\ DeletionsLast' /\ DeletesForNobody' /\ PodsHaveModel'
    BY <2>1, <2>2, <2>3 DEF Parts, Ordered, DeletionsLast, DeletesForNobody, Deleting, At, Idle,
                            PodsHaveModel, Finalized
  <2>7. ProvisionsForSomebody'
    BY <2>1, <2>3 DEF ProvisionsForSomebody, Finalized
  <2>8. QED
    BY <2>5, <2>6, <2>7 DEF Parts
<1>3. CASE SetPending
  <2>1. /\ work # Idle /\ work.copy = model /\ model.exists /\ model'.exists
        /\ model'.generation = model.generation /\ model'.deleting = model.deleting
        /\ model'.finalizer = model.finalizer
        /\ work'.copy = model' /\ work'.pc = "readKeys"
    BY <1>3, ModelSteps
  <2>2. modelSeen' = modelSeen /\ edits' = edits /\ deployment' = deployment
    BY <1>3 DEF SetPending
  <2>3. Finalized
    BY <1>3, ProvisioningShape DEF SetPending, At, Parts, ProvisionsForSomebody
  <2>4. Ordered'
    BY <2>1, <2>2 DEF Parts, Ordered
  <2>5. DeletionsLast' /\ SeenTrue' /\ PodsHaveModel'
    BY <2>1, <2>2 DEF Parts, DeletionsLast, SeenTrue, SeenKept, Kept, Alive, Finalized,
                      PodsHaveModel
  <2>6. DeletesForNobody' /\ ProvisionsForSomebody'
    BY <2>1, <2>3 DEF DeletesForNobody, Deleting, At, ProvisionsForSomebody, Finalized
  <2>7. QED
    BY <2>4, <2>5, <2>6 DEF Parts
<1>4. CASE \/ ModelUpdateFails \/ (\E o \in Objects : Apply(o) \/ ApplyFails(o))
           \/ ReadKeys \/ WriteSecret \/ SecretWriteFails
           \/ CreateDeployment \/ DeleteDeployment \/ UpdateDeployment \/ DeploymentWriteFails
           \/ DeterminePhase \/ WritePolicy \/ PolicyWriteFails
           \/ StatusUpdateFails \/ DeleteSecret \/ SecretDeleteFails
  BY <1>4, GoesOnSteps, Frame DEF SameModel
<1>5. CASE UpdateStatus
  <2>1. SameModel /\ work' = Idle
    BY <1>5, StatusShape DEF SameModel
  <2>2. modelSeen' = modelSeen /\ edits' = edits /\ deployment' = deployment
    BY <1>5 DEF UpdateStatus
  <2>3. QED
    BY <2>1, <2>2, Frame DEF GoesOn
<1>6. CASE RemoveFinalizer
  <2>1. /\ ~model'.exists /\ ~deployment'.exists /\ work' = Idle
        /\ modelSeen' = modelSeen /\ edits' = edits
    BY <1>6 DEF RemoveFinalizer, Remove, Done, NoModel, NoDeployment
  <2>2. ~SeenKept
    BY <1>6 DEF RemoveFinalizer, Parts, DeletesForNobody, Deleting
  <2>3. work'.pc \notin Provisioning
    BY <2>1, ProvisioningShape DEF Idle
  <2>4. QED
    BY <2>1, <2>2, <2>3
       DEF Parts, Ordered, DeletionsLast, SeenTrue, SeenKept, Kept, Alive, DeletesForNobody,
           Deleting, At, Idle, ProvisionsForSomebody, PodsHaveModel
<1>7. CASE SeeModel
  <2>1. /\ modelSeen' = model /\ model' = model /\ work' = work /\ edits' = edits
        /\ deployment' = deployment
    BY <1>7 DEF SeeModel
  <2>2. Ordered'
    BY <2>1, Numbers DEF Parts, Ordered
  <2>3. QED
    BY <2>1, <2>2
       DEF Parts, DeletionsLast, SeenTrue, SeenKept, Kept, Alive, Finalized, DeletesForNobody,
           Deleting, At, ProvisionsForSomebody, PodsHaveModel
<1>8. ASSUME NEW c \in Configs, NEW ext \in Externals, CreateModel(c, ext) PROVE Parts'
  <2>1. /\ ~model.exists /\ model'.exists /\ model'.generation = edits + 1
        /\ ~model'.finalizer
        /\ modelSeen' = modelSeen /\ work' = work /\ edits' = edits + 1
        /\ deployment' = deployment
    BY <1>8 DEF CreateModel, Edit
  <2>2. Ordered' /\ DeletionsLast'
    BY <2>1, Numbers DEF Parts, Ordered, DeletionsLast
  <2>3. QED
    BY <2>1, <2>2
       DEF Parts, SeenTrue, SeenKept, Kept, Finalized, DeletesForNobody, Deleting, At,
           ProvisionsForSomebody, PodsHaveModel
<1>9. ASSUME NEW c \in Configs, NEW ext \in Externals, EditModel(c, ext) PROVE Parts'
  <2>1. model \in Model /\ model.exists
    BY <1>9, ModelShape DEF EditModel, TypeOK
  <2>2. /\ model'.exists /\ model'.generation = edits + 1
        /\ model'.deleting = model.deleting /\ model'.finalizer = model.finalizer
        /\ modelSeen' = modelSeen /\ work' = work /\ edits' = edits + 1
        /\ deployment' = deployment
    BY <1>9, <2>1 DEF EditModel, Edit, Model
  <2>3. Ordered' /\ DeletionsLast'
    BY <2>1, <2>2, Numbers DEF Parts, Ordered, DeletionsLast
  <2>4. QED
    BY <2>1, <2>2, <2>3
       DEF Parts, SeenTrue, SeenKept, Kept, Alive, Finalized, DeletesForNobody, Deleting, At,
           ProvisionsForSomebody, PodsHaveModel
<1>10. CASE DeleteModel
  <2>1. model \in Model /\ model.exists /\ ~model.deleting
    BY <1>10, ModelShape DEF DeleteModel, TypeOK
  <2>2. modelSeen' = modelSeen /\ work' = work /\ edits' = edits + 1
    BY <1>10 DEF DeleteModel, Edit
  <2>3. CASE model.finalizer
    <3>1. /\ model'.exists /\ model'.generation = model.generation
          /\ model'.deleting /\ model'.finalizer /\ deployment' = deployment
      BY <1>10, <2>1, <2>3 DEF DeleteModel, Model
    <3>2. Ordered'
      BY <2>1, <2>2, <3>1, Numbers DEF Parts, Ordered
    <3>3. QED
      BY <2>1, <2>2, <2>3, <3>1, <3>2
         DEF Parts, DeletionsLast, SeenTrue, SeenKept, Kept, Alive, Finalized, DeletesForNobody,
             Deleting, At, ProvisionsForSomebody, PodsHaveModel
  <2>4. CASE ~model.finalizer
    <3>1. ~model'.exists /\ ~deployment'.exists
      BY <1>10, <2>4 DEF DeleteModel, Remove, NoModel, NoDeployment
    <3>2. Ordered'
      BY <2>2, <3>1, Numbers DEF Parts, Ordered
    <3>3. QED
      BY <2>2, <2>4, <3>1, <3>2
         DEF Parts, DeletionsLast, SeenTrue, SeenKept, Kept, Alive, Finalized, DeletesForNobody,
             Deleting, At, ProvisionsForSomebody, PodsHaveModel
  <2>5. QED
    BY <2>3, <2>4
<1>11. CASE Restart
  <2>1. /\ modelSeen' = model /\ model' = model /\ work' = Idle /\ edits' = edits
        /\ deployment' = deployment
    BY <1>11 DEF Restart
  <2>2. Ordered'
    BY <2>1, Numbers DEF Parts, Ordered
  <2>3. work'.pc \notin Provisioning /\ ~Deleting'
    BY <2>1, ProvisioningShape DEF Idle, Deleting, At
  <2>4. QED
    BY <2>1, <2>2, <2>3
       DEF Parts, DeletionsLast, SeenTrue, SeenKept, Kept, Alive, Finalized, DeletesForNobody,
           ProvisionsForSomebody, PodsHaveModel
<1>12. ASSUME \/ SeeSecret \/ SeeDeployment \/ SeePods \/ TimerFires \/ Resync
              \/ UNCHANGED vars \/ DownloadStarts \/ DownloadEnds
              \/ \E ids \in SUBSET ClientIDs : ChangeKeys(ids)
              \/ \E s \in PodStates : PodsChange(s)
       PROVE  Parts'
  <2>1. /\ model' = model /\ modelSeen' = modelSeen /\ work' = work
        /\ edits' = edits \/ edits' = edits + 1
        /\ deployment'.exists => deployment.exists
    BY <1>12 DEF SeeSecret, SeeDeployment, SeePods, TimerFires, Resync, ChangeKeys, PodsChange,
       DownloadStarts, DownloadEnds, Edit, vars
  <2>2. QED
    BY <2>1, Frame DEF SameModel, GoesOn
<1>13. QED
  BY <1>1, <1>2, <1>3, <1>4, <1>5, <1>6, <1>7, <1>8, <1>9, <1>10, <1>11, <1>12
     DEF Next, ReconcileStep, WorldStep
(***************************************************************************)
(* What steps do.                                                          *)
(***************************************************************************)

\* Nothing is provisioned without a model that has its finalizer.
LEMMA WritesStep ==
  ASSUME TypeOK, Parts, [Next]_vars, ~model.exists
  PROVE  /\ UNCHANGED <<deployment, policy, objects>>
         /\ secret' # secret /\ edits' = edits => ~secret'.exists
<1> USE DEF world, aside, caches, queue, counts, Quiet
<1>1. work.pc \notin Provisioning
  BY DEF Parts, ProvisionsForSomebody, Finalized
<1>2. /\ \A o \in Objects : ~Apply(o)
      /\ ~WriteSecret /\ ~CreateDeployment /\ ~DeleteDeployment /\ ~UpdateDeployment
      /\ ~WritePolicy
  BY <1>1, ProvisioningShape
     DEF Apply, WriteSecret, CreateDeployment, DeleteDeployment, UpdateDeployment, WritePolicy, At
<1>3. ~RemoveFinalizer
  BY AtShape, PCShape DEF RemoveFinalizer
<1>4. \A s \in PodStates : ~PodsChange(s)
  BY DEF PodsChange, Parts, PodsHaveModel, Finalized
<1>5. ASSUME NEW ids \in SUBSET ClientIDs, ChangeKeys(ids)
      PROVE  UNCHANGED <<deployment, policy, objects>> /\ edits' # edits
  <2>1. edits \in Nat
    BY Numbers
  <2>2. QED
    BY <1>5, <2>1 DEF ChangeKeys, Edit
<1>6. CASE DeleteSecret
  BY <1>6 DEF DeleteSecret, Cleared, NoSecret
<1>7. QED
  BY <1>2, <1>3, <1>4, <1>5, <1>6
     DEF Next, ReconcileStep, WorldStep, vars, Fetch, AddFinalizer, SetPending,
         ModelUpdateFails, ApplyFails, ReadKeys, SecretWriteFails, DeploymentWriteFails,
         DeterminePhase, PolicyWriteFails, UpdateStatus, StatusUpdateFails, SecretDeleteFails,
         SeeModel, SeeSecret, SeeDeployment, SeePods, TimerFires, Resync, Restart, CreateModel,
         EditModel, DeleteModel, DownloadStarts, DownloadEnds

\* A step that touches existing keys is one of users, or deletes them for nobody who lives.
LEMMA KeysStep ==
  ASSUME TypeOK, Parts, [Next]_vars, secret.exists, secret' # secret, edits' = edits
  PROVE  ~secret'.exists /\ ~Kept
<1> USE DEF world, aside, caches, queue, counts, Quiet
<1>1. edits' # edits + 1
  BY Numbers
<1>2. WriteSecret \/ DeleteSecret
  BY <1>1
     DEF Next, ReconcileStep, WorldStep, vars, Fetch, AddFinalizer, SetPending,
         ModelUpdateFails, Apply, ApplyFails, ReadKeys, SecretWriteFails, CreateDeployment,
         DeleteDeployment, UpdateDeployment, DeploymentWriteFails, DeterminePhase, WritePolicy,
         PolicyWriteFails, UpdateStatus, StatusUpdateFails, SecretDeleteFails, RemoveFinalizer,
         SeeModel, SeeSecret, SeeDeployment, SeePods, TimerFires, Resync, Restart, CreateModel,
         EditModel, DeleteModel, ChangeKeys, PodsChange, DownloadStarts, DownloadEnds, Edit
<1>3. ~WriteSecret
  BY DEF WriteSecret, SecretAccepts, WrittenSecret
<1>4. secret' = NoSecret /\ Deleting
  BY <1>2, <1>3 DEF DeleteSecret, Cleared, Deleting
<1>5. QED
  BY <1>4 DEF NoSecret, Parts, DeletesForNobody

\* A Deployment keeps its configuration for as long as it is there.
LEMMA ConfigStep ==
  ASSUME TypeOK, [Next]_vars, deployment.exists, deployment'.exists
  PROVE  deployment'.config = deployment.config
<1> USE DEF world, aside, caches, queue, counts, Quiet
<1>1. deployment \in Deployment
  BY DeploymentShape DEF TypeOK
<1>2. ~NoDeployment.exists
  BY DEF NoDeployment
<1>3. CASE UpdateDeployment
  BY <1>1, <1>3 DEF UpdateDeployment, NeedsRedeploy, Deployment
<1>4. ASSUME NEW s \in PodStates, PodsChange(s) PROVE deployment'.config = deployment.config
  BY <1>1, <1>4 DEF PodsChange, Deployment
<1>5. CASE CreateDeployment \/ DeleteDeployment
  BY <1>2, <1>5 DEF CreateDeployment, DeleteDeployment
<1>6. CASE RemoveFinalizer \/ DeleteModel
  BY <1>2, <1>6 DEF RemoveFinalizer, DeleteModel, Remove
<1>7. QED
  BY <1>3, <1>4, <1>5, <1>6
     DEF Next, ReconcileStep, WorldStep, vars, Fetch, AddFinalizer, SetPending,
         ModelUpdateFails, Apply, ApplyFails, ReadKeys, WriteSecret, SecretWriteFails,
         DeploymentWriteFails, DeterminePhase, WritePolicy, PolicyWriteFails, UpdateStatus,
         StatusUpdateFails, DeleteSecret, SecretDeleteFails, SeeModel, SeeSecret, SeeDeployment,
         SeePods, TimerFires, Resync, Restart, CreateModel, EditModel, ChangeKeys,
         DownloadStarts, DownloadEnds

\* Keys appear under a finalizer, and are gone before it is taken off, or were not seen.
LEMMA ClearedStep ==
  ASSUME TypeOK, Parts, KeysCleared, [Next]_vars
  PROVE  KeysCleared'
<1> USE DEF world, aside, caches, queue, counts, Quiet
<1>2. CASE WriteSecret
  <2>1. Leads({"secret"}, {"support"})
    BY <1>2, GotoLeads, PCShape DEF WriteSecret
  <2>2. Finalized /\ model' = model
    BY <1>2, <2>1, ProvisioningShape DEF WriteSecret, Leads, Parts, ProvisionsForSomebody
  <2>3. QED
    BY <2>1, <2>2 DEF KeysCleared, OrphansWereUnseen, Finalized, Leads, At
<1>3. CASE DeleteSecret
  <2>1. ~secret'.exists \/ unseen'
    <3>1. CASE secretSeen.exists
      BY <1>3, <3>1 DEF DeleteSecret, Cleared, NoSecret
    <3>2. CASE ~secretSeen.exists
      BY <1>3, <3>2 DEF DeleteSecret, Cleared
    <3>3. QED
      BY <3>1, <3>2
  <2>2. QED
    BY <2>1 DEF KeysCleared, OrphansWereUnseen
<1>4. CASE RemoveFinalizer
  <2>1. /\ ~secret.exists \/ unseen
        /\ secret' = secret /\ unseen' = unseen
    BY <1>4 DEF RemoveFinalizer, KeysCleared
  <2>2. QED
    BY <2>1 DEF KeysCleared, OrphansWereUnseen
<1>5. ASSUME NEW ids \in SUBSET ClientIDs, ChangeKeys(ids) PROVE KeysCleared'
  BY <1>5 DEF ChangeKeys, KeysCleared, OrphansWereUnseen, At
<1>6. ASSUME secret' = secret, unseen' = unseen,
             secret.exists => (model'.exists /\ model'.finalizer) \/ unseen,
             work'.pc = "removeFinalizer" => At("removeFinalizer")
      PROVE  KeysCleared'
  BY <1>6 DEF KeysCleared, OrphansWereUnseen, At
<1>7. CASE Fetch
  <2>1. work'.pc = "removeFinalizer" => At("removeFinalizer")
    <3>1. CASE work' = work
      BY <3>1 DEF At
    <3>2. CASE work' = Start(modelSeen)
      BY <3>2 DEF Start
    <3>3. QED
      BY <1>7, <3>1, <3>2 DEF Fetch
  <2>2. QED
    BY <1>6, <1>7, <2>1 DEF Fetch, KeysCleared, OrphansWereUnseen
<1>8. CASE AddFinalizer \/ SetPending
  <2>1. secret' = secret /\ unseen' = unseen /\ (model.finalizer => model'.finalizer) /\ model'.exists
    <3>1. model \in Model /\ model'.exists
      BY <1>8, ModelSteps
    <3>2. QED
      BY <1>8, <3>1 DEF AddFinalizer, SetPending, Model
  <2>2. work'.pc # "removeFinalizer"
    BY <1>8, ModelSteps DEF Idle
  <2>3. QED
    BY <1>6, <2>1, <2>2 DEF KeysCleared, OrphansWereUnseen
<1>9. ASSUME NEW o \in Objects, Apply(o) \/ ApplyFails(o) PROVE KeysCleared'
  <2>1. Goto(Order[o]) => work'.pc # "removeFinalizer"
    BY <1>9, ApplyLeads DEF Apply, ApplyFails, Leads
  <2>2. QED
    BY <1>6, <1>9, <2>1 DEF Apply, ApplyFails, Again, Idle, KeysCleared, OrphansWereUnseen
<1>10. CASE CreateDeployment \/ DeleteDeployment \/ UpdateDeployment
  <2>1. work'.pc = "phase"
    BY <1>10, GotoLeads, PCShape DEF CreateDeployment, DeleteDeployment, UpdateDeployment, Leads
  <2>2. QED
    BY <1>6, <1>10, <2>1 DEF CreateDeployment, DeleteDeployment, UpdateDeployment, KeysCleared,
                             OrphansWereUnseen
<1>11. CASE ReadKeys \/ DeterminePhase
  <2>1. work'.pc # "removeFinalizer"
    BY <1>11, ReadKeysLeads, PhaseLeads DEF Leads
  <2>2. QED
    BY <1>6, <1>11, <2>1 DEF ReadKeys, DeterminePhase, KeysCleared, OrphansWereUnseen
<1>12. CASE WritePolicy \/ PolicyWriteFails
  <2>1. work'.pc = "status"
    BY <1>12, GotoLeads, PCShape DEF WritePolicy, PolicyWriteFails, Leads
  <2>2. QED
    BY <1>6, <1>12, <2>1 DEF WritePolicy, PolicyWriteFails, KeysCleared, OrphansWereUnseen
<1>13. CASE UpdateStatus
  BY <1>6, <1>13, StatusShape DEF UpdateStatus, Idle, KeysCleared, OrphansWereUnseen
<1>14. CASE \/ ModelUpdateFails \/ SecretWriteFails \/ DeploymentWriteFails
            \/ StatusUpdateFails \/ SecretDeleteFails \/ Restart
  BY <1>6, <1>14 DEF ModelUpdateFails, SecretWriteFails, DeploymentWriteFails, Restart,
     StatusUpdateFails, SecretDeleteFails, Again, Idle, KeysCleared, OrphansWereUnseen
<1>15. ASSUME NEW c \in Configs, NEW ext \in Externals, CreateModel(c, ext) \/ EditModel(c, ext)
       PROVE  KeysCleared'
  <2>1. secret' = secret /\ unseen' = unseen /\ work' = work
    BY <1>15 DEF CreateModel, EditModel
  <2>2. secret.exists => (model'.exists /\ model'.finalizer) \/ unseen
    <3>1. SUFFICES ASSUME secret.exists, ~unseen PROVE model'.exists /\ model'.finalizer
      OBVIOUS
    <3>2. model.exists /\ model.finalizer /\ model \in Model
      BY <3>1, ModelShape DEF KeysCleared, OrphansWereUnseen, TypeOK
    <3>3. QED
      BY <1>15, <3>2 DEF CreateModel, EditModel, Model
  <2>3. QED
    BY <1>6, <2>1, <2>2 DEF At
<1>16. CASE DeleteModel
  <2>1. secret' = secret /\ unseen' = unseen /\ work' = work
    BY <1>16 DEF DeleteModel
  <2>2. secret.exists => (model'.exists /\ model'.finalizer) \/ unseen
    <3>1. SUFFICES ASSUME secret.exists, ~unseen PROVE model'.exists /\ model'.finalizer
      OBVIOUS
    <3>2. model.exists /\ model.finalizer /\ model \in Model
      BY <3>1, ModelShape DEF KeysCleared, OrphansWereUnseen, TypeOK
    <3>3. QED
      BY <1>16, <3>2 DEF DeleteModel, Model
  <2>3. QED
    BY <1>6, <2>1, <2>2 DEF At
<1>17. ASSUME \/ SeeModel \/ SeeSecret \/ SeeDeployment \/ SeePods \/ TimerFires \/ Resync
              \/ UNCHANGED vars \/ DownloadStarts \/ DownloadEnds
              \/ \E s \in PodStates : PodsChange(s)
       PROVE  KeysCleared'
  <2>1. secret' = secret /\ unseen' = unseen /\ model' = model /\ work' = work
    BY <1>17 DEF SeeModel, SeeSecret, SeeDeployment, SeePods, TimerFires, Resync, vars,
       PodsChange, DownloadStarts, DownloadEnds
  <2>2. QED
    BY <1>6, <2>1 DEF At, KeysCleared, OrphansWereUnseen
<1>18. QED
  BY <1>2, <1>3, <1>4, <1>5, <1>7, <1>8, <1>9, <1>10, <1>11, <1>12, <1>13, <1>14, <1>15, <1>16,
     <1>17 DEF Next, ReconcileStep, WorldStep
(***************************************************************************)
(* What is settled.  Whoever sees a change queues the model, so that a     *)
(* Reconcile during which nothing is queued works on what the caches show, *)
(* to its end; it leaves pods of the model's configuration behind, or the  *)
(* Deployment's event still to come, and the phase it has seen, or a timer *)
(* while that phase can change without an event.                           *)
(***************************************************************************)

\* The cache shows the version of the model that is there.
Current == model.exists /\ modelSeen.exists /\ modelSeen.generation = model.generation

\* Before the keys are read; after the Deployment is written; after the phase is one to stay.
Early == {"addFinalizer", "setPending", "readKeys"}
Lasting == {"inferencePool", "epp", "externalRoute", "policy", "status"}
Late == Lasting \cup {"phase", "statusEarly"}

\* While nothing is queued, a Reconcile works on what the caches show.
WorkIsFresh ==
  work # Idle /\ ~Deleting /\ ~queued =>
    /\ modelSeen.exists /\ modelSeen.generation = work.copy.generation
    /\ modelSeen.config = work.copy.config /\ modelSeen.external = work.copy.external

\* The last Reconcile left no timer behind.
AtRest == work = Idle /\ ~timer
Unmoved == ~queued /\ Current /\ ~modelSeen.deleting

\* The pods run the configuration, or an event of the Deployment is still to come.
PodsAreRight ==
  (work.pc \in Late \/ AtRest) /\ Unmoved =>
    \/ deployment.exists # deploymentSeen.exists
    \/ /\ deployment.exists /\ deployment.config = modelSeen.config
       /\ deploymentSeen.exists /\ deploymentSeen.config = modelSeen.config

\* A phase that no timer follows is what the Deployment that is seen records of its pods, or
\* the look at the pods failed.
Tells(p) ==
  \/ p = "Error"
  \/ p = PhaseOf(deploymentSeen, FALSE) /\ p \notin {"Downloading", "Starting"}

PhaseIsRight == work.pc \in Lasting /\ ~queued => Tells(work.phase)
StatusIsRight == AtRest /\ Unmoved => Tells(model.phase) /\ model.observed = model.generation

SettledParts == WorkIsFresh /\ PodsAreRight /\ PhaseIsRight /\ StatusIsRight

\* The policy admits the keys that are seen, or its last write failed.
IdsAreFresh ==
  work # Idle /\ ~Deleting /\ work.pc \notin Early /\ ~queued => work.ids = secretSeen.ids

PolicyIsRight ==
  /\ At("status") /\ work.copy.external => policy = Rendered \/ unwritten
  /\ AtRest /\ Unmoved /\ modelSeen.external =>
       policy = [exists |-> TRUE, allowed |-> secretSeen.ids] \/ unwritten

LEMMA InitSettled == Init => SettledParts /\ IdsAreFresh /\ PolicyIsRight
BY DEF Init, SettledParts, WorkIsFresh, PodsAreRight, PhaseIsRight, StatusIsRight, IdsAreFresh,
       PolicyIsRight, Unmoved, Current, Late, Lasting, Idle, At, NoModel

(***************************************************************************)
(* The kinds of steps.                                                     *)
(***************************************************************************)

\* The steps that neither start a Reconcile nor take it further.
WorkStays ==
  \/ SeeModel \/ SeeSecret \/ SeeDeployment \/ SeePods \/ TimerFires \/ Resync
  \/ WorldStep
  \/ UNCHANGED vars

\* The steps that end one and have it come again.
WorkFails ==
  \/ AddFinalizer \/ ModelUpdateFails \/ (\E o \in Objects : ApplyFails(o) /\ Again)
  \/ SecretWriteFails \/ DeploymentWriteFails \/ StatusUpdateFails \/ SecretDeleteFails

\* The steps that take one further on the copy it has.
Onward ==
  \/ ReadKeys \/ WriteSecret
  \/ \E o \in Objects : (Apply(o) \/ ApplyFails(o)) /\ Goto(Order[o])
  \/ CreateDeployment \/ DeleteDeployment \/ UpdateDeployment
  \/ DeterminePhase \/ WritePolicy \/ PolicyWriteFails \/ DeleteSecret

LEMMA KindsOfSteps ==
  ASSUME [Next]_vars
  PROVE  \/ Fetch \/ SetPending \/ Onward \/ WorkFails \/ UpdateStatus \/ RemoveFinalizer
         \/ Restart \/ WorkStays
<1>1. ASSUME NEW o \in Objects, Apply(o) \/ ApplyFails(o) PROVE Onward \/ WorkFails
  BY <1>1 DEF Apply, ApplyFails, Onward, WorkFails
<1>2. QED
  BY <1>1 DEF Next, ReconcileStep, WorkStays, WorkFails, Onward

LEMMA EndsAndStays ==
  /\ WorkFails => work' = Idle /\ timer'
  /\ UpdateStatus \/ RemoveFinalizer \/ Restart => work' = Idle
  /\ WorkStays => work' = work
<1>1. WorkFails => work' = Idle /\ timer'
  BY DEF WorkFails, AddFinalizer, ModelUpdateFails, SecretWriteFails, DeploymentWriteFails,
     StatusUpdateFails, SecretDeleteFails, Again
<1>2. UpdateStatus \/ RemoveFinalizer \/ Restart => work' = Idle
  BY DEF UpdateStatus, RemoveFinalizer, Restart, Again, Done
<1>3. WorkStays => work' = work
  BY DEF WorkStays, WorldStep, SeeModel, SeeSecret, SeeDeployment, SeePods, TimerFires, Resync,
     CreateModel, EditModel, DeleteModel, ChangeKeys, PodsChange, DownloadStarts, DownloadEnds,
     vars, queue
<1>4. QED
  BY <1>1, <1>2, <1>3

\* The order of the steps.
Arc(a, b) ==
  \/ a = "readKeys" /\ b = "secret"
  \/ a = "secret" /\ b = "support"
  \/ a = "support" /\ b = "deployment"
  \/ a = "deployment" /\ b = "phase"
  \/ a = "phase" /\ b \in {"statusEarly", "inferencePool"}
  \/ a = "inferencePool" /\ b = "epp"
  \/ a = "epp" /\ b = "externalRoute"
  \/ a = "externalRoute" /\ b = "policy"
  \/ a = "policy" /\ b = "status"
  \/ a = "deleteSecret" /\ b = "removeFinalizer"

\* One step on: from pc to pc, with the copy, and with all it has read but what it reads.
Further ==
  /\ work \in Running /\ work # Idle /\ work' # Idle
  /\ Arc(work.pc, work'.pc)
  /\ work'.copy = work.copy
  /\ work'.ids = IF work.pc = "readKeys" THEN secretSeen.ids ELSE work.ids
  /\ work.pc # "phase" => work'.phase = work.phase
  /\ queued' = queued /\ timer' = timer

LEMMA GotoFurther ==
  ASSUME TypeOK, NEW from \in PCs, At(from), from \notin {"readKeys", "phase"},
         NEW to \in PCs, Goto(to), Arc(from, to)
  PROVE  Further
<1>1. work \in Running /\ work # Idle /\ work.pc = from
  BY AtShape DEF At
<1>2. work' # Idle
  BY GotoShape, <1>1
<1>3. QED
  BY <1>1, <1>2 DEF Goto, Running, Further

LEMMA OnwardStep ==
  ASSUME TypeOK, Onward
  PROVE  /\ Further
         /\ UNCHANGED <<model, caches, edits>>
         /\ work.pc # "deployment" => deployment' = deployment
         /\ work.pc # "policy" => policy' = policy /\ unwritten' = unwritten
         /\ work.pc = "phase" => work'.pc = "statusEarly" \/ Tells(work'.phase)
<1> USE DEF world, aside, caches, counts, Quiet
<1>1. CASE ReadKeys
  <2>1. work \in Running /\ work # Idle /\ work.pc = "readKeys"
    BY <1>1, AtShape, PCShape DEF ReadKeys, At
  <2>2. work' # Idle
    BY <1>1, ReadKeysLeads DEF Leads
  <2>3. Further
    BY <1>1, <2>1, <2>2 DEF ReadKeys, Running, Further, Arc
  <2>4. QED
    BY <1>1, <2>1, <2>3 DEF ReadKeys
<1>2. CASE WriteSecret \/ DeleteSecret
  <2>1. Further
    BY <1>2, GotoFurther, PCShape DEF WriteSecret, DeleteSecret, Arc
  <2>2. work.pc # "phase"
    BY <1>2 DEF WriteSecret, DeleteSecret, At
  <2>3. QED
    BY <1>2, <2>1, <2>2 DEF WriteSecret, DeleteSecret
<1>3. ASSUME NEW o \in Objects, Apply(o) \/ ApplyFails(o), Goto(Order[o])
      PROVE  /\ Further
             /\ UNCHANGED <<model, caches, edits, deployment, policy, unwritten>>
             /\ work.pc # "phase"
  <2>1. o = "support" \/ o = "epp" \/ o = "inferencePool" \/ o = "externalRoute"
    BY DEF Objects, Owned, Optional
  <2>2. o \in PCs /\ Order[o] \in PCs /\ o \notin {"readKeys", "phase"}
    BY <2>1, OrderShape, PCShape DEF Objects, Owned, Optional
  <2>3. Arc(o, Order[o])
    BY <2>1 DEF Order, Arc
  <2>4. At(o)
    BY <1>3 DEF Apply, ApplyFails
  <2>5. Further
    BY <1>3, <2>2, <2>3, <2>4, GotoFurther
  <2>6. QED
    BY <1>3, <2>2, <2>4, <2>5 DEF Apply, ApplyFails, At
<1>4. CASE CreateDeployment \/ DeleteDeployment \/ UpdateDeployment
  <2>1. Further
    BY <1>4, GotoFurther, PCShape DEF CreateDeployment, DeleteDeployment, UpdateDeployment, Arc
  <2>2. work.pc = "deployment"
    BY <1>4 DEF CreateDeployment, DeleteDeployment, UpdateDeployment, At
  <2>3. QED
    BY <1>4, <2>1, <2>2 DEF CreateDeployment, DeleteDeployment, UpdateDeployment
<1>5. CASE DeterminePhase
  <2>1. work \in Running /\ work # Idle /\ work.pc = "phase"
    BY <1>5, AtShape, PCShape DEF DeterminePhase, At
  <2>2. work' # Idle
    BY <1>5, PhaseLeads DEF Leads
  <2>3. PICK p : InPhase(p) /\ (p = PhaseOf(deploymentSeen, downloadingSeen) \/ p = "Error")
    <3>1. \/ InPhase(PhaseOf(deploymentSeen, downloadingSeen))
          \/ InPhase("Error")
      BY <1>5 DEF DeterminePhase
    <3>2. QED
      BY <3>1, Zenon
  <2>4. work' = [work EXCEPT !.pc = AfterPhase(p), !.phase = p]
    BY <2>3 DEF InPhase
  <2>5. /\ work'.pc = AfterPhase(p) /\ work'.phase = p
        /\ work'.copy = work.copy /\ work'.ids = work.ids
    BY <2>1, <2>4 DEF Running
  <2>6. Further
    BY <2>1, <2>2, <2>3, <2>5 DEF Further, Arc, AfterPhase, InPhase
  <2>7. work'.pc = "statusEarly" \/ Tells(work'.phase)
    <3>1. PhaseOf(deploymentSeen, downloadingSeen)
            \in {"Downloading", PhaseOf(deploymentSeen, FALSE)}
      <4>1. downloadingSeen = TRUE \/ downloadingSeen = FALSE
        BY DEF TypeOK
      <4>2. CASE ~deploymentSeen.exists
        BY <4>2 DEF PhaseOf
      <4>3. CASE deploymentSeen.exists /\ downloadingSeen = TRUE
        BY <4>3 DEF PhaseOf
      <4>4. CASE downloadingSeen = FALSE
        BY <4>4, Zenon
      <4>5. QED
        BY <4>1, <4>2, <4>3, <4>4
    <3>2. QED
      BY <2>3, <2>5, <3>1 DEF AfterPhase, Tells
  <2>8. QED
    BY <1>5, <2>1, <2>6, <2>7 DEF DeterminePhase
<1>6. CASE WritePolicy \/ PolicyWriteFails
  <2>1. Further
    BY <1>6, GotoFurther, PCShape DEF WritePolicy, PolicyWriteFails, Arc
  <2>2. work.pc = "policy"
    BY <1>6 DEF WritePolicy, PolicyWriteFails, At
  <2>3. QED
    BY <1>6, <2>1, <2>2 DEF WritePolicy, PolicyWriteFails
<1>7. QED
  BY <1>1, <1>2, <1>3, <1>4, <1>5, <1>6 DEF Onward

(***************************************************************************)
(* What is settled, step by step.                                          *)
(***************************************************************************)

\* A step keeps the model's generation or gives it the number of the edit.
LEMMA ModelStep ==
  ASSUME TypeOK, [Next]_vars
  PROVE  \/ ~model'.exists
         \/ model.exists /\ model'.generation = model.generation
         \/ model'.generation = edits + 1
<1> USE DEF world, aside, caches, queue, counts, Quiet
<1>1. CASE AddFinalizer \/ SetPending
  BY <1>1, ModelSteps
<1>2. CASE UpdateStatus
  BY <1>2, StatusShape
<1>3. ASSUME NEW c \in Configs, NEW ext \in Externals, CreateModel(c, ext)
      PROVE  model'.generation = edits + 1
  BY <1>3 DEF CreateModel, Edit
<1>4. ASSUME NEW c \in Configs, NEW ext \in Externals, EditModel(c, ext)
      PROVE  model'.generation = edits + 1
  <2>1. model \in Model
    BY <1>4, ModelShape DEF EditModel, TypeOK
  <2>2. QED
    BY <1>4, <2>1 DEF EditModel, Edit, Model
<1>5. CASE DeleteModel
  <2>1. model \in Model
    BY <1>5, ModelShape DEF DeleteModel, TypeOK
  <2>2. QED
    BY <1>5, <2>1 DEF DeleteModel, Remove, Model, NoModel
<1>6. CASE RemoveFinalizer
  BY <1>6 DEF RemoveFinalizer, Remove, NoModel
<1>7. CASE Onward
  <2>1. model' = model
    BY <1>7, OnwardStep
  <2>2. QED
    BY <2>1, ExistsIsBoolean DEF TypeOK
<1>8. CASE \/ Fetch \/ SeeModel \/ SeeSecret \/ SeeDeployment \/ SeePods
           \/ TimerFires \/ Resync \/ Restart
           \/ UNCHANGED vars
           \/ WorkFails /\ ~AddFinalizer
           \/ \E ids \in SUBSET ClientIDs : ChangeKeys(ids)
           \/ \E s \in PodStates : PodsChange(s)
           \/ DownloadStarts \/ DownloadEnds
  <2>1. model' = model
    BY <1>8 DEF Fetch, SeeModel, SeeSecret, SeeDeployment, SeePods, TimerFires, Resync, Restart,
       WorkFails, ModelUpdateFails, ApplyFails, SecretWriteFails, DeploymentWriteFails,
       StatusUpdateFails, SecretDeleteFails, ChangeKeys, PodsChange, DownloadStarts,
       DownloadEnds, vars
  <2>2. QED
    BY <2>1, ExistsIsBoolean DEF TypeOK
<1>9. QED
  BY <1>1, <1>2, <1>3, <1>4, <1>5, <1>6, <1>7, <1>8, KindsOfSteps DEF WorkStays, WorldStep

\* What the cache shows does not become current by itself: a new version has a new generation.
LEMMA CurrentStep ==
  ASSUME TypeOK, Parts, [Next]_vars, modelSeen' = modelSeen, Current'
  PROVE  Current
<1>1. /\ model'.exists /\ modelSeen.exists /\ modelSeen.generation = model'.generation
  BY DEF Current
<1>2. modelSeen.generation # edits + 1
  BY <1>1, Numbers DEF Parts, Ordered
<1>3. QED
  BY <1>1, <1>2, ModelStep DEF Current

\* Whoever sees a change queues the model, but for a Secret when no model is seen.
LEMMA StaysUnqueued ==
  ASSUME TypeOK, WorkStays, ~queued'
  PROVE  /\ ~queued /\ modelSeen' = modelSeen /\ timer' = timer
         /\ secretSeen' = secretSeen \/ ~modelSeen.exists
         /\ deploymentSeen' = deploymentSeen
         /\ policy' = policy /\ unwritten' = unwritten
<1> USE DEF world, aside, caches, queue, counts, Quiet
<1>1. ~SeeModel /\ ~TimerFires /\ ~Resync /\ ~SeeDeployment
  BY DEF SeeModel, TimerFires, Resync, SeeDeployment, DeploymentEvent
<1>2. CASE SeeSecret
  BY <1>2 DEF SeeSecret, SecretEvent
<1>3. CASE SeePods
  BY <1>3 DEF SeePods
<1>4. CASE WorldStep \/ UNCHANGED vars
  <2>1. /\ queued' = queued /\ modelSeen' = modelSeen /\ timer' = timer
        /\ secretSeen' = secretSeen /\ deploymentSeen' = deploymentSeen
        /\ policy' = policy /\ unwritten' = unwritten
    BY <1>4 DEF WorldStep, CreateModel, EditModel, DeleteModel, ChangeKeys, PodsChange,
       DownloadStarts, DownloadEnds, vars
  <2>2. QED
    BY <2>1
<1>5. QED
  BY <1>1, <1>2, <1>3, <1>4 DEF WorkStays

\* The Deployment that the world leaves alone while its model stays, but for its pods.
LEMMA StaysDeployed ==
  ASSUME TypeOK, WorkStays
  PROVE  \/ ~model'.exists
         \/ /\ deployment'.exists = deployment.exists
            /\ deployment.exists => deployment'.config = deployment.config
<1> USE DEF world, aside, caches, queue, counts, Quiet
<1>1. ASSUME NEW s \in PodStates, PodsChange(s)
      PROVE  /\ deployment'.exists = deployment.exists
             /\ deployment'.config = deployment.config
  <2>1. deployment \in Deployment
    BY <1>1, DeploymentShape DEF PodsChange, TypeOK
  <2>2. QED
    BY <1>1, <2>1 DEF PodsChange, Deployment
<1>2. CASE DeleteModel
  BY <1>2 DEF DeleteModel, Remove, NoModel
<1>3. CASE \/ SeeModel \/ SeeSecret \/ SeeDeployment \/ SeePods \/ TimerFires \/ Resync
           \/ UNCHANGED vars \/ DownloadStarts \/ DownloadEnds
           \/ \E c \in Configs, ext \in Externals : CreateModel(c, ext) \/ EditModel(c, ext)
           \/ \E ids \in SUBSET ClientIDs : ChangeKeys(ids)
  <2>1. deployment' = deployment
    BY <1>3 DEF SeeModel, SeeSecret, SeeDeployment, SeePods, TimerFires, Resync, CreateModel,
       EditModel, ChangeKeys, DownloadStarts, DownloadEnds, vars
  <2>2. QED
    BY <2>1
<1>4. QED
  BY <1>1, <1>2, <1>3 DEF WorkStays, WorldStep

\* How a Reconcile starts.
LEMMA FetchStep ==
  ASSUME TypeOK, Fetch
  PROVE  /\ modelSeen' = modelSeen
         /\ \/ work' = Idle /\ (modelSeen.exists => modelSeen.deleting)
            \/ /\ modelSeen.exists /\ work' # Idle /\ work'.copy = modelSeen
               /\ work'.pc \in Early \cup {"deleteSecret"}
<1> USE DEF caches
<1>1. CASE modelSeen.exists /\ (modelSeen.deleting => modelSeen.finalizer)
  <2>1. modelSeen \in Model /\ work' = Start(modelSeen)
    BY <1>1, ModelShape DEF Fetch, TypeOK
  <2>2. QED
    BY <1>1, <2>1, StartShape DEF Fetch, Early
<1>2. CASE ~(modelSeen.exists /\ (modelSeen.deleting => modelSeen.finalizer))
  BY <1>2 DEF Fetch
<1>3. QED
  BY <1>1, <1>2

LEMMA SetPendingStep ==
  ASSUME TypeOK, SetPending
  PROVE  /\ work # Idle /\ work.pc = "setPending"
         /\ work'.pc = "readKeys"
         /\ work'.copy.generation = work.copy.generation
         /\ work'.copy.config = work.copy.config /\ work'.copy.external = work.copy.external
         /\ UNCHANGED <<modelSeen, queued, policy>>
<1>1. work # Idle /\ model \in Model /\ work.copy = model /\ work'.copy = model'
      /\ work'.pc = "readKeys"
  BY ModelSteps
<1>2. /\ model'.generation = model.generation
      /\ model'.config = model.config /\ model'.external = model.external
  BY <1>1 DEF SetPending, Model
<1>3. QED
  BY <1>1, <1>2 DEF SetPending, At, caches

LEMMA FreshStep ==
  ASSUME TypeOK, WorkIsFresh, [Next]_vars
  PROVE  WorkIsFresh'
<1> USE DEF caches
<1>1. CASE Fetch
  BY <1>1, FetchStep DEF WorkIsFresh, Deleting, At
<1>2. CASE SetPending
  BY <1>2, SetPendingStep DEF WorkIsFresh, Deleting, At
<1>3. CASE Onward
  <2>1. /\ Further /\ modelSeen' = modelSeen
    BY <1>3, OnwardStep
  <2>2. Deleting => Deleting'
    BY <2>1 DEF Further, Arc, Deleting, At
  <2>3. QED
    BY <2>1, <2>2 DEF Further, WorkIsFresh
<1>4. CASE WorkStays
  <2>1. work' = work /\ (Deleting' <=> Deleting)
    BY <1>4, EndsAndStays DEF Deleting, At
  <2>2. QED
    BY <1>4, <2>1, StaysUnqueued DEF WorkIsFresh
<1>5. CASE WorkFails \/ UpdateStatus \/ RemoveFinalizer \/ Restart
  BY <1>5, EndsAndStays DEF WorkIsFresh
<1>6. QED
  BY <1>1, <1>2, <1>3, <1>4, <1>5, KindsOfSteps

\* The step that writes the Deployment, whatever it saw of it.
LEMMA DeployStep ==
  ASSUME TypeOK, WorkIsFresh, Onward, work.pc = "deployment", ~queued
  PROVE  \/ deployment'.exists # deploymentSeen.exists
         \/ /\ deployment'.exists /\ deployment'.config = modelSeen.config
            /\ deploymentSeen.exists /\ deploymentSeen.config = modelSeen.config
<1>1. CreateDeployment \/ DeleteDeployment \/ UpdateDeployment
  <2>1. \A o \in Objects : o # "deployment"
    BY DEF Objects, Owned, Optional
  <2>2. QED
    BY <2>1 DEF Onward, ReadKeys, WriteSecret, Apply, ApplyFails, DeterminePhase, WritePolicy,
       PolicyWriteFails, DeleteSecret, At
<1>2. work \in Running /\ work # Idle /\ work.copy \in Model
  BY <1>1, AtShape, PCShape DEF CreateDeployment, DeleteDeployment, UpdateDeployment
<1>3. modelSeen.config = work.copy.config
  BY <1>2 DEF WorkIsFresh, Deleting, At
<1>4. deployment.exists \in BOOLEAN /\ deploymentSeen.exists \in BOOLEAN
  BY ExistsIsBoolean DEF TypeOK
<1>5. CASE CreateDeployment
  BY <1>4, <1>5 DEF CreateDeployment, NewDeployment
<1>6. CASE DeleteDeployment
  BY <1>6 DEF DeleteDeployment, NoDeployment
<1>7. CASE UpdateDeployment
  <2>1. deploymentSeen.exists /\ deploymentSeen.config = work.copy.config
    BY <1>7 DEF UpdateDeployment, NeedsRedeploy
  <2>2. deployment.exists
    BY <1>7 DEF UpdateDeployment
  <2>3. deployment \in Deployment
    BY <2>2, DeploymentShape DEF TypeOK
  <2>4. deployment'.exists /\ deployment'.config = work.copy.config
    BY <1>7, <2>3 DEF UpdateDeployment, Deployment
  <2>5. QED
    BY <1>3, <2>1, <2>4
<1>8. QED
  BY <1>1, <1>5, <1>6, <1>7

LEMMA PodsStep ==
  ASSUME TypeOK, Parts, WorkIsFresh, PodsAreRight, [Next]_vars
  PROVE  PodsAreRight'
<1> USE DEF caches, world, aside
<1>1. "idle" \notin Late
  BY DEF Late, Lasting
<1>2. SUFFICES ASSUME work'.pc \in Late \/ AtRest', Unmoved'
               PROVE  \/ deployment'.exists # deploymentSeen'.exists
                      \/ /\ deployment'.exists /\ deployment'.config = modelSeen'.config
                         /\ deploymentSeen'.exists /\ deploymentSeen'.config = modelSeen'.config
  BY DEF PodsAreRight
<1>3. CASE Fetch
  <2>1. work' = Idle /\ ~modelSeen.exists
    BY <1>2, <1>3, FetchStep DEF Late, Lasting, Early, AtRest, Unmoved
  <2>2. QED
    BY <1>2, <1>3, <2>1, FetchStep DEF Unmoved, Current
<1>4. CASE SetPending
  BY <1>2, <1>4, SetPendingStep DEF Late, Lasting, AtRest, Idle
<1>5. CASE Onward
  <2>1. /\ Further /\ modelSeen' = modelSeen /\ model' = model
        /\ deploymentSeen' = deploymentSeen
        /\ work.pc # "deployment" => deployment' = deployment
    BY <1>5, OnwardStep
  <2>2. work'.pc \in Late /\ ~queued /\ Unmoved
    BY <1>2, <2>1 DEF Further, AtRest, Unmoved, Current
  <2>3. work.pc = "deployment" \/ work.pc \in Late
    BY <2>1, <2>2 DEF Further, Arc, Late, Lasting
  <2>4. CASE work.pc = "deployment"
    BY <1>5, <2>1, <2>2, <2>4, DeployStep
  <2>5. CASE work.pc \in Late /\ work.pc # "deployment"
    BY <2>1, <2>2, <2>5 DEF PodsAreRight
  <2>6. QED
    BY <2>3, <2>4, <2>5
<1>6. CASE UpdateStatus
  <2>1. /\ modelSeen' = modelSeen /\ deploymentSeen' = deploymentSeen
        /\ deployment' = deployment
    BY <1>6 DEF UpdateStatus
  <2>2. ~At("statusEarly")
    BY <1>2, <1>1, <1>6, EndsAndStays DEF UpdateStatus, Again, AtRest, Idle
  <2>3. work.pc = "status" /\ queued' = queued
    BY <1>6, <2>2 DEF UpdateStatus, At, Done
  <2>4. Unmoved
    BY <1>2, <2>1, <2>3, CurrentStep DEF Unmoved
  <2>5. QED
    BY <2>1, <2>3, <2>4 DEF PodsAreRight, Late, Lasting
<1>7. CASE WorkFails \/ RemoveFinalizer \/ Restart
  <2>1. work' = Idle
    BY <1>7, EndsAndStays
  <2>2. timer' \/ ~model'.exists \/ queued'
    BY <1>7, EndsAndStays, ExistsIsBoolean
       DEF RemoveFinalizer, Remove, Restart, NoModel, TypeOK
  <2>3. QED
    BY <1>1, <1>2, <2>1, <2>2 DEF AtRest, Unmoved, Current, Idle
<1>8. CASE WorkStays
  <2>1. work' = work
    BY <1>8, EndsAndStays
  <2>2. /\ ~queued /\ modelSeen' = modelSeen /\ timer' = timer
        /\ deploymentSeen' = deploymentSeen
    BY <1>2, <1>8, StaysUnqueued DEF Unmoved
  <2>3. Unmoved /\ (work.pc \in Late \/ AtRest)
    BY <1>2, <2>1, <2>2, CurrentStep DEF Unmoved, AtRest
  <2>4. /\ deployment'.exists = deployment.exists
        /\ deployment.exists => deployment'.config = deployment.config
    BY <1>2, <1>8, StaysDeployed DEF Unmoved, Current
  <2>5. QED
    BY <2>2, <2>3, <2>4 DEF PodsAreRight
<1>9. QED
  BY <1>3, <1>4, <1>5, <1>6, <1>7, <1>8, KindsOfSteps

LEMMA PhaseStep ==
  ASSUME TypeOK, PhaseIsRight, [Next]_vars
  PROVE  PhaseIsRight'
<1> USE DEF caches
<1>1. "idle" \notin Lasting
  BY DEF Lasting
<1>2. CASE Fetch
  BY <1>1, <1>2, FetchStep DEF PhaseIsRight, Lasting, Early, Idle
<1>3. CASE SetPending
  BY <1>3, SetPendingStep DEF PhaseIsRight, Lasting
<1>4. CASE Onward
  <2>1. /\ Further /\ deploymentSeen' = deploymentSeen
        /\ work.pc = "phase" => work'.pc = "statusEarly" \/ Tells(work'.phase)
    BY <1>4, OnwardStep
  <2>2. SUFFICES ASSUME work'.pc \in Lasting, ~queued PROVE Tells(work'.phase)
    BY <2>1 DEF PhaseIsRight, Further, Tells
  <2>3. CASE work.pc = "phase"
    BY <2>1, <2>2, <2>3 DEF Lasting
  <2>4. CASE work.pc # "phase"
    <3>1. work.pc \in Lasting /\ work'.phase = work.phase
      BY <2>1, <2>2, <2>4 DEF Further, Arc, Lasting
    <3>2. QED
      BY <2>2, <3>1 DEF PhaseIsRight
  <2>5. QED
    BY <2>3, <2>4
<1>5. CASE WorkFails \/ UpdateStatus \/ RemoveFinalizer \/ Restart
  BY <1>1, <1>5, EndsAndStays DEF PhaseIsRight, Idle
<1>6. CASE WorkStays
  <2>1. work' = work
    BY <1>6, EndsAndStays
  <2>2. SUFFICES ASSUME work.pc \in Lasting, ~queued' PROVE Tells(work.phase)'
    BY <2>1 DEF PhaseIsRight
  <2>3. Tells(work.phase) /\ deploymentSeen' = deploymentSeen
    BY <1>6, <2>2, StaysUnqueued DEF PhaseIsRight
  <2>4. QED
    BY <2>1, <2>3 DEF Tells
<1>7. QED
  BY <1>2, <1>3, <1>4, <1>5, <1>6, KindsOfSteps

\* The world leaves the status of a version alone.
LEMMA StaysTold ==
  ASSUME TypeOK, WorkStays, model.exists, model'.exists
  PROVE  \/ model'.generation = edits + 1
         \/ /\ model'.generation = model.generation
            /\ model'.phase = model.phase /\ model'.observed = model.observed
<1> USE DEF world, aside
<1>1. model \in Model
  BY ModelShape DEF TypeOK
<1>2. ASSUME NEW c \in Configs, NEW ext \in Externals, CreateModel(c, ext) \/ EditModel(c, ext)
      PROVE  model'.generation = edits + 1
  <2>1. EditModel(c, ext)
    BY <1>2 DEF CreateModel
  <2>2. QED
    BY <1>1, <2>1 DEF EditModel, Edit, Model
<1>3. CASE DeleteModel
  BY <1>1, <1>3 DEF DeleteModel, Remove, Model, NoModel
<1>4. CASE \/ SeeModel \/ SeeSecret \/ SeeDeployment \/ SeePods \/ TimerFires \/ Resync
           \/ UNCHANGED vars \/ DownloadStarts \/ DownloadEnds
           \/ \E ids \in SUBSET ClientIDs : ChangeKeys(ids)
           \/ \E s \in PodStates : PodsChange(s)
  BY <1>4 DEF SeeModel, SeeSecret, SeeDeployment, SeePods, TimerFires, Resync, ChangeKeys,
     PodsChange, DownloadStarts, DownloadEnds, vars
<1>5. QED
  BY <1>2, <1>3, <1>4 DEF WorkStays, WorldStep

LEMMA StatusStep ==
  ASSUME TypeOK, Parts, PhaseIsRight, StatusIsRight, [Next]_vars
  PROVE  StatusIsRight'
<1> USE DEF caches, world, aside
<1>1. SUFFICES ASSUME AtRest', Unmoved'
               PROVE  Tells(model.phase)' /\ model'.observed = model'.generation
  BY DEF StatusIsRight
<1>2. CASE Fetch
  BY <1>1, <1>2, FetchStep DEF AtRest, Unmoved, Current
<1>3. CASE SetPending
  BY <1>1, <1>3, SetPendingStep DEF AtRest, Idle
<1>4. CASE Onward
  BY <1>1, <1>4, OnwardStep DEF AtRest, Further
<1>5. CASE UpdateStatus
  <2>1. modelSeen' = modelSeen /\ deploymentSeen' = deploymentSeen
    BY <1>5 DEF UpdateStatus
  <2>2. ~At("statusEarly")
    BY <1>1, <1>5 DEF UpdateStatus, Again, AtRest
  <2>3. work.pc = "status" /\ ~queued
    BY <1>1, <1>5, <2>2 DEF UpdateStatus, At, Done, Unmoved
  <2>4. Tells(work.phase)
    BY <2>3 DEF PhaseIsRight, Lasting
  <2>5. modelSeen.exists /\ modelSeen = model
    BY <1>1, <1>5, <2>1 DEF Unmoved, Current, UpdateStatus
  <2>6. model \in Model
    BY <2>5, ModelShape DEF TypeOK
  <2>7. /\ model'.phase = work.phase /\ model'.observed = model.generation
        /\ model'.generation = model.generation
    BY <1>5, <2>5, <2>6 DEF UpdateStatus, Model
  <2>8. QED
    BY <2>1, <2>4, <2>7 DEF Tells
<1>6. CASE WorkFails \/ RemoveFinalizer \/ Restart
  <2>1. timer' \/ ~model'.exists \/ queued'
    BY <1>6, EndsAndStays, ExistsIsBoolean
       DEF RemoveFinalizer, Remove, Restart, NoModel, TypeOK
  <2>2. QED
    BY <1>1, <2>1 DEF AtRest, Unmoved, Current
<1>7. CASE WorkStays
  <2>1. /\ work' = work /\ ~queued /\ modelSeen' = modelSeen /\ timer' = timer
        /\ deploymentSeen' = deploymentSeen
    BY <1>1, <1>7, EndsAndStays, StaysUnqueued DEF Unmoved
  <2>2. Unmoved /\ AtRest
    BY <1>1, <2>1, CurrentStep DEF Unmoved, AtRest
  <2>3. Tells(model.phase) /\ model.observed = model.generation
    BY <2>2 DEF StatusIsRight
  <2>4. /\ model'.generation = model.generation
        /\ model'.phase = model.phase /\ model'.observed = model.observed
    <3>1. model.exists /\ model'.exists /\ model'.generation # edits + 1
      BY <1>1, <2>1, <2>2, Numbers DEF Unmoved, Current, Parts, Ordered
    <3>2. QED
      BY <1>7, <3>1, StaysTold
  <2>5. QED
    BY <2>1, <2>3, <2>4 DEF Tells
<1>8. QED
  BY <1>2, <1>3, <1>4, <1>5, <1>6, <1>7, KindsOfSteps

LEMMA SettledStep == IInv /\ SettledParts /\ [Next]_vars => SettledParts'
BY FreshStep, PodsStep, PhaseStep, StatusStep DEF IInv, SettledParts

LEMMA RestIsSettled ==
  ASSUME SettledParts PROVE SettledStatus
<1> SUFFICES ASSUME Settled, Alive
             PROVE  /\ deployment.exists /\ deployment.config = model.config
                    /\ model.phase \in {PhaseOf(deployment, FALSE), "Error"}
                    /\ model.observed = model.generation
  BY DEF SettledStatus
<1>1. AtRest /\ Unmoved /\ modelSeen = model /\ deploymentSeen = deployment
  BY DEF Settled, Alive, AtRest, Unmoved, Current
<1>2. deployment.exists /\ deployment.config = model.config
  BY <1>1 DEF SettledParts, PodsAreRight
<1>3. Tells(model.phase) /\ model.observed = model.generation
  BY <1>1 DEF SettledParts, StatusIsRight
<1>4. QED
  BY <1>1, <1>2, <1>3 DEF Tells

\* The keys a Reconcile has read are the ones that are seen.
LEMMA IdsStep ==
  ASSUME TypeOK, WorkIsFresh, IdsAreFresh, [Next]_vars
  PROVE  IdsAreFresh'
<1> USE DEF caches
<1>1. CASE Fetch
  BY <1>1, FetchStep DEF IdsAreFresh, Deleting, At, Early
<1>2. CASE SetPending
  BY <1>2, SetPendingStep DEF IdsAreFresh, Early
<1>3. CASE Onward
  <2>1. /\ Further /\ secretSeen' = secretSeen
    BY <1>3, OnwardStep
  <2>2. Deleting => Deleting'
    BY <2>1 DEF Further, Arc, Deleting, At
  <2>3. CASE work.pc = "readKeys"
    BY <2>1, <2>3 DEF Further, IdsAreFresh
  <2>4. CASE work.pc # "readKeys"
    <3>1. work'.ids = work.ids /\ work.pc \notin Early
      BY <2>1, <2>4 DEF Further, Arc, Early
    <3>2. QED
      BY <2>1, <2>2, <3>1 DEF IdsAreFresh, Further
  <2>5. QED
    BY <2>3, <2>4
<1>4. CASE WorkStays
  <2>1. work' = work /\ (Deleting' <=> Deleting)
    BY <1>4, EndsAndStays DEF Deleting, At
  <2>2. QED
    BY <1>4, <2>1, StaysUnqueued DEF IdsAreFresh, WorkIsFresh
<1>5. CASE WorkFails \/ UpdateStatus \/ RemoveFinalizer \/ Restart
  BY <1>5, EndsAndStays DEF IdsAreFresh
<1>6. QED
  BY <1>1, <1>2, <1>3, <1>4, <1>5, KindsOfSteps

LEMMA PolicyStep ==
  ASSUME TypeOK, Parts, WorkIsFresh, IdsAreFresh, PolicyIsRight, [Next]_vars
  PROVE  PolicyIsRight'
<1> USE DEF caches, world, aside, Quiet
<1>1. SUFFICES /\ At("status")' /\ work'.copy.external => policy' = Rendered' \/ unwritten'
               /\ AtRest' /\ Unmoved' /\ modelSeen'.external =>
                    policy' = [exists |-> TRUE, allowed |-> secretSeen'.ids] \/ unwritten'
  BY DEF PolicyIsRight
<1>2. CASE Fetch
  BY <1>2, FetchStep DEF At, Idle, Early, AtRest, Unmoved, Current
<1>3. CASE SetPending
  BY <1>3, SetPendingStep DEF At, AtRest, Idle
<1>4. CASE Onward
  <2>1. Further
    BY <1>4, OnwardStep
  <2>2. SUFFICES ASSUME work'.pc = "status", work.copy.external
                 PROVE  policy' = Rendered \/ unwritten'
    BY <2>1 DEF Further, Arc, At, AtRest, Rendered
  <2>3. work.pc = "policy"
    BY <2>1, <2>2 DEF Further, Arc
  <2>4. WritePolicy \/ PolicyWriteFails
    <3>1. \A o \in Objects : o # "policy"
      BY DEF Objects, Owned, Optional
    <3>2. QED
      BY <1>4, <2>3, <3>1 DEF Onward, ReadKeys, WriteSecret, Apply, ApplyFails, DeterminePhase,
         CreateDeployment, DeleteDeployment, UpdateDeployment, DeleteSecret, At
  <2>5. QED
    BY <2>2, <2>4 DEF WritePolicy, PolicyWriteFails
<1>5. CASE UpdateStatus
  <2>1. /\ modelSeen' = modelSeen /\ secretSeen' = secretSeen
        /\ policy' = policy /\ unwritten' = unwritten /\ work' = Idle
    BY <1>5, EndsAndStays DEF UpdateStatus
  <2>2. SUFFICES ASSUME AtRest', Unmoved', modelSeen.external
                 PROVE  policy = [exists |-> TRUE, allowed |-> secretSeen.ids] \/ unwritten
    BY <2>1 DEF At, Idle
  <2>3. ~At("statusEarly")
    BY <1>5, <2>2 DEF UpdateStatus, Again, AtRest
  <2>4. At("status") /\ ~queued /\ work # Idle
    BY <1>5, <2>2, <2>3, AtShape, PCShape DEF UpdateStatus, Done, Unmoved
  <2>5. work.copy.external /\ work.ids = secretSeen.ids
    BY <2>2, <2>4 DEF WorkIsFresh, IdsAreFresh, Deleting, At, Early
  <2>6. QED
    BY <2>4, <2>5 DEF PolicyIsRight, Rendered
<1>6. CASE WorkFails \/ RemoveFinalizer \/ Restart
  <2>1. work' = Idle /\ (timer' \/ ~model'.exists \/ queued')
    BY <1>6, EndsAndStays, ExistsIsBoolean
       DEF RemoveFinalizer, Remove, Restart, NoModel, TypeOK
  <2>2. QED
    BY <2>1 DEF At, Idle, AtRest, Unmoved, Current
<1>7. CASE WorkStays
  <2>1. work' = work /\ policy' = policy /\ unwritten' = unwritten
    BY <1>7, EndsAndStays DEF WorkStays, WorldStep, SeeModel, SeeSecret, SeeDeployment, SeePods,
       TimerFires, Resync, CreateModel, EditModel, DeleteModel, ChangeKeys, PodsChange,
       DownloadStarts, DownloadEnds, vars
  <2>2. At("status")' /\ work'.copy.external => policy' = Rendered' \/ unwritten'
    BY <2>1 DEF At, Rendered, PolicyIsRight
  <2>3. ASSUME AtRest', Unmoved', modelSeen'.external
        PROVE  policy' = [exists |-> TRUE, allowed |-> secretSeen'.ids] \/ unwritten'
    <3>1. /\ ~queued /\ modelSeen' = modelSeen /\ timer' = timer
          /\ secretSeen' = secretSeen \/ ~modelSeen.exists
      BY <1>7, <2>3, StaysUnqueued DEF Unmoved
    <3>2. AtRest /\ Unmoved /\ secretSeen' = secretSeen
      BY <2>1, <2>3, <3>1, CurrentStep DEF AtRest, Unmoved, Current
    <3>3. QED
      BY <2>1, <2>3, <3>1, <3>2 DEF PolicyIsRight
  <2>4. QED
    BY <2>2, <2>3
<1>8. QED
  BY <1>2, <1>3, <1>4, <1>5, <1>6, <1>7, KindsOfSteps

(***************************************************************************)
(* The theorems.                                                           *)
(***************************************************************************)

\* The invariant holds in every state of every behaviour.
THEOREM InvariantHolds == Spec => []IInv
<1>1. Init => IInv
  BY InitTypeOK, InitParts DEF IInv
<1>2. IInv /\ [Next]_vars => IInv'
  BY TypeStep, PartsStep DEF IInv
<1>3. QED
  BY <1>1, <1>2, PTL DEF Spec

\* Every variable has its type.
THEOREM TypeCorrect == Spec => []TypeOK
<1>1. IInv => TypeOK
  BY DEF IInv
<1>2. QED
  BY <1>1, InvariantHolds, PTL

\* Whatever a Reconcile still has in hand when its model goes, it writes nothing more
\* (Reconcile: the finalizer is stored before the first object).
THEOREM NothingWithoutModel == Spec => WritesNeedModel
<1>1. IInv /\ [Next]_vars
        => [ ~model.exists /\ edits' = edits
             => /\ UNCHANGED <<deployment, policy, objects>>
                /\ secret' # secret => ~secret'.exists ]_vars
  BY WritesStep DEF IInv
<1>2. QED
  BY <1>1, InvariantHolds, PTL DEF Spec, WritesNeedModel

\* No Reconcile changes keys, or deletes those of a model that lives and has its finalizer,
\* whatever the caches it has read said (createOrUpdateSecret, reconcileDelete).
THEOREM KeysAreKept == Spec => ReconcileKeepsKeys
<1>1. IInv /\ [Next]_vars
        => [ secret.exists /\ secret' # secret /\ edits' = edits
             => ~secret'.exists /\ ~(Alive /\ model.finalizer) ]_vars
  BY KeysStep DEF IInv, Kept
<1>2. QED
  BY <1>1, InvariantHolds, PTL DEF Spec, ReconcileKeepsKeys

\* A Deployment lives and dies with one configuration hash (reconcileDeployment).
THEOREM OneConfiguration == Spec => ConfigChangesRedeploy
<1>1. IInv /\ [Next]_vars
        => [ deployment.exists /\ deployment'.exists
             => deployment'.config = deployment.config ]_vars
  BY ConfigStep DEF IInv
<1>2. QED
  BY <1>1, InvariantHolds, PTL DEF Spec, ConfigChangesRedeploy

\* API keys exist only under a finalizer, or the last deletion has not seen them in its
\* cache (reconcileDelete): what fails or starts again leaves none behind.
THEOREM NoKeysLeft == Spec => []OrphansWereUnseen
<1>1. Init => KeysCleared
  BY DEF Init, KeysCleared, OrphansWereUnseen, NoSecret
<1>2. IInv /\ KeysCleared /\ [Next]_vars => KeysCleared'
  BY ClearedStep DEF IInv
<1>3. KeysCleared => OrphansWereUnseen
  BY DEF KeysCleared
<1>4. QED
  BY <1>1, <1>2, <1>3, InvariantHolds, PTL DEF Spec

\* When nothing is to be done, the pods run the model's configuration and its status tells
\* what the Deployment records of them for the generation there is, or that the last look at
\* them failed (determinePhase, updateStatus).
THEOREM StatusIsSettled == Spec => []SettledStatus
<1>1. Init => SettledParts
  BY InitSettled
<1>2. IInv /\ SettledParts /\ [Next]_vars => SettledParts'
  BY SettledStep
<1>3. SettledParts => SettledStatus
  BY RestIsSettled
<1>4. QED
  BY <1>1, <1>2, <1>3, InvariantHolds, PTL DEF Spec

\* When nothing is to be done, the route of a model admits exactly the keys of its Secret, or
\* the last write of its policy failed and was only logged (reconcileSecurityPolicies).
THEOREM AllowListIsSettled == Spec => []SettledAllowList
<1> DEFINE Inv == WorkIsFresh /\ IdsAreFresh /\ PolicyIsRight
<1>1. Init => Inv
  BY InitSettled DEF SettledParts
<1>2. IInv /\ Inv /\ [Next]_vars => Inv'
  BY FreshStep, IdsStep, PolicyStep DEF IInv
<1>3. Inv => SettledAllowList
  <2>1. Settled /\ Alive => AtRest /\ Unmoved /\ modelSeen = model /\ secretSeen = secret
    BY DEF Settled, Alive, AtRest, Unmoved, Current
  <2>2. QED
    BY <2>1 DEF PolicyIsRight, SettledAllowList
<1> HIDE DEF Inv
<1>4. QED
  BY <1>1, <1>2, <1>3, InvariantHolds, PTL DEF Spec

(***************************************************************************)
(* Progress, once the failures have ceased.  What FairSpec says of steps   *)
(* that can be taken is applied with StepsAreEnabled, since what ENABLED   *)
(* means cannot be looked into here.                                       *)
(***************************************************************************)

\* One step of a Reconcile takes it on, or ends it.
Moves(a, b) == Arc(a, b) \/ (a = "setPending" /\ b = "readKeys")

\* A Reconcile moves only so, and when the worker takes a step it does.
LEMMA NextMoves ==
  ASSUME TypeOK, [Next]_vars, work # Idle
  PROVE  /\ \/ work' = work
            \/ work' = Idle
            \/ work' # Idle /\ Moves(work.pc, work'.pc)
         /\ ReconcileStep => work' = Idle \/ (work' # Idle /\ Moves(work.pc, work'.pc))
<1>1. ASSUME Onward \/ SetPending \/ WorkFails \/ UpdateStatus \/ RemoveFinalizer \/ Restart
      PROVE  work' = Idle \/ (work' # Idle /\ Moves(work.pc, work'.pc))
  <2>1. CASE Onward
    BY <2>1, OnwardStep DEF Further, Moves
  <2>2. CASE SetPending
    <3>1. work' # Idle
      BY <2>2, SetPendingStep DEF Idle
    <3>2. QED
      BY <2>2, <3>1, SetPendingStep DEF Moves
  <2>3. QED
    BY <1>1, <2>1, <2>2, EndsAndStays
<1>2. ~Fetch
  BY DEF Fetch
<1>3. ReconcileStep => Onward \/ SetPending \/ WorkFails \/ UpdateStatus \/ RemoveFinalizer
  <2>1. ASSUME NEW o \in Objects, Apply(o) \/ ApplyFails(o) PROVE Onward \/ WorkFails
    BY <2>1 DEF Apply, ApplyFails, Onward, WorkFails
  <2>2. QED
    BY <1>2, <2>1 DEF ReconcileStep, WorkFails, Onward
<1>4. WorkStays => work' = work
  BY EndsAndStays
<1>5. QED
  BY <1>1, <1>2, <1>3, <1>4, KindsOfSteps

\* Where a Reconcile that runs is.
LEMMA WorkIsSomewhere ==
  ASSUME TypeOK, work # Idle
  PROVE  work.pc \in Early \cup Late \cup Objects
                     \cup {"secret", "deployment", "deleteSecret", "removeFinalizer"}
BY DEF TypeOK, Running, PCs, Early, Late, Lasting

\* Every Reconcile ends.
LEMMA WorkEnds ==
  Spec /\ FairWorker /\ []WorkerEnabled => []<>(work = Idle)
<1> DEFINE I == work = Idle
           S(pc) == work # Idle /\ work.pc = pc
           E1 == S("addFinalizer")
           E2 == S("setPending")
           E3 == S("readKeys")
           E4 == S("secret")
           E5 == S("support")
           E6 == S("deployment")
           E7 == S("phase")
           E8 == S("inferencePool")
           E9 == S("epp")
           E10 == S("externalRoute")
           E11 == S("policy")
           E12 == S("status") \/ S("statusEarly") \/ S("removeFinalizer") \/ E1
           E13 == S("deleteSecret")
<1>1. IInv => I \/ E2 \/ E3 \/ E4 \/ E5 \/ E6 \/ E7 \/ E8 \/ E9 \/ E10 \/ E11 \/ E12 \/ E13
  BY WorkIsSomewhere DEF IInv, Early, Late, Lasting, Objects, Owned, Optional
<1>2. IInv /\ [Next]_vars =>
        /\ E2 => E2' \/ E3' \/ I'
        /\ E3 => E3' \/ E4' \/ I'
        /\ E4 => E4' \/ E5' \/ I'
        /\ E5 => E5' \/ E6' \/ I'
        /\ E6 => E6' \/ E7' \/ I'
        /\ E7 => E7' \/ E8' \/ E12' \/ I'
        /\ E8 => E8' \/ E9' \/ I'
        /\ E9 => E9' \/ E10' \/ I'
        /\ E10 => E10' \/ E11' \/ I'
        /\ E11 => E11' \/ E12' \/ I'
        /\ E12 => E12' \/ I'
        /\ E13 => E13' \/ E12' \/ I'
  <2> SUFFICES ASSUME IInv, [Next]_vars, work # Idle, work' # Idle, work' # work,
                      Moves(work.pc, work'.pc)
      PROVE  /\ E2 => E3'
             /\ E3 => E4'
             /\ E4 => E5'
             /\ E5 => E6'
             /\ E6 => E7'
             /\ E7 => E8' \/ E12'
             /\ E8 => E9'
             /\ E9 => E10'
             /\ E10 => E11'
             /\ E11 => E12'
             /\ ~E12
             /\ E13 => E12'
    BY NextMoves DEF IInv
  <2>1. QED
    BY DEF Moves, Arc
<1>3. IInv /\ <<ReconcileStep>>_vars =>
        /\ E2 => E3' \/ I'
        /\ E3 => E4' \/ I'
        /\ E4 => E5' \/ I'
        /\ E5 => E6' \/ I'
        /\ E6 => E7' \/ I'
        /\ E7 => E8' \/ E12' \/ I'
        /\ E8 => E9' \/ I'
        /\ E9 => E10' \/ I'
        /\ E10 => E11' \/ I'
        /\ E11 => E12' \/ I'
        /\ E12 => I'
        /\ E13 => E12' \/ I'
  <2> SUFFICES ASSUME IInv, ReconcileStep, work # Idle, work' # Idle,
                      Moves(work.pc, work'.pc)
      PROVE  /\ E2 => E3'
             /\ E3 => E4'
             /\ E4 => E5'
             /\ E5 => E6'
             /\ E6 => E7'
             /\ E7 => E8' \/ E12'
             /\ E8 => E9'
             /\ E9 => E10'
             /\ E10 => E11'
             /\ E11 => E12'
             /\ ~E12
             /\ E13 => E12'
    BY NextMoves DEF IInv, Next
  <2>1. QED
    BY DEF Moves, Arc
<1>4. /\ IInv /\ [Next]_vars =>
          /\ E8 => E8' \/ E9' \/ I'
          /\ E9 => E9' \/ E10' \/ I'
          /\ E10 => E10' \/ E11' \/ I'
          /\ E11 => E11' \/ E12' \/ I'
          /\ E12 => E12' \/ I'
      /\ IInv /\ <<ReconcileStep>>_vars =>
          /\ E8 => E9' \/ I'
          /\ E9 => E10' \/ I'
          /\ E10 => E11' \/ I'
          /\ E11 => E12' \/ I'
          /\ E12 => I'
      /\ E8 => work # Idle
      /\ E9 => work # Idle
      /\ E10 => work # Idle
      /\ E11 => work # Idle
      /\ E12 => work # Idle
  BY <1>2, <1>3
<1>5. /\ IInv /\ [Next]_vars =>
          /\ E4 => E4' \/ E5' \/ I'
          /\ E5 => E5' \/ E6' \/ I'
          /\ E6 => E6' \/ E7' \/ I'
          /\ E7 => E7' \/ E8' \/ E12' \/ I'
      /\ IInv /\ <<ReconcileStep>>_vars =>
          /\ E4 => E5' \/ I'
          /\ E5 => E6' \/ I'
          /\ E6 => E7' \/ I'
          /\ E7 => E8' \/ E12' \/ I'
      /\ E4 => work # Idle
      /\ E5 => work # Idle
      /\ E6 => work # Idle
      /\ E7 => work # Idle
  BY <1>2, <1>3
<1>6. /\ IInv /\ [Next]_vars =>
          /\ E2 => E2' \/ E3' \/ I'
          /\ E3 => E3' \/ E4' \/ I'
          /\ E13 => E13' \/ E12' \/ I'
      /\ IInv /\ <<ReconcileStep>>_vars =>
          /\ E2 => E3' \/ I'
          /\ E3 => E4' \/ I'
          /\ E13 => E12' \/ I'
      /\ E2 => work # Idle
      /\ E3 => work # Idle
      /\ E13 => work # Idle
  BY <1>2, <1>3
<1> DEFINE Fair == Spec /\ FairWorker /\ []WorkerEnabled
<1>7. Fair => []((E8 \/ E9 \/ E10 \/ E11 \/ E12) => <>(I))
  BY <1>4, InvariantHolds, PTL DEF Spec, FairWorker, WorkerEnabled
<1>8. Fair => []((E4 \/ E5 \/ E6 \/ E7) => <>(I \/ E8 \/ E12))
  BY <1>5, InvariantHolds, PTL DEF Spec, FairWorker, WorkerEnabled
<1>9. Fair => []((E2 \/ E3 \/ E13) => <>(I \/ E4 \/ E12))
  BY <1>6, InvariantHolds, PTL DEF Spec, FairWorker, WorkerEnabled
<1>10. Fair => []IInv
  BY InvariantHolds, PTL
<1> HIDE DEF E2, E3, E4, E5, E6, E7, E8, E9, E10, E11, E12, E13, I, Fair
<1>11. Fair => []<>I
  BY <1>1, <1>7, <1>8, <1>9, <1>10, PTL
<1>12. QED
  BY <1>11 DEF I, Fair

\* A cache stays as it is or shows what there is.
LEMMA CachesStep ==
  ASSUME TypeOK, [Next]_vars
  PROVE  /\ modelSeen' = modelSeen \/ (modelSeen' = model /\ model' = model)
         /\ secretSeen' = secretSeen \/ (secretSeen' = secret /\ secret' = secret)
         /\ \/ deploymentSeen' = deploymentSeen
            \/ deploymentSeen' = deployment /\ deployment' = deployment
         /\ \/ downloadingSeen' = downloadingSeen
            \/ downloadingSeen' = downloading /\ downloading' = downloading
<1> USE DEF world, aside, caches
<1>1. CASE Fetch \/ SetPending \/ Onward \/ WorkFails \/ UpdateStatus \/ RemoveFinalizer
  <2>1. UNCHANGED caches
    BY <1>1, OnwardStep DEF Fetch, SetPending, WorkFails, AddFinalizer, ModelUpdateFails,
       ApplyFails, SecretWriteFails, DeploymentWriteFails, StatusUpdateFails,
       SecretDeleteFails, UpdateStatus, RemoveFinalizer
  <2>2. QED
    BY <2>1
<1>2. CASE Restart
  BY <1>2 DEF Restart
<1>3. CASE SeeModel \/ SeeSecret \/ SeeDeployment \/ SeePods \/ TimerFires \/ Resync \/ UNCHANGED vars
  BY <1>3 DEF SeeModel, SeeSecret, SeeDeployment, SeePods, TimerFires, Resync, vars
<1>4. CASE WorldStep
  <2>1. UNCHANGED caches
    BY <1>4 DEF WorldStep, CreateModel, EditModel, DeleteModel, ChangeKeys, PodsChange,
       DownloadStarts, DownloadEnds
  <2>2. QED
    BY <2>1
<1>5. QED
  BY <1>1, <1>2, <1>3, <1>4, KindsOfSteps DEF WorkStays

\* Between two Reconciles, the next one starts or the request goes on to wait.
LEMMA IdleStep ==
  ASSUME TypeOK, [Next]_vars, work = Idle
  PROVE  /\ Fetch \/ WorkStays \/ Restart
         /\ ReconcileStep => Fetch
         /\ WorkStays => /\ work' = Idle
                         /\ queued => queued'
                         /\ timer => timer' \/ queued'
                         /\ TimerFires => queued'
         /\ TimerFires => WorkStays
<1>1. /\ ~SetPending /\ ~UpdateStatus /\ ~WorkFails /\ ~RemoveFinalizer /\ ~Onward
      /\ ReconcileStep => Fetch
  <2>1. \A pc \in PCs : ~At(pc)
    BY AtShape
  <2>2. Objects \subseteq PCs
    BY PCShape
  <2>3. QED
    BY <2>1, <2>2, PCShape DEF SetPending, UpdateStatus, WorkFails, RemoveFinalizer, Onward,
       ReconcileStep, AddFinalizer, ModelUpdateFails, ApplyFails, SecretWriteFails,
       DeploymentWriteFails, StatusUpdateFails, SecretDeleteFails, ReadKeys, WriteSecret,
       Apply, CreateDeployment, DeleteDeployment, UpdateDeployment, DeterminePhase,
       WritePolicy, PolicyWriteFails, DeleteSecret
<1>2. WorkStays => /\ work' = Idle
                   /\ queued => queued'
                   /\ timer => timer' \/ queued'
                   /\ TimerFires => queued'
  <2>1. SUFFICES ASSUME WorkStays PROVE /\ queued => queued'
                                        /\ timer => timer' \/ queued'
                                        /\ TimerFires => queued'
    BY EndsAndStays
  <2>2. TimerFires => queued'
    BY DEF TimerFires
  <2>3. ~queued' => ~queued /\ timer' = timer
    BY <2>1, StaysUnqueued
  <2>4. QED
    BY <2>2, <2>3
<1>3. TimerFires => WorkStays
  BY DEF WorkStays
<1>4. QED
  BY <1>1, <1>2, <1>3, KindsOfSteps

\* Who changes a model: the worker, or a user.
LEMMA ModelChanges ==
  ASSUME TypeOK, [Next]_vars
  PROVE  \/ model' = model
         \/ AddFinalizer \/ SetPending \/ UpdateStatus \/ RemoveFinalizer
         \/ /\ edits' # edits
            /\ \/ ~model.exists
               \/ ~model.deleting
<1> USE DEF world, aside
<1>1. CASE Fetch \/ Onward \/ (WorkFails /\ ~AddFinalizer) \/ Restart
  BY <1>1, OnwardStep DEF Fetch, WorkFails, ModelUpdateFails, ApplyFails, SecretWriteFails,
       DeploymentWriteFails, StatusUpdateFails, SecretDeleteFails, Restart
<1>2. CASE SeeModel \/ SeeSecret \/ SeeDeployment \/ SeePods \/ TimerFires \/ Resync \/ UNCHANGED vars
  BY <1>2 DEF SeeModel, SeeSecret, SeeDeployment, SeePods, TimerFires, Resync, vars
<1>3. CASE WorldStep
  <2>1. Edit => edits' # edits
    BY DEF Edit, TypeOK
  <2>2. ASSUME NEW ids, ChangeKeys(ids) PROVE model' = model
    BY <2>2 DEF ChangeKeys
  <2>3. ASSUME NEW s, PodsChange(s) PROVE model' = model
    BY <2>3 DEF PodsChange
  <2>4. ASSUME NEW c, NEW ext, CreateModel(c, ext) \/ EditModel(c, ext)
        PROVE  edits' # edits /\ (~model.exists \/ ~model.deleting)
    BY <2>1, <2>4 DEF CreateModel, EditModel
  <2>5. CASE DeleteModel
    BY <2>1, <2>5 DEF DeleteModel
  <2>6. CASE DownloadStarts \/ DownloadEnds
    BY <2>6 DEF DownloadStarts, DownloadEnds
  <2>7. QED
    BY <1>3, <2>2, <2>3, <2>4, <2>5, <2>6 DEF WorldStep
<1>4. QED
  BY <1>1, <1>2, <1>3, KindsOfSteps DEF WorkStays

(***************************************************************************)
(* A deletion, to its end.                                                 *)
(***************************************************************************)
BeingDeleted == model.exists /\ model.deleting
DeletionSeen == Current /\ modelSeen.deleting
OnlyDeletes == work = Idle \/ Deleting
DeletesThis == work = Idle \/ (Deleting /\ work.copy = model)

\* A deletion in progress has the finalizer, and is not forgotten: a Reconcile that does not
\* know of it has another one queued behind it, and the last one has left a timer.
DeletedHaveFinalizer ==
  /\ model.exists /\ model.deleting => model.finalizer
  /\ modelSeen.exists /\ modelSeen.deleting => modelSeen.finalizer
WorkDeletes == work # Idle => (Deleting <=> work.copy.deleting)
DeletionWaits ==
  /\ work # Idle /\ ~Deleting /\ modelSeen.exists /\ modelSeen.deleting => queued
  /\ work = Idle /\ Current /\ modelSeen.deleting => queued \/ timer
GoesOnDeleting == DeletedHaveFinalizer /\ WorkDeletes /\ DeletionWaits

\* Nobody takes the finalizer off a model that is being deleted but with the model, and the
\* cache shows what was there.
LEMMA FinalizerStep ==
  ASSUME TypeOK, DeletedHaveFinalizer, [Next]_vars
  PROVE  DeletedHaveFinalizer'
<1> USE DEF world, aside, caches
<1>1. CASE Fetch \/ Onward \/ (WorkFails /\ ~AddFinalizer)
  <2>1. UNCHANGED <<model, modelSeen>>
    BY <1>1, OnwardStep DEF Fetch, WorkFails, ModelUpdateFails, ApplyFails, SecretWriteFails,
       DeploymentWriteFails, StatusUpdateFails, SecretDeleteFails
  <2>2. QED
    BY <2>1 DEF DeletedHaveFinalizer
<1>2. CASE AddFinalizer \/ SetPending
  <2>1. modelSeen' = modelSeen
    BY <1>2 DEF AddFinalizer, SetPending
  <2>2. model'.finalizer \/ /\ model.exists /\ model'.deleting = model.deleting
                            /\ model'.finalizer = model.finalizer
    BY <1>2, ModelSteps DEF AddFinalizer, Model
  <2>3. QED
    BY <2>1, <2>2, <1>2, ModelSteps DEF DeletedHaveFinalizer
<1>3. CASE UpdateStatus
  BY <1>3, StatusShape DEF DeletedHaveFinalizer, UpdateStatus
<1>4. CASE RemoveFinalizer
  BY <1>4 DEF RemoveFinalizer, Remove, NoModel, DeletedHaveFinalizer
<1>5. CASE Restart \/ SeeModel
  BY <1>5 DEF Restart, SeeModel, DeletedHaveFinalizer
<1>6. CASE WorldStep
  <2>1. modelSeen' = modelSeen
    BY <1>6 DEF WorldStep, CreateModel, EditModel, DeleteModel, ChangeKeys, PodsChange,
       DownloadStarts, DownloadEnds
  <2>2. model'.exists /\ model'.deleting => model'.finalizer
    <3>1. ASSUME NEW c \in Configs, NEW ext \in Externals, CreateModel(c, ext) \/ EditModel(c, ext)
          PROVE  ~model'.deleting
      <4>1. CASE CreateModel(c, ext)
        BY <4>1 DEF CreateModel
      <4>2. CASE EditModel(c, ext)
        <5>1. model \in Model
          BY <4>2, ModelShape DEF EditModel, TypeOK
        <5>2. QED
          BY <4>2, <5>1 DEF EditModel, Model
      <4>3. QED
        BY <3>1, <4>1, <4>2
    <3>2. CASE DeleteModel
      <4>1. model \in Model
        BY <3>2, ModelShape DEF DeleteModel, TypeOK
      <4>2. QED
        BY <3>2, <4>1 DEF DeleteModel, Remove, NoModel, Model
    <3>3. ASSUME NEW ids, ChangeKeys(ids) PROVE model' = model
      BY <3>3 DEF ChangeKeys
    <3>4. ASSUME NEW s, PodsChange(s) PROVE model' = model
      BY <3>4 DEF PodsChange
    <3>5. CASE DownloadStarts \/ DownloadEnds
      BY <3>5 DEF DownloadStarts, DownloadEnds, DeletedHaveFinalizer
    <3>6. QED
      BY <1>6, <3>1, <3>2, <3>3, <3>4, <3>5 DEF WorldStep, DeletedHaveFinalizer
  <2>3. QED
    BY <2>1, <2>2 DEF DeletedHaveFinalizer
<1>7. CASE SeeSecret \/ SeeDeployment \/ SeePods \/ TimerFires \/ Resync \/ UNCHANGED vars
  BY <1>7 DEF SeeSecret, SeeDeployment, SeePods, TimerFires, Resync, vars, DeletedHaveFinalizer
<1>8. QED
  BY <1>1, <1>2, <1>3, <1>4, <1>5, <1>6, <1>7, KindsOfSteps DEF WorkStays

\* A Reconcile deletes exactly when its copy says so.
LEMMA WorkDeletesStep ==
  ASSUME TypeOK, WorkDeletes, [Next]_vars
  PROVE  WorkDeletes'
<1>1. CASE Fetch
  <2>1. CASE modelSeen.exists /\ (modelSeen.deleting => modelSeen.finalizer)
    <3>1. modelSeen \in Model /\ work' = Start(modelSeen)
      BY <1>1, <2>1, ModelShape DEF Fetch, TypeOK
    <3>2. work'.pc # "removeFinalizer" /\ (work'.pc = "deleteSecret" <=> work'.copy.deleting)
      BY <3>1, StartShape
    <3>3. QED
      BY <3>2 DEF WorkDeletes, Deleting, At
  <2>2. CASE ~(modelSeen.exists /\ (modelSeen.deleting => modelSeen.finalizer))
    BY <1>1, <2>2 DEF Fetch, WorkDeletes
  <2>3. QED
    BY <2>1, <2>2
<1>2. CASE SetPending
  <2>1. /\ work # Idle /\ work.pc = "setPending" /\ work'.pc = "readKeys"
        /\ work.copy = model /\ work'.copy = model' /\ model'.deleting = model.deleting
    BY <1>2, SetPendingStep, ModelSteps
  <2>2. QED
    BY <2>1 DEF WorkDeletes, Deleting, At
<1>3. CASE Onward
  <2>1. Further
    BY <1>3, OnwardStep
  <2>2. QED
    BY <2>1 DEF Further, Arc, WorkDeletes, Deleting, At
<1>4. CASE WorkFails \/ UpdateStatus \/ RemoveFinalizer \/ Restart
  BY <1>4, EndsAndStays DEF WorkDeletes
<1>5. CASE WorkStays
  BY <1>5, EndsAndStays DEF WorkDeletes, Deleting, At
<1>6. QED
  BY <1>1, <1>2, <1>3, <1>4, <1>5, KindsOfSteps

\* A deletion that is seen keeps the request coming.
LEMMA WaitsStep ==
  ASSUME TypeOK, Parts, GoesOnDeleting, [Next]_vars
  PROVE  DeletionWaits'
<1> USE DEF caches
<1> SUFFICES ASSUME ~queued'
             PROVE  /\ work' # Idle /\ ~Deleting' => ~(modelSeen'.exists /\ modelSeen'.deleting)
                    /\ work' = Idle /\ Current' /\ modelSeen'.deleting => timer'
  BY DEF DeletionWaits
<1>1. CASE Fetch
  <2>1. CASE modelSeen.exists /\ (modelSeen.deleting => modelSeen.finalizer)
    <3>1. modelSeen \in Model /\ work' = Start(modelSeen)
      BY <1>1, <2>1, ModelShape DEF Fetch, TypeOK
    <3>2. work' # Idle /\ (work'.pc = "deleteSecret" <=> modelSeen.deleting)
      BY <3>1, StartShape
    <3>3. QED
      BY <1>1, <3>2 DEF Fetch, Deleting, At
  <2>2. CASE ~(modelSeen.exists /\ (modelSeen.deleting => modelSeen.finalizer))
    BY <1>1, <2>2 DEF Fetch, Current, GoesOnDeleting, DeletedHaveFinalizer
  <2>3. QED
    BY <2>1, <2>2
<1>2. CASE SetPending
  <2>1. /\ work # Idle /\ work.pc = "setPending" /\ work' # Idle
        /\ modelSeen' = modelSeen /\ queued' = queued
    BY <1>2, SetPendingStep, ModelSteps DEF Idle
  <2>2. QED
    BY <2>1 DEF GoesOnDeleting, DeletionWaits, Deleting, At
<1>3. CASE Onward
  <2>1. Further /\ modelSeen' = modelSeen
    BY <1>3, OnwardStep
  <2>2. Deleting => Deleting'
    BY <2>1 DEF Further, Arc, Deleting, At
  <2>3. QED
    BY <2>1, <2>2 DEF Further, GoesOnDeleting, DeletionWaits
<1>4. CASE UpdateStatus
  <2>1. /\ work' = Idle /\ modelSeen' = modelSeen /\ work # Idle
        /\ work.pc = "status" \/ work.pc = "statusEarly"
    BY <1>4, EndsAndStays, AtShape, PCShape DEF UpdateStatus, At
  <2>2. ~Deleting
    BY <2>1 DEF Deleting, At
  <2>3. timer' \/ queued' = queued
    BY <1>4 DEF UpdateStatus, Again, Done
  <2>4. CASE ~queued
    <3>1. ~(modelSeen.exists /\ modelSeen.deleting)
      BY <2>1, <2>2, <2>4 DEF GoesOnDeleting, DeletionWaits
    <3>2. QED
      BY <2>1, <3>1 DEF Current
  <2>5. CASE timer'
    BY <2>1, <2>5
  <2>6. QED
    BY <2>3, <2>4, <2>5
<1>5. CASE WorkFails \/ RemoveFinalizer \/ Restart
  <2>1. work' = Idle
    BY <1>5, EndsAndStays
  <2>2. timer' \/ ~model'.exists \/ queued'
    <3>1. CASE WorkFails
      BY <3>1, EndsAndStays
    <3>2. CASE RemoveFinalizer
      BY <3>2 DEF RemoveFinalizer, Remove, NoModel
    <3>3. CASE Restart
      BY <3>3 DEF Restart, world, aside
    <3>4. QED
      BY <1>5, <3>1, <3>2, <3>3
  <2>3. QED
    BY <2>1, <2>2 DEF Current
<1>6. CASE WorkStays
  <2>1. work' = work /\ ~queued /\ modelSeen' = modelSeen /\ timer' = timer
    BY <1>6, EndsAndStays, StaysUnqueued
  <2>2. Current' => Current
    BY <2>1, CurrentStep
  <2>3. QED
    BY <2>1, <2>2 DEF GoesOnDeleting, DeletionWaits, Deleting, At
<1>7. QED
  BY <1>1, <1>2, <1>3, <1>4, <1>5, <1>6, KindsOfSteps

\* The three, in every state of every behaviour.
LEMMA DeletingGoesOn == Spec => []GoesOnDeleting
<1>1. Init => GoesOnDeleting
  BY DEF Init, GoesOnDeleting, DeletedHaveFinalizer, WorkDeletes, DeletionWaits, NoModel, Current
<1>2. IInv /\ GoesOnDeleting /\ [Next]_vars => GoesOnDeleting'
  BY FinalizerStep, WorkDeletesStep, WaitsStep DEF GoesOnDeleting, IInv
<1>3. QED
  BY <1>1, <1>2, InvariantHolds, PTL DEF Spec

\* A model that is being deleted stays so until it goes.
LEMMA DeletedModel ==
  ASSUME TypeOK, [Next]_vars, BeingDeleted
  PROVE  /\ model'.exists => BeingDeleted' /\ model'.generation = model.generation
         /\ \/ model' = model \/ RemoveFinalizer
            \/ work # Idle /\ work.pc \in {"addFinalizer", "setPending", "status", "statusEarly"}
         /\ RemoveFinalizer => ~model'.exists
<1>1. model' = model \/ AddFinalizer \/ SetPending \/ UpdateStatus \/ RemoveFinalizer
  BY ModelChanges DEF BeingDeleted
<1>2. RemoveFinalizer => ~model'.exists
  BY DEF RemoveFinalizer, Remove, NoModel
<1>3. AddFinalizer \/ SetPending \/ UpdateStatus =>
        /\ model'.exists => BeingDeleted' /\ model'.generation = model.generation
        /\ work # Idle /\ work.pc \in {"addFinalizer", "setPending", "status", "statusEarly"}
  BY ModelSteps, StatusShape, AtShape, PCShape
     DEF BeingDeleted, AddFinalizer, SetPending, UpdateStatus, At
<1>4. QED
  BY <1>1, <1>2, <1>3 DEF BeingDeleted

\* Once the cache shows the deletion it goes on to show it.
LEMMA SeenDeleted ==
  ASSUME IInv, [Next]_vars, BeingDeleted, BeingDeleted'
  PROVE  /\ DeletionSeen => DeletionSeen'
         /\ SeeModel => DeletionSeen'
         /\ modelSeen = model => DeletionSeen
<1>1. /\ modelSeen' = modelSeen \/ (modelSeen' = model /\ model' = model)
      /\ model'.generation = model.generation
  BY CachesStep, DeletedModel DEF IInv, BeingDeleted
<1>2. SeeModel => modelSeen' = model /\ model' = model
  BY DEF SeeModel, world, aside
<1>3. QED
  BY <1>1, <1>2 DEF DeletionSeen, Current, BeingDeleted

\* A Reconcile that starts then deletes, and leaves the model alone before.
LEMMA DeletedWork ==
  ASSUME IInv, GoesOnDeleting, [Next]_vars, BeingDeleted, BeingDeleted', DeletionSeen,
         OnlyDeletes
  PROVE  /\ OnlyDeletes'
         /\ model' = model
         /\ modelSeen = model => modelSeen' = model'
         /\ SeeModel => modelSeen' = model'
         /\ modelSeen = model /\ DeletesThis => DeletesThis'
<1>1. model' = model
  <2>1. ~(work # Idle /\ work.pc \in {"addFinalizer", "setPending", "status", "statusEarly"})
    BY DEF OnlyDeletes, Deleting, At
  <2>2. QED
    BY <2>1, DeletedModel DEF IInv, BeingDeleted
<1>2. modelSeen = model \/ SeeModel => modelSeen' = model'
  BY <1>1, CachesStep DEF IInv, SeeModel
<1>3. \/ work' = Idle
      \/ Deleting' /\ work'.copy = work.copy /\ work # Idle
      \/ Deleting' /\ work'.copy = modelSeen
  <2>1. CASE Fetch
    <3>1. /\ modelSeen \in Model /\ work' = Start(modelSeen)
      BY <2>1, ModelShape DEF Fetch, DeletionSeen, Current, IInv, TypeOK, GoesOnDeleting,
         DeletedHaveFinalizer
    <3>2. work'.pc = "deleteSecret" /\ work'.copy = modelSeen
      BY <3>1, StartShape DEF DeletionSeen
    <3>3. QED
      BY <3>2 DEF Deleting, At
  <2>2. CASE SetPending
    BY <2>2, SetPendingStep DEF IInv, OnlyDeletes, Deleting, At
  <2>3. CASE Onward
    <3>1. Further
      BY <2>3, OnwardStep DEF IInv
    <3>2. QED
      BY <3>1 DEF Further, Arc, OnlyDeletes, Deleting, At
  <2>4. CASE WorkFails \/ UpdateStatus \/ RemoveFinalizer \/ Restart
    BY <2>4, EndsAndStays
  <2>5. CASE WorkStays
    BY <2>5, EndsAndStays DEF OnlyDeletes, Deleting, At
  <2>6. QED
    BY <2>1, <2>2, <2>3, <2>4, <2>5, KindsOfSteps
<1>4. QED
  BY <1>1, <1>2, <1>3 DEF OnlyDeletes, DeletesThis

\* Stages of the last Reconcile.
Waits == work = Idle /\ ~queued /\ timer
Waited == work = Idle /\ queued
Clears == work # Idle /\ work.pc = "deleteSecret"
Removes == work # Idle /\ work.pc = "removeFinalizer"

\* Each stage lasts or gives way to the next one, and nothing follows the last but the end.
LEMMA LastReconcile ==
  ASSUME IInv, GoesOnDeleting, [Next]_vars, BeingDeleted, BeingDeleted', DeletionSeen,
         DeletesThis, faults' = faults
  PROVE  /\ Waits \/ Waited \/ Clears \/ Removes
         /\ Waits => Waits' \/ Waited'
         /\ Waits /\ TimerFires => Waited'
         /\ Waited => Waited' \/ Clears'
         /\ Waited /\ ReconcileStep => Clears'
         /\ Clears => Clears' \/ Removes'
         /\ Clears /\ ReconcileStep => Removes'
         /\ Removes => Removes'
         /\ Removes => ~ReconcileStep
<1>1. Waits \/ Waited \/ Clears \/ Removes
  <2>1. work = Idle => queued \/ timer
    BY DEF DeletionSeen, GoesOnDeleting, DeletionWaits
  <2>2. work # Idle => Deleting
    BY DEF DeletesThis
  <2>3. QED
    BY <2>1, <2>2 DEF Waits, Waited, Clears, Removes, Deleting, At
<1>2. ~Fault
  BY DEF Fault, IInv, TypeOK
<1>3. ~Restart
  BY <1>2 DEF Restart
<1>4. /\ Clears => ~ModelUpdateFails
      /\ Removes => ~ModelUpdateFails
  <2>1. Clears => ~(At("addFinalizer") \/ At("setPending") \/ At("removeFinalizer"))
    BY DEF Clears, At
  <2>2. Removes => work.copy = model
    BY DEF Removes, DeletesThis
  <2>3. QED
    BY <1>2, <2>1, <2>2 DEF ModelUpdateFails, Refusal
<1>5. ~RemoveFinalizer
  BY DeletedModel DEF IInv, BeingDeleted
<1>6. Clears \/ Removes =>
        /\ ~Fetch /\ ~SetPending /\ ~AddFinalizer /\ ~UpdateStatus /\ ~StatusUpdateFails
        /\ ~SecretWriteFails /\ ~DeploymentWriteFails /\ ~SecretDeleteFails
        /\ \A o \in Objects : ~ApplyFails(o)
  <2>1. \A o \in Objects : o # "deleteSecret" /\ o # "removeFinalizer"
    BY DEF Objects, Owned, Optional
  <2>2. QED
    BY <1>2, <2>1 DEF Clears, Removes, Fetch, SetPending, AddFinalizer, UpdateStatus,
       StatusUpdateFails, SecretWriteFails, DeploymentWriteFails, SecretDeleteFails,
       ApplyFails, At
<1>7. Clears \/ Removes => ~WorkFails
  BY <1>4, <1>6 DEF WorkFails
<1>8. Onward => /\ work # Idle /\ work' # Idle
                /\ Clears => work'.pc = "removeFinalizer"
                /\ ~Removes
  BY OnwardStep DEF IInv, Further, Arc, Clears, Removes
<1>9. CASE Clears \/ Removes
  <2>1. Onward \/ WorkStays
    BY <1>3, <1>5, <1>6, <1>7, <1>9, KindsOfSteps
  <2>2. WorkStays => work' = work
    BY EndsAndStays
  <2>3. ReconcileStep => Onward
    <3>1. ASSUME NEW o \in Objects, Apply(o) PROVE Onward
      BY <3>1 DEF Apply, Onward
    <3>2. ~PolicyWriteFails
      BY <1>9 DEF PolicyWriteFails, Clears, Removes, At
    <3>3. QED
      BY <1>4, <1>5, <1>6, <1>9, <3>1, <3>2 DEF ReconcileStep, Onward
  <2>4. QED
    BY <1>1, <1>8, <1>9, <2>1, <2>2, <2>3 DEF Clears, Removes, Waits, Waited
<1>10. CASE work = Idle
  <2>1. Fetch => Waited /\ Clears'
    <3>1. SUFFICES ASSUME Fetch PROVE Waited /\ Clears'
      OBVIOUS
    <3>2. /\ modelSeen \in Model /\ work' = Start(modelSeen)
      BY <3>1, ModelShape DEF Fetch, DeletionSeen, Current, IInv, TypeOK, GoesOnDeleting,
         DeletedHaveFinalizer
    <3>3. work' # Idle /\ work'.pc = "deleteSecret"
      BY <3>2, StartShape DEF DeletionSeen
    <3>4. QED
      BY <3>1, <3>3 DEF Fetch, Waited, Clears
  <2>2. QED
    BY <1>1, <1>3, <1>10, <2>1, IdleStep DEF IInv, Waits, Waited, Clears, Removes
<1>11. QED
  BY <1>1, <1>9, <1>10 DEF Waits, Waited

\* A deletion that lasts is seen.
LEMMA DeletionIsSeen ==
  Spec /\ WF_vars(SeeModel) /\ []CachesEnabled /\ <>[]BeingDeleted => <>[]DeletionSeen
<1>1. IInv /\ BeingDeleted /\ BeingDeleted' /\ [Next]_vars =>
        /\ DeletionSeen => DeletionSeen'
        /\ modelSeen = model => DeletionSeen
  BY SeenDeleted
<1>2. IInv /\ BeingDeleted /\ BeingDeleted' /\ <<SeeModel>>_vars => DeletionSeen'
  BY SeenDeleted DEF Next
<1>3. CachesEnabled => (modelSeen = model \/ ENABLED <<SeeModel>>_vars)
  BY DEF CachesEnabled
<1>4. QED
  BY <1>1, <1>2, <1>3, InvariantHolds, PTL DEF Spec

\* The Reconcile that did not know of the deletion ends, and none like it follows.
LEMMA WorkOnlyDeletes ==
  Spec /\ FairWorker /\ FairCaches /\ []StepsAreEnabled /\ <>[]BeingDeleted
    => <>[](DeletionSeen /\ OnlyDeletes)
<1>1. IInv /\ GoesOnDeleting /\ BeingDeleted /\ BeingDeleted' /\ DeletionSeen /\ OnlyDeletes
        /\ [Next]_vars => OnlyDeletes'
  BY DeletedWork
<1>2. work = Idle => OnlyDeletes
  BY DEF OnlyDeletes
<1>3. Spec /\ FairWorker /\ []StepsAreEnabled => []<>(work = Idle)
  BY WorkEnds, PTL DEF StepsAreEnabled
<1>4. Spec /\ FairCaches /\ []StepsAreEnabled /\ <>[]BeingDeleted => <>[]DeletionSeen
  BY DeletionIsSeen, PTL DEF StepsAreEnabled, FairCaches
<1>5. QED
  BY <1>1, <1>2, <1>3, <1>4, InvariantHolds, DeletingGoesOn, PTL DEF Spec

\* Then the cache has nothing left to learn, and the next copy is the model.
LEMMA WorkDeletesThis ==
  Spec /\ FairWorker /\ FairCaches /\ []StepsAreEnabled /\ <>[]BeingDeleted
    => <>[](DeletionSeen /\ DeletesThis)
<1> DEFINE Known == IInv /\ GoesOnDeleting /\ BeingDeleted /\ DeletionSeen /\ OnlyDeletes
           Same == modelSeen = model
<1>1. Known /\ Known' /\ [Next]_vars => (Same => Same')
  BY DeletedWork
<1>2. Known /\ Known' /\ <<SeeModel>>_vars => Same'
  BY DeletedWork DEF Next
<1>3. Known /\ Known' /\ Same /\ [Next]_vars => (DeletesThis => DeletesThis')
  BY DeletedWork
<1>4. work = Idle => DeletesThis
  BY DEF DeletesThis
<1>5. Spec /\ FairWorker /\ []StepsAreEnabled => []<>(work = Idle)
  BY WorkEnds, PTL DEF StepsAreEnabled
<1>6. CachesEnabled => (Same \/ ENABLED <<SeeModel>>_vars)
  BY DEF CachesEnabled
<1>7. Spec /\ FairWorker /\ FairCaches /\ []StepsAreEnabled /\ <>[]BeingDeleted => <>[]Known
  BY WorkOnlyDeletes, InvariantHolds, DeletingGoesOn, PTL
<1>8. Known => DeletionSeen
  OBVIOUS
<1> HIDE DEF Known, Same
<1>9. Spec /\ FairWorker /\ FairCaches /\ []StepsAreEnabled /\ <>[]BeingDeleted 
           => <>[](Known /\ Same)
  BY <1>1, <1>2, <1>6, <1>7, PTL DEF Spec, FairCaches, StepsAreEnabled
<1>10. QED
  BY <1>3, <1>4, <1>5, <1>8, <1>9, PTL DEF Spec

FaultsAre(n) == faults = n

\* A model that is being deleted goes, once nothing fails any more: the cache comes to show the
\* deletion, a Reconcile of it follows, and clears and removes (reconcileDelete).
THEOREM DeletionIsCompleted ==
  ASSUME NEW n
  PROVE  FairSpec /\ []StepsAreEnabled /\ <>[]FaultsAre(n) => DeletionCompletes
<1> DEFINE Known == /\ IInv /\ GoesOnDeleting /\ BeingDeleted /\ DeletionSeen /\ DeletesThis
                    /\ FaultsAre(n)
<1>1. Known /\ Known' /\ [Next]_vars =>
        /\ Waits \/ Waited \/ Clears \/ Removes
        /\ Waits => Waits' \/ Waited'
        /\ Waited => Waited' \/ Clears'
        /\ Clears => Clears' \/ Removes'
        /\ Removes => Removes'
  BY LastReconcile DEF FaultsAre
<1>2. Known /\ Known' /\ <<TimerFires>>_vars => (Waits => Waited')
  BY LastReconcile DEF Next, FaultsAre
<1>3. Known /\ Known' /\ <<ReconcileStep>>_vars =>
        /\ Waited => Clears'
        /\ Clears => Removes'
        /\ ~Removes
  BY LastReconcile DEF Next, FaultsAre
<1>4. /\ Waits => timer
      /\ Waited \/ Clears \/ Removes => work # Idle \/ queued
  BY DEF Waits, Waited, Clears, Removes
<1>5. FairSpec /\ []StepsAreEnabled /\ <>[]BeingDeleted /\ <>[]FaultsAre(n) => <>[]Known
  BY WorkDeletesThis, InvariantHolds, DeletingGoesOn, PTL DEF FairSpec
<1> HIDE DEF Known
<1>6. FairSpec /\ []StepsAreEnabled /\ <>[]FaultsAre(n) => ~<>[]BeingDeleted
  BY <1>1, <1>2, <1>3, <1>4, <1>5, PTL
     DEF FairSpec, Spec, FairWorker, FairTimer, StepsAreEnabled, WorkerEnabled, TimerEnabled
<1> DEFINE Gone == ~model.exists
<1>7. IInv /\ BeingDeleted /\ [Next]_vars => BeingDeleted' \/ Gone'
  BY DeletedModel DEF IInv
<1>8. FairSpec => [](BeingDeleted => []BeingDeleted \/ <>Gone)
  BY <1>7, InvariantHolds, PTL DEF FairSpec, Spec
<1>9. model.exists /\ model.deleting => BeingDeleted
  BY DEF BeingDeleted
<1>10. QED
  BY <1>6, <1>8, <1>9, PTL DEF DeletionCompletes

(***************************************************************************)
(* The allow-list of a model that stays served.                            *)
(***************************************************************************)

\* The model is served by pods in state s, none of which downloads, and no counter moves.
Served(s, e, n) ==
  /\ Alive /\ model.external /\ ~downloading
  /\ deployment.exists /\ deployment.pods = s /\ s \in {"degraded", "ready"}
  /\ edits = e /\ faults = n

\* While a model is served and nobody interferes, its Deployment stays and so does its
\* Secret, once there is one; the model changes only by what a Reconcile makes of it.
LEMMA ServedStep ==
  ASSUME IInv, [Next]_vars, NEW s, NEW e, NEW n, Served(s, e, n), Served(s, e, n)'
  PROVE  /\ Kept /\ ~Deleting /\ ~Fault /\ ~Edit
         /\ ~RemoveFinalizer /\ ~DeleteDeployment /\ ~Restart
         /\ deployment' = deployment /\ downloading' = downloading
         /\ secret' = secret \/ (~secret.exists /\ secret'.exists)
         /\ model'.generation = model.generation
         /\ model' = model \/ AddFinalizer \/ SetPending \/ UpdateStatus
<1> USE DEF world, aside
<1>1. Kept /\ ~Deleting
  BY DEF Served, IInv, Parts, PodsHaveModel, Finalized, Kept, DeletesForNobody
<1>2. ~Fault /\ ~Edit /\ edits' = edits
  BY DEF Served, Fault, Edit, IInv, TypeOK
<1>3. ~RemoveFinalizer /\ ~DeleteDeployment /\ ~Restart /\ ~DeleteSecret
  BY <1>1, <1>2 DEF RemoveFinalizer, DeleteDeployment, DeleteSecret, Restart, Deleting, Served,
     NoDeployment
<1>4. model' = model \/ AddFinalizer \/ SetPending \/ UpdateStatus
  BY <1>2, <1>3, ModelChanges DEF IInv
<1>5. model'.generation = model.generation
  BY <1>4, ModelSteps, StatusShape DEF IInv, Served, Alive
<1>6. WorldStep => \E t \in PodStates : PodsChange(t)
  <2>1. ~DownloadStarts /\ ~DownloadEnds
    BY DEF DownloadStarts, DownloadEnds, Served
  <2>2. QED
    BY <1>2, <2>1 DEF WorldStep, CreateModel, EditModel, DeleteModel, ChangeKeys
<1>7. deployment' = deployment
  <2>1. ASSUME NEW t \in PodStates, PodsChange(t) PROVE FALSE
    <3>1. deployment \in Deployment
      BY DeploymentShape DEF Served, IInv, TypeOK
    <3>2. deployment'.pods = t /\ t # deployment.pods
      BY <2>1, <3>1 DEF PodsChange, Deployment
    <3>3. QED
      BY <3>2 DEF Served
  <2>2. CASE CreateDeployment
    BY <2>2 DEF CreateDeployment, Served
  <2>3. CASE UpdateDeployment
    <3>1. deployment \in Deployment
      BY DeploymentShape DEF Served, IInv, TypeOK
    <3>2. deployment' = [deployment EXCEPT !.config = work.copy.config]
      BY <2>3 DEF UpdateDeployment
    <3>3. deployment'.config = deployment.config
      BY ConfigStep DEF Served, IInv, vars
    <3>4. QED
      BY <3>1, <3>2, <3>3 DEF Deployment
  <2>4. CASE WorkStays
    BY <1>6, <2>1, <2>4 DEF WorkStays, SeeModel, SeeSecret, SeeDeployment, SeePods, TimerFires,
       Resync, vars
  <2>5. CASE Fetch \/ SetPending \/ WorkFails \/ UpdateStatus
    BY <2>5 DEF Fetch, SetPending, WorkFails, UpdateStatus, AddFinalizer, ModelUpdateFails,
       ApplyFails, SecretWriteFails, DeploymentWriteFails, StatusUpdateFails, SecretDeleteFails
  <2>6. CASE Onward
    BY <1>3, <2>2, <2>3, <2>6 DEF Onward, ReadKeys, WriteSecret, Apply, ApplyFails,
       DeterminePhase, WritePolicy, PolicyWriteFails
  <2>7. QED
    BY <1>3, <2>4, <2>5, <2>6, KindsOfSteps
<1>8. secret' = secret \/ (~secret.exists /\ secret'.exists)
  <2>1. CASE WriteSecret
    BY <2>1 DEF WriteSecret, SecretAccepts, WrittenSecret, EmptySecret
  <2>2. CASE WorkStays
    BY <1>6, <2>2 DEF WorkStays, SeeModel, SeeSecret, SeeDeployment, SeePods, TimerFires,
       Resync, vars, PodsChange
  <2>3. CASE Fetch \/ SetPending \/ WorkFails \/ UpdateStatus
    BY <2>3 DEF Fetch, SetPending, WorkFails, UpdateStatus, AddFinalizer, ModelUpdateFails,
       ApplyFails, SecretWriteFails, DeploymentWriteFails, StatusUpdateFails, SecretDeleteFails
  <2>4. CASE Onward
    BY <1>3, <2>1, <2>4 DEF Onward, ReadKeys, Apply, ApplyFails, CreateDeployment,
       UpdateDeployment, DeterminePhase, WritePolicy, PolicyWriteFails
  <2>5. QED
    BY <1>3, <2>2, <2>3, <2>4, KindsOfSteps
<1>9. downloading' = downloading
  <2>1. ~downloading /\ ~downloading'
    BY DEF Served
  <2>2. downloading \in BOOLEAN /\ downloading' \in BOOLEAN
    BY TypeStep DEF IInv, TypeOK
  <2>3. QED
    BY <2>1, <2>2
<1>10. QED
  BY <1>1, <1>2, <1>3, <1>4, <1>5, <1>7, <1>8, <1>9

\* The cache shows that the model is to be served.
ServedSeen == Current /\ ~modelSeen.deleting /\ modelSeen.external

\* Once the cache shows that, it goes on to show it.
LEMMA ServedIsSeen ==
  ASSUME IInv, [Next]_vars, NEW s, NEW e, NEW n, Served(s, e, n), Served(s, e, n)'
  PROVE  /\ ServedSeen => ServedSeen'
         /\ modelSeen = model => ServedSeen
         /\ SeeModel => ServedSeen'
<1>1. model'.generation = model.generation
  BY ServedStep
<1>2. /\ modelSeen' = modelSeen \/ (modelSeen' = model /\ model' = model)
      /\ SeeModel => modelSeen' = model /\ model' = model
  BY CachesStep DEF IInv, SeeModel, world, aside
<1>3. QED
  BY <1>1, <1>2 DEF ServedSeen, Current, Served, Alive

\* The caches show all there is to know, and a Reconcile goes by it.
Informed ==
  /\ ServedSeen
  /\ secretSeen = secret /\ deploymentSeen = deployment /\ downloadingSeen = downloading

InformedWork ==
  work # Idle =>
    /\ work.copy.external
    /\ work.pc \notin Early => work.ids = secret.ids
    /\ work.pc = "addFinalizer" => ~work.copy.finalizer
    /\ work.pc # "statusEarly"

Admits == policy.exists /\ policy.allowed = secret.ids

\* A Reconcile that goes by what there is to know goes on to.
LEMMA InformedStep ==
  ASSUME IInv, [Next]_vars,
         NEW s, NEW e, NEW n, Served(s, e, n), Served(s, e, n)',
         Informed, secret' = secret, InformedWork
  PROVE  InformedWork'
<1>1. CASE Fetch
  <2>1. modelSeen \in Model /\ work' = Start(modelSeen)
    BY <1>1, ModelShape DEF Fetch, Informed, ServedSeen, Current, IInv, TypeOK
  <2>2. /\ work'.copy.external /\ work'.pc \in Early
    BY <2>1, StartShape DEF Informed, ServedSeen, Early
  <2>3. work'.pc = "addFinalizer" => ~work'.copy.finalizer
    BY <2>1, StartShape DEF Start
  <2>4. QED
    BY <2>2, <2>3 DEF InformedWork, Early
<1>2. CASE SetPending
  BY <1>2, SetPendingStep DEF IInv, InformedWork, Early
<1>3. CASE Onward
  <2>1. /\ Further /\ ~Deleting
        /\ work.pc = "phase" => work'.pc = "statusEarly" \/ Tells(work'.phase)
    BY <1>3, OnwardStep, ServedStep DEF IInv
  <2>2. work'.ids = secret'.ids
    BY <2>1 DEF InformedWork, Further, Arc, Early, Informed, Deleting, At
  <2>3. work'.pc # "statusEarly"
    <3>1. CASE DeterminePhase
      <4>1. InPhase(PhaseOf(deploymentSeen, downloadingSeen))
        BY <3>1, ServedStep DEF DeterminePhase
      <4>2. PhaseOf(deploymentSeen, downloadingSeen) \in {"Degraded", "Ready"}
        BY DEF PhaseOf, Served, Informed
      <4>3. work'.pc = "inferencePool"
        BY <2>1, <4>1, <4>2 DEF InPhase, AfterPhase, Further, Running
      <4>4. QED
        BY <4>3
    <3>2. CASE work.pc # "phase"
      BY <2>1, <3>2 DEF Further, Arc
    <3>3. CASE work.pc = "phase" /\ ~DeterminePhase
      <4>1. \A o \in Objects : o # "phase"
        BY DEF Objects, Owned, Optional
      <4>2. QED
        BY <1>3, <3>3, <4>1 DEF Onward, ReadKeys, WriteSecret, Apply, ApplyFails,
           CreateDeployment, DeleteDeployment, UpdateDeployment, WritePolicy,
           PolicyWriteFails, DeleteSecret, At
    <3>4. QED
      BY <3>1, <3>2, <3>3
  <2>4. QED
    BY <2>1, <2>2, <2>3 DEF InformedWork, Further, Arc
<1>4. CASE WorkFails \/ UpdateStatus \/ RemoveFinalizer \/ Restart
  BY <1>4, EndsAndStays DEF InformedWork
<1>5. CASE WorkStays
  BY <1>5, EndsAndStays DEF InformedWork
<1>6. QED
  BY <1>1, <1>2, <1>3, <1>4, <1>5, KindsOfSteps

\* Only a Reconcile writes the policy.
LEMMA PolicyChanges ==
  ASSUME TypeOK, [Next]_vars
  PROVE  policy' = policy \/ WritePolicy
<1> USE DEF world, aside
<1>1. CASE Fetch \/ SetPending \/ WorkFails \/ UpdateStatus \/ RemoveFinalizer \/ Restart
  BY <1>1 DEF Fetch, SetPending, WorkFails, UpdateStatus, AddFinalizer, ModelUpdateFails,
     ApplyFails, SecretWriteFails, DeploymentWriteFails, StatusUpdateFails, SecretDeleteFails,
     RemoveFinalizer, Restart
<1>2. CASE Onward
  BY <1>2 DEF Onward, ReadKeys, WriteSecret, Apply, ApplyFails, CreateDeployment,
     DeleteDeployment, UpdateDeployment, DeterminePhase, PolicyWriteFails, DeleteSecret
<1>3. CASE WorkStays
  <2>1. WorldStep => policy' = policy
    BY DEF WorldStep, CreateModel, EditModel, DeleteModel, Remove, ChangeKeys, PodsChange,
       DownloadStarts, DownloadEnds
  <2>2. QED
    BY <1>3, <2>1 DEF WorkStays, SeeModel, SeeSecret, SeeDeployment, SeePods, TimerFires,
       Resync, vars
<1>4. QED
  BY <1>1, <1>2, <1>3, KindsOfSteps

\* What such a Reconcile writes admits the keys, and is not taken back.
LEMMA AdmitsStep ==
  ASSUME IInv, [Next]_vars, InformedWork, secret' = secret
  PROVE  /\ WritePolicy => Admits'
         /\ Admits => Admits'
<1>1. WritePolicy => Admits'
  <2>1. SUFFICES ASSUME WritePolicy PROVE Admits'
    OBVIOUS
  <2>2. work # Idle /\ work.pc = "policy"
    BY <2>1, AtShape, PCShape DEF WritePolicy, At, IInv
  <2>3. work.copy.external /\ work.ids = secret.ids
    BY <2>2 DEF InformedWork, Early
  <2>4. QED
    BY <2>1, <2>3 DEF WritePolicy, Rendered, Admits
<1>2. QED
  BY <1>1, PolicyChanges DEF IInv, Admits

\* The steps of a Reconcile that nothing refuses.
Provisions(pc) == work # Idle /\ work.pc = pc

\* Nothing makes it end before the policy.
LEMMA ProvisionStep ==
  ASSUME IInv, [Next]_vars,
         NEW s, NEW e, NEW n, Served(s, e, n), Served(s, e, n)',
         Informed, secret' = secret, InformedWork,
         work # Idle, work.pc \notin {"addFinalizer", "setPending", "status"}
  PROVE  /\ \/ work' = work /\ ~ReconcileStep
            \/ work' # Idle /\ Arc(work.pc, work'.pc) /\ work'.pc # "statusEarly"
         /\ work.pc = "policy" /\ work' # work => Admits'
<1>1. /\ ~Fault /\ ~RemoveFinalizer /\ ~Restart /\ ~Deleting
  BY ServedStep
<1>2. /\ work.pc \notin {"idle", "addFinalizer", "setPending", "status", "statusEarly",
                         "deleteSecret", "removeFinalizer"}
  BY <1>1, AtShape DEF InformedWork, Deleting, At, IInv, TypeOK, Running, PCs, Objects,
     Owned, Optional
<1>3. /\ ~Fetch /\ ~SetPending /\ ~UpdateStatus /\ ~AddFinalizer /\ ~ModelUpdateFails
      /\ ~StatusUpdateFails /\ ~SecretDeleteFails /\ ~DeleteSecret
      /\ \A o \in Objects : ~ApplyFails(o)
  BY <1>1, <1>2 DEF Fetch, SetPending, UpdateStatus, AddFinalizer, ModelUpdateFails,
     StatusUpdateFails, SecretDeleteFails, DeleteSecret, ApplyFails, At
<1>4. ~SecretWriteFails
  BY <1>1 DEF SecretWriteFails, Refusal, SecretAccepts, Informed
<1>5. ~DeploymentWriteFails
  BY <1>1 DEF DeploymentWriteFails, Refusal, Informed
<1>6. ~WorkFails
  BY <1>3, <1>4, <1>5 DEF WorkFails
<1>7. Onward \/ WorkStays
  BY <1>1, <1>3, <1>6, KindsOfSteps
<1>8. WorkStays => work' = work
  BY EndsAndStays
<1>9. Onward => work' # Idle /\ Arc(work.pc, work'.pc) /\ work'.pc # "statusEarly"
  <2>1. Onward => Further
    BY OnwardStep DEF IInv
  <2>2. InformedWork'
    BY InformedStep
  <2>3. QED
    BY <2>1, <2>2 DEF InformedWork, Further
<1>10. ReconcileStep => Onward
  <2>1. ASSUME NEW o \in Objects, Apply(o) PROVE Onward
    BY <2>1 DEF Apply, Onward
  <2>2. QED
    BY <1>1, <1>3, <1>4, <1>5, <2>1 DEF ReconcileStep, Onward
<1>11. work.pc = "policy" /\ work' # work => Admits'
  <2>1. SUFFICES ASSUME work.pc = "policy", Onward PROVE WritePolicy
    BY <1>7, <1>8, AdmitsStep
  <2>2. \A o \in Objects : o # "policy"
    BY DEF Objects, Owned, Optional
  <2>3. QED
    BY <1>1, <2>1, <2>2 DEF Onward, ReadKeys, WriteSecret, Apply, ApplyFails, DeterminePhase,
       CreateDeployment, DeleteDeployment, UpdateDeployment, DeleteSecret, PolicyWriteFails, At
<1>12. QED
  BY <1>7, <1>8, <1>9, <1>10, <1>11

\* A Reconcile has come past the keys.
Past == work # Idle /\ work.pc \notin Early

\* The policy does not admit the keys, everybody knows what there is to know, and no
\* Reconcile is on its way to the policy.
Overdue == Informed /\ InformedWork /\ ~Past /\ ~Admits

\* A Reconcile comes past the keys only by reading them.
LEMMA PastStep ==
  ASSUME IInv, [Next]_vars, NEW s, NEW e, NEW n, Served(s, e, n), Served(s, e, n)',
         Informed, ~Past, ~Provisions("readKeys")
  PROVE  ~Past'
<1>1. CASE Fetch
  <2>1. modelSeen \in Model /\ work' = Start(modelSeen)
    BY <1>1, ModelShape DEF Fetch, Informed, ServedSeen, Current, IInv, TypeOK
  <2>2. work'.pc \in Early
    BY <2>1, StartShape DEF Informed, ServedSeen, Early
  <2>3. QED
    BY <2>2 DEF Past
<1>2. CASE SetPending
  BY <1>2, SetPendingStep DEF IInv, Past, Early
<1>3. CASE Onward
  <2>1. Further
    BY <1>3, OnwardStep DEF IInv
  <2>2. QED
    BY <2>1 DEF Further, Arc, Past, Early, Provisions
<1>4. CASE WorkFails \/ UpdateStatus \/ RemoveFinalizer \/ Restart
  BY <1>4, EndsAndStays DEF Past
<1>5. CASE WorkStays
  BY <1>5, EndsAndStays DEF Past
<1>6. QED
  BY <1>1, <1>2, <1>3, <1>4, <1>5, KindsOfSteps

\* Nothing changes the model but the step before the keys are read.
LEMMA OverdueModel ==
  ASSUME IInv, [Next]_vars, NEW s, NEW e, NEW n, Served(s, e, n), Served(s, e, n)', Overdue
  PROVE  model' = model \/ Provisions("readKeys")'
<1>1. ~AddFinalizer
  <2>1. SUFFICES ASSUME AddFinalizer PROVE FALSE
    OBVIOUS
  <2>2. work # Idle /\ work.pc = "addFinalizer" /\ work.copy = model
    BY <2>1, AtShape, PCShape DEF AddFinalizer, At, IInv
  <2>3. Kept
    BY ServedStep
  <2>4. QED
    BY <2>2, <2>3 DEF Overdue, InformedWork, Kept
<1>2. ~UpdateStatus
  <2>1. SUFFICES ASSUME UpdateStatus PROVE FALSE
    OBVIOUS
  <2>2. work # Idle /\ work.pc \in {"status", "statusEarly"}
    BY <2>1, AtShape, PCShape DEF UpdateStatus, At, IInv
  <2>3. QED
    BY <2>2 DEF Overdue, Past, Early
<1>3. SetPending => Provisions("readKeys")'
  BY SetPendingStep, ModelSteps DEF IInv, Provisions, Idle
<1>4. QED
  BY <1>1, <1>2, <1>3, ServedStep

\* Stages of the Reconcile that comes, with a resync if nothing else brings one.
Rests == work = Idle /\ ~queued
Begins == work # Idle /\ work.pc = "setPending" /\ work.copy = model

\* Each stage lasts or gives way to the next one.
LEMMA NextReconcile ==
  ASSUME IInv, [Next]_vars, NEW s, NEW e, NEW n, Served(s, e, n), Served(s, e, n)',
         Overdue, modelSeen = model, modelSeen' = model'
  PROVE  /\ Rests => Rests' \/ Waited'
         /\ Rests /\ Resync => Waited'
         /\ Waited => Waited' \/ Begins' \/ Provisions("readKeys")'
         /\ Waited /\ ReconcileStep => Begins' \/ Provisions("readKeys")'
         /\ Begins => Begins' \/ Provisions("readKeys")'
         /\ Begins /\ ReconcileStep => Provisions("readKeys")'
<1>1. /\ ~Fault /\ ~RemoveFinalizer /\ ~Restart /\ ~Deleting /\ Kept
  BY ServedStep
<1>2. CASE work = Idle
  <2>1. Fetch => Waited /\ (Begins' \/ Provisions("readKeys")')
    <3>1. SUFFICES ASSUME Fetch PROVE Waited /\ (Begins' \/ Provisions("readKeys")')
      OBVIOUS
    <3>2. model' = model
      BY <3>1 DEF Fetch, world, aside
    <3>3. /\ modelSeen \in Model /\ work' = Start(modelSeen)
          /\ modelSeen.finalizer /\ ~modelSeen.deleting
      BY <3>1, <1>1, ModelShape DEF Fetch, Kept, Alive, IInv, TypeOK
    <3>4. work' # Idle /\ work'.copy = modelSeen /\ work'.pc \in {"setPending", "readKeys"}
      BY <3>3, StartShape DEF Start
    <3>5. QED
      BY <3>1, <3>2, <3>4 DEF Fetch, Waited, Begins, Provisions
  <2>2. QED
    BY <1>1, <1>2, <2>1, IdleStep DEF IInv, Rests, Waited, Begins, Resync
<1>3. CASE Begins
  <2>1. model' = model \/ Provisions("readKeys")'
    BY OverdueModel
  <2>2. ~ModelUpdateFails
    BY <1>1, <1>3 DEF ModelUpdateFails, Refusal, Begins
  <2>3. /\ ~Fetch /\ ~AddFinalizer /\ ~UpdateStatus /\ ~StatusUpdateFails
        /\ ~SecretWriteFails /\ ~DeploymentWriteFails /\ ~SecretDeleteFails
        /\ \A o \in Objects : ~ApplyFails(o)
        /\ ~Onward
        /\ ReconcileStep => SetPending
    <3>1. \A o \in Objects : o # "setPending"
      BY DEF Objects, Owned, Optional
    <3>2. QED
      BY <1>1, <1>3, <2>2, <3>1 DEF Begins, Fetch, AddFinalizer, UpdateStatus, StatusUpdateFails,
         SecretWriteFails, DeploymentWriteFails, SecretDeleteFails, ApplyFails, At, Onward,
         ReadKeys, WriteSecret, Apply, CreateDeployment, DeleteDeployment, UpdateDeployment,
         DeterminePhase, WritePolicy, PolicyWriteFails, DeleteSecret, ReconcileStep
  <2>4. SetPending \/ WorkStays
    BY <1>1, <2>2, <2>3, KindsOfSteps DEF WorkFails
  <2>5. SetPending => Provisions("readKeys")'
    BY SetPendingStep, ModelSteps DEF IInv, Provisions, Idle
  <2>6. WorkStays => work' = work
    BY EndsAndStays
  <2>7. QED
    BY <1>3, <2>1, <2>3, <2>4, <2>5, <2>6 DEF Begins, Rests, Waited
<1>4. QED
  BY <1>2, <1>3 DEF Rests, Waited, Begins

\* The Secret stays as it is, once it is there and while it is not.
LEMMA SecretStays ==
  ASSUME IInv, [Next]_vars, NEW s, NEW e, NEW n, Served(s, e, n), Served(s, e, n)'
  PROVE  /\ secret.exists => secret'.exists
         /\ secret.exists \/ ~secret'.exists => secret' = secret
BY ServedStep

\* All that there is to know about a model that stays served comes to be known.
LEMMA ServedIsKnown ==
  ASSUME NEW s, NEW e, NEW n
  PROVE  FairSpec /\ []StepsAreEnabled /\ <>[]Served(s, e, n)
           => <>[](Informed /\ InformedWork)
<1> DEFINE U == IInv /\ Served(s, e, n)
           E == secret.exists
           MM == modelSeen = model
           SS == secretSeen = secret
           DD == deploymentSeen = deployment
           PP == downloadingSeen = downloading
           Fair == FairSpec /\ []StepsAreEnabled /\ <>[]Served(s, e, n)
<1>1. U /\ U' /\ [Next]_vars =>
        /\ E => E'
        /\ ServedSeen => ServedSeen'
        /\ MM => ServedSeen
        /\ DD => DD'
        /\ PP => PP'
        /\ (E \/ ~E') /\ SS => SS'
        /\ (E \/ ~E') /\ Informed /\ InformedWork => InformedWork'
  <2> SUFFICES ASSUME U, U', [Next]_vars
               PROVE  /\ E => E'
                      /\ ServedSeen => ServedSeen'
                      /\ MM => ServedSeen
                      /\ DD => DD'
                      /\ PP => PP'
                      /\ (E \/ ~E') /\ SS => SS'
                      /\ (E \/ ~E') /\ Informed /\ InformedWork => InformedWork'
    OBVIOUS
  <2>1. /\ E => E'
        /\ E \/ ~E' => secret' = secret
    BY SecretStays
  <2>2. /\ ServedSeen => ServedSeen'
        /\ MM => ServedSeen
    BY ServedIsSeen
  <2>3. deployment' = deployment /\ downloading' = downloading
    BY ServedStep
  <2>4. /\ SS /\ secret' = secret => SS'
        /\ DD => DD'
        /\ PP => PP'
    BY <2>3, CachesStep DEF IInv
  <2>5. Informed /\ InformedWork /\ secret' = secret => InformedWork'
    BY InformedStep
  <2>6. QED
    BY <2>1, <2>2, <2>4, <2>5
<1>2. /\ U /\ U' /\ <<SeeModel>>_vars => ServedSeen'
      /\ U /\ U' /\ <<SeeSecret>>_vars => SS'
      /\ U /\ U' /\ <<SeeDeployment>>_vars => DD'
      /\ U /\ U' /\ <<SeePods>>_vars => PP'
  BY ServedIsSeen DEF SeeSecret, SeeDeployment, SeePods, Next, world, aside
<1>3. StepsAreEnabled =>
        /\ MM \/ ENABLED <<SeeModel>>_vars
        /\ SS \/ ENABLED <<SeeSecret>>_vars
        /\ DD \/ ENABLED <<SeeDeployment>>_vars
        /\ PP \/ ENABLED <<SeePods>>_vars
  BY DEF StepsAreEnabled, CachesEnabled
<1>4. Fair => []<>(work = Idle)
  BY WorkEnds, PTL DEF FairSpec, StepsAreEnabled
<1>5. work = Idle => InformedWork
  BY DEF InformedWork
<1>6. ServedSeen /\ SS /\ DD /\ PP => Informed
  BY DEF Informed
<1>7. Fair => <>[]U
  BY InvariantHolds, PTL DEF FairSpec
<1> HIDE DEF U, E, MM, SS, DD, PP
<1>8. Fair => <>[]ServedSeen
  BY <1>1, <1>2, <1>3, <1>7, PTL DEF FairSpec, Spec, FairCaches
<1>9. Fair => <>[]DD
  BY <1>1, <1>2, <1>3, <1>7, PTL DEF FairSpec, Spec, FairCaches
<1>10. Fair => <>[]E \/ <>[]~E
  BY <1>1, <1>7, PTL DEF FairSpec, Spec
<1>11. Fair => <>[]SS
  BY <1>1, <1>2, <1>3, <1>7, <1>10, PTL DEF FairSpec, Spec, FairCaches
<1>12. Fair => <>[]PP
  BY <1>1, <1>2, <1>3, <1>7, PTL DEF FairSpec, Spec, FairCaches
<1>13. Fair => <>[](U /\ Informed)
  BY <1>6, <1>7, <1>8, <1>9, <1>11, <1>12, PTL
<1>14. QED
  BY <1>1, <1>4, <1>5, <1>10, <1>13, PTL DEF FairSpec, Spec

\* A Reconcile that reads the keys writes the policy.
LEMMA KeysGetThere ==
  ASSUME NEW s, NEW e, NEW n
  PROVE  FairSpec /\ []StepsAreEnabled /\ <>[]Served(s, e, n)
           => /\ <>[](Provisions("readKeys") => <>Admits)
              /\ <>[](Admits => []Admits)
<1> DEFINE K == IInv /\ Served(s, e, n) /\ Informed /\ InformedWork
           E == secret.exists
           S1 == Provisions("readKeys")
           S2 == Provisions("secret")
           S3 == Provisions("support")
           S4 == Provisions("deployment")
           S5 == Provisions("phase")
           S6 == Provisions("inferencePool")
           S7 == Provisions("epp")
           S8 == Provisions("externalRoute")
           S9 == Provisions("policy")
           Fair == FairSpec /\ []StepsAreEnabled /\ <>[]Served(s, e, n)
<1>1. K /\ K' /\ (E \/ ~E') /\ [Next]_vars =>
        /\ S1 => S1' \/ S2'
        /\ S2 => S2' \/ S3'
        /\ S3 => S3' \/ S4'
        /\ S4 => S4' \/ S5'
        /\ S5 => S5' \/ S6'
        /\ S6 => S6' \/ S7'
        /\ S7 => S7' \/ S8'
        /\ S8 => S8' \/ S9'
        /\ S9 => S9' \/ Admits'
        /\ Admits => Admits'
  <2> SUFFICES ASSUME K, K', E \/ ~E', [Next]_vars
               PROVE  /\ S1 => S1' \/ S2'
                      /\ S2 => S2' \/ S3'
                      /\ S3 => S3' \/ S4'
                      /\ S4 => S4' \/ S5'
                      /\ S5 => S5' \/ S6'
                      /\ S6 => S6' \/ S7'
                      /\ S7 => S7' \/ S8'
                      /\ S8 => S8' \/ S9'
                      /\ S9 => S9' \/ Admits'
                      /\ Admits => Admits'
    OBVIOUS
  <2>1. secret' = secret
    BY SecretStays
  <2>2. Admits => Admits'
    BY <2>1, AdmitsStep
  <2>3. work # Idle /\ work.pc \notin {"addFinalizer", "setPending", "status"} =>
          /\ work' = work \/ /\ work' # Idle /\ Arc(work.pc, work'.pc)
                             /\ work'.pc # "statusEarly"
          /\ work.pc = "policy" /\ work' # work => Admits'
    BY <2>1, ProvisionStep
  <2>4. QED
    BY <2>2, <2>3 DEF Provisions, Arc
<1>2. K /\ K' /\ (E \/ ~E') /\ <<ReconcileStep>>_vars =>
        /\ S1 => S2'
        /\ S2 => S3'
        /\ S3 => S4'
        /\ S4 => S5'
        /\ S5 => S6'
        /\ S6 => S7'
        /\ S7 => S8'
        /\ S8 => S9'
        /\ S9 => Admits'
  <2> SUFFICES ASSUME K, K', E \/ ~E', ReconcileStep
               PROVE  /\ S1 => S2'
                      /\ S2 => S3'
                      /\ S3 => S4'
                      /\ S4 => S5'
                      /\ S5 => S6'
                      /\ S6 => S7'
                      /\ S7 => S8'
                      /\ S8 => S9'
                      /\ S9 => Admits'
    OBVIOUS
  <2>1. secret' = secret /\ [Next]_vars
    BY SecretStays DEF Next
  <2>2. work # Idle /\ work.pc \notin {"addFinalizer", "setPending", "status"} =>
          /\ work' # Idle /\ Arc(work.pc, work'.pc) /\ work'.pc # "statusEarly"
          /\ work.pc = "policy" /\ work' # work => Admits'
    BY <2>1, ProvisionStep
  <2>3. S9 => work' # work
    BY <2>2 DEF Provisions, Arc
  <2>4. QED
    BY <2>2, <2>3 DEF Provisions, Arc
<1>3. \A pc : Provisions(pc) => work # Idle \/ queued
  BY DEF Provisions
<1>4. S1 \/ S2 \/ S3 \/ S4 \/ S5 \/ S6 \/ S7 \/ S8 \/ S9 => work # Idle \/ queued
  BY <1>3
<1>5. /\ K /\ K' /\ (E \/ ~E') /\ [Next]_vars =>
           /\ S1 => S1' \/ S2'
           /\ S2 => S2' \/ S3'
           /\ S3 => S3' \/ S4'
           /\ S4 => S4' \/ S5'
      /\ K /\ K' /\ (E \/ ~E') /\ <<ReconcileStep>>_vars =>
           /\ S1 => S2'
           /\ S2 => S3'
           /\ S3 => S4'
           /\ S4 => S5'
      /\ S1 \/ S2 \/ S3 \/ S4 => work # Idle \/ queued
  BY <1>1, <1>2, <1>4
<1>6. /\ K /\ K' /\ (E \/ ~E') /\ [Next]_vars =>
           /\ S5 => S5' \/ S6'
           /\ S6 => S6' \/ S7'
           /\ S7 => S7' \/ S8'
           /\ S8 => S8' \/ S9'
           /\ S9 => S9' \/ Admits'
      /\ K /\ K' /\ (E \/ ~E') /\ <<ReconcileStep>>_vars =>
           /\ S5 => S6'
           /\ S6 => S7'
           /\ S7 => S8'
           /\ S8 => S9'
           /\ S9 => Admits'
      /\ S5 \/ S6 \/ S7 \/ S8 \/ S9 => work # Idle \/ queued
  BY <1>1, <1>2, <1>4
<1>7. /\ K /\ K' /\ [Next]_vars => (E => E')
      /\ K /\ K' /\ (E \/ ~E') /\ [Next]_vars => (Admits => Admits')
  BY <1>1, SecretStays
<1>8. Fair => <>[]K
  BY ServedIsKnown, InvariantHolds, PTL DEF FairSpec
<1> HIDE DEF K, E, S1, S2, S3, S4, S5, S6, S7, S8, S9
<1>9. Fair => <>[]E \/ <>[]~E
  BY <1>7, <1>8, PTL DEF FairSpec, Spec
<1>10. Fair => <>[](S5 => <>Admits)
  BY <1>6, <1>8, <1>9, PTL DEF FairSpec, Spec, FairWorker, StepsAreEnabled, WorkerEnabled
<1>11. Fair => <>[](S1 => <>S5)
  BY <1>5, <1>8, <1>9, PTL DEF FairSpec, Spec, FairWorker, StepsAreEnabled, WorkerEnabled
<1>12. Fair => <>[](Admits => []Admits)
  BY <1>7, <1>8, <1>9, PTL DEF FairSpec, Spec
<1>13. QED
  BY <1>10, <1>11, <1>12, PTL DEF S1

\* So the policy comes to admit the keys: were it never to, the model would not change, the
\* cache would show it, and the Reconcile that a resync brings would read the keys.
LEMMA PolicyFollows ==
  ASSUME NEW s, NEW e, NEW n
  PROVE  FairSpec /\ FairResync /\ []StepsAreEnabled /\ <>[]Served(s, e, n) => <>[]Admits
<1> DEFINE B == IInv /\ Served(s, e, n) /\ Informed /\ InformedWork /\ ~Admits
           K == IInv /\ Served(s, e, n) /\ Overdue
           MM == modelSeen = model
           R == Provisions("readKeys")
           Fair == FairSpec /\ []StepsAreEnabled /\ <>[]Served(s, e, n)
           Never == Fair /\ FairResync /\ <>[]~Admits
<1>1. Fair => <>[](Informed /\ InformedWork)
  BY ServedIsKnown
<1>2. Fair => <>[](R => <>Admits) /\ <>[](Admits => []Admits)
  BY KeysGetThere
<1>3. Fair => []<>(work = Idle)
  BY WorkEnds, PTL DEF FairSpec, StepsAreEnabled
<1>4. /\ B /\ B' /\ ~R /\ ~Past /\ [Next]_vars => ~Past'
      /\ work = Idle => ~Past
  BY PastStep DEF Past
<1>5. B /\ ~Past => K
  BY DEF Overdue
<1>6. K /\ K' /\ [Next]_vars => R' \/ (MM => MM')
  <2> SUFFICES ASSUME K, K', [Next]_vars, ~R', MM PROVE MM'
    OBVIOUS
  <2>1. model' = model
    BY OverdueModel
  <2>2. QED
    BY <2>1, CachesStep DEF IInv
<1>7. K /\ K' /\ <<SeeModel>>_vars => MM'
  BY DEF SeeModel, world
<1>8. K /\ K' /\ MM /\ MM' /\ [Next]_vars =>
        /\ Rests => Rests' \/ Waited'
        /\ Waited => Waited' \/ Begins' \/ R'
        /\ Begins => Begins' \/ R'
  BY NextReconcile
<1>9. /\ K /\ K' /\ MM /\ MM' /\ <<Resync>>_vars => (Rests => Waited')
      /\ K /\ K' /\ MM /\ MM' /\ <<ReconcileStep>>_vars =>
           /\ Waited => Begins' \/ R'
           /\ Begins => R'
  BY NextReconcile DEF Next
<1>10. /\ work = Idle => Rests \/ Waited
       /\ Waited \/ Begins => work # Idle \/ queued
  BY DEF Rests, Waited, Begins
<1>11. StepsAreEnabled =>
         /\ MM \/ ENABLED <<SeeModel>>_vars
         /\ K /\ Rests => ENABLED <<Resync>>_vars
  BY DEF StepsAreEnabled, CachesEnabled, ResyncEnabled, Overdue, Informed, ServedSeen, Current,
     Rests
<1> HIDE DEF B, K, MM, R
<1>12. Never => <>[]B /\ <>[]~R
  BY <1>1, <1>2, InvariantHolds, PTL DEF FairSpec, B
<1>13. Never => <>[]K
  BY <1>3, <1>4, <1>5, <1>12, PTL DEF FairSpec, Spec
<1>14. Never => <>[]MM
  BY <1>6, <1>7, <1>11, <1>12, <1>13, PTL DEF FairSpec, Spec, FairCaches
<1>15. ~Never
  BY <1>3, <1>8, <1>9, <1>10, <1>11, <1>12, <1>13, <1>14, PTL
     DEF FairSpec, Spec, FairWorker, FairResync, StepsAreEnabled, WorkerEnabled
<1>16. QED
  BY <1>2, <1>15, PTL

CountsAre(e, n) == edits = e /\ faults = n

\* Keys that are no longer changed come to be the ones admitted, if the model stays served and
\* its pods stay as they are, once nothing fails any more: what a failed write of the policy
\* left undone, a resync does (reconcileSecurityPolicies).
THEOREM AllowListFollows ==
  ASSUME NEW e, NEW n
  PROVE  FairSpec /\ []StepsAreEnabled /\ <>[]CountsAre(e, n) => AllowListConverges
<1> SUFFICES ASSUME NEW s \in PodStates \cap {"degraded", "ready"}
             PROVE  FairSpec /\ []StepsAreEnabled /\ <>[]CountsAre(e, n) /\ FairResync
                    => (<>[](/\ Alive /\ model.external
                             /\ Serving /\ deployment.pods = s /\ ~downloading)
                        => <>[](policy.exists /\ policy.allowed = secret.ids))
  BY DEF AllowListConverges
<1>1. Alive /\ model.external /\ Serving /\ deployment.pods = s /\ ~downloading /\ CountsAre(e, n)
        => Served(s, e, n)
  BY DEF Serving, Served, CountsAre
<1>2. Admits => policy.exists /\ policy.allowed = secret.ids
  BY DEF Admits
<1>3. FairSpec /\ FairResync /\ []StepsAreEnabled /\ <>[]Served(s, e, n) => <>[]Admits
  BY PolicyFollows
<1>4. QED
  BY <1>1, <1>2, <1>3, PTL

=============================================================================
