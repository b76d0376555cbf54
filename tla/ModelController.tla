-------------------------- MODULE ModelController --------------------------
(***************************************************************************)
(* LLMModelReconciler (operator/internal/controller/llmmodel_controller.go *)
(* with apikeys.go and reconcilers/): the life of one LLMModel.            *)
(*                                                                         *)
(* A Reconcile reads the custom resource, the api-keys Secret and the      *)
(* Deployment from caches that lag behind the API server, each by its own  *)
(* amount, and writes one object after the other.  Any write can fail or   *)
(* be refused because the copy it was made from is old; most failures end  *)
(* the Reconcile with a retry, those of the gateway's objects are logged   *)
(* and forgotten.  Meanwhile the user edits and deletes the model, the     *)
(* key-manager changes the Secret, pods come and go, and the operator      *)
(* restarts.  There is one operator: leader election is off by default     *)
(* (operator/cmd/main.go:70), and the overlap of an old and a new operator *)
(* while it is updated is modelled in ClusterTLS.tla alone.                *)
(*                                                                         *)
(* An object is what the properties ask of it.  Objects that are written   *)
(* together and treated alike are one; the metadata ConfigMap is handled   *)
(* like the Secret and is left out (KeyStore.tla has both).  Reads are of  *)
(* the caches and do not fail, but for the one whose failure is a phase.   *)
(* Generations go on when a model is created again, so that they name its  *)
(* versions.                                                               *)
(***************************************************************************)
EXTENDS Naturals, FiniteSets

CONSTANTS Configs,       \* values of modelConfigHash
          PodStates,     \* what a Deployment records of its pods
          ClientIDs,     \* client IDs the key-manager can put into the Secret
          Externals,     \* may a model have an external endpoint, or have none?
          Preloads,      \* have its pods an init container (spec.model.preload)?
          MaxEdits,      \* bound: changes by users and the key-manager
          MaxFaults      \* bound: failed requests and restarts

ASSUME BoundsAreNats     == MaxEdits \in Nat /\ MaxFaults \in Nat
ASSUME KindsOfModel == Externals \subseteq BOOLEAN /\ Preloads \in BOOLEAN
ASSUME PodsStart == /\ "starting" \in PodStates
                    /\ PodStates \subseteq {"starting", "degraded", "ready"}

VARIABLES model,      \* the LLMModel in the API server
          secret,     \* its api-keys Secret
          deployment, \* its Deployment, with what it records of its pods
          policy,     \* the external SecurityPolicy
          objects,    \* which other objects exist
          downloading, \* an init container of a pod with the model's label runs
          unseen,     \* history: the last deletion left a Secret it had not seen
          unwritten,  \* history: the last write of the policy failed
          modelSeen, secretSeen, deploymentSeen, downloadingSeen, \* the operator's caches
          work,       \* the Reconcile that is running
          queued,     \* the request is in the work queue
          timer,      \* it will be: RequeueAfter, or the backoff after an error
          edits, faults

aside == <<downloading, unseen, unwritten>>
world == <<model, secret, deployment, policy, objects, aside>>
caches == <<modelSeen, secretSeen, deploymentSeen, downloadingSeen>>
queue == <<work, queued, timer>>
counts == <<edits, faults>>
vars == <<world, caches, queue, counts>>

(***************************************************************************)
(* Objects.                                                                *)
(***************************************************************************)
Phases == {"", "Pending", "Downloading", "Starting", "Ready", "Degraded", "Error"}

NoModel == [exists |-> FALSE]
Generations == 0..(MaxEdits + 1)
Model == [exists : {TRUE}, generation : Generations, config : Configs,
          external : BOOLEAN, deleting : BOOLEAN, finalizer : BOOLEAN,
          phase : Phases, observed : Generations]

Secret == [exists : BOOLEAN, ids : SUBSET ClientIDs]
NoSecret == [exists |-> FALSE, ids |-> {}]
EmptySecret == [exists |-> TRUE, ids |-> {}]

NoDeployment == [exists |-> FALSE]
Deployment == [exists : {TRUE}, config : Configs, pods : PodStates]

\* The external SecurityPolicy: its authorization denies all but these IDs.
Policy == [exists : BOOLEAN, allowed : SUBSET ClientIDs]
NoPolicy == [exists |-> FALSE, allowed |-> {}]

\* The objects with an ownerReference and those without.  "support" is the PVC (which
\* the code writes a little earlier, before it reads the keys), the NetworkPolicy,
\* the ServiceAccount and the Service; "epp" the six objects of the endpoint picker.
\* The PodMonitor and the internal endpoint are left out: they are written and fail
\* like the InferencePool.
Owned == {"support", "epp"}
Optional == {"inferencePool", "externalRoute"}
Objects == Owned \cup Optional

\* What a Reconcile does next.
Order == [support       |-> "deployment",
          inferencePool |-> "epp",
          epp           |-> "externalRoute",
          externalRoute |-> "policy"]

PCs == Objects \cup {"addFinalizer", "setPending", "readKeys", "secret",
                     "deployment", "phase", "policy", "status", "statusEarly",
                     "deleteSecret", "removeFinalizer"}


Idle == [pc |-> "idle"]
Running == [pc : PCs, copy : Model, ids : SUBSET ClientIDs, phase : Phases]

(***************************************************************************)
(* How a Reconcile ends and what fails.                                    *)
(***************************************************************************)
At(pc) == work.pc = pc
Goto(pc) == work' = [work EXCEPT !.pc = pc] /\ UNCHANGED <<queued, timer>>
Done == work' = Idle /\ UNCHANGED <<queued, timer>>

\* With RequeueAfter, or with an error.
\* Mutant of Again: the error is only logged.
AgainForgotten == Done

Again == work' = Idle /\ timer' = TRUE /\ UNCHANGED queued

Fault == faults < MaxFaults /\ faults' = faults + 1

\* A write made from an old copy is refused, any other may fail.  (A copy that
\* equals the stored object counts as current.)
Refusal(current) ==
  \/ ~current /\ UNCHANGED faults
  \/ Fault

\* A step that leads on with UNCHANGED of all counters.
Quiet == UNCHANGED counts

(***************************************************************************)
(* Reconcile, in the order of its steps.                                   *)
(***************************************************************************)

\* Mutant of Start: nothing waits for the finalizer.
StartAtOnce(m) ==
  [pc    |-> IF m.deleting THEN "deleteSecret"
             ELSE IF m.phase = "" THEN "setPending" ELSE "readKeys",
   copy  |-> m, ids |-> {}, phase |-> ""]

Start(m) ==
  [pc    |-> IF m.deleting THEN "deleteSecret"
             ELSE IF ~m.finalizer THEN "addFinalizer"
             ELSE IF m.phase = "" THEN "setPending" ELSE "readKeys",
   copy  |-> m, ids |-> {}, phase |-> ""]

Fetch ==
  /\ work = Idle
  /\ queued
  /\ queued' = FALSE
  /\ IF modelSeen.exists /\ (modelSeen.deleting => modelSeen.finalizer)
     THEN work' = Start(modelSeen)
     ELSE UNCHANGED work
  /\ UNCHANGED <<world, caches, timer>> /\ Quiet

AddFinalizer ==
  /\ At("addFinalizer")
  /\ work.copy = model
  /\ model' = [model EXCEPT !.finalizer = TRUE]
  /\ Again
  /\ UNCHANGED <<secret, deployment, policy, objects, aside, caches>> /\ Quiet

SetPending ==
  /\ At("setPending")
  /\ work.copy = model
  /\ model' = [model EXCEPT !.phase = "Pending"]
  /\ work' = [work EXCEPT !.pc = "readKeys", !.copy = model']
  /\ UNCHANGED <<secret, deployment, policy, objects, aside, caches, queued, timer>> /\ Quiet

ModelUpdateFails ==
  /\ At("addFinalizer") \/ At("setPending") \/ At("removeFinalizer")
  /\ Refusal(work.copy = model)
  /\ Again
  /\ UNCHANGED <<world, caches, edits>>

\* The external endpoint has a route only when it is enabled.  An object of an
\* endpoint that is disabled is not written, nor is it deleted.
Skipped(o) == o = "externalRoute" /\ ~work.copy.external

Apply(o) ==
  /\ At(o)
  /\ objects' = IF Skipped(o) THEN objects ELSE objects \cup {o}
  /\ Goto(Order[o])
  /\ UNCHANGED <<model, secret, deployment, policy, aside, caches>> /\ Quiet

ApplyFails(o) ==
  /\ At(o)
  /\ ~Skipped(o)
  /\ Fault
  /\ \/ o \in Owned /\ Again
     \/ o \in Optional /\ Goto(Order[o])
  /\ UNCHANGED <<world, caches, edits>>

\* apiKeyClientIDs: the IDs are read before the Secret is written and used at
\* the end.
ReadKeys ==
  /\ At("readKeys")
  /\ work' = [work EXCEPT !.pc = "secret", !.ids = secretSeen.ids]
  /\ UNCHANGED <<world, caches, queued, timer>> /\ Quiet

\* createOrUpdateSecret: create it, or update its labels.
SecretAccepts == IF secretSeen.exists THEN secretSeen = secret ELSE ~secret.exists

\* Mutant of WrittenSecret: the operator's own, empty data is written.
EmptiedSecret == EmptySecret

WrittenSecret == IF secretSeen.exists THEN secret ELSE EmptySecret

WriteSecret ==
  /\ At("secret")
  /\ SecretAccepts
  /\ secret' = WrittenSecret
  /\ Goto("support")
  /\ UNCHANGED <<model, deployment, policy, objects, aside, caches>> /\ Quiet

SecretWriteFails ==
  /\ At("secret")
  /\ Refusal(SecretAccepts)
  /\ Again
  /\ UNCHANGED <<world, caches, edits>>

\* Mutant of NeedsRedeploy: the configuration is not compared.
NeverRedeploy == FALSE

NeedsRedeploy == deploymentSeen.config # work.copy.config

NewDeployment ==
  [exists |-> TRUE, config |-> work.copy.config, pods |-> "starting"]

\* Create; AlreadyExists is no error.
CreateDeployment ==
  /\ At("deployment")
  /\ ~deploymentSeen.exists
  /\ deployment' = IF deployment.exists THEN deployment ELSE NewDeployment
  /\ Goto("phase")
  /\ UNCHANGED <<model, secret, policy, objects, aside, caches>> /\ Quiet

\* A changed configuration deletes the Deployment, by name, and the event of its
\* deletion brings the next Reconcile.
DeleteDeployment ==
  /\ At("deployment")
  /\ deploymentSeen.exists /\ NeedsRedeploy
  /\ deployment' = NoDeployment
  /\ Goto("phase")
  /\ UNCHANGED <<model, secret, policy, objects, aside, caches>> /\ Quiet

UpdateDeployment ==
  /\ At("deployment")
  /\ deploymentSeen.exists /\ ~NeedsRedeploy
  /\ deploymentSeen = deployment
  /\ deployment' = [deployment EXCEPT !.config = work.copy.config]
  /\ Goto("phase")
  /\ UNCHANGED <<model, secret, policy, objects, aside, caches>> /\ Quiet

DeploymentWriteFails ==
  /\ At("deployment")
  /\ Refusal(deploymentSeen.exists /\ ~NeedsRedeploy
                => deploymentSeen = deployment)
  /\ Again
  /\ UNCHANGED <<world, caches, edits>>

\* Any init container that runs makes it Downloading, whatever replicas are ready.
PhaseOf(d, download) ==
  IF ~d.exists THEN "Pending"
  ELSE IF download THEN "Downloading"
  ELSE CASE d.pods = "starting" -> "Starting"
         [] d.pods = "degraded" -> "Degraded"
         [] d.pods = "ready"    -> "Ready"

\* Pending and Error go on to the routes, Downloading and Starting do not.
AfterPhase(p) == IF p \in {"Downloading", "Starting"} THEN "statusEarly"
                                                      ELSE "inferencePool"

InPhase(p) ==
  /\ work' = [work EXCEPT !.pc = AfterPhase(p), !.phase = p]
  /\ UNCHANGED <<queued, timer>>

DeterminePhase ==
  /\ At("phase")
  /\ \/ InPhase(PhaseOf(deploymentSeen, downloadingSeen)) /\ UNCHANGED faults
     \/ Fault /\ InPhase("Error")
  /\ UNCHANGED <<world, caches, edits>>

\* Mutant of Rendered: a policy that exists is left as it is.
RenderedOnce == IF policy.exists THEN policy ELSE [exists |-> TRUE, allowed |-> work.ids]

\* Mutant of Rendered: with no ID the rule is there all the same, for the empty one.
RenderedForNobody ==
  [exists |-> TRUE, allowed |-> IF work.ids = {} THEN {""} ELSE work.ids]

Rendered == [exists |-> TRUE, allowed |-> work.ids]

WritePolicy ==
  /\ At("policy")
  /\ policy' = IF work.copy.external THEN Rendered ELSE policy
  /\ unwritten' = (unwritten /\ ~work.copy.external)
  /\ Goto("status")
  /\ UNCHANGED <<model, secret, deployment, objects, downloading, unseen, caches>> /\ Quiet

\* Logged, and nothing tries again before the next event.
PolicyWriteFails ==
  /\ At("policy")
  /\ work.copy.external
  /\ Fault
  /\ unwritten' = TRUE
  /\ Goto("status")
  /\ UNCHANGED <<model, secret, deployment, policy, objects, downloading, unseen, caches, edits>>

\* updateStatus writes to a copy it fetches anew, of whatever generation.
UpdateStatus ==
  /\ At("status") \/ At("statusEarly")
  /\ modelSeen = model \/ ~modelSeen.exists
  /\ model' = IF modelSeen.exists
              THEN [model EXCEPT !.phase = work.phase, !.observed = modelSeen.generation]
              ELSE model
  /\ IF At("statusEarly") THEN Again ELSE Done
  /\ UNCHANGED <<secret, deployment, policy, objects, aside, caches>> /\ Quiet

StatusUpdateFails ==
  /\ At("status") \/ At("statusEarly")
  /\ modelSeen.exists
  /\ Refusal(modelSeen = model)
  /\ Again
  /\ UNCHANGED <<world, caches, edits>>

(***************************************************************************)
(* reconcileDelete.                                                        *)
(***************************************************************************)

\* Mutant of Cleared: the Secret is taken for owned.
ClearedByOwner == secret

Cleared == IF secretSeen.exists THEN NoSecret ELSE secret

DeleteSecret ==
  /\ At("deleteSecret")
  /\ secret' = Cleared
  /\ unseen' = (secret.exists /\ ~secretSeen.exists)
  /\ Goto("removeFinalizer")
  /\ UNCHANGED <<model, deployment, policy, objects, downloading, unwritten, caches>> /\ Quiet

SecretDeleteFails ==
  /\ At("deleteSecret")
  /\ secretSeen.exists
  /\ Fault
  /\ Again
  /\ UNCHANGED <<world, caches, edits>>

\* The last finalizer takes the model with it, and the garbage collector the objects it
\* owns.  Here the collector is done at once, so that an object never comes to have an
\* earlier model's ownerReference; PassthroughController.tla has a collector that takes
\* its time.
Remove ==
  /\ model' = NoModel
  /\ deployment' = NoDeployment
  /\ objects' = objects \ Owned

RemoveFinalizer ==
  /\ At("removeFinalizer")
  /\ work.copy = model
  /\ Remove
  /\ Done
  /\ UNCHANGED <<secret, policy, aside, caches>> /\ Quiet

(***************************************************************************)
(* Events: a cache catches up and, where the controller watches, queues    *)
(* the request.  Changes in between are not told apart.                    *)
(***************************************************************************)
SeeModel ==
  /\ modelSeen # model
  /\ modelSeen' = model
  /\ queued' = TRUE
  /\ UNCHANGED <<world, secretSeen, deploymentSeen, downloadingSeen, work, timer>> /\ Quiet

\* enqueueAllModelsForAPIKeySecret: all models in the cache.
\* Mutant of SecretEvent: Secrets are not watched.
SecretUnwatched == queued

SecretEvent == queued \/ modelSeen.exists

SeeSecret ==
  /\ secretSeen # secret
  /\ secretSeen' = secret
  /\ queued' = SecretEvent
  /\ UNCHANGED <<world, modelSeen, deploymentSeen, downloadingSeen, work, timer>> /\ Quiet

\* Mutant of DeploymentEvent: Deployments are not watched.
DeploymentUnwatched == queued

DeploymentEvent == TRUE

SeeDeployment ==
  /\ deploymentSeen # deployment
  /\ deploymentSeen' = deployment
  /\ queued' = DeploymentEvent
  /\ UNCHANGED <<world, modelSeen, secretSeen, downloadingSeen, work, timer>> /\ Quiet

\* Pods are listed from a cache, but not watched: no event of theirs queues anything.
SeePods ==
  /\ downloadingSeen # downloading
  /\ downloadingSeen' = downloading
  /\ UNCHANGED <<world, modelSeen, secretSeen, deploymentSeen, queue>> /\ Quiet

\* An event of the PVC or the Service, or the periodic resync.
Resync ==
  /\ modelSeen.exists /\ ~queued
  /\ queued' = TRUE
  /\ UNCHANGED <<world, caches, work, timer>> /\ Quiet

TimerFires ==
  /\ timer
  /\ timer' = FALSE
  /\ queued' = TRUE
  /\ UNCHANGED <<world, caches, work>> /\ Quiet

(***************************************************************************)
(* The rest of the world.                                                  *)
(***************************************************************************)
Edit == edits < MaxEdits /\ edits' = edits + 1

CreateModel(c, ext) ==
  /\ ~model.exists
  /\ Edit
  /\ model' = [exists |-> TRUE, generation |-> edits', config |-> c, external |-> ext,
               deleting |-> FALSE, finalizer |-> FALSE, phase |-> "", observed |-> 0]
  /\ UNCHANGED <<secret, deployment, policy, objects, aside, caches, queue, faults>>

EditModel(c, ext) ==
  /\ model.exists /\ ~model.deleting
  /\ <<c, ext>> # <<model.config, model.external>>
  /\ Edit
  /\ model' = [model EXCEPT !.generation = edits', !.config = c, !.external = ext]
  /\ UNCHANGED <<secret, deployment, policy, objects, aside, caches, queue, faults>>

DeleteModel ==
  /\ model.exists /\ ~model.deleting
  /\ Edit
  /\ IF model.finalizer
     THEN /\ model' = [model EXCEPT !.deleting = TRUE]
          /\ UNCHANGED <<deployment, objects>>
     ELSE Remove
  /\ UNCHANGED <<secret, policy, aside, caches, queue, faults>>

\* The key-manager mints and revokes.
ChangeKeys(ids) ==
  /\ secret.exists
  /\ ids # secret.ids
  /\ Edit
  /\ secret' = [secret EXCEPT !.ids = ids]
  /\ UNCHANGED <<model, deployment, policy, objects, aside, caches, queue, faults>>

PodsChange(s) ==
  /\ deployment.exists
  /\ s # deployment.pods
  /\ deployment' = [deployment EXCEPT !.pods = s]
  /\ UNCHANGED <<model, secret, policy, objects, aside, caches, queue>> /\ Quiet

\* The first pod, or one that replaces another while others serve.  A pod outlives its
\* Deployment for a while.
DownloadStarts ==
  /\ Preloads
  /\ deployment.exists /\ ~downloading
  /\ downloading' = TRUE
  /\ UNCHANGED <<model, secret, deployment, policy, objects, unseen, unwritten, caches, queue>>
  /\ Quiet

DownloadEnds ==
  /\ downloading
  /\ downloading' = FALSE
  /\ UNCHANGED <<model, secret, deployment, policy, objects, unseen, unwritten, caches, queue>>
  /\ Quiet

\* The operator restarts: its caches are filled anew and every model is queued.
Restart ==
  /\ Fault
  /\ modelSeen' = model /\ secretSeen' = secret
  /\ deploymentSeen' = deployment /\ downloadingSeen' = downloading
  /\ work' = Idle /\ timer' = FALSE /\ queued' = model.exists
  /\ UNCHANGED <<world, edits>>

(***************************************************************************)
(* The specification.                                                      *)
(***************************************************************************)
Init ==
  /\ model = NoModel /\ modelSeen = NoModel
  /\ secret = NoSecret /\ secretSeen = NoSecret
  /\ deployment = NoDeployment /\ deploymentSeen = NoDeployment
  /\ policy = NoPolicy
  /\ objects = {}
  /\ downloading = FALSE /\ downloadingSeen = FALSE
  /\ unseen = FALSE /\ unwritten = FALSE
  /\ work = Idle /\ queued = FALSE /\ timer = FALSE
  /\ edits = 0 /\ faults = 0

ReconcileStep ==
  \/ Fetch \/ AddFinalizer \/ SetPending \/ ModelUpdateFails
  \/ \E o \in Objects : Apply(o) \/ ApplyFails(o)
  \/ ReadKeys \/ WriteSecret \/ SecretWriteFails
  \/ CreateDeployment \/ DeleteDeployment \/ UpdateDeployment \/ DeploymentWriteFails
  \/ DeterminePhase \/ WritePolicy \/ PolicyWriteFails
  \/ UpdateStatus \/ StatusUpdateFails
  \/ DeleteSecret \/ SecretDeleteFails \/ RemoveFinalizer

WorldStep ==
  \/ \E c \in Configs, ext \in Externals : CreateModel(c, ext) \/ EditModel(c, ext)
  \/ DeleteModel
  \/ \E ids \in SUBSET ClientIDs : ChangeKeys(ids)
  \/ \E s \in PodStates : PodsChange(s)
  \/ DownloadStarts \/ DownloadEnds

Next ==
  \/ ReconcileStep
  \/ SeeModel \/ SeeSecret \/ SeeDeployment \/ SeePods \/ TimerFires \/ Resync
  \/ Restart
  \/ WorldStep

Spec == Init /\ [][Next]_vars

\* The worker runs, caches catch up and timers fire.
FairWorker == WF_vars(ReconcileStep)
FairCaches == /\ WF_vars(SeeModel) /\ WF_vars(SeeSecret)
              /\ WF_vars(SeeDeployment) /\ WF_vars(SeePods)
FairTimer == WF_vars(TimerFires)

FairSpec == Spec /\ FairWorker /\ FairCaches /\ FairTimer

\* The informers resync every ten hours: the operator leaves controller-runtime's SyncPeriod
\* at its default.  Only what nothing else brings about is left to this.
FairResync == WF_vars(Resync)

\* There is always a step to take: whatever has gone stale, a Reconcile can end, and what it
\* waits for can come.  The proofs about FairSpec take from here what ENABLED means.
WorkerEnabled == work # Idle \/ queued => ENABLED <<ReconcileStep>>_vars
CachesEnabled ==
  /\ modelSeen # model => ENABLED <<SeeModel>>_vars
  /\ secretSeen # secret => ENABLED <<SeeSecret>>_vars
  /\ deploymentSeen # deployment => ENABLED <<SeeDeployment>>_vars
  /\ downloadingSeen # downloading => ENABLED <<SeePods>>_vars
TimerEnabled == timer => ENABLED <<TimerFires>>_vars
ResyncEnabled == modelSeen.exists /\ ~queued => ENABLED <<Resync>>_vars
StepsAreEnabled == WorkerEnabled /\ CachesEnabled /\ TimerEnabled /\ ResyncEnabled

(***************************************************************************)
(* Properties.                                                             *)
(***************************************************************************)
TypeOK ==
  /\ model \in Model \cup {NoModel} /\ modelSeen \in Model \cup {NoModel}
  /\ secret \in Secret /\ secretSeen \in Secret
  /\ deployment \in Deployment \cup {NoDeployment}
  /\ deploymentSeen \in Deployment \cup {NoDeployment}
  /\ policy \in Policy
  /\ objects \subseteq Objects
  /\ downloading \in BOOLEAN /\ downloadingSeen \in BOOLEAN
  /\ unseen \in BOOLEAN /\ unwritten \in BOOLEAN
  /\ work \in Running \cup {Idle}
  /\ queued \in BOOLEAN /\ timer \in BOOLEAN
  /\ edits \in 0..MaxEdits /\ faults \in 0..MaxFaults

Alive == model.exists /\ ~model.deleting

\* Whatever a Reconcile still has in hand when its model goes, it writes nothing
\* more: no object is created or changed for a model that does not exist
\* (the finalizer is stored before the first object, and only a Reconcile takes
\* it off).
WritesNeedModel ==
  [][ ~model.exists /\ edits' = edits
      => /\ UNCHANGED <<deployment, policy, objects>>
         /\ secret' # secret => ~secret'.exists ]_vars

\* A Reconcile, however old what it has read, never changes the data of the
\* Secret, which belongs to the key-manager, and never deletes the Secret of a live
\* model that has its finalizer (createOrUpdateSecret, reconcileDelete).  A model
\* created anew can still lose a Secret its predecessor left.
ReconcileKeepsKeys ==
  [][ secret.exists /\ secret' # secret /\ edits' = edits
      => ~secret'.exists /\ ~(Alive /\ model.finalizer) ]_vars

\* A Deployment lives and dies with one configuration hash: pods that have
\* downloaded one model are never told to serve another one.
ConfigChangesRedeploy ==
  [][ deployment.exists /\ deployment'.exists
      => deployment'.config = deployment.config ]_vars

\* API keys exist only under a finalizer, so that deletions take them along, failed and
\* repeated ones and those of models created anew too.  There is one way past it: reconcileDelete
\* takes a Secret that its cache does not show yet for absent, removes the finalizer, and the
\* Secret outlives its model.
OrphansWereUnseen == secret.exists => (model.exists /\ model.finalizer) \/ unseen

\* Nothing is to be done: no Reconcile runs or waits, and no event is on its way that would
\* bring one.
Settled ==
  /\ work = Idle /\ ~queued /\ ~timer
  /\ modelSeen = model /\ secretSeen = secret /\ deploymentSeen = deployment

Serving == deployment.exists /\ deployment.pods \in {"ready", "degraded"}

\* When nothing is to be done, the pods run the model's configuration and its status tells
\* what the Deployment records of them, for the generation there is.  Error tells that the
\* last look at the pods failed: determinePhase logs it, and nothing brings the next look but
\* the next event.  That a pod which replaces another downloads, the status may never tell:
\* no Pod is watched, and a Reconcile that ends in Ready leaves no timer.
SettledStatus ==
  Settled /\ Alive
  => /\ deployment.exists /\ deployment.config = model.config
     /\ model.phase \in {PhaseOf(deployment, FALSE), "Error"}
     /\ model.observed = model.generation

\* When nothing is to be done, the allow-list of an external endpoint admits the keys there
\* are, but for one case: the last write of the policy failed, which is logged and forgotten.
SettledAllowList ==
  Settled /\ Alive /\ model.external
  => (policy.exists /\ policy.allowed = secret.ids) \/ unwritten

\* Keys that are no longer changed come to be the ones admitted, at the latest with a resync
\* if a failed write was forgotten, if the model stays served and its pods stay as they are:
\* while they keep changing, each update of the Deployment can find that its copy is old, and
\* while one downloads, the Reconcile ends before the policy.
AllowListConverges ==
  FairResync
  => \A s \in PodStates \cap {"degraded", "ready"} :
       <>[](/\ Alive /\ model.external
            /\ Serving /\ deployment.pods = s /\ ~downloading)
       => <>[](policy.exists /\ policy.allowed = secret.ids)

\* A model that is being deleted goes, whatever fails on the way.
DeletionCompletes ==
  model.exists /\ model.deleting ~> ~model.exists
=============================================================================
