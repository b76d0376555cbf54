----------------------- MODULE PassthroughController -----------------------
(***************************************************************************)
(* PassthroughModelReconciler (operator/internal/controller/               *)
(* passthroughmodel_controller.go with apikeys.go and                      *)
(* reconcilers/passthrough.go): the life of one PassthroughModel.          *)
(*                                                                         *)
(* There is nothing to serve: a Reconcile provisions the api-keys Secret,  *)
(* the provider's backend and, for each endpoint that is enabled, a route  *)
(* and the policy that guards it.  Models and Secrets are read from caches *)
(* that lag; the gateway's objects are read live and owned by the model,   *)
(* so that the garbage collector takes them when it goes.  They are not    *)
(* watched.  A failed write of one of them does not stop the others: it    *)
(* makes the phase Error, and the Reconcile comes again a minute later.    *)
(*                                                                         *)
(* The external policy depends on Secrets of other models as well: they    *)
(* all pool their keys, and each admits its own.  One of these others is   *)
(* modelled, by whether its Secret exists.  As in ModelController the      *)
(* metadata ConfigMap is handled like the Secret and left out, and         *)
(* generations go on when a model is created again; its uid is the one it  *)
(* was created with.                                                       *)
(*                                                                         *)
(* One operator at a time: chart and flags leave leader election off       *)
(* (operator/cmd/main.go:70), so that in a rolling update two of them run  *)
(* side by side for a while, which only ClusterTLS models.                 *)
(***************************************************************************)
EXTENDS Naturals, FiniteSets

CONSTANTS Specs,         \* the specifications users give the model
          ClientIDs,     \* client IDs the key-manager can put into the Secret
          MaxEdits,      \* bound: changes by users and the key-manager
          MaxFaults      \* bound: failed requests and restarts

Endpoints == {"external", "internal"}

\* "provider" stands for all that is rendered from the specification; the webhook sees to
\* it that an endpoint is enabled.
ASSUME SpecsEnable == \A s \in Specs : /\ DOMAIN s = {"provider", "enabled"}
                                       /\ s.enabled \in SUBSET Endpoints
                                       /\ s.enabled # {}
ASSUME BoundsAreNats == MaxEdits \in Nat /\ MaxFaults \in Nat

VARIABLES model,       \* the PassthroughModel in the API server
          secret,      \* its api-keys Secret
          neighbour,   \* the Secret of another model exists
          objects,     \* the gateway's objects
          modelSeen, secretsSeen,   \* the operator's caches
          work,        \* the Reconcile that is running
          queued,      \* the request is in the work queue
          timer,       \* it will be: RequeueAfter, or the backoff after an error
          edits, faults

world == <<model, secret, neighbour, objects>>
caches == <<modelSeen, secretsSeen>>
queue == <<work, queued, timer>>
counts == <<edits, faults>>
vars == <<world, caches, queue, counts>>

(***************************************************************************)
(* Objects.                                                                *)
(***************************************************************************)
NoModel == [exists |-> FALSE]
Generations == 0..MaxEdits
Model == [exists : {TRUE}, uid : Generations, generation : Generations, spec : Specs,
          deleting : BOOLEAN, finalizer : BOOLEAN,
          phase : {"", "Ready", "Error"}, observed : Generations]

Secret == [exists : BOOLEAN, ids : SUBSET ClientIDs]
NoSecret == [exists |-> FALSE, ids |-> {}]
EmptySecret == [exists |-> TRUE, ids |-> {}]

\* The Secrets of one kind share a cache: own and neighbour's are seen together.
Secrets == [own : Secret, neighbour : BOOLEAN]
Stored == [own |-> secret, neighbour |-> neighbour]

\* The backend's four objects are applied one after the other and treated alike.
Route(e) == <<e, "route">>
Policy(e) == <<e, "policy">>
Backend == <<"both", "backend">>
Objects == {Backend} \cup (Endpoints \X {"route", "policy"})

\* What is in an object of the gateway: who owns it, the specification it was rendered
\* from and, in the external policy, whom it admits out of which Secrets.
SecretNames == {"own", "neighbour"}
Nobody == 0
NoObject == [exists |-> FALSE]
Object == [exists : {TRUE}, owner : Generations, spec : Specs,
           allowed : SUBSET ClientIDs, refs : SUBSET SecretNames]

Steps == <<Backend, Route("external"), Policy("external"), Route("internal"), Policy("internal")>>

\* A Reconcile is at a step with a name, or at the i-th object.
PCs == {"addFinalizer", "readKeys", "listSecrets", "secret", "apply", "status",
        "deleteSecret", "removeFinalizer"}
Idle == [pc |-> "idle"]
Running == [pc : PCs, copy : Model, ids : SUBSET ClientIDs, refs : SUBSET SecretNames,
            i : 1..5, failed : BOOLEAN]

(***************************************************************************)
(* How a Reconcile ends and what fails.                                    *)
(***************************************************************************)
At(pc) == work.pc = pc
Goto(pc) == work' = [work EXCEPT !.pc = pc] /\ UNCHANGED <<queued, timer>>
Done == work' = Idle /\ UNCHANGED <<queued, timer>>
Again == work' = Idle /\ timer' = TRUE /\ UNCHANGED queued

Fault == faults < MaxFaults /\ faults' = faults + 1
Refusal(current) ==
  \/ ~current /\ UNCHANGED faults
  \/ Fault

(***************************************************************************)
(* Reconcile, in the order of its steps.                                   *)
(***************************************************************************)
Start(m) ==
  [pc |-> IF m.deleting THEN "deleteSecret"
          ELSE IF m.finalizer THEN "readKeys" ELSE "addFinalizer",
   copy |-> m, ids |-> {}, refs |-> {}, i |-> 1, failed |-> FALSE]

Fetch ==
  /\ work = Idle
  /\ queued
  /\ queued' = FALSE
  /\ IF modelSeen.exists /\ (modelSeen.deleting => modelSeen.finalizer)
     THEN work' = Start(modelSeen)
     ELSE UNCHANGED work
  /\ UNCHANGED <<world, caches, timer, counts>>

\* The Reconcile goes on with the copy that the update has brought up to date.
AddFinalizer ==
  /\ At("addFinalizer")
  /\ work.copy = model
  /\ model' = [model EXCEPT !.finalizer = TRUE]
  /\ work' = [work EXCEPT !.pc = "readKeys", !.copy = model']
  /\ UNCHANGED <<secret, neighbour, objects, caches, queued, timer, counts>>

ModelUpdateFails ==
  /\ At("addFinalizer") \/ At("removeFinalizer")
  /\ Refusal(work.copy = model)
  /\ Again
  /\ UNCHANGED <<world, caches, edits>>

\* apiKeyClientIDs.
ReadKeys ==
  /\ At("readKeys")
  /\ work' = [work EXCEPT !.pc = "listSecrets", !.ids = secretsSeen.own.ids]
  /\ UNCHANGED <<world, caches, queued, timer, counts>>

\* apiKeySecretNamesWith: the own name is there even when the Secret is not.
ListSecrets ==
  /\ At("listSecrets")
  /\ work' = [work EXCEPT !.pc = "secret",
                          !.refs = {"own"} \cup IF secretsSeen.neighbour THEN {"neighbour"} ELSE {}]
  /\ UNCHANGED <<world, caches, queued, timer, counts>>

\* createOrUpdateSecret: create it, or update its labels.
SecretAccepts ==
  IF secretsSeen.own.exists THEN secretsSeen.own = secret ELSE ~secret.exists

\* Mutant of WrittenSecret: the operator's own, empty data is written.
EmptiedSecret == EmptySecret

WrittenSecret == IF secretsSeen.own.exists THEN secret ELSE EmptySecret

WriteSecret ==
  /\ At("secret")
  /\ SecretAccepts
  /\ secret' = WrittenSecret
  /\ Goto("apply")
  /\ UNCHANGED <<model, neighbour, objects, caches, counts>>

SecretWriteFails ==
  /\ At("secret")
  /\ Refusal(SecretAccepts)
  /\ Again
  /\ UNCHANGED <<world, caches, edits>>

\* applyAll.  An object of an endpoint that is disabled is not written, nor is it deleted.
Applying == Steps[work.i]
Skipped == Applying # Backend /\ Applying[1] \notin work.copy.spec.enabled

\* Mutant of Rendered: the owner is not set.
RenderedUnowned(o) ==
  [exists |-> TRUE, spec |-> work.copy.spec, owner |-> Nobody,
   allowed |-> IF o = Policy("external") THEN work.ids ELSE {},
   refs |-> IF o = Policy("external") THEN work.refs ELSE {}]

Rendered(o) ==
  [exists |-> TRUE, spec |-> work.copy.spec, owner |-> work.copy.uid,
   allowed |-> IF o = Policy("external") THEN work.ids ELSE {},
   refs |-> IF o = Policy("external") THEN work.refs ELSE {}]

NextObject(failed) ==
  /\ work' = [work EXCEPT !.pc = IF work.i = 5 THEN "status" ELSE "apply",
                          !.i = IF work.i = 5 THEN 5 ELSE @ + 1,
                          !.failed = @ \/ failed]
  /\ UNCHANGED <<queued, timer>>

Apply ==
  /\ At("apply")
  /\ objects' = IF Skipped THEN objects ELSE [objects EXCEPT ![Applying] = Rendered(Applying)]
  /\ NextObject(FALSE)
  /\ UNCHANGED <<model, secret, neighbour, caches, counts>>

ApplyFails ==
  /\ At("apply")
  /\ ~Skipped
  /\ Fault
  /\ NextObject(TRUE)
  /\ UNCHANGED <<world, caches, edits>>

\* A phase Error brings the Reconcile again, as an error does.
Finish == IF work.failed THEN Again ELSE Done

\* updateStatus writes to a copy it fetches anew, of whatever generation.
UpdateStatus ==
  /\ At("status")
  /\ modelSeen = model \/ ~modelSeen.exists
  /\ model' = IF modelSeen.exists
              THEN [model EXCEPT !.phase = IF work.failed THEN "Error" ELSE "Ready",
                                 !.observed = modelSeen.generation]
              ELSE model
  /\ Finish
  /\ UNCHANGED <<secret, neighbour, objects, caches, counts>>

StatusUpdateFails ==
  /\ At("status")
  /\ modelSeen.exists
  /\ Refusal(modelSeen = model)
  /\ Again
  /\ UNCHANGED <<world, caches, edits>>

(***************************************************************************)
(* reconcileDelete.                                                        *)
(***************************************************************************)
DeleteSecret ==
  /\ At("deleteSecret")
  /\ secret' = IF secretsSeen.own.exists THEN NoSecret ELSE secret
  /\ Goto("removeFinalizer")
  /\ UNCHANGED <<model, neighbour, objects, caches, counts>>

SecretDeleteFails ==
  /\ At("deleteSecret")
  /\ secretsSeen.own.exists
  /\ Fault
  /\ Again
  /\ UNCHANGED <<world, caches, edits>>

RemoveFinalizer ==
  /\ At("removeFinalizer")
  /\ work.copy = model
  /\ model' = NoModel
  /\ Done
  /\ UNCHANGED <<secret, neighbour, objects, caches, counts>>

(***************************************************************************)
(* Events: a cache catches up and queues the request.                      *)
(***************************************************************************)
SeeModel ==
  /\ modelSeen # model
  /\ modelSeen' = model
  /\ queued' = TRUE
  /\ UNCHANGED <<world, secretsSeen, work, timer, counts>>

\* Mutant of SecretEvent: only the model whose own Secret changes is queued.
OwnSecretEvent == queued \/ (modelSeen.exists /\ secretsSeen.own # secret)

\* enqueueAllModelsForAPIKeySecret: any api-keys Secret queues all models in the cache.
SecretEvent == queued \/ modelSeen.exists

SeeSecrets ==
  /\ secretsSeen # Stored
  /\ secretsSeen' = Stored
  /\ queued' = SecretEvent
  /\ UNCHANGED <<world, modelSeen, work, timer, counts>>

TimerFires ==
  /\ timer
  /\ timer' = FALSE
  /\ queued' = TRUE
  /\ UNCHANGED <<world, caches, work, counts>>

(***************************************************************************)
(* The rest of the world.                                                  *)
(***************************************************************************)
Edit == edits < MaxEdits /\ edits' = edits + 1

CreateModel(s) ==
  /\ ~model.exists
  /\ Edit
  /\ model' = [exists |-> TRUE, uid |-> edits', generation |-> edits', spec |-> s,
               deleting |-> FALSE, finalizer |-> FALSE, phase |-> "", observed |-> 0]
  /\ UNCHANGED <<secret, neighbour, objects, caches, queue, faults>>

EditModel(s) ==
  /\ model.exists /\ ~model.deleting
  /\ s # model.spec
  /\ Edit
  /\ model' = [model EXCEPT !.generation = edits', !.spec = s]
  /\ UNCHANGED <<secret, neighbour, objects, caches, queue, faults>>

DeleteModel ==
  /\ model.exists /\ ~model.deleting
  /\ Edit
  /\ model' = IF model.finalizer THEN [model EXCEPT !.deleting = TRUE] ELSE NoModel
  /\ UNCHANGED <<secret, neighbour, objects, caches, queue, faults>>

\* The key-manager mints and revokes.
ChangeKeys(ids) ==
  /\ secret.exists
  /\ ids # secret.ids
  /\ Edit
  /\ secret' = [secret EXCEPT !.ids = ids]
  /\ UNCHANGED <<model, neighbour, objects, caches, queue, faults>>

\* Another model comes or goes.
ChangeNeighbour ==
  /\ Edit
  /\ neighbour' = ~neighbour
  /\ UNCHANGED <<model, secret, objects, caches, queue, faults>>

Orphaned(o) ==
  /\ objects[o].exists /\ objects[o].owner # Nobody
  /\ ~(model.exists /\ model.uid = objects[o].owner)

\* The garbage collector deletes what has lost its owner, unless it has changed since.
Collect(o) ==
  /\ Orphaned(o)
  /\ objects' = [objects EXCEPT ![o] = NoObject]
  /\ UNCHANGED <<model, secret, neighbour, caches, queue, counts>>

\* The operator restarts: its caches are filled anew and every model is queued.
Restart ==
  /\ Fault
  /\ modelSeen' = model /\ secretsSeen' = Stored
  /\ work' = Idle /\ timer' = FALSE /\ queued' = model.exists
  /\ UNCHANGED <<world, edits>>

(***************************************************************************)
(* The specification.                                                      *)
(***************************************************************************)
Init ==
  /\ model = NoModel /\ modelSeen = NoModel
  /\ secret = NoSecret
  /\ neighbour = FALSE
  /\ secretsSeen = Stored
  /\ objects = [o \in Objects |-> NoObject]
  /\ work = Idle /\ queued = FALSE /\ timer = FALSE
  /\ edits = 0 /\ faults = 0

ReconcileStep ==
  \/ Fetch \/ AddFinalizer \/ ModelUpdateFails
  \/ ReadKeys \/ ListSecrets \/ WriteSecret \/ SecretWriteFails
  \/ Apply \/ ApplyFails
  \/ UpdateStatus \/ StatusUpdateFails
  \/ DeleteSecret \/ SecretDeleteFails \/ RemoveFinalizer

WorldStep ==
  \/ \E s \in Specs : CreateModel(s) \/ EditModel(s)
  \/ DeleteModel
  \/ \E ids \in SUBSET ClientIDs : ChangeKeys(ids)
  \/ ChangeNeighbour

Collects == \E o \in Objects : Collect(o)

Next ==
  \/ ReconcileStep
  \/ SeeModel \/ SeeSecrets \/ TimerFires
  \/ WorldStep
  \/ Collects
  \/ Restart

Spec == Init /\ [][Next]_vars

\* The worker runs, caches catch up, timers fire, and the garbage collector runs.
FairWorker == WF_vars(ReconcileStep)
FairCaches == WF_vars(SeeModel) /\ WF_vars(SeeSecrets)
FairTimer == WF_vars(TimerFires)
FairCollector == WF_vars(Collects)

FairSpec == Spec /\ FairWorker /\ FairCaches /\ FairTimer /\ FairCollector

\* There is always a step to take: whatever has gone stale, a Reconcile can end, and what it
\* waits for can come.  The proofs about FairSpec take from here what ENABLED means.
WorkerEnabled == work # Idle \/ queued => ENABLED <<ReconcileStep>>_vars
CachesEnabled ==
  /\ modelSeen # model => ENABLED <<SeeModel>>_vars
  /\ secretsSeen # Stored => ENABLED <<SeeSecrets>>_vars
TimerEnabled == timer => ENABLED <<TimerFires>>_vars
CollectorEnabled == (\E o \in Objects : Orphaned(o)) => ENABLED <<Collects>>_vars
StepsAreEnabled == WorkerEnabled /\ CachesEnabled /\ TimerEnabled /\ CollectorEnabled

(***************************************************************************)
(* Properties.                                                             *)
(***************************************************************************)
TypeOK ==
  /\ model \in Model \cup {NoModel} /\ modelSeen \in Model \cup {NoModel}
  /\ secret \in Secret
  /\ neighbour \in BOOLEAN
  /\ secretsSeen \in Secrets
  /\ objects \in [Objects -> Object \cup {NoObject}]
  /\ work \in Running \cup {Idle}
  /\ queued \in BOOLEAN /\ timer \in BOOLEAN
  /\ edits \in 0..MaxEdits /\ faults \in 0..MaxFaults

Alive == model.exists /\ ~model.deleting

\* An object is as the model wants it, and will not be collected.
Right(o) ==
  /\ objects[o].exists
  /\ objects[o].owner = model.uid
  /\ objects[o].spec = model.spec
  /\ o = Policy("external") =>
       /\ objects[o].allowed = secret.ids
       /\ objects[o].refs = {"own"} \cup IF neighbour THEN {"neighbour"} ELSE {}

Wanted == {Backend} \cup UNION {{Route(e), Policy(e)} : e \in model.spec.enabled}
Provisioned == \A o \in Wanted : Right(o)

\* Nothing is to be done: no Reconcile runs or waits, and no event is on its way.
Settled ==
  /\ work = Idle /\ ~queued /\ ~timer
  /\ modelSeen = model /\ secretsSeen = Stored

\* When nothing is to be done, every enabled endpoint of a live model has its route and
\* the policy that guards it, of the model's own and current making; the external one
\* admits the keys of the Secret out of all the Secrets there are; and the status says so.
SettledGateway ==
  Settled /\ Alive => /\ Provisioned
                      /\ model.phase = "Ready" /\ model.observed = model.generation

\* A model that stays comes to be provisioned for good, whatever failed on the way, also
\* when another model of its name was there before and its objects are being collected.
\* When the model is gone for good, no object of it stays behind, and no route.
GatewayFollows ==
  /\ <>[]Alive => <>[](Alive /\ Provisioned)
  /\ <>[](~model.exists) => <>[](\A o \in Objects : ~objects[o].exists)

\* No Reconcile touches the keys of a model that lives and has its finalizer, however old
\* what it has read (createOrUpdateSecret, reconcileDelete).
ReconcileKeepsKeys ==
  [][ secret.exists /\ secret' # secret /\ edits' = edits
      => ~secret'.exists /\ ~(Alive /\ model.finalizer) ]_vars
=============================================================================
