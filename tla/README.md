# Models and proofs of the Nebari LLM serving pack

This directory models the program in `src/` in TLA+, checks the models with
TLC and proves theorems about them with TLAPS. Each module is translated from
the source; `PROJECT.json` maps every definition to the lines it stands for.

## The system

The pack serves language models on Kubernetes behind an Envoy gateway.

| Part | State it keeps | Operations | Talks to |
|---|---|---|---|
| API-key manager, `key-manager/internal/secrets/manager.go` | none of its own: one Secret (`<model>-api-keys`, client ID to key) and one ConfigMap (`<model>-api-key-metadata`, client ID to KeyInfo) per model | CreateKey, RevokeKey, ListKeys, ListKeysForUser | the API server, by reads and optimistic updates |
| HTTP API, `key-manager/internal/api/handler.go`, `middleware.go` | none | GET me, models, keys; POST and DELETE keys | watcher, key manager, validator |
| Token validator, `key-manager/internal/api/jwt_validator.go` | cached public keys, readiness, time of the last unknown-kid refresh | initial fetch, periodic refresh, ValidateToken, Stop | Keycloak |
| Model watcher, `key-manager/internal/models/watcher.go` | a copy of all models' access rules | Sync every 30 s, filters | the API server |
| Key auditor, `key-manager/internal/audit/auditor.go` | none | RunOnce every 5 min | watcher, key manager, a group lookup (a stub today) |
| LLMModel controller, `operator/internal/controller/llmmodel_controller.go` | the objects of each model, its status and finalizer | Reconcile, reconcileDelete | the API server through a cache |
| API-key events, `operator/internal/controller/apikeys.go` | none | client IDs of a Secret, names of all Secrets, fan-out of Secret events to models | the controllers |
| PassthroughModel controller, `operator/internal/controller/passthroughmodel_controller.go` | the objects of each passthrough model, owned by it | Reconcile, applyAll, updateStatus, reconcileDelete | the API server through a cache; the gateway's objects live |
| Cluster TLS singleton, `clustertls_singleton.go`, `reconcilers/clustertls.go` | one certificate, a reference grant per namespace with a Gateway, two listeners on Gateways that others write | one pass at start and every five minutes, on no event | the API server, uncached |
| Webhooks, `operator/internal/webhook/v1alpha1` | none | validation of creates and updates, the controllers' finalizer updates included | the API server, uncached |
| Web frontend | the session's token | the API with one retry after a 401 | HTTP API, Keycloak |

What is hard about it: the two objects of a model are written one after the
other with no transaction; requests, the operator and the auditor write the
same objects concurrently; any request can fail after it was applied; processes
restart with no memory; the operator reads from caches; the gateway's allow-list
follows the Secrets only through events; a webhook looks before the object is
stored and nothing looks again; an old and a new operator run side by side during
an update; Gateways have several writers; the validator mixes a background
goroutine with request goroutines. `PROJECT.json` lists the hazards by line.

What makes each part correct:

* key manager: a key that was returned works until it is withdrawn, a withdrawn
  key never works again, a working key is listed, values and IDs are exclusive,
  calls return;
* validator: keys never go back to an older set, a token of the current set is
  accepted in the end, forged kids do not cause a storm of fetches, Stop ends;
* API, watcher and auditor: keys are made and withdrawn on behalf of those who
  may;
* LLMModel controller: the allow-list of a route converges to the client IDs of
  its model, keys live and die with the finalizer, pods never change their model
  in place, a deletion ends, phases follow the objects;
* PassthroughModel controller: an enabled endpoint comes to have its route and
  its current policy, and a model that goes leaves nothing;
* webhooks: names are shared by race at most, never do two controllers hold their
  finalizers for one Secret, and only a live twin or a missing label holds a
  deletion up;
* cluster TLS: other people's listeners survive, a listener does not come before
  what it needs, the configuration of the operator that is left comes to hold.

## The modules

| Module | What it is |
|---|---|
| `KeyLedger` | abstract: what the key manager promises, a ledger of credentials that are minted, issued and retired |
| `KeyStore` | `secrets.Manager` over a Secret and a ConfigMap per model, with the operator's writes to the same objects; implements `KeyLedger` |
| `KeyStoreProofs` | its type, its inductive invariant, its safety properties and that it implements the ledger, proved |
| `ClientIds` | the client IDs `createKeyOnce` composes, counts and probes, character by character |
| `ClientIdProofs` | that they name one principal, for any names, proved |
| `JwtValidator` | `api.JWTValidator`: background goroutine, singleflight, cooldown, readiness, Stop |
| `JwtValidatorProofs` | its type, its inductive invariant, its safety and its liveness properties, proved |
| `KeyApi` | the HTTP handlers, the model watcher and the key auditor over the operations of the key manager |
| `KeyApiProofs` | its type, its inductive invariant and its safety properties, proved |
| `ModelController` | `LLMModelReconciler`: the life of one LLMModel under lagging caches |
| `ModelControllerProofs` | its type, its inductive invariant and its safety properties, proved, those of states in which nothing is to be done included; and its liveness properties |
| `Admission` | both validating webhooks between clients and storage, with the finalizers of both controllers and the Secret that two kinds of one name share |
| `AdmissionProofs` | its type, its inductive invariant, its safety properties and that deletions end, proved |
| `PassthroughController` | `PassthroughModelReconciler`: the life of one PassthroughModel under lagging caches and a garbage collector |
| `PassthroughProofs` | its type, its inductive invariant and its safety properties, proved, that of states in which nothing is to be done included; and that the gateway follows |
| `ClusterTLS` | `ClusterTLSSingleton`: the passes of an old and a new operator over Gateways that others write |
| `ClusterTLSProofs` | `MergeHTTPSListener` for any list, the type, the inductive invariant, the safety properties and convergence, proved |
| `MCKeyStore`, `MCClientIds`, `MCJwtValidator`, `MCKeyApi`, `MCModelController`, `MCAdmission`, `MCPassthroughController`, `MCClusterTLS` | the small instances TLC checks |

`KeyStore` composes the key manager with the operator's writes to the same two
objects; `KeyApi` composes handlers, watcher and auditor over the operations of
the manager; `Admission` composes both webhooks with both controllers. The
controllers' own modules have one model each, with everything else that writes
its objects as actions of the world.

A definition whose comment calls it a mutant changes another one the way a
plausible bug would. No specification uses it: each property is shown to fail
when the mutant takes its target's place (`PROJECT.json`, `mutants`).

### KeyStore

State: `secret[m]` and `meta[m]` are the data of the two objects of model `m`
(`NoKey` where there is no entry), `secretExists` and `metaExists` say which
objects there are, `call[c]` is the program counter and the locals of one
`CreateKey` or `RevokeKey`: its copies of both objects, the ID, the key, the
attempt and the error. `minted`, `issued` and `retired` are history.

A resourceVersion is only ever compared with the stored one, so it is not a
number: `secretCurrent[m]` and `metaCurrent[m]` are the calls whose copy still
has the stored version. A read adds the call, a write by anyone else clears the
set, and an update is accepted only from a member.

| Actions | Code |
|---|---|
| `BeginCreate`, `BeginRevoke`, `AfterError`, `ReturnResult`, `ReturnError` | `CreateKey`, `RevokeKey` and their retry loops |
| `GetSecret`, `GetConfigMap` | `getSecret`, `getConfigMap`: the two reads of an attempt |
| `CreateWritesSecret`, `WriteConfigMap` | the two updates of `createKeyOnce`, with the count and the probe for a free ID (`IsSequence`) |
| `RevokeWritesSecret`, `RevokeFindsNothing`, `WriteConfigMap` | the same of `revokeKeyOnce` |
| `Conflict` | a 409; `IsConflict` decides whether the loop runs again |
| `RequestFails`, and the `Faulty` disjunct of each write | any other error: the request was not applied, or it was and the caller does not know |
| `Restart` | the key-manager process is replaced |
| `Operator...` | `reconcileAuthSecretAndConfigMap` and `reconcileDelete`, as far as they touch the two objects |

A write that changes nothing keeps the resourceVersion, as the API server does:
a revoke whose copy of the ConfigMap has no entry leaves the other copies
current.

Abstractions: a key value is a model value and `generateAPIKey` never returns a
value twice; a KeyInfo is the key it describes, so that "listed with its own
metadata" can be said; a client ID is a user and a number (`ClientIds` has the
strings, and `IDsAreUnique` says that they are as different). The count of a
user's keys goes by a prefix, which the IDs of another user can begin with:
`CountedWith` is any choice of whose do, so the proofs hold whatever is counted.
A name that holds "409" or "conflict" is in `ConflictNamed`. The
operator deletes the ConfigMap only when the Secret is gone: its cache is taken
to have caught up. `ListKeys` and `ListKeysForUser` are single reads and are not
actions.

### ClientIds

A string is a sequence of characters. State: `secret[m]` and `meta[m]` are the data
keys of the two objects of model `m`; `minted` is history, every ID written with its
user and model, and `refused` the IDs the API server did not take.

| Actions | Code |
|---|---|
| `CreateKey` | `createKeyOnce`: `Sanitize`, `Prefix`, the count by prefix (`Count`), the probe (`IsSequence`); the ConfigMap's write may fail |
| `CreateRefused` | the same with an ID that is no data key: longer than `KeyLimit`, which is 253, or of other bytes (`IsDataKey`) |
| `RevokeKey` | `revokeKeyOnce`; here too the second write may fail |
| `ModelRecreated` | the operator deletes both objects with their model and makes them anew |

Calls come one after the other: their requests and conflicts are `KeyStore`'s. A
`shortHash` is a string like any other, so a username can hold one, the hash of
somebody else's key included, which everyone who sees an ID knows. `Digest` is the
hash as a function. The one thing assumed of it beyond its length and its characters is
that the hashes of two different pairs of a username and a model differ
(`DigestsDiffer`: "Collisions are computationally infeasible", `manager.go:229`);
the hash of a single name may be anybody's. `Replaced` joins its strings by a recursive
function of the module's own, not by the library's `FlattenSeq`, whose module the
provers cannot use.

### JwtValidator

State: `realm` is the number of the key set Keycloak publishes, `cache` the
number of the set in `publicKeys`, `ready` and `stopping` the flags,
`cooling` whether `lastKIDRefresh` is younger than `unknownKIDCooldown`, `loop`
the background goroutine, `flight[k]` the fetch under way under a key of the
singleflight group ("initial" is `initialFetch`'s direct call), with its waiters,
`request[c]` what a request does. `kidFetches`, `since` and `during` are history.

| Actions | Code |
|---|---|
| `Answer`, `Install`, `FetchFails` | `fetchPublicKeys`: the answer arrives, replaces the set, or does not |
| `GateSuppresses`, `GateOpens`, `Stamp` | the callback of `refreshForUnknownKID` |
| `InitialAttempt`, `BackoffEnds`, `SlowPoll` | `initialFetch` |
| `Tick`, `LoopAbandonsWait` | `refreshLoop` and the select of `refreshKeys` |
| `LoopEnds`, `Stop` | `stopCh`, `doneCh` and `Stop` |
| `Arrive`, `Lookup`, `Join`, `Cancel`, `Recheck`, `Return` | a request: `AuthMiddleware`, `ValidateToken`, `refreshForUnknownKID` |
| `CooldownEnds`, `Rotate` | time, Keycloak |

Abstractions: time is left out, so a ticker, a timeout or the end of a cooldown
happens at any moment after it was set; a token is its kid (the checks of
algorithm, signature, expiry, issuer and authorized party look at the token
alone); the answer to a fetch is the set Keycloak published when it answered.

### KeyApi

State: `rules[e]` is `spec.access` of the custom resource of an entry (a kind
and a name, the keys of the watcher's map), `cache` the watcher's copy, `sync`
what a running `Sync` has listed; `groups[u]` is what Keycloak knows and
`token[u]` what the user's token says; `secret[n]` and `listed[n]` are the client
IDs in the two objects of a model; `request[r]` and `audit` hold what a request
and the audit pass have still to do with what they have read. `ruled` and
`belonged` are history: all the rules of an entry and group sets of a user so far.

| Actions | Code |
|---|---|
| `PostKey`, `PostWrites` | `createKey`: the access check on the cache, then `CreateKey` |
| `DeleteKey`, `DeleteWrites` | `deleteKey`: the owner in one read, then `RevokeKey` |
| `RequestFails` | the Manager operation fails before it has written |
| `SyncLists`, `SyncInstalls`, `SyncFails` | `Watcher.Sync`: one list, the other, the new map |
| `AuditBegins` ... `AuditEnds` | `Auditor.RunOnce`: the snapshot of the cache, per model the keys, per key the lookup and the revocation, with every failure it passes over |
| `SetRule`, `RemoveModel`, `MoveUser`, `RenewToken`, `Restart` | administrators, the operator's finalizer, Keycloak, a new process |

An operation of the Manager is one step here that may stop between its two
writes; `KeyStore` has its requests, and its property `RetiredStaysRetired` and
the others are what makes one step enough. `LookupWorks` says whether the group
lookup answers: the repository's never does (`key-manager/cmd/main.go:212`), and then
the auditor revokes nothing. The run has it answer, so that revocations happen and can
be wrong; it claims nothing of what a lookup must achieve. Requests that answer 401, 403 or 404
and all GETs change nothing and are no steps. An LLMModel and a PassthroughModel
may have one name and then share its two objects.

### ModelController

State: `model`, `secret`, `deployment`, `policy` and `objects` are in the API
server, and `downloading` says whether an init container of a pod of the model runs;
`modelSeen`, `secretSeen`, `deploymentSeen` and `downloadingSeen` are the operator's
caches, each late by its own amount; `work` is the running Reconcile with its copy of
the model and what it has read, `queued` and `timer` are the work queue and a delayed
requeue. `unseen` and `unwritten` are history: the last deletion left a Secret it had
not seen, and the last write of the policy failed.

| Actions | Code |
|---|---|
| `Fetch`, `AddFinalizer`, `SetPending` | steps 1 to 4 of `Reconcile` |
| `ReadKeys`, `WriteSecret` | `apiKeyClientIDs` and `createOrUpdateSecret` |
| `Apply(o)`, `ApplyFails(o)` | the other objects; with an owner a failure ends the Reconcile, without one it is logged |
| `CreateDeployment`, `DeleteDeployment`, `UpdateDeployment` | the comparison of `modelConfigHash` and what follows |
| `DeterminePhase` | `determinePhase`: Downloading as soon as any init container runs, whatever replicas are ready (`PhaseOf`), and the early return of Downloading and Starting |
| `WritePolicy`, `PolicyWriteFails` | `reconcileSecurityPolicies`, external endpoint; a failure is logged and the Reconcile goes on |
| `UpdateStatus` | `updateStatus` on a copy fetched anew |
| `DeleteSecret`, `RemoveFinalizer` | `reconcileDelete`, which decides on the Secret its cache shows |
| `SeeModel`, `SeeSecret`, `SeeDeployment`, `TimerFires`, `Resync` | what `SetupWithManager` watches, and requeues |
| `SeePods` | the cache of Pods, which `determinePhase` lists and nothing watches: it queues nobody |
| `CreateModel`, `EditModel`, `DeleteModel`, `ChangeKeys`, `Restart` | users, the key-manager, a new operator |
| `PodsChange`, `DownloadStarts`, `DownloadEnds` | the cluster: replicas come and go, the init container of a first pod or of one that replaces another |

Abstractions: a specification is its configuration hash and whether the external
endpoint is enabled, and hashes of different configurations differ; an object that is
only created and kept up to date is its existence. An
update is refused when the object differs from the copy it was made from, so that
a copy of an equal, older version counts as current. The garbage collector is done
with a removed model's objects at once, so that none ever carries an earlier model's
ownerReference (`PassthroughController` has a slow one).
The clean-up of a ReferenceGrant of old versions and the endpoint URLs in the
status are left out.

There is one operator. Leader election is off by default (`operator/cmd/main.go:70`) and
the chart does not turn it on, so during a rolling update an old and a new operator
reconcile side by side; that overlap is modelled in `ClusterTLS` alone. What
`ModelController` and `PassthroughController` show holds before and after it.

### Admission

State: `object[o]` is the object of a kind and a name, `seen[o]` the copy of it in the
operator's informer cache and `fresh` the objects whose copy has the stored
resourceVersion, `secret` the names whose api-keys Secret exists, `managed` the label of
the namespace, `call[c]` the request
a client has under way: what it asks, for which object, how far the webhook has
come and whether the object is still the one the request was made for. The
clients are users and the two controllers. `raced` is history: names of which both
kinds were being created at one time.

| Actions | Code |
|---|---|
| `AskCreate`, `AskUpdate`, `StoreCreate`, `StoreUpdate`, `Delete`, `Relabel` | users and administrators at the API server |
| `CheckNamespace` | the webhook's first half: `validateNamespaceLabel`, `validateAccess` and what each kind demands of a specification (`WellFormed`) |
| `CheckName` | `validateNoNameCollision`: the uncached read of the other kind, after which the request is admitted |
| `Refused` | a refusal of the webhook, of the API server, or no answer |
| `SeeObject` | the informer cache catches up, maybe past several versions at once |
| `AskAddFinalizer`, `StoreFinalizer` | step 3 of both `Reconcile`s, on the cached copy |
| `BeginProvision`, `WriteSecret` | `createOrUpdateSecret`, by name, maybe long after the Reconcile began |
| `BeginDelete`, `DeleteSecret`, `StoreRemoval` | `reconcileDelete`: the deletion mark and the finalizer as the cache shows them; the Secret by name, unless its cache does not show it; then the finalizer, under the version of the copy |
| `Restart` | a new operator process |

`WellFormed` has what the two `validate` functions decide on; a string is one of
the few values they tell apart (`Hostnames`, whether the subdomain fits). Requests
of a status and warnings are left out. A controller begins at any moment what its
cached copies call for: which event queued it (a Secret's queues every cached model,
`apikeys.go:99`) makes no difference. The webhooks read the API server itself. Deletions and metadata requests of users
pass no webhook: the chart registers creates and updates only.

### PassthroughController

State: `model`, `secret`, `neighbour` and `objects` are in the API server;
`modelSeen` and `secretsSeen` are the operator's caches; `work` is the running
Reconcile with its copy of the model, the client IDs and Secret names it has read,
and the object it has come to; `queued` and `timer` as in `ModelController`.

| Actions | Code |
|---|---|
| `Fetch`, `AddFinalizer`, `ModelUpdateFails` | steps 1 to 3 of `Reconcile`; this kind goes on with the updated copy at once |
| `ReadKeys`, `ListSecrets` | `apiKeyClientIDs`, `apiKeySecretNamesWith` |
| `WriteSecret`, `SecretWriteFails` | `createOrUpdateSecret` |
| `Apply`, `ApplyFails` | `applyAll` with the builders: backend, route and policy of each endpoint in their order; a failure does not stop the next object |
| `UpdateStatus`, `StatusUpdateFails` | `updateStatus` on a copy fetched anew, and the requeue after a phase Error |
| `DeleteSecret`, `SecretDeleteFails`, `RemoveFinalizer` | `reconcileDelete` |
| `SeeModel`, `SeeSecrets`, `TimerFires` | the watches, `enqueueAllModelsForAPIKeySecret`, requeues |
| `CreateModel`, `EditModel`, `DeleteModel`, `ChangeKeys`, `ChangeNeighbour`, `Collect`, `Restart` | users, the key-manager, another model, the garbage collector, a new operator |

Abstractions: an object of the gateway is its owner, the specification it was
rendered from and, in the external policy, the client IDs and Secrets it admits;
the backend's four objects are one; the metadata ConfigMap is handled like the
Secret; the conditions of the status are the phase they decide. Another model is
its Secret, which is all this one's policy depends on. `BuildPassthroughResources`
never returns an error, so the phase `BuildFailed` leads to has no action. There is one
operator, as in `ModelController`.

### ClusterTLS

State: `certificate` is the domain of the managed Certificate, `grant[n]` the
Secret that Gateways of a namespace may use, `gateway[g]` the listeners of a
Gateway that is `installed`; `pass[o]` is the pass of an operator: its step, the
copy of the Gateway it has read, whether that copy is still current, and two
history flags (`complete`, `undisturbed`); `running` the operators whose process
runs.

| Actions | Code |
|---|---|
| `Tick` | `Start` and its ticker |
| `EnsureTLSSource` | `ensureCertificate`, or `deleteManagedCertificate` when the user brings a Secret |
| `EnsureReferenceGrant`, `AfterGrant` | `ensureReferenceGrant` in the loop over `distinctGatewayNamespaces`: each namespace once, in order, and none twice (`NeedsGrant`) |
| `GetGateway`, `NothingToPatch`, `UpdateGateway`, `Conflict` | `patchGatewayListener` with `MergeHTTPSListener` (`Merge`) and `listenersEqual` |
| `Fails` | any other error; the pass ends at its first |
| `StartNew`, `StopOld` | the rolling update of the operator's Deployment |
| `Install`, `Uninstall`, `AddForeign`, `Tamper` | whoever else writes Gateways |

Certificate and grants belong to the operator alone and are written under their
version, so each is one step; a Gateway is read in one step and written in another.
What cert-manager does with the Certificate, and `checkUserSecret`, which only
logs, are left out.

## The runs

| Run | Instance | Shows |
|---|---|---|
| `keystore_faults` | 1 model whose conflicts are retried, 1 user, 2 calls, 2 keys, 2 numbers, all faults, deletion of the model | `TypeOK`, `RetiredStaysRetired`, `IssuedIsListed`, `IssuedUntilRetired`, `ImplementsLedger` |
| `keystore_conflicts` | 2 calls, no faults | violated: `ConflictsAreRetried` |
| `client_ids` | 6 usernames, 2 model names, 3 numbers, hashes of 4 characters, data keys of at most 25, 3 IDs handed out | `PooledIDsDiffer`, `IDsNameOnePrincipal`, `RefusedForLength` |
| `jwt` | 2 requests, 2 kids (the second forged until the third set has it), 3 sets (the second without an RSA key), 2 attempts, outages, fairness | `TypeOK`, `OneFetchPerCooldown`, `RefusedAfterSharing`, `ReadyHasKeys`, `CacheNeverRegresses`, `CatchesUp`, `RequestsReturn`, `StopEnds` |
| `jwt_refusals` | 2 requests, no outage | violated: `OnlyAbsentRefused` |
| `keyapi_safety` | 2 users, 1 group, 1 name of both kinds, 2 requests, 1 change | `TypeOK`, `KeysWereEntitled`, `RequestsTakeOwnKeys`, `RevocationsHadReason` |
| `controller_safety` | 2 configurations, external only, 2 states of the pods and downloads at any time, 3 edits, 1 fault of any kind, all caches late | `TypeOK`, `OrphansWereUnseen`, `SettledStatus`, `WritesNeedModel`, `ConfigChangesRedeploy` |
| `controller_settles` | 1 configuration, with and without external endpoint, 1 client ID, 2 states of the pods, 2 edits, 1 fault of any kind, the logged one included, all caches late, fairness | `SettledAllowList`, `ReconcileKeepsKeys`, `AllowListConverges`, `DeletionCompletes` |
| `admission` | 1 name of both kinds, 2 users, an admissible specification and a malformed one, 2 edits, a late cache, fairness | `TypeOK`, `OnlyRacesCollide`, `OneFinalizer`, `OnlyStaleTwinsTakeKeys`, `DeletionsEnd` |
| `admission_stale` | 1 name of both kinds, 1 user, 2 edits, a late cache | violated: `LiveKeepKeys` |
| `passthrough` | a model at both endpoints or inside only, 1 client ID, a neighbour, 3 edits, 2 faults, fairness | `SettledGateway`, `GatewayFollows`, `ReconcileKeepsKeys` |
| `cluster_tls` | 2 operators, 2 Gateways in 2 namespaces, 2 foreign listeners, 2 edits, fairness; the new operator brings a Secret and moves the internal endpoint to a Gateway in its own namespace | `PassesEstablish`, `OthersKept`, `Converges` |

Why the bounds are enough to see the interesting cases: two calls are a writer
and the one it disturbs, and calls that return start again, so later generations
of keys occur (a third number, which leaves a gap below a live key, adds nothing
to what `IssuedKeysKept` proves for any). The usernames of `client_ids` are made to run
into each other and into the model names: one that a hyphen moves into the other name,
one that sanitizing turns into another one's form, one that goes on exactly as the prefix
of another user's keys does, hash included, so that its keys are counted with theirs, and
one that is too long once it is sanitized. In `controller_safety` pods start, become ready
and download at any moment, again after they were ready too; degraded differs from ready
in name only. `controller_settles` leaves the downloads out, which end a Reconcile before
it comes to the policy (`AllowListConverges` excludes them anyway): with them, and the
external endpoint always on, its properties hold as well, in about the time a run may
take. A forged kid, a retired one and a new one
are the kinds of kid there are, and one request that starts a fetch and one that
joins it are the kinds of request. In `KeyApi` one change of a rule, of groups, or a
restart meets every state of two requests, a Sync and an audit pass, from all
initial rules and groups. Three edits of a controller are a model's creation,
deletion and creation anew, or a change and its reversal, or keys and a neighbour
changing under a new model; two are a creation and a change of keys or a deletion.
Two faults let one failure meet the recovery from another, or a restart. Two
edits of `Admission` are two racing creations, or the creation of one kind after the
deletion of the other, or one and an update, a label or a restart; deletions, the cache
and the controllers' own requests are not counted. A phase that
stays Error takes two failures of `ModelController` in a row, one more than
`controller_safety` has; `StatusIsSettled` has it for any number. Two edits of
`ClusterTLS`, beside the rolling update, are two of a Gateway installed or removed
late, a listener tampered with and a failed pass. The proofs below leave no bound
on any of these, and they have the types of the modules (`TypeCorrect`; `Composed` in
`ClientIds`), also of those whose run spends its time on other properties.

Symmetry is used in safety runs only (`keystore_faults`, `keyapi_safety`,
`controller_safety`), over calls, keys, users, groups, requests and
configurations, which no property or constant distinguishes. Deadlock is checked
except in the runs of `ModelController`, `PassthroughController` and `Admission`,
which end when the edits are used up and the controllers have nothing to do.

Fairness. `JwtValidator`: goroutines run and timers fire (`WF`); `LoopEnds`
is strongly fair because a select with two ready cases picks at random;
`Answer` is strongly fair because a Keycloak that is asked again and again
answers in the end. Requests need none of the last to be answered: a failure
answers them too. Clients cancelling, arriving, `Stop` and `Rotate` have no
fairness. `ModelController`: the worker goes on, watches deliver, the cache of Pods
catches up and delayed requeues come (`WF`); faults and restarts are bounded, and nothing
is assumed of users, the key-manager or the pods. That the informers resync
(`FairResync`, controller-runtime's default of ten hours, which the operator leaves as it
is) is no part of the specification; `AllowListConverges` has it as its own antecedent,
because nothing else repairs a write of the policy that failed and was logged;
`DeletionCompletes` does without. `AllowListConverges` speaks of pods
that stay as they are: pods that come and go for ever can make every update of the
Deployment a conflict, and then no Reconcile comes to the policy.
`PassthroughController`: the same, without resync, and the garbage collector
goes on (`WF`). `Admission`: the cache hears of every object and a request of a controller
ends (`WF`); one that is made
again and again gets through again and again, and a worker that is free again and
again comes to each deletion (`SF`), because the work queue serves its keys in turn
and repeats what failed. This too holds of each object by itself: of all together it
would let the deletion of one name wait for ever behind another's. Nothing is assumed of
users, and nothing of a webhook that refuses: refusals are taken as often as they happen. `ClusterTLS`: the process of a
running operator goes on, and the rolling update ends (`WF`); failed passes are
bounded, and nothing is assumed of the other writers.

A specification with liveness theorems names each part of its fairness (`FairWorker`,
`FairCaches`, ...) and says in `StepsAreEnabled` what enables the fair steps: of each,
that it can be taken when its guard, written out, holds. The prover cannot look inside
`ENABLED`, so the theorems take `[]StepsAreEnabled` as a hypothesis. It is true of every
behaviour: given as an `INVARIANT` of the runs `jwt`, `controller_settles`, `admission`,
`passthrough` and `cluster_tls`, TLC finds it in every state.

## What the checks found

* `isConflict` looks for "conflict" or "409" in the error text. The text of a
  Kubernetes conflict has neither ("Operation cannot be fulfilled on ...: the
  object has been modified; please apply your changes to the latest version and
  try again"), so a conflict is never retried, against the comments and the
  architecture document; and in a model whose name holds one of the words every
  error is.
* `ValidateToken` can refuse a token that Keycloak's published keys verify: its
  request joined a fetch answered before the rotation, or the cooldown that
  another kid started suppressed its own. The comment says that only a genuinely
  absent kid is refused.
* A deletion that is worked from an old cached copy takes a live model's keys. The
  webhooks keep names unique, so that no two controllers "fight over one Secret"; but an
  LLMModel that is gone can still be in the operator's cache, deleting and with its
  finalizer, when a PassthroughModel of its name is admitted and provisioned. The new
  Secret's event queues it, `reconcileDelete` deletes the Secret by its name, and only the
  removal of the finalizer fails (`LiveKeepKeys`). `OnlyStaleTwinsTakeKeys` says that
  this is the one way.

Seen while modelling, in the models but in no run of their own:

* `makeUserinfoLookup` is a stub that always fails, so that the audit loop, when
  it is enabled, revokes nothing (`LookupWorks = FALSE`), and a user who has left a group
  keeps the keys; the architecture document says so;
* a failed write of a SecurityPolicy is logged as a missing CRD and not repeated: until
  another event of the model or a Secret, or the resync after ten hours, the route admits
  a revoked key or refuses a new one (`SettledAllowList` excepts this case, and without
  `FairResync` `AllowListConverges` is violated by it);
* `reconcileDelete` takes a Secret its cache does not show for absent and removes the
  finalizer, so that the Secret outlives its model, against the clean-up that the
  architecture document promises (`OrphansWereUnseen` says that this is the one way), and
  a model created anew under the old name can then lose the Secret it found there;
* `determinePhase` returns Downloading for any init container that runs, ready replicas or
  not, and then the Reconcile ends before routes and policy: while a pod that replaces
  another one downloads, a changed key is not rendered. Nor are Pods watched: a pod that
  begins to download after the status came to be Ready leaves it so, unless something
  else queues the model;
* a deleted LLMModel leaves its routes, its SecurityPolicies and its InferencePool:
  `createOrUpdateUnstructured` (`llmmodel_controller.go:750`) sets no owner and
  `reconcileDelete` deletes only the two API-key objects, where the architecture
  document says that all other objects carry an ownerReference and are
  garbage-collected (`Remove`);
* a late second DELETE, and the auditor with a list that has become old, withdraw a newer
  key of the same user that was minted under the same ID (`RequestsTakeOwnKeys` and
  `RevocationsHadReason` allow it);
* the route and the policy of an endpoint that is switched off stay;
* `updateStatus` reports the generation of the copy it writes to, which may be
  newer than the one the Reconcile worked on; the next Reconcile puts it right
  (`SettledStatus`);
* `determinePhase` logs a look at the pods that fails (`llmmodel_controller.go:497`
  and `:506`) and returns Error, for which `Reconcile` asks for no requeue. The status
  it writes is a change, whose event brings the next look; when that fails too, the
  status is the same, no event comes, and a model that serves is reported as Error
  until something else changes or the cache resyncs. `SettledStatus` without its
  Error could not be proved, and this is why;
* two racing creations of one name both pass the webhooks, and both objects are
  stored. Neither then gets its finalizer until one of them goes, unless one had it
  before the other was stored; so never do both controllers hold a finalizer for one
  Secret (`OneFinalizer`), but the one that has the finalizer cannot lose it while its twin
  lives, and its deletion waits for that (`DeletionsEnd`). The same holds while the
  namespace has lost its label;
* the comment of `listenersEqual` (`reconcilers/clustertls.go:221`) expects fields
  that somebody adds to the operator's listener to be overwritten by the next
  reconcile; the comparison does not see them, so nothing is written and they stay
  until another field differs (`Tamper`, `ListenersEqual`);
* a conflict on the external Gateway ends the pass before the internal listener,
  which waits for the next tick;
* when a user's Secret replaces the managed one, the grant is rewritten before the
  listener, so that the old listener points at a Secret it may not read until the
  next step; grants and listeners of a Gateway that is no longer configured stay;
* leader election is off unless a flag asks for it, so two operators write over each
  other during an update; only the tick that comes after the old one has gone puts
  it right (`Converges`);
* the passthrough route is written before the policy that guards it; when the
  policy's write fails, and the endpoint is then disabled, the unguarded route stays
  until the model goes. Routes and policies of a disabled endpoint are never
  updated, nor are the URLs in the status cleared;
* objects of the gateway are not watched: one that somebody else deletes comes back
  with the next Reconcile, whenever that is.

## What is proved

TLAPS proves, for any sets of models, users, calls, keys, requests and kids, and
from the named `ASSUME`s alone (that markers are not members of the sets they
mark, that bounds are numbers, that names are strings, and that hashes of different
pairs of names differ; what the liveness theorems suppose besides is said at the end):

* `KeyStoreProofs`: `TypeCorrect`, `InvariantHolds`, `IssuedKeysKept`,
  `RetiredKeysGone`, `KeysAreExclusive`, `IssuedKeysListed`.
  None of the four properties is inductive: a state in which a stale copy is
  taken for a current one, or a half-done create has lost its key, satisfies
  them and steps out of them. `IInv` adds that a copy with the stored version is
  the stored data (`CopiesCurrent`), that only generated values are stored
  (`StoredIsMinted`), what a create between its two writes may rely on
  (`PendingCreate`), that a revoke between its two writes clears the entry of no
  working key (`PendingRevoke`), and that a key counts as listed from its second
  write on, before its caller has it (`Settled...`). The hard case is a revoke
  that interleaves with the two writes of a create of the same ID.
  `StoreImplementsLedger`, the refinement: given `IInv`, the Secret write of a
  create is `Mint`, that of a revoke `Retire`, the return of a create `Issue` and
  the deletion of a Secret `RetireAll`; everything else, the operator's relabelling
  included, leaves the ledger alone.
* `ClientIdProofs`: `IDsAreUnique`, `PooledIDsStayApart`, `OnlyLengthRefuses`, for any
  bytes, usernames and model names. An ID is read from its end: the number holds no
  hyphen, so that the last hyphen is where it begins (`LastPart`), and the characters
  before it, as many as a hash has, are the hash of user and model (`Parts`,
  `ShapeOfIDs`), which only that pair has (`EqualIDs`). What stands further to the front
  does not matter: a username may hold the hash of another key. The invariant is that
  Secrets hold what was composed for their model (`Composed`), and from that the three
  follow. That `Replaced`, which goes byte by byte, yields valid bytes is an induction;
  `SetInduction` has the principle for sets of numbers, from the library's theorem that
  their order is well-founded, and `ReplacedIsValid` uses it twice: that the recursive
  function exists, and what it yields.
* `JwtValidatorProofs`: `TypeCorrect`, `InvariantHolds`, `CacheMovesForward`,
  `FetchesAreLimited`, `RefusalsShare`, `ReadyValidates`. The argument is that
  one fetch is in flight at a time: `initialFetch`'s own call until the
  validator is ready, afterwards the one under the key "certs" (`OneFlight`,
  `ReadyFirst`). So answers cannot overtake each other (`SetsInOrder`), the
  check and the stamp of the cooldown cannot interleave with another's
  (`CooldownCounts`), and a request that missed during a fetch waits for it or
  finds it over (`SharesFlight`).
  Under `FairSpec`: `RequestsAnswered`, `StopReturns`, `KeysCatchUp`. A fetch that is
  under way ends, since an answer or a failure can always be taken; whoever waits for
  one is among its waiters (`WhoWaitsIsHeard`, an invariant of its own) and is woken by
  either, so that each request goes from stage to stage to its return, and the loop from
  any place to its end. `KeysCatchUp` takes the last rotation as made
  (`<>[]` of the set it leaves): the fetch that was under way then may bring the old set,
  but it ends, and the next tick's brings the new one, after which `CacheMovesForward`
  keeps it.

* `KeyApiProofs`: `TypeCorrect`, `InvariantHolds`, `KeysAreEntitled`,
  `RequestsTakeOwn`, `RevocationsAreReasoned`. The argument is that whatever a
  decision reads was true once: cache, snapshot and token are drawn from the
  history (`DecidesOnThePast`), and a request or a revocation that has been
  decided keeps the ground it was decided on (`RequestsGrounded`,
  `AuditGrounded`), because the history only grows.

* `ModelControllerProofs`: `TypeCorrect`, `InvariantHolds`, `NothingWithoutModel`,
  `KeysAreKept`, `OneConfiguration`, `NoKeysLeft`, `StatusIsSettled`,
  `AllowListIsSettled`. A Reconcile decides from a cache,
  so it has to be shown that the cache never shows a live model with a finalizer
  that is gone, nor a deletion in place of a live model with its finalizer.
  Generations order what the worker, the cache and the API server hold
  (`Ordered`, `DeletionsLast`, `SeenTrue`); from that, a Reconcile that deletes does
  so for nobody that lives (`DeletesForNobody`) and one that provisions does so for
  a model that has its finalizer (`ProvisionsForSomebody`, `PodsHaveModel`).
  `ConfigChangesRedeploy` rests on the update that an old copy is refused.
  `NoKeysLeft` (`OrphansWereUnseen`) supposes nothing of the caches: a Reconcile that is
  about to remove the finalizer has deleted the Secret, or `unseen` tells that it did not
  see one (`KeysCleared`), and a model gets a Secret only once it has its finalizer.
  `StatusIsSettled` and `AllowListIsSettled` speak of states in which nothing is to be
  done, and need what is true of all the others: that whatever is not as it should be
  has an event, a timer or a running Reconcile that will see it. What a Reconcile holds
  is what the cache shows, or the model is queued again (`WorkIsFresh`, `IdsAreFresh`);
  so each of its writes is right or will be repeated (`PodsAreRight`, `PhaseIsRight`,
  `StatusIsRight`, `PolicyIsRight`). A change of pods the Deployment does not record
  queues nobody; while the phase is Downloading or Starting the timer stays, so that the
  status of a model at rest is what its Deployment says of it. `AllowListIsSettled` has
  all caches late and every write fallible: the policy admits the keys that are seen, or
  its last write failed (`PolicyIsRight`).
  Under `FairSpec`: `DeletionIsCompleted`, once failures and restarts have ceased, and
  `AllowListFollows`, once edits have too (`FaultsAre`, `CountsAre`). Every Reconcile ends
  (`WorkEnds`). A deletion is not forgotten: a Reconcile that does not know of it has
  another one queued behind it, and the last one has left a timer (`GoesOnDeleting`,
  checked by TLC before it was proved); so the cache comes to show it, a Reconcile works on the
  very model and nothing refuses its steps. For the allow-list, were the keys never
  admitted, then nothing would change the model, the cache would come to show it, and the
  Reconcile that a resync brings if nothing else does (`NextReconcile`) reads the keys and
  writes the policy (`KeysGetThere`), since nothing fails any more; so no failed write
  that went before needs to be excluded.
* `AdmissionProofs`: `TypeCorrect`, `InvariantHolds`, `NamesCollideInRaces`,
  `OneHolds`, `OnlyStaleDeletionsHurt`. A controller's admitted request for a finalizer, while it
  is current, keeps its object in existence, so that the webhook refuses the
  twin's; a request of the twin's that was admitted before this object existed is
  the case to exclude (`AdmittedAlone`). For names, a creation that was admitted too
  early is known to have raced (`RacesKnown`). For the keys of a live model with its
  finalizer: its own controller has no copy of it with the deletion mark and works no
  deletion of it, because to give it the finalizer it had to look at a copy without the
  mark (`MarksAreOld`, `CleanedAreOld`); and its twin, if it exists, has no finalizer
  (`OneHolds`), so that a deletion of the twin is worked from a copy that is outdated.
  `StoredIsWellFormed`: whatever is stored
  has passed the checks of its fields, a controller's update of an older copy included.
  Under `FairSpec`, `DeletionsComplete`: with restarts and updates behind, a deletion
  ends, of any number of names, unless a live object of the other kind or a missing label
  holds it up. (The run has one name of both kinds; two are beyond TLC.)
* `PassthroughProofs`: `TypeCorrect`, `InvariantHolds`, `KeysAreKept`,
  `GatewayIsSettled`. A Reconcile
  deletes for a model that it has seen deleting. What lives under that name is
  either that model, and deleting, or a later one, which has another uid and no
  finalizer yet, because this worker would first have to see the new uid to set it
  (`KeptIsSeen`, `DeletesForNobody`).
  `GatewayIsSettled` is the argument of `StatusIsSettled` for the whole gateway, of two
  endpoints and the neighbours' Secrets: what a Reconcile holds is what the caches show,
  or the model is queued (`WorkIsFresh`); what it has applied stays until it ends
  (`AppliedStays`), since nobody else writes those objects and the collector takes only
  what has another owner; and what the last one left stays while nothing is queued
  (`Rests`).
  Under `FairSpec`, `GatewayComesRight`, once edits and failures have ceased. For a model
  that stays the argument is that of `AllowListFollows`, for the whole gateway
  (`LifeIsKnown`, `KeysGetThere`, `LifeIsProvisioned`); that a Reconcile which deleted for
  an earlier model of the name has ended comes first (`WorksForIt`). For one that is gone,
  Reconciles come to do nothing, every object has an owner the collector can miss
  (`OwnersAreModels`), and it takes one after the other (`HowMany`).
* `ClusterTLSProofs`: `TypeCorrect`, `InvariantHolds`, `PassesWork`,
  `ForeignListenersStay`. First, for any list of listeners: `Merge` keeps what it
  finds at its place, adds at the end and leaves exactly one listener of the name
  if names were unique. Then the version that guards the update: while it is
  current, the copy that the merge starts from is what the Gateway has (`CopyTrue`);
  a pass that nobody disturbs keeps its copy current (`CopyCurrent`), so each step
  establishes its part and the later ones leave it alone (`Establishes`).
  Under `FairSpec`, `ClusterConverges`: once the other writers' edits and the failures are
  behind, the pass that begins next is undisturbed, and what it establishes stays.

In these liveness theorems "have ceased" is a hypothesis: that the counters of edits and
failures stay at some values from some time on. The bounds imply it, but that a bounded
counter comes to rest is an induction over time for which the prover has no rule; where a
theorem holds without bounds on users' edits (`DeletionIsCompleted`), it does not assume
that they end.

Only model-checked: `StepsAreEnabled`, which the liveness theorems start from, and that their counters come to
rest; and the runs that find a violation.

## Not modelled, and why

* The frontend: `lib/api.ts` keeps no state between calls but the token of the
  Keycloak adapter, and its single retry is a loop of two; React components are
  presentation.
* The layout of the manifests the builders write, beyond what the properties speak
  of: existence, owner, specification, authorization, hostnames, Secrets. The
  InferencePool and model-service builders are pure functions of the specification
  and the configuration; `ModelController` has their objects by existence.
* Configuration and start-up: environment variables and flags are read once, before
  anything runs. What `ClusterTLS` depends on is its constant `ConfigOf`.
* The checks of a token other than its kid, SHA-256 and random keys: they are taken
  to be what they promise (a token is valid or not, keys do not collide, nor the hashes
  of two pairs of names).
* An old and a new operator that reconcile one model side by side, which a rolling update
  allows as leader election is off: their caches differ, and each has a worker for the
  name. `ClusterTLS` has two operators, the controllers of the models one.
* That a user who loses access loses the keys: the only group lookup there is always
  fails, so nothing in the program does it.
* Time: tickers, timeouts and cooldowns end at any moment, so that all orders are
  explored, but neither that a wall clock set back prolongs `unknownKIDCooldown`
  (`jwt_validator.go:420`) nor how long anything takes can be said.
* That the objects of a disabled endpoint stay (`llmmodel_controller.go:453`) is in
  the models, but no document says what should become of them, so no property does.
* Several models of one controller: the work queue serializes each name, and what
  one model's objects depend on of the others is their Secrets, which
  `PassthroughController` has as `neighbour`.
* CRD types and generated deep copies (data), charts, documentation, development
  scripts and the downloader script.
