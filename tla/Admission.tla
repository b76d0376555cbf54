----------------------------- MODULE Admission -----------------------------
(***************************************************************************)
(* The validating webhooks of LLMModel and PassthroughModel                *)
(* (operator/internal/webhook/v1alpha1) between the clients of the API     *)
(* server and what it stores, with the two controllers' finalizers and the *)
(* api-keys Secret that objects of one name share.                         *)
(*                                                                         *)
(* A create or an update is first looked at by the webhook of its kind,    *)
(* which reads the namespace and the object of the other kind straight     *)
(* from the API server, and is stored some time later, if its object has   *)
(* not changed meanwhile.  Nothing looks at the other kind again when it   *)
(* is stored.  Deletions and writes of the status are not admitted by      *)
(* anyone.  The controllers' own updates, which put the finalizer on and   *)
(* take it off, go through the webhook like everybody else's.              *)
(*                                                                         *)
(* The controllers read from the informer cache of the manager, which      *)
(* shows an object some time after it was stored; the webhooks do not      *)
(* (NewAPIReader).  An update made from an old copy is refused; the        *)
(* deletion of the Secret, which goes by name, is not.                     *)
(*                                                                         *)
(* All objects are in one namespace, the operator's: validateOperator-     *)
(* Namespace refuses all others by their name alone.                       *)
(***************************************************************************)
EXTENDS Naturals, FiniteSets

CONSTANTS Names,      \* names of objects, the same for both kinds
          Users,      \* clients that create, edit and delete objects
          Groups,     \* groups access can be given to
          Specs,      \* the specifications users ask for
          MaxEdits    \* bound: creations, edits, deletions, label changes, restarts

ASSUME EditsAreNat == MaxEdits \in Nat

Kinds == {"LLMModel", "PassthroughModel"}
Other(k) == IF k = "LLMModel" THEN "PassthroughModel" ELSE "LLMModel"

\* An object is known by its kind and its name; its twin has the other kind.
Objects == Kinds \X Names
Twin(o) == <<Other(o[1]), o[2]>>

ASSUME UsersAreNoKinds == Users \cap Kinds = {}

\* The users, and the controller of each kind, which works on one object at a time.
Clients == Users \cup Kinds

(***************************************************************************)
(* Specifications, as far as the webhooks look at them.                    *)
(***************************************************************************)
Hostnames == {"bare", "blank", "decorated"}   \* decorated: with a scheme, port or path
ModelSpec == [public : BOOLEAN, groups : SUBSET Groups,
              external : BOOLEAN, internal : BOOLEAN,
              subdomain : {"fits", "long"},
              hostname : Hostnames, credential : BOOLEAN,
              catchAll : BOOLEAN, declared : SUBSET {"id", "blank"}]

ASSUME SpecsAreSpecs == Specs \subseteq ModelSpec

HasAccess(s) == s.public \/ s.groups # {}

ProviderUsable(s) == s.hostname = "bare" /\ s.credential
RoutesSomething(s) == (s.catchAll \/ s.declared # {}) /\ "blank" \notin s.declared
HasEndpoint(s) == s.external \/ s.internal

WellFormed(k, s) ==
  /\ HasAccess(s)
  /\ IF k = "LLMModel"
     THEN s.subdomain = "fits"
     ELSE ProviderUsable(s) /\ RoutesSomething(s) /\ HasEndpoint(s)

(***************************************************************************)
(* State.                                                                  *)
(***************************************************************************)
VARIABLES object,    \* the objects in the API server
          seen,      \* the controllers' cached copies of them
          fresh,     \* the objects whose copy has the stored resourceVersion
          secret,    \* the names whose api-keys Secret exists
          managed,   \* the namespace has the label nebari.dev/managed=true
          call,      \* the request of each client that is under way
          raced,     \* names of which both kinds were being created at one time
          edits
cache == <<seen, fresh>>
vars == <<object, cache, secret, managed, call, raced, edits>>

Absent == [exists |-> FALSE]
\* What is being deleted has the finalizer: the API server drops what has none.
Object == {x \in [exists : {TRUE}, spec : Specs, finalizer : BOOLEAN, deleting : BOOLEAN] :
             x.deleting => x.finalizer}

\* "current" says that the object is still the one the request was made for.
Idle == [op |-> "none"]
Ops == {"create", "update", "addFinalizer", "removeFinalizer", "provision", "clean"}
Call == [op : Ops, object : Objects, spec : Specs,
         step : {"asked", "labelled", "admitted"}, current : BOOLEAN]

Asking(op, o, s) ==
  [op |-> op, object |-> o, spec |-> s, step |-> "asked", current |-> TRUE]

\* The same of a controller, which goes by its copy.
AskingAsSeen(op, o) ==
  [op |-> op, object |-> o, spec |-> seen[o].spec, step |-> "asked", current |-> o \in fresh]

Does(c, op) == call[c].op = op

Outdated(r, o) ==
  IF r # Idle /\ r.object = o THEN [r EXCEPT !.current = FALSE] ELSE r

\* Client c stores x as object o: other requests for o were made for an older one.
Store(o, x) ==
  /\ object' = [object EXCEPT ![o] = x]
  /\ fresh' = fresh \ {o}
  /\ UNCHANGED seen
EndsWith(c, o) == call' = [d \in Clients |-> IF d = c THEN Idle ELSE Outdated(call[d], o)]

Finish(c) == call' = [call EXCEPT ![c] = Idle]
Advance(c, step) == call' = [call EXCEPT ![c].step = step]

Edit == edits < MaxEdits /\ edits' = edits + 1

(***************************************************************************)
(* Users ask; the webhook answers; the API server stores.                  *)
(***************************************************************************)
Creating(o) == \E c \in Users : Does(c, "create") /\ call[c].object = o

AskCreate(c, o, s) ==
  /\ call[c] = Idle
  /\ Edit
  /\ call' = [call EXCEPT ![c] = Asking("create", o, s)]
  /\ raced' = IF Creating(Twin(o)) THEN raced \cup {o[2]} ELSE raced
  /\ UNCHANGED <<object, cache, secret, managed>>

AskUpdate(c, o, s) ==
  /\ call[c] = Idle
  /\ object[o].exists
  /\ Edit
  /\ call' = [call EXCEPT ![c] = Asking("update", o, s)]
  /\ UNCHANGED <<object, cache, secret, managed, raced>>

NeedsAdmission(c) == call[c].op \in {"create", "update", "addFinalizer", "removeFinalizer"}

\* What the webhook does before it reads the object of the other kind.
CheckNamespace(c) ==
  /\ NeedsAdmission(c)
  /\ call[c].step = "asked"
  /\ managed
  /\ WellFormed(call[c].object[1], call[c].spec)
  /\ Advance(c, "labelled")
  /\ UNCHANGED <<object, cache, secret, managed, raced, edits>>

\* Mutants of NameTaken: a name that is being given up counts as free; only
\* creations are checked.
TakenForGood(o) == object[Twin(o)].exists /\ ~object[Twin(o)].deleting
TakenForCreate(o) == ~object[o].exists /\ object[Twin(o)].exists

NameTaken(o) == object[Twin(o)].exists

\* validateNoNameCollision.
CheckName(c) ==
  /\ NeedsAdmission(c)
  /\ call[c].step = "labelled"
  /\ ~NameTaken(call[c].object)
  /\ Advance(c, "admitted")
  /\ UNCHANGED <<object, cache, secret, managed, raced, edits>>

\* The webhook refuses, or it or the API server does not answer; a store is refused
\* when the object is no longer the one the request was made for.
Refused(c) ==
  /\ NeedsAdmission(c)
  /\ Finish(c)
  /\ UNCHANGED <<object, cache, secret, managed, raced, edits>>

StoreCreate(c) ==
  LET o == call[c].object IN
  /\ Does(c, "create")
  /\ call[c].step = "admitted"
  /\ ~object[o].exists
  /\ Store(o, [exists |-> TRUE, spec |-> call[c].spec,
               finalizer |-> FALSE, deleting |-> FALSE])
  /\ EndsWith(c, o)
  /\ UNCHANGED <<secret, managed, raced, edits>>

StoreUpdate(c) ==
  LET o == call[c].object IN
  /\ Does(c, "update")
  /\ call[c].step = "admitted"
  /\ call[c].current
  /\ Store(o, [object[o] EXCEPT !.spec = call[c].spec])
  /\ EndsWith(c, o)
  /\ UNCHANGED <<secret, managed, raced, edits>>

\* Mutant of Deleted: the finalizer is not looked at.
DeletedLater(x) == [x EXCEPT !.deleting = TRUE]

Deleted(x) == IF x.finalizer THEN [x EXCEPT !.deleting = TRUE] ELSE Absent

\* A deletion passes no webhook (its verbs are create and update).
Delete(o) ==
  /\ object[o].exists /\ ~object[o].deleting
  /\ Store(o, Deleted(object[o]))
  /\ call' = [d \in Clients |-> Outdated(call[d], o)]
  /\ UNCHANGED <<secret, managed, raced, edits>>

Relabel ==
  /\ Edit
  /\ managed' = ~managed
  /\ UNCHANGED <<object, cache, secret, call, raced>>

(***************************************************************************)
(* The controllers, as far as they touch finalizers and Secrets.  Both do  *)
(* it alike; ModelController and PassthroughController have the rest.      *)
(***************************************************************************)

\* The cache hears of the object as it is now; it may have missed some of the past.
SeeObject(o) ==
  /\ o \notin fresh
  /\ seen' = [seen EXCEPT ![o] = object[o]]
  /\ fresh' = fresh \cup {o}
  /\ UNCHANGED <<object, secret, managed, call, raced, edits>>

\* Reconcile of an object without the finalizer.
AskAddFinalizer(k, n) ==
  LET o == <<k, n>> IN
  /\ call[k] = Idle
  /\ seen[o].exists /\ ~seen[o].deleting /\ ~seen[o].finalizer
  /\ call' = [call EXCEPT ![k] = AskingAsSeen("addFinalizer", o)]
  /\ UNCHANGED <<object, cache, secret, managed, raced, edits>>

StoreFinalizer(k) ==
  LET o == call[k].object IN
  /\ Does(k, "addFinalizer")
  /\ call[k].step = "admitted"
  /\ call[k].current
  /\ Store(o, [object[o] EXCEPT !.finalizer = TRUE])
  /\ EndsWith(k, o)
  /\ UNCHANGED <<secret, managed, raced, edits>>

\* Reconcile of an object with the finalizer: it may be deleted meanwhile.
BeginProvision(k, n) ==
  LET o == <<k, n>> IN
  /\ call[k] = Idle
  /\ seen[o].exists /\ ~seen[o].deleting /\ seen[o].finalizer
  /\ call' = [call EXCEPT ![k] = AskingAsSeen("provision", o)]
  /\ UNCHANGED <<object, cache, secret, managed, raced, edits>>

\* createOrUpdateSecret.
WriteSecret(k) ==
  /\ Does(k, "provision")
  /\ secret' = secret \cup {call[k].object[2]}
  /\ Finish(k)
  /\ UNCHANGED <<object, cache, managed, raced, edits>>

\* reconcileDelete: the Secret first, then the finalizer.
BeginDelete(k, n) ==
  LET o == <<k, n>> IN
  /\ call[k] = Idle
  /\ seen[o].exists /\ seen[o].deleting /\ seen[o].finalizer
  /\ call' = [call EXCEPT ![k] = AskingAsSeen("clean", o)]
  /\ UNCHANGED <<object, cache, secret, managed, raced, edits>>

\* Mutant of DeleteSecret: a Secret that is not there is an error.
DeleteSecretThatExists(k) ==
  /\ Does(k, "clean")
  /\ call[k].object[2] \in secret
  /\ secret' = secret \ {call[k].object[2]}
  /\ call' = [call EXCEPT ![k].op = "removeFinalizer"]
  /\ UNCHANGED <<object, cache, managed, raced, edits>>

\* By its name; unless the cache does not show a Secret yet.
DeleteSecret(k) ==
  /\ Does(k, "clean")
  /\ secret' \in {secret \ {call[k].object[2]}, secret}
  /\ call' = [call EXCEPT ![k].op = "removeFinalizer"]
  /\ UNCHANGED <<object, cache, managed, raced, edits>>

StoreRemoval(k) ==
  LET o == call[k].object IN
  /\ Does(k, "removeFinalizer")
  /\ call[k].step = "admitted"
  /\ call[k].current
  /\ Store(o, Absent)
  /\ EndsWith(k, o)
  /\ UNCHANGED <<secret, managed, raced, edits>>

\* The operator restarts: the requests of its controllers are forgotten.
Restart ==
  /\ \E k \in Kinds : call[k] # Idle
  /\ Edit
  /\ call' = [c \in Clients |-> IF c \in Kinds THEN Idle ELSE call[c]]
  /\ UNCHANGED <<object, cache, secret, managed, raced>>

(***************************************************************************)
(* The specification.                                                      *)
(***************************************************************************)
Init ==
  /\ object = [o \in Objects |-> Absent]
  /\ seen = object
  /\ fresh = Objects
  /\ secret = {}
  /\ managed = TRUE
  /\ call = [c \in Clients |-> Idle]
  /\ raced = {}
  /\ edits = 0

UserStep ==
  \/ \E c \in Users :
       \/ \E o \in Objects, s \in Specs : AskCreate(c, o, s) \/ AskUpdate(c, o, s)
       \/ StoreCreate(c) \/ StoreUpdate(c)
  \/ \E o \in Objects : Delete(o)
  \/ Relabel

ControllerStep(k) ==
  \/ \E n \in Names : AskAddFinalizer(k, n) \/ BeginProvision(k, n) \/ BeginDelete(k, n)
  \/ StoreFinalizer(k) \/ WriteSecret(k) \/ DeleteSecret(k) \/ StoreRemoval(k)

Next ==
  \/ UserStep
  \/ \E k \in Kinds : ControllerStep(k)
  \/ \E o \in Objects : SeeObject(o)
  \/ \E c \in Clients : CheckNamespace(c) \/ CheckName(c) \/ Refused(c)
  \/ Restart

Spec == Init /\ [][Next]_vars

\* What ends a request of a controller: its work is done, or it is refused.
Ends(k) == WriteSecret(k) \/ DeleteSecret(k) \/ Refused(k)

\* The cache hears of everything in the end.  The workers go on, through the names in turn,
\* and a request that is made again and again for an object is answered again and again.
About(k, n) == call[k] # Idle /\ call[k].object = <<k, n>>
NamespaceChecked(k, n) == About(k, n) /\ CheckNamespace(k)
NameChecked(k, n) == About(k, n) /\ CheckName(k)
Removed(k, n) == About(k, n) /\ StoreRemoval(k)

FairCache(o) == WF_vars(SeeObject(o))
FairWorker(k) == WF_vars(Ends(k))
FairTurns(k, n) == SF_vars(BeginDelete(k, n))
FairAnswers(k, n) ==
  SF_vars(NamespaceChecked(k, n)) /\ SF_vars(NameChecked(k, n)) /\ SF_vars(Removed(k, n))

FairSpec ==
  /\ Spec
  /\ \A o \in Objects : FairCache(o)
  /\ \A k \in Kinds : FairWorker(k)
  /\ \A k \in Kinds, n \in Names : FairTurns(k, n) /\ FairAnswers(k, n)

(***************************************************************************)
(* When these steps can be taken: their guards.  The proofs about          *)
(* FairSpec take from here what ENABLED means.                             *)
(***************************************************************************)
ToBeginDelete(k, n) == call[k] = Idle /\ seen[<<k, n>>].exists /\ seen[<<k, n>>].deleting
ToCheckNamespace(k, n) ==
  /\ About(k, n) /\ NeedsAdmission(k) /\ call[k].step = "asked"
  /\ managed /\ WellFormed(k, call[k].spec)
ToCheckName(k, n) ==
  /\ About(k, n) /\ NeedsAdmission(k) /\ call[k].step = "labelled"
  /\ ~NameTaken(<<k, n>>)
ToStoreRemoval(k, n) ==
  /\ About(k, n) /\ Does(k, "removeFinalizer") /\ call[k].step = "admitted"
  /\ call[k].current

CacheEnabled(o) == o \notin fresh => ENABLED <<SeeObject(o)>>_vars
WorkerEnabled(k) == call[k] # Idle => ENABLED <<Ends(k)>>_vars
TurnsEnabled(k, n) == ToBeginDelete(k, n) => ENABLED <<BeginDelete(k, n)>>_vars
AnswersEnabled(k, n) ==
  /\ ToCheckNamespace(k, n) => ENABLED <<NamespaceChecked(k, n)>>_vars
  /\ ToCheckName(k, n) => ENABLED <<NameChecked(k, n)>>_vars
  /\ ToStoreRemoval(k, n) => ENABLED <<Removed(k, n)>>_vars

StepsAreEnabled ==
  /\ \A o \in Objects : CacheEnabled(o)
  /\ \A k \in Kinds : WorkerEnabled(k)
  /\ \A k \in Kinds, n \in Names : TurnsEnabled(k, n) /\ AnswersEnabled(k, n)

(***************************************************************************)
(* Properties.                                                             *)
(***************************************************************************)
TypeOK ==
  /\ object \in [Objects -> Object \cup {Absent}]
  /\ seen \in [Objects -> Object \cup {Absent}]
  /\ fresh \subseteq Objects
  /\ secret \subseteq Names
  /\ managed \in BOOLEAN
  /\ call \in [Clients -> Call \cup {Idle}]
  /\ raced \subseteq Names
  /\ edits \in 0..MaxEdits

Held(o) == object[o].exists /\ object[o].finalizer
Live(o) == object[o].exists /\ ~object[o].deleting

\* Names are unique across both kinds, but for two creations that were under way at
\* one time: then neither webhook sees the other's object.
OnlyRacesCollide ==
  \A o \in Objects : object[o].exists /\ object[Twin(o)].exists => o[2] \in raced

\* Even then only one of the two controllers gets its finalizer stored, because the
\* webhook looks at that update too: so never are both in charge of the Secret of one name.
OneFinalizer == \A o \in Objects : ~(Held(o) /\ Held(Twin(o)))

\* What the name check is for: "sharing a name makes the two controllers fight over one
\* Secret" (llmmodel_webhook.go).  The Secret of a model that lives and has its finalizer
\* stays, whatever becomes of objects of the other kind.
LiveKeepKeys ==
  [][ \A o \in Objects : Held(o) /\ Live(o) /\ o[2] \in secret => o[2] \in secret' ]_vars

\* What is left of it: such a model loses its keys to its twin's controller alone, and only
\* to a deletion that is worked from an outdated copy.  A deletion of the model itself,
\* or of the twin as it is, does not reach them.
OnlyStaleTwinsTakeKeys ==
  [][ \A o \in Objects :
        Held(o) /\ Live(o) /\ o[2] \in secret /\ o[2] \notin secret' =>
          LET k == Other(o[1]) IN
          Does(k, "clean") /\ call[k].object = Twin(o) /\ ~call[k].current ]_vars

\* A deletion ends, although its last step is an update that the webhook may refuse:
\* only a live object of the other kind, or a namespace that has lost its label,
\* holds it up.
DeletionsEnd ==
  \A o \in Objects :
    <>[](object[o].exists /\ object[o].deleting)
    => []<>Live(Twin(o)) \/ []<>(~managed)
=============================================================================
