------------------------------ MODULE KeyStore ------------------------------
(***************************************************************************)
(* secrets.Manager (key-manager/internal/secrets/manager.go): CreateKey    *)
(* and RevokeKey calls running concurrently against one Secret and one     *)
(* ConfigMap per model.                                                    *)
(*                                                                         *)
(* Every call reads the Secret, reads the ConfigMap, writes the Secret and *)
(* writes the ConfigMap: four requests to the API server, each an action   *)
(* here.  A write carries the resourceVersion of the copy that was read    *)
(* and is refused when the object changed since.  Any request may fail, a  *)
(* write may be applied although its caller sees an error (the request     *)
(* context is cancelled when the HTTP client goes away), the key-manager   *)
(* may restart at any point, and the operator relabels, deletes and        *)
(* recreates the two objects.                                              *)
(*                                                                         *)
(* A resourceVersion is only ever compared with the stored one, so the     *)
(* model keeps, for each object, the set of calls whose copy still has the *)
(* stored version instead of a number that grows for ever.                 *)
(***************************************************************************)
EXTENDS Naturals, FiniteSets

CONSTANTS Models,         \* model names (LLMModel and PassthroughModel)
          Users,          \* usernames taken from tokens, never empty
          Calls,          \* Manager calls that can be in flight together
          Keys,           \* key values generateAPIKey can return
          NoKey,          \* no entry / no key generated yet
          CountedWith,    \* CountedWith[u]: users whose IDs begin with u's prefix
          MaxSeq,         \* bound: largest sequence number of a client ID
          ConflictNamed,  \* models whose name contains "409" or "conflict"
          Deletable,      \* bound: models the administrators may delete
          Faulty          \* bound: do requests fail and the process restart?

ASSUME NoKeyNotKey     == NoKey \notin Keys
ASSUME MaxSeqIsNat     == MaxSeq \in Nat
ASSUME ConflictNamedIn == ConflictNamed \subseteq Models
ASSUME CountsOwn       == CountedWith \in [Users -> SUBSET Users]
                          /\ \A u \in Users : u \in CountedWith[u]
ASSUME FaultyIsBoolean == Faulty \in BOOLEAN

VARIABLES secret,         \* secret[m][id]: Data of <m>-api-keys
          meta,           \* meta[m][id]: the mint whose KeyInfo is in the ConfigMap
          secretExists,   \* models whose Secret exists
          metaExists,     \* models whose ConfigMap exists
          secretCurrent,  \* secretCurrent[m]: calls holding the stored version
          metaCurrent,    \* the same for the ConfigMap
          call,           \* what each call is doing, with its local copies
          minted, issued, retired  \* history: see KeyLedger

objects == <<secret, meta, secretExists, metaExists>>
history == <<minted, issued, retired>>
vars == <<objects, secretCurrent, metaCurrent, call, history>>

MaxRetries == 3

(***************************************************************************)
(* Client IDs.  userPrefix binds the user and the model with a hash, so    *)
(* within one model's objects an ID stands for a user and a sequence       *)
(* number (ClientIds.tla has the composed strings).                        *)
(***************************************************************************)
Seqs == 1..MaxSeq
ID == Users \X Seqs

Nothing == [id \in ID |-> NoKey]
Data == [ID -> Keys \cup {NoKey}]

Credential == [model : Models, id : ID, key : Keys]

(***************************************************************************)
(* Calls.                                                                  *)
(***************************************************************************)
Requesting == {"getSecret", "getConfigMap", "putSecret", "putConfigMap"}

Idle == [pc |-> "idle"]
Active == [pc      : Requesting \cup {"returned", "failed"},
           op      : {"create", "revoke"},
           model   : Models,
           user    : Users,
           seq     : 0..MaxSeq,     \* 0: no client ID chosen yet
           key     : Keys \cup {NoKey},
           secret  : Data,          \* local copy of Secret.Data
           meta    : Data,          \* local copy of ConfigMap.Data
           attempt : 1..MaxRetries,
           err     : {"none", "conflict", "notFound", "other"}]

\* A revoke names its client ID from the start; a create has chosen one, and a
\* key, when it has written the Secret.
Running ==
  {x \in Active :
     /\ x.op = "revoke" => x.seq \in Seqs
     /\ x.op = "create" /\ x.pc \in {"putConfigMap", "returned"}
          => x.seq \in Seqs /\ x.key \in Keys}
CallState == {Idle} \cup Running

Begin(op, m, u, n) ==
  [pc |-> "getSecret", op |-> op, model |-> m, user |-> u, seq |-> n,
   key |-> NoKey, secret |-> Nothing, meta |-> Nothing,
   attempt |-> 1, err |-> "none"]

At(c, pc) == call[c].pc = pc
Target(c) == <<call[c].user, call[c].seq>>

\* isConflict reads the error's text.  Every error of the Manager quotes the
\* model's name; the API server's own conflict text holds neither word.
IsConflict(m, err) == m \in ConflictNamed

\* Mutant of Attempt: a retried revoke forgets its client ID.
AttemptLosingID(c, n) ==
  [Begin(call[c].op, call[c].model, call[c].user, 0) EXCEPT !.attempt = n]

\* The locals of a call that starts its n-th attempt.
Attempt(c, n) ==
  [Begin(call[c].op, call[c].model, call[c].user,
         IF call[c].op = "create" THEN 0 ELSE call[c].seq) EXCEPT !.attempt = n]

\* The loops of CreateKey and RevokeKey: run the call again, or report err.
AfterError(c, err) ==
  IF IsConflict(call[c].model, err) /\ call[c].attempt < MaxRetries
  THEN Attempt(c, call[c].attempt + 1)
  ELSE [Attempt(c, call[c].attempt) EXCEPT !.pc = "failed", !.err = err]

Drop(current, m, c) == [current EXCEPT ![m] = @ \ {c}]

Fail(c, err) ==
  /\ call' = [call EXCEPT ![c] = AfterError(c, err)]
  /\ secretCurrent' = Drop(secretCurrent, call[c].model, c)
  /\ metaCurrent' = Drop(metaCurrent, call[c].model, c)

\* ---------------------------------------------------------------- calls

BeginCreate(c, m, u) ==
  /\ At(c, "idle")
  /\ call' = [call EXCEPT ![c] = Begin("create", m, u, 0)]
  /\ UNCHANGED <<objects, secretCurrent, metaCurrent, history>>

BeginRevoke(c, m, id) ==
  /\ At(c, "idle")
  /\ call' = [call EXCEPT ![c] = Begin("revoke", m, id[1], id[2])]
  /\ UNCHANGED <<objects, secretCurrent, metaCurrent, history>>

GetSecret(c) ==
  /\ At(c, "getSecret")
  /\ LET m == call[c].model
     IN  /\ m \in secretExists
         /\ call' = [call EXCEPT ![c].pc = "getConfigMap", ![c].secret = secret[m]]
         /\ secretCurrent' = [secretCurrent EXCEPT ![m] = @ \cup {c}]
  /\ UNCHANGED <<objects, metaCurrent, history>>

GetConfigMap(c) ==
  /\ At(c, "getConfigMap")
  /\ LET m == call[c].model
     IN  /\ m \in metaExists
         /\ call' = [call EXCEPT ![c].pc = "putSecret", ![c].meta = meta[m]]
         /\ metaCurrent' = [metaCurrent EXCEPT ![m] = @ \cup {c}]
  /\ UNCHANGED <<objects, secretCurrent, history>>

(***************************************************************************)
(* The sequence number of a new client ID: one more than the number of the *)
(* entries in the Secret that begin with the user's prefix (a username can *)
(* be made so that its IDs begin with another's), then upward past every   *)
(* ID that either object still holds.                                      *)
(***************************************************************************)
Count(c) ==
  Cardinality({id \in CountedWith[call[c].user] \X Seqs : call[c].secret[id] # NoKey})

Unused(c, n) ==
  /\ call[c].secret[<<call[c].user, n>>] = NoKey
  /\ call[c].meta[<<call[c].user, n>>] = NoKey

IsSequence(c, n) ==
  /\ n > Count(c)
  /\ Unused(c, n)
  /\ \A i \in Seqs : Count(c) < i /\ i < n => ~ Unused(c, i)

\* revokeKeyOnce writes only when its copy of the Secret holds the key.
WritesSecret(c) ==
  /\ At(c, "putSecret")
  /\ call[c].op = "revoke" => call[c].secret[Target(c)] # NoKey

\* The object of the request does not exist.
Missing(c) ==
  \/ call[c].pc \in {"getSecret", "putSecret"} /\ call[c].model \notin secretExists
  \/ call[c].pc \in {"getConfigMap", "putConfigMap"} /\ call[c].model \notin metaExists

\* The API server takes the write: the copy has the stored version.
SecretAccepts(c) == ~ Missing(c) /\ c \in secretCurrent[call[c].model]
ConfigMapAccepts(c) == ~ Missing(c) /\ c \in metaCurrent[call[c].model]

\* The API server answers the Secret write, or the answer is lost.
AfterSecretWrite(c, next) ==
  \/ /\ call' = [call EXCEPT ![c] = next]
     /\ UNCHANGED metaCurrent
  \/ /\ Faulty
     /\ call' = [call EXCEPT ![c] = AfterError(c, "other")]
     /\ metaCurrent' = Drop(metaCurrent, call[c].model, c)

CreateWritesSecret(c) ==
  /\ WritesSecret(c) /\ call[c].op = "create"
  /\ SecretAccepts(c)
  /\ \E n \in Seqs, k \in Keys \ minted :
       LET m == call[c].model
           id == <<call[c].user, n>>
       IN  /\ IsSequence(c, n)
           /\ secret' = [secret EXCEPT ![m] = [call[c].secret EXCEPT ![id] = k]]
           /\ secretCurrent' = [secretCurrent EXCEPT ![m] = {}]
           /\ minted' = minted \cup {k}
           /\ AfterSecretWrite(c, [call[c] EXCEPT !.pc = "putConfigMap", !.seq = n,
                                                  !.key = k, !.secret = Nothing])
  /\ UNCHANGED <<meta, secretExists, metaExists, issued, retired>>

RevokeWritesSecret(c) ==
  /\ WritesSecret(c) /\ call[c].op = "revoke"
  /\ SecretAccepts(c)
  /\ LET m == call[c].model
         id == Target(c)
     IN  /\ secret' = [secret EXCEPT ![m] = [call[c].secret EXCEPT ![id] = NoKey]]
         /\ secretCurrent' = [secretCurrent EXCEPT ![m] = {}]
         /\ retired' = retired \cup {call[c].secret[id]}
         /\ AfterSecretWrite(c, [call[c] EXCEPT !.pc = "putConfigMap", !.secret = Nothing])
  /\ UNCHANGED <<meta, secretExists, metaExists, minted, issued>>

RevokeFindsNothing(c) ==
  /\ At(c, "putSecret") /\ ~ WritesSecret(c)
  /\ Fail(c, "notFound")
  /\ UNCHANGED <<objects, history>>

\* The KeyInfo entry the call leaves in its copy of the ConfigMap.
NewMeta(c) ==
  [call[c].meta EXCEPT ![Target(c)] =
     IF call[c].op = "create" THEN call[c].key ELSE NoKey]

\* An update that changes nothing keeps the resourceVersion.
WriteConfigMap(c) ==
  /\ At(c, "putConfigMap")
  /\ ConfigMapAccepts(c)
  /\ LET m == call[c].model
     IN  /\ meta' = [meta EXCEPT ![m] = NewMeta(c)]
         /\ metaCurrent' = [metaCurrent EXCEPT ![m] =
                              IF NewMeta(c) = meta[m] THEN @ \ {c} ELSE {}]
         /\ \/ call' = [call EXCEPT ![c].pc = "returned", ![c].meta = Nothing]
            \/ Faulty /\ call' = [call EXCEPT ![c] = AfterError(c, "other")]
  /\ UNCHANGED <<secret, secretExists, metaExists, secretCurrent, history>>

\* Mutant of Conflict: the call takes the new resourceVersion and sends its old
\* copy again.
ConflictForced(c) ==
  /\ \/ /\ WritesSecret(c) /\ ~ Missing(c) /\ ~ SecretAccepts(c)
        /\ secretCurrent' = [secretCurrent EXCEPT ![call[c].model] = @ \cup {c}]
        /\ UNCHANGED metaCurrent
     \/ /\ At(c, "putConfigMap") /\ ~ Missing(c) /\ ~ ConfigMapAccepts(c)
        /\ metaCurrent' = [metaCurrent EXCEPT ![call[c].model] = @ \cup {c}]
        /\ UNCHANGED secretCurrent
  /\ UNCHANGED <<objects, call, history>>

\* 409: the object exists and changed since the copy was read.
Conflict(c) ==
  /\ \/ WritesSecret(c) /\ ~ Missing(c) /\ ~ SecretAccepts(c)
     \/ At(c, "putConfigMap") /\ ~ Missing(c) /\ ~ ConfigMapAccepts(c)
  /\ Fail(c, "conflict")
  /\ UNCHANGED <<objects, history>>

\* Any other error: the object is missing, a timeout, an outage, a cancelled
\* request context.
RequestFails(c) ==
  /\ Faulty \/ Missing(c)
  /\ WritesSecret(c) \/ call[c].pc \in Requesting \ {"putSecret"}
  /\ Fail(c, "other")
  /\ UNCHANGED <<objects, history>>

\* What a create has stored, or is about to describe in the ConfigMap.
Stored(c) == call[c].op = "create" /\ call[c].pc \in {"putConfigMap", "returned"}
CredentialOf(c) == [model |-> call[c].model, id |-> Target(c), key |-> call[c].key]

\* CreateKey returns the key: the only time its value is shown.
ReturnResult(c) ==
  /\ At(c, "returned")
  /\ issued' = IF call[c].op = "create"
               THEN issued \cup {CredentialOf(c)}
               ELSE issued
  /\ call' = [call EXCEPT ![c] = Idle]
  /\ UNCHANGED <<objects, secretCurrent, metaCurrent, minted, retired>>

ReturnError(c) ==
  /\ At(c, "failed")
  /\ call' = [call EXCEPT ![c] = Idle]
  /\ UNCHANGED <<objects, secretCurrent, metaCurrent, history>>

\* The key-manager process restarts; it keeps nothing.
Restart ==
  /\ Faulty
  /\ \E c \in Calls : ~ At(c, "idle")
  /\ call' = [c \in Calls |-> Idle]
  /\ secretCurrent' = [m \in Models |-> {}]
  /\ metaCurrent' = [m \in Models |-> {}]
  /\ UNCHANGED <<objects, history>>

(***************************************************************************)
(* The operator.  reconcileAuthSecretAndConfigMap creates both objects     *)
(* empty, the Secret first, and on later reconciles writes their labels    *)
(* back with the data it read: an update whose resourceVersion is current, *)
(* so the data is the stored data.  reconcileDelete removes the Secret,    *)
(* then the ConfigMap.                                                     *)
(***************************************************************************)
KeysOf(data) == {k \in Keys : \E id \in ID : data[id] = k}

OperatorCreatesSecret(m) ==
  /\ m \notin secretExists
  /\ secretExists' = secretExists \cup {m}
  /\ UNCHANGED <<secret, meta, metaExists, secretCurrent, metaCurrent, call, history>>

OperatorCreatesConfigMap(m) ==
  /\ m \in secretExists \ metaExists
  /\ metaExists' = metaExists \cup {m}
  /\ UNCHANGED <<secret, meta, secretExists, secretCurrent, metaCurrent, call, history>>

\* Mutant of OperatorRelabelsSecret: the data of the builder's empty Secret is
\* written too, as createOrUpdateConfigMap does for other ConfigMaps.
OperatorResetsSecret(m) ==
  /\ m \in secretExists
  /\ secret' = [secret EXCEPT ![m] = Nothing]
  /\ secretCurrent' = [secretCurrent EXCEPT ![m] = {}]
  /\ UNCHANGED <<meta, secretExists, metaExists, metaCurrent, call, history>>

OperatorRelabelsSecret(m) ==
  /\ m \in secretExists
  /\ secret' = [secret EXCEPT ![m] = secret[m]]
  /\ secretCurrent' = [secretCurrent EXCEPT ![m] = {}]
  /\ UNCHANGED <<meta, secretExists, metaExists, metaCurrent, call, history>>

OperatorRelabelsConfigMap(m) ==
  /\ m \in metaExists
  /\ meta' = [meta EXCEPT ![m] = meta[m]]
  /\ metaCurrent' = [metaCurrent EXCEPT ![m] = {}]
  /\ UNCHANGED <<secret, secretExists, metaExists, secretCurrent, call, history>>

OperatorDeletesSecret(m) ==
  /\ m \in secretExists \cap Deletable
  /\ secretExists' = secretExists \ {m}
  /\ secret' = [secret EXCEPT ![m] = Nothing]
  /\ secretCurrent' = [secretCurrent EXCEPT ![m] = {}]
  /\ retired' = retired \cup KeysOf(secret[m])
  /\ UNCHANGED <<meta, metaExists, metaCurrent, call, minted, issued>>

OperatorDeletesConfigMap(m) ==
  /\ m \in (metaExists \ secretExists) \cap Deletable
  /\ metaExists' = metaExists \ {m}
  /\ meta' = [meta EXCEPT ![m] = Nothing]
  /\ metaCurrent' = [metaCurrent EXCEPT ![m] = {}]
  /\ UNCHANGED <<secret, secretExists, secretCurrent, call, history>>

\* ---------------------------------------------------------------- behaviour

Init ==
  /\ secret = [m \in Models |-> Nothing]
  /\ meta = [m \in Models |-> Nothing]
  /\ secretExists = {}
  /\ metaExists = {}
  /\ secretCurrent = [m \in Models |-> {}]
  /\ metaCurrent = [m \in Models |-> {}]
  /\ call = [c \in Calls |-> Idle]
  /\ minted = {}
  /\ issued = {}
  /\ retired = {}

Step(c) ==
  \/ GetSecret(c)
  \/ GetConfigMap(c)
  \/ CreateWritesSecret(c)
  \/ RevokeWritesSecret(c)
  \/ RevokeFindsNothing(c)
  \/ WriteConfigMap(c)
  \/ Conflict(c)
  \/ RequestFails(c)
  \/ ReturnResult(c)
  \/ ReturnError(c)

Operator(m) ==
  \/ OperatorCreatesSecret(m)
  \/ OperatorCreatesConfigMap(m)
  \/ OperatorRelabelsSecret(m)
  \/ OperatorRelabelsConfigMap(m)
  \/ OperatorDeletesSecret(m)
  \/ OperatorDeletesConfigMap(m)

Next ==
  \/ \E c \in Calls, m \in Models :
       \/ \E u \in Users : BeginCreate(c, m, u)
       \/ \E id \in ID : BeginRevoke(c, m, id)
  \/ \E c \in Calls : Step(c)
  \/ \E m \in Models : Operator(m)
  \/ Restart

Spec == Init /\ [][Next]_vars

\* ---------------------------------------------------------------- properties

\* Every variable has its shape (CallState says which locals a call has when).
TypeOK ==
  /\ secret \in [Models -> Data]
  /\ meta \in [Models -> Data]
  /\ secretExists \in SUBSET Models
  /\ metaExists \in SUBSET Models
  /\ secretCurrent \in [Models -> SUBSET Calls]
  /\ metaCurrent \in [Models -> SUBSET Calls]
  /\ call \in [Calls -> CallState]
  /\ minted \in SUBSET Keys
  /\ issued \in SUBSET Credential
  /\ retired \in SUBSET Keys

Holds(cred) == secret[cred.model][cred.id] = cred.key

\* A key CreateKey returned keeps working, under the ID it was returned with,
\* until a revocation or the deletion of its model withdraws it: no concurrent
\* create, stale write or reused sequence number replaces it (the comment on
\* the probe loop of createKeyOnce; optimistic Update of the Secret).
IssuedUntilRetired == \A cred \in issued : Holds(cred) \/ cred.key \in retired

\* A withdrawn key value is in no Secret ever again: no call writes back a copy
\* of the Secret it read before the revocation (revokeKeyOnce, createKeyOnce).
RetiredStaysRetired ==
  \A m \in Models : \A id \in ID : secret[m][id] \notin retired

\* A key its owner holds and that still works is listed with its own metadata,
\* so the owner can find it and revoke it: neither a concurrent create nor a
\* concurrent revoke of another key loses the ConfigMap entry.
IssuedIsListed ==
  \A cred \in issued : Holds(cred) => meta[cred.model][cred.id] = cred.key

\* No key value opens two client IDs, within a model or across models: Envoy
\* forwards the ID a value is stored under, and that ID decides the model.
KeyHeldOnce ==
  \A m1, m2 \in Models : \A id1, id2 \in ID :
    secret[m1][id1] # NoKey /\ secret[m1][id1] = secret[m2][id2]
      => m1 = m2 /\ id1 = id2

(***************************************************************************)
(* Why they hold: the inductive invariant.  A credential is settled from   *)
(* the moment its create has written both objects.                         *)
(***************************************************************************)
Settled == issued \cup {CredentialOf(c) : c \in {d \in Calls : At(d, "returned") /\ call[d].op = "create"}}

\* A copy with the stored resourceVersion is the stored data.
CopiesCurrent ==
  \A c \in Calls :
    /\ call[c].pc \in {"getConfigMap", "putSecret"} /\ c \in secretCurrent[call[c].model]
         => call[c].secret = secret[call[c].model]
    /\ call[c].pc \in {"putSecret", "putConfigMap"} /\ c \in metaCurrent[call[c].model]
         => call[c].meta = meta[call[c].model]

\* An object that does not exist holds nothing; what one holds was generated.
StoredIsMinted ==
  /\ \A m \in Models : m \notin secretExists => secret[m] = Nothing
  /\ \A m \in Models : \A id \in ID : secret[m][id] \in minted \cup {NoKey}
  /\ retired \subseteq minted

\* A create that has written the Secret and not yet returned: its key works or
\* was withdrawn, and its copy of the ConfigMap has no entry for the ID.
PendingCreate ==
  \A c \in Calls : ~ At(c, "idle") /\ Stored(c) =>
    /\ call[c].key \in minted
    /\ Holds(CredentialOf(c)) \/ call[c].key \in retired
    /\ At(c, "putConfigMap") => call[c].meta[Target(c)] = NoKey

\* A revoke about to clear the ConfigMap entry of an ID clears it for no
\* settled credential, while its copy is current.
PendingRevoke ==
  \A c \in Calls : At(c, "putConfigMap") /\ call[c].op = "revoke"
                    /\ c \in metaCurrent[call[c].model]
    => \A cred \in Settled : cred.model = call[c].model /\ cred.id = Target(c)
         => ~ Holds(cred)

SettledIsMinted == \A cred \in Settled : cred.key \in minted
SettledIsListed ==
  \A cred \in Settled : Holds(cred) => meta[cred.model][cred.id] = cred.key

IInv ==
  /\ TypeOK
  /\ CopiesCurrent
  /\ StoredIsMinted
  /\ PendingCreate
  /\ PendingRevoke
  /\ KeyHeldOnce
  /\ RetiredStaysRetired
  /\ IssuedUntilRetired
  /\ SettledIsMinted
  /\ SettledIsListed

\* The Secrets implement the ledger of KeyLedger.tla.
Ledger == INSTANCE KeyLedger WITH live <- secret
ImplementsLedger == Ledger!LedgerSpec

\* What the comments of CreateKey and isConflict and the architecture document
\* say: a conflict is retried, so it reaches a caller only after maxRetries
\* attempts.
ConflictsAreRetried ==
  \A c \in Calls : At(c, "failed") /\ call[c].err = "conflict"
                    => call[c].attempt = MaxRetries
=============================================================================
