------------------------------- MODULE KeyApi -------------------------------
(***************************************************************************)
(* The key-manager's HTTP API (internal/api/handler.go), its copy of the   *)
(* access rules (internal/models/watcher.go) and the key auditor           *)
(* (internal/audit/auditor.go), running concurrently over the keys that    *)
(* secrets.Manager keeps.                                                  *)
(*                                                                         *)
(* Nobody decides on the current state.  A token carries the groups its    *)
(* user had when it was issued, the cache holds rules read by two lists up *)
(* to 30 seconds ago, DELETE looks up an owner in one read and revokes in  *)
(* another, and the auditor combines a snapshot of the cache, a later list *)
(* of keys and a still later answer about the creator's groups.            *)
(*                                                                         *)
(* A Manager operation is one step here that may fail before its first     *)
(* write or between its two writes; KeyStore.tla has its requests and      *)
(* conflicts.  A client ID is a user and a number (ClientIds.tla), and its *)
(* user is the Creator in the KeyInfo.                                     *)
(*                                                                         *)
(* The groups the auditor asks for come from a UserGroupsLookup.  The only *)
(* one in the repository, makeUserinfoLookup in cmd/main.go, always fails: *)
(* that is LookupWorks = FALSE.  TRUE is the auditor as it is written, for *)
(* a lookup that answers.                                                  *)
(***************************************************************************)
EXTENDS Naturals, FiniteSets

CONSTANTS Users, Groups,
          Names,        \* model names; the two kinds can share one
          Requests,     \* POST and DELETE requests that can be in flight together
          LookupWorks,  \* can the UserGroupsLookup answer? Not the repository's
          MaxSeq,       \* bound: largest sequence number of a client ID
          MaxChanges    \* bound: changes of rules and memberships, restarts

ASSUME BoundsAreNats   == MaxSeq \in Nat /\ MaxChanges \in Nat
ASSUME LookupIsBoolean == LookupWorks \in BOOLEAN

VARIABLES rules,    \* rules[e]: spec.access of a custom resource, now
          groups,   \* groups[u]: the groups Keycloak has for u, now
          token,    \* token[u]: the groups in the token u sends
          cache,    \* Watcher.models
          sync,     \* what a running Sync has listed
          secret,   \* secret[n]: client IDs in the Secret of n
          listed,   \* listed[n]: client IDs in the ConfigMap of n
          request,  \* what each request has still to do
          audit,    \* the pass of the auditor
          changes,  \* number of changes so far
          ruled, belonged  \* history: all the rules of an entry, all the group
                           \* sets of a user

keys == <<secret, listed>>
world == <<rules, groups, token, changes, ruled, belonged>>
watcher == <<cache, sync>>
vars == <<world, watcher, keys, request, audit>>

\* Cache keys: "<kind>/namespace/name".
Kinds == {"llmmodel", "passthroughmodel"}
Entries == Kinds \X Names

ID == Users \X (1..MaxSeq)

(***************************************************************************)
(* Access.  The groups of a public rule are never looked at, so they are   *)
(* left empty.  The overlap test is written twice in Go, in                *)
(* FilterModelsForUser and in the auditor's hasOverlap.                    *)
(***************************************************************************)
Absent == [state |-> "absent", groups |-> {}]
Public == [state |-> "public", groups |-> {}]
Restricted == [state : {"restricted"}, groups : SUBSET Groups]
Rules == Restricted \cup {Absent, Public}

HasOverlap(rule, gs) == rule.groups \cap gs # {}
Admits(rule, gs) == rule.state = "public" \/ HasOverlap(rule, gs)

\* Mutant of FilterModelsForUser: every cached model is shown.
FilterNothing(gs) == {e \in Entries : cache[e] # Absent}

FilterModelsForUser(gs) == {e \in Entries : Admits(cache[e], gs)}

Exists(n) == \E k \in Kinds : rules[<<k, n>>] # Absent

(***************************************************************************)
(* Keys.                                                                   *)
(***************************************************************************)
\* The entries with the user's prefix (here the user's own: KeyStore, ClientIds have others).
CountOf(u, n) == Cardinality({id \in secret[n] : id[1] = u})
Unused(u, n, s) == <<u, s>> \notin secret[n] \cup listed[n]

\* The number createKeyOnce ends its probe at.
IsSequence(u, n, s) ==
  /\ s > CountOf(u, n)
  /\ Unused(u, n, s)
  /\ \A t \in (CountOf(u, n) + 1)..(s - 1) : ~Unused(u, n, t)

Set(f, n, S) == [f EXCEPT ![n] = S]

\* CreateKey writes the Secret, then the ConfigMap.
CreateKey(u, n, ok) ==
  /\ Exists(n)
  /\ \E s \in 1..MaxSeq :
       /\ IsSequence(u, n, s)
       /\ secret' = Set(secret, n, secret[n] \cup {<<u, s>>})
       /\ listed' = IF ok THEN Set(listed, n, listed[n] \cup {<<u, s>>}) ELSE listed

\* RevokeKey clears the Secret, then the ConfigMap, and refuses an ID that is
\* not in the Secret.
RevokeKey(id, n, ok) ==
  /\ id \in secret[n]
  /\ secret' = Set(secret, n, secret[n] \ {id})
  /\ listed' = IF ok THEN Set(listed, n, listed[n] \ {id}) ELSE listed

Refused(id, n) == id \notin secret[n] /\ UNCHANGED keys

(***************************************************************************)
(* Requests.  An answer without an operation of the Manager (401, 403, 404 *)
(* and all GETs) changes nothing and is not a step.                        *)
(***************************************************************************)
Idle == [pc |-> "idle"]
Request == {Idle} \cup [pc : {"create"}, user : Users, name : Names]
                  \cup [pc : {"revoke"}, user : Users, name : Names, id : ID]

\* createKey up to the call of CreateKey: the access check.
PostKey(r, u, n) ==
  /\ request[r] = Idle
  /\ \E e \in FilterModelsForUser(token[u]) : e[2] = n
  /\ request' = [request EXCEPT ![r] = [pc |-> "create", user |-> u, name |-> n]]
  /\ UNCHANGED <<world, watcher, keys, audit>>

\* Mutant of OwnerOf: the owner is not looked at.
AnyOwner(id, u) == TRUE

OwnerOf(id, u) == id[1] = u

\* deleteKey up to the call of RevokeKey: the key is listed and is the caller's.
DeleteKey(r, u, n, id) ==
  /\ request[r] = Idle
  /\ Exists(n)
  /\ id \in listed[n]
  /\ OwnerOf(id, u)
  /\ request' = [request EXCEPT ![r] =
                   [pc |-> "revoke", user |-> u, name |-> n, id |-> id]]
  /\ UNCHANGED <<world, watcher, keys, audit>>

Finish(r) ==
  /\ request' = [request EXCEPT ![r] = Idle]
  /\ UNCHANGED <<world, watcher, audit>>

PostWrites(r) ==
  /\ request[r].pc = "create"
  /\ \E ok \in BOOLEAN : CreateKey(request[r].user, request[r].name, ok)
  /\ Finish(r)

DeleteWrites(r) ==
  /\ request[r].pc = "revoke"
  /\ \/ \E ok \in BOOLEAN : RevokeKey(request[r].id, request[r].name, ok)
     \/ Refused(request[r].id, request[r].name)
  /\ Finish(r)

\* The Manager fails before its first write.
RequestFails(r) ==
  /\ request[r] # Idle
  /\ Finish(r)
  /\ UNCHANGED keys

(***************************************************************************)
(* Watcher.Sync: two lists, then the cache is replaced as a whole.         *)
(***************************************************************************)
NotSyncing == [running |-> FALSE, llm |-> [n \in Names |-> Absent]]

SyncLists ==
  /\ ~sync.running
  /\ sync' = [running |-> TRUE, llm |-> [n \in Names |-> rules[<<"llmmodel", n>>]]]
  /\ UNCHANGED <<world, cache, keys, request, audit>>

Updated(l) ==
  [e \in Entries |-> IF e[1] = "llmmodel" THEN l[e[2]] ELSE rules[e]]

SyncInstalls ==
  /\ sync.running
  /\ cache' = Updated(sync.llm)
  /\ sync' = NotSyncing
  /\ UNCHANGED <<world, keys, request, audit>>

\* The second list fails.  When the first one does nothing has happened.
SyncFails ==
  /\ sync.running
  /\ sync' = NotSyncing
  /\ UNCHANGED <<world, cache, keys, request, audit>>

(***************************************************************************)
(* Auditor.RunOnce.  todo holds the rules of the entries that are left,    *)
(* left the keys of the entry in work.                                     *)
(***************************************************************************)
Resting == [pc |-> "resting"]
Todo == [Entries -> Restricted \cup {Absent}]
Audit == {Resting}
  \cup [pc : {"models"}, todo : Todo]
  \cup [pc : {"keys"}, todo : Todo, entry : Entries, left : SUBSET ID]
  \cup [pc : {"revoke"}, todo : Todo, entry : Entries, left : SUBSET ID, id : ID]

\* Mutant of Auditable: public models are audited too.
AuditableOfAll == cache

\* ListModels, without the public ones.
Auditable == [e \in Entries |-> IF cache[e] = Public THEN Absent ELSE cache[e]]

InModels(todo) == [pc |-> "models", todo |-> todo]
InKeys(todo, e, left) ==
  [pc |-> "keys", todo |-> todo, entry |-> e, left |-> left]

AuditBegins ==
  /\ audit.pc = "resting"
  /\ audit' = InModels(Auditable)
  /\ UNCHANGED <<world, watcher, keys, request>>

AuditLists(e) ==
  /\ audit.pc = "models"
  /\ audit.todo[e] # Absent
  /\ Exists(e[2])
  /\ audit' = InKeys(audit.todo, e, listed[e[2]])
  /\ UNCHANGED <<world, watcher, keys, request>>

\* The next model's turn: this one's keys are done or could not be listed.
Skip(e) == InModels([audit.todo EXCEPT ![e] = Absent])

AuditListFails(e) ==
  /\ audit.pc = "models"
  /\ audit.todo[e] # Absent
  /\ audit' = Skip(e)
  /\ UNCHANGED <<world, watcher, keys, request>>

AuditModelDone ==
  /\ audit.pc = "keys"
  /\ audit.left = {}
  /\ audit' = Skip(audit.entry)
  /\ UNCHANGED <<world, watcher, keys, request>>

AuditEnds ==
  /\ audit.pc = "models"
  /\ \A e \in Entries : audit.todo[e] = Absent
  /\ audit' = Resting
  /\ UNCHANGED <<world, watcher, keys, request>>

NextKey(id) == InKeys(audit.todo, audit.entry, audit.left \ {id})

Condemned(id) ==
  [pc |-> "revoke", todo |-> audit.todo, entry |-> audit.entry,
   left |-> audit.left \ {id}, id |-> id]

Looking(id) == audit.pc = "keys" /\ id \in audit.left

\* Mutant of AfterFailedLookup: an error counts as "no groups".
CondemnUnknown(id) == Condemned(id)

AfterFailedLookup(id) == NextKey(id)

AuditLookupFails(id) ==
  /\ Looking(id)
  /\ audit' = AfterFailedLookup(id)
  /\ UNCHANGED <<world, watcher, keys, request>>

AuditLooksUp(id) ==
  /\ Looking(id)
  /\ LookupWorks
  /\ audit' = IF HasOverlap(audit.todo[audit.entry], groups[id[1]])
              THEN NextKey(id) ELSE Condemned(id)
  /\ UNCHANGED <<world, watcher, keys, request>>

AfterRevoke == InKeys(audit.todo, audit.entry, audit.left)

AuditRevokes ==
  /\ audit.pc = "revoke"
  /\ RevokeKey(audit.id, audit.entry[2], TRUE)
  /\ audit' = AfterRevoke
  /\ UNCHANGED <<world, watcher, request>>

\* Nothing was written, or the Secret alone.
AuditRevokeFails ==
  /\ audit.pc = "revoke"
  /\ UNCHANGED keys \/ RevokeKey(audit.id, audit.entry[2], FALSE)
  /\ audit' = AfterRevoke
  /\ UNCHANGED <<world, watcher, request>>

(***************************************************************************)
(* The world: administrators, Keycloak, the operator.                      *)
(***************************************************************************)
Changing == changes < MaxChanges /\ changes' = changes + 1

SetRule(e, rule) ==
  /\ Changing
  /\ rule # rules[e] /\ rule # Absent
  /\ rules' = [rules EXCEPT ![e] = rule]
  /\ ruled' = [ruled EXCEPT ![e] = @ \cup {rule}]
  /\ UNCHANGED <<groups, token, belonged, watcher, keys, request, audit>>

\* The custom resource goes when its finalizer has deleted the Secret and the
\* ConfigMap; a model of the other kind gets them anew, empty.
RemoveModel(e) ==
  /\ Changing
  /\ rules[e] # Absent
  /\ rules' = [rules EXCEPT ![e] = Absent]
  /\ secret' = Set(secret, e[2], {})
  /\ listed' = Set(listed, e[2], {})
  /\ UNCHANGED <<groups, token, ruled, belonged, watcher, request, audit>>

MoveUser(u, gs) ==
  /\ Changing
  /\ gs # groups[u]
  /\ groups' = [groups EXCEPT ![u] = gs]
  /\ belonged' = [belonged EXCEPT ![u] = @ \cup {gs}]
  /\ UNCHANGED <<rules, token, ruled, watcher, keys, request, audit>>

\* A token expires and the next one carries the groups of its time.
RenewToken(u) ==
  /\ token[u] # groups[u]
  /\ token' = [token EXCEPT ![u] = groups[u]]
  /\ UNCHANGED <<rules, groups, changes, ruled, belonged, watcher, keys,
                 request, audit>>

\* The key-manager restarts with an empty cache.
Restart ==
  /\ Changing
  /\ cache' = [e \in Entries |-> Absent]
  /\ sync' = NotSyncing
  /\ request' = [r \in Requests |-> Idle]
  /\ audit' = Resting
  /\ UNCHANGED <<rules, groups, token, ruled, belonged, keys>>

(***************************************************************************)
(* The specification.                                                      *)
(***************************************************************************)
Init ==
  /\ rules \in [Entries -> Rules]
  /\ groups \in [Users -> SUBSET Groups]
  /\ token = groups
  /\ cache = [e \in Entries |-> Absent]
  /\ sync = NotSyncing
  /\ secret = [n \in Names |-> {}]
  /\ listed = [n \in Names |-> {}]
  /\ request = [r \in Requests |-> Idle]
  /\ audit = Resting
  /\ changes = 0
  /\ ruled = [e \in Entries |-> {rules[e]}]
  /\ belonged = [u \in Users |-> {groups[u]}]

RequestStep(r) == PostWrites(r) \/ DeleteWrites(r) \/ RequestFails(r)

AuditStep ==
  \/ AuditBegins \/ AuditModelDone \/ AuditEnds
  \/ AuditRevokes \/ AuditRevokeFails
  \/ \E e \in Entries : AuditLists(e) \/ AuditListFails(e)
  \/ \E id \in ID : AuditLooksUp(id) \/ AuditLookupFails(id)

WorldStep ==
  \/ Restart
  \/ \E e \in Entries : RemoveModel(e) \/ \E rule \in Rules : SetRule(e, rule)
  \/ \E u \in Users : RenewToken(u) \/ \E gs \in SUBSET Groups : MoveUser(u, gs)

Next ==
  \/ \E r \in Requests :
       \/ RequestStep(r)
       \/ \E u \in Users, n \in Names :
            \/ PostKey(r, u, n)
            \/ \E id \in ID : DeleteKey(r, u, n, id)
  \/ SyncLists \/ SyncInstalls \/ SyncFails
  \/ AuditStep
  \/ WorldStep

Spec == Init /\ [][Next]_vars

(***************************************************************************)
(* Properties.                                                             *)
(***************************************************************************)

\* The variables have their types; the locals of requests and of the auditor
\* stay within what the code can hold.
TypeOK ==
  /\ rules \in [Entries -> Rules]
  /\ groups \in [Users -> SUBSET Groups]
  /\ token \in [Users -> SUBSET Groups]
  /\ cache \in [Entries -> Rules]
  /\ sync \in [running : BOOLEAN, llm : [Names -> Rules]]
  /\ secret \in [Names -> SUBSET ID]
  /\ listed \in [Names -> SUBSET ID]
  /\ request \in [Requests -> Request]
  /\ audit \in Audit
  /\ changes \in 0..MaxChanges
  /\ ruled \in [Entries -> SUBSET Rules]
  /\ belonged \in [Users -> SUBSET (SUBSET Groups)]

\* A rule and a group set that u and a model called n really had, though perhaps
\* not at one time, that fit each other.
WereEntitled(u, n) ==
  \E k \in Kinds : \E rule \in ruled[<<k, n>>] : \E gs \in belonged[u] :
    Admits(rule, gs)

\* createKey: a key in a model's Secret belongs to someone whom a rule of a model
\* of that name admitted with groups that they had.  The stale token and the
\* stale cache may come from different times, but neither is made up, whatever
\* requests, syncs and removals interleave.
KeysWereEntitled ==
  \A n \in Names : \A id \in secret[n] : WereEntitled(id[1], n)

\* deleteKey: the steps of a request take keys from its own user and from the
\* model of its path only, although the key is looked up in one read and revoked
\* by its ID in another, when the ID may already name a later key.
RequestsTakeOwnKeys ==
  [][\A r \in Requests : request'[r] # request[r] =>
       \A n \in Names : \A id \in secret[n] \ secret'[n] :
         request[r].user = id[1] /\ request[r].name = n]_vars

HadReason(u, n) ==
  \E k \in Kinds : \E rule \in ruled[<<k, n>>] \cap Restricted :
  \E gs \in belonged[u] : ~HasOverlap(rule, gs)

\* The auditor takes a key only on a lookup that answered, and when a restricted
\* rule of a model of that name and groups of the key's creator, each of some
\* moment, had nothing in common.  So a user who always shared a group with the
\* model keeps the key through every stale snapshot and every failing lookup, the
\* keys of a model that was always public are never taken, and with the lookup
\* the repository has no key is (architecture.mdx says so of membership changes).
\* The key may be newer than the decision: an ID can be minted again meanwhile.
RevocationsHadReason ==
  [][audit' # audit =>
       \A n \in Names : \A id \in secret[n] \ secret'[n] :
         LookupWorks /\ HadReason(id[1], n)]_vars

\* The inductive invariant behind the three: everything a decision reads is of
\* the present or of the past, and what is decided keeps its ground.
DecidesOnThePast ==
  /\ \A e \in Entries : rules[e] \in ruled[e] \cup {Absent}
  /\ \A e \in Entries : cache[e] \in ruled[e] \cup {Absent}
  /\ \A n \in Names : sync.llm[n] \in ruled[<<"llmmodel", n>>] \cup {Absent}
  /\ \A u \in Users : groups[u] \in belonged[u] /\ token[u] \in belonged[u]

RequestsGrounded ==
  \A r \in Requests :
    /\ request[r].pc = "create" => WereEntitled(request[r].user, request[r].name)
    /\ request[r].pc = "revoke" => request[r].id[1] = request[r].user

AuditGrounded ==
  /\ audit.pc # "resting" =>
       \A e \in Entries : audit.todo[e] \in ruled[e] \cup {Absent}
  /\ audit.pc \in {"keys", "revoke"} => audit.todo[audit.entry] # Absent
  /\ audit.pc = "revoke" => LookupWorks /\ HadReason(audit.id[1], audit.entry[2])

IInv == TypeOK /\ KeysWereEntitled /\ DecidesOnThePast /\ RequestsGrounded
               /\ AuditGrounded
=============================================================================
