---------------------------- MODULE KeyApiProofs ----------------------------
(***************************************************************************)
(* Proofs about KeyApi, for any number of users, groups, model names and   *)
(* requests in flight, and any number of changes.                          *)
(***************************************************************************)
EXTENDS KeyApi, TLAPS

\* ------------------------------------------------------------------ shapes

LEMMA RulesShape ==
  /\ Absent \in Rules /\ Public \in Rules
  /\ Absent \notin Restricted /\ Public \notin Restricted
BY DEF Rules, Restricted, Absent, Public

\* A key that is created or revoked leaves well-formed Secrets and ConfigMaps.
LEMMA CreateKeyShape ==
  ASSUME TypeOK, NEW u \in Users, NEW n \in Names, NEW ok \in BOOLEAN,
         CreateKey(u, n, ok)
  PROVE  /\ secret' \in [Names -> SUBSET ID]
         /\ listed' \in [Names -> SUBSET ID]
         /\ \A m \in Names : \A id \in secret'[m] :
              id \in secret[m] \/ (m = n /\ id[1] = u)
         /\ \A m \in Names : secret[m] \subseteq secret'[m]
<1>1. PICK s \in 1..MaxSeq :
        /\ secret' = Set(secret, n, secret[n] \cup {<<u, s>>})
        /\ listed' = IF ok THEN Set(listed, n, listed[n] \cup {<<u, s>>}) ELSE listed
  BY DEF CreateKey
<1>2. <<u, s>> \in ID
  BY DEF ID
<1>3. QED
  BY <1>1, <1>2 DEF TypeOK, Set

LEMMA RevokeKeyShape ==
  ASSUME TypeOK, NEW id \in ID, NEW n \in Names, NEW ok \in BOOLEAN,
         RevokeKey(id, n, ok)
  PROVE  /\ secret' \in [Names -> SUBSET ID]
         /\ listed' \in [Names -> SUBSET ID]
         /\ \A m \in Names : secret'[m] \subseteq secret[m]
         /\ \A m \in Names : \A i \in secret[m] \ secret'[m] : m = n /\ i = id
BY DEF RevokeKey, TypeOK, Set

LEMMA RequestShape ==
  ASSUME TypeOK, NEW r \in Requests
  PROVE  /\ request[r].pc = "create" =>
              request[r].user \in Users /\ request[r].name \in Names
         /\ request[r].pc = "revoke" =>
              /\ request[r].user \in Users /\ request[r].name \in Names
              /\ request[r].id \in ID
BY DEF TypeOK, Request, Idle

LEMMA AuditShape ==
  ASSUME TypeOK
  PROVE  /\ audit.pc \in {"resting", "models", "keys", "revoke"}
         /\ audit.pc # "resting" => audit.todo \in Todo
         /\ audit.pc \in {"keys", "revoke"} =>
              audit.entry \in Entries /\ audit.left \in SUBSET ID
         /\ audit.pc = "revoke" => audit.id \in ID
BY DEF TypeOK, Audit, Resting

LEMMA AuditStates ==
  ASSUME NEW todo \in Todo, NEW e \in Entries, NEW left \in SUBSET ID, NEW id \in ID
  PROVE  /\ Resting \in Audit
         /\ InModels(todo) \in Audit
         /\ InKeys(todo, e, left) \in Audit
         /\ [pc |-> "revoke", todo |-> todo, entry |-> e, left |-> left \ {id},
             id |-> id] \in Audit
         /\ InKeys(todo, e, left \ {id}) \in Audit
         /\ InModels([todo EXCEPT ![e] = Absent]) \in Audit
BY DEF Audit, Resting, InModels, InKeys, Todo

\* ------------------------------------------------------------- preservation

LEMMA RequestType ==
  ASSUME TypeOK, NEW r \in Requests, RequestStep(r)
  PROVE  TypeOK'
<1>0. Idle \in Request
  BY DEF Request
<1>1. CASE PostWrites(r)
  <2>1. PICK ok \in BOOLEAN : CreateKey(request[r].user, request[r].name, ok)
    BY <1>1 DEF PostWrites
  <2>2. QED
    BY <1>0, <1>1, <2>1, RequestShape, CreateKeyShape
    DEF PostWrites, Finish, TypeOK, world, watcher
<1>2. CASE DeleteWrites(r)
  <2>1. CASE Refused(request[r].id, request[r].name)
    BY <1>0, <1>2, <2>1 DEF DeleteWrites, Refused, Finish, TypeOK, world, watcher, keys
  <2>2. CASE \E ok \in BOOLEAN : RevokeKey(request[r].id, request[r].name, ok)
    BY <1>0, <1>2, <2>2, RequestShape, RevokeKeyShape
    DEF DeleteWrites, Finish, TypeOK, world, watcher
  <2>3. QED
    BY <1>2, <2>1, <2>2 DEF DeleteWrites
<1>3. CASE RequestFails(r)
  BY <1>0, <1>3 DEF RequestFails, Finish, TypeOK, world, watcher, keys
<1>4. QED
  BY <1>1, <1>2, <1>3 DEF RequestStep

LEMMA ArrivalType ==
  ASSUME TypeOK, NEW r \in Requests, NEW u \in Users, NEW n \in Names,
         PostKey(r, u, n) \/ \E id \in ID : DeleteKey(r, u, n, id)
  PROVE  TypeOK'
<1>1. [pc |-> "create", user |-> u, name |-> n] \in Request
  BY DEF Request
<1>2. \A id \in ID : [pc |-> "revoke", user |-> u, name |-> n, id |-> id] \in Request
  BY DEF Request
<1>3. QED
  BY <1>1, <1>2 DEF PostKey, DeleteKey, TypeOK, world, watcher, keys

LEMMA SyncType ==
  ASSUME TypeOK, SyncLists \/ SyncInstalls \/ SyncFails
  PROVE  TypeOK'
<1>1. NotSyncing \in [running : BOOLEAN, llm : [Names -> Rules]]
  BY RulesShape DEF NotSyncing
<1>2. \A n \in Names : <<"llmmodel", n>> \in Entries
  BY DEF Entries, Kinds
<1>3. Updated(sync.llm) \in [Entries -> Rules]
  BY DEF Updated, TypeOK, Entries
<1>4. CASE SyncLists
  <2>1. [n \in Names |-> rules[<<"llmmodel", n>>]] \in [Names -> Rules]
    BY <1>2 DEF TypeOK
  <2>2. QED
    BY <1>4, <2>1 DEF SyncLists, TypeOK, world, keys
<1>5. CASE SyncInstalls
  BY <1>1, <1>3, <1>5 DEF SyncInstalls, TypeOK, world, keys
<1>6. CASE SyncFails
  BY <1>1, <1>6 DEF SyncFails, TypeOK, world, keys
<1>7. QED
  BY <1>4, <1>5, <1>6

LEMMA AuditType ==
  ASSUME TypeOK, AuditStep
  PROVE  TypeOK'
<1>1. CASE AuditBegins
  <2>1. Auditable \in Todo
    BY DEF Auditable, Todo, TypeOK, Rules
  <2>2. QED
    BY <1>1, <2>1 DEF AuditBegins, InModels, Audit, TypeOK, world, watcher, keys
<1>2. ASSUME NEW e \in Entries, AuditLists(e) \/ AuditListFails(e) PROVE TypeOK'
  <2>1. audit.todo \in Todo /\ listed[e[2]] \in SUBSET ID
    BY <1>2, AuditShape DEF AuditLists, AuditListFails, TypeOK, Entries
  <2>2. audit' \in Audit
    BY <1>2, <2>1 DEF AuditLists, AuditListFails, Skip, InModels, InKeys, Audit, Todo
  <2>3. QED
    BY <1>2, <2>2 DEF AuditLists, AuditListFails, TypeOK, world, watcher, keys
<1>3. CASE AuditModelDone
  <2>1. audit' \in Audit
    BY <1>3, AuditShape DEF AuditModelDone, Skip, InModels, Audit, Todo
  <2>2. QED
    BY <1>3, <2>1 DEF AuditModelDone, TypeOK, world, watcher, keys
<1>4. CASE AuditEnds
  BY <1>4 DEF AuditEnds, Audit, TypeOK, world, watcher, keys
<1>5. ASSUME NEW id \in ID, AuditLooksUp(id) \/ AuditLookupFails(id) PROVE TypeOK'
  <2>1. audit' \in Audit
    BY <1>5, AuditShape, AuditStates
    DEF AuditLooksUp, AuditLookupFails, AfterFailedLookup, Looking, NextKey, Condemned
  <2>2. QED
    BY <1>5, <2>1 DEF AuditLooksUp, AuditLookupFails, TypeOK, world, watcher, keys
<1>6. CASE AuditRevokes \/ AuditRevokeFails
  <2>1. audit' \in Audit
    BY <1>6, AuditShape, AuditStates DEF AuditRevokes, AuditRevokeFails, AfterRevoke
  <2>2. audit.id \in ID /\ audit.entry[2] \in Names
    BY <1>6, AuditShape DEF AuditRevokes, AuditRevokeFails, Entries
  <2>3. QED
    BY <1>6, <2>1, <2>2, RevokeKeyShape
    DEF AuditRevokes, AuditRevokeFails, TypeOK, world, watcher, keys
<1>7. QED
  BY <1>1, <1>2, <1>3, <1>4, <1>5, <1>6 DEF AuditStep

LEMMA WorldType ==
  ASSUME TypeOK, WorldStep
  PROVE  TypeOK'
<1>1. ASSUME Changing PROVE changes' \in 0..MaxChanges
  BY <1>1, BoundsAreNats DEF Changing, TypeOK
<1>2. ASSUME NEW e \in Entries, RemoveModel(e) PROVE TypeOK'
  BY <1>1, <1>2, RulesShape
  DEF RemoveModel, TypeOK, Set, watcher
<1>3. ASSUME NEW e \in Entries, NEW rule \in Rules, SetRule(e, rule) PROVE TypeOK'
  <2>1. ruled' \in [Entries -> SUBSET Rules]
    BY <1>3 DEF SetRule, TypeOK
  <2>2. QED
    BY <1>1, <1>3, <2>1 DEF SetRule, TypeOK, watcher, keys
<1>4. ASSUME NEW u \in Users, NEW gs \in SUBSET Groups, MoveUser(u, gs) PROVE TypeOK'
  <2>1. belonged' \in [Users -> SUBSET (SUBSET Groups)]
    BY <1>4 DEF MoveUser, TypeOK
  <2>2. QED
    BY <1>1, <1>4, <2>1 DEF MoveUser, TypeOK, watcher, keys
<1>5. ASSUME NEW u \in Users, RenewToken(u) PROVE TypeOK'
  BY <1>5 DEF RenewToken, TypeOK, watcher, keys
<1>6. CASE Restart
  <2>1. /\ NotSyncing \in [running : BOOLEAN, llm : [Names -> Rules]]
        /\ Idle \in Request /\ Resting \in Audit
    BY RulesShape DEF NotSyncing, Request, Audit
  <2>2. QED
    BY <1>1, <1>6, <2>1, RulesShape DEF Restart, TypeOK, keys
<1>7. QED
  BY <1>2, <1>3, <1>4, <1>5, <1>6 DEF WorldStep

LEMMA TypeInit == Init => TypeOK
<1> SUFFICES ASSUME Init PROVE TypeOK
  OBVIOUS
<1>1. /\ NotSyncing \in [running : BOOLEAN, llm : [Names -> Rules]]
      /\ Idle \in Request /\ Resting \in Audit /\ 0 \in 0..MaxChanges
  BY RulesShape, BoundsAreNats DEF NotSyncing, Request, Audit
<1>2. QED
  BY <1>1, RulesShape DEF Init, TypeOK

LEMMA TypeStep == TypeOK /\ [Next]_vars => TypeOK'
<1> SUFFICES ASSUME TypeOK, [Next]_vars PROVE TypeOK'
  OBVIOUS
<1>1. CASE UNCHANGED vars
  BY <1>1 DEF vars, world, watcher, keys, TypeOK
<1>2. QED
  BY <1>1, RequestType, ArrivalType, SyncType, AuditType, WorldType DEF Next

\* The variables have their types in every reachable state.
THEOREM TypeCorrect == Spec => []TypeOK
<1>1. QED
  BY TypeInit, TypeStep, PTL DEF Spec

\* ---------------------------------------------------------- the invariant

\* History only grows, so what has once had a ground keeps it.
PastGrows ==
  /\ \A e \in Entries : ruled[e] \subseteq ruled'[e]
  /\ \A u \in Users : belonged[u] \subseteq belonged'[u]

LEMMA HistoryGrows ==
  ASSUME TypeOK, [Next]_vars
  PROVE  PastGrows
<1>1. ASSUME UNCHANGED <<ruled, belonged>> PROVE PastGrows
  BY <1>1 DEF PastGrows
<1>2. ASSUME NEW e \in Entries, NEW rule \in Rules, SetRule(e, rule)
      PROVE  PastGrows
  BY <1>2 DEF SetRule, PastGrows, TypeOK
<1>3. ASSUME NEW u \in Users, NEW gs \in SUBSET Groups, MoveUser(u, gs)
      PROVE  PastGrows
  BY <1>3 DEF MoveUser, PastGrows, TypeOK
<1>4. CASE UNCHANGED vars
  BY <1>1, <1>4 DEF vars, world
<1>5. ASSUME NEW r \in Requests, RequestStep(r) PROVE UNCHANGED <<ruled, belonged>>
  BY <1>5 DEF RequestStep, PostWrites, DeleteWrites, RequestFails, Finish, world
<1>6. ASSUME NEW r \in Requests, NEW u \in Users, NEW n \in Names,
             PostKey(r, u, n) \/ \E id \in ID : DeleteKey(r, u, n, id)
      PROVE  UNCHANGED <<ruled, belonged>>
  BY <1>6 DEF PostKey, DeleteKey, world
<1>7. CASE SyncLists \/ SyncInstalls \/ SyncFails
  BY <1>1, <1>7 DEF SyncLists, SyncInstalls, SyncFails, world
<1>8. CASE AuditStep
  BY <1>1, <1>8 DEF AuditStep, AuditBegins, AuditModelDone, AuditEnds, AuditRevokes,
    AuditRevokeFails, AuditLists, AuditListFails, AuditLooksUp, AuditLookupFails, world
<1>9. CASE WorldStep
  BY <1>1, <1>2, <1>3, <1>9 DEF WorldStep, RemoveModel, RenewToken, Restart
<1>10. QED
  BY <1>1, <1>4, <1>5, <1>6, <1>7, <1>8, <1>9 DEF Next

LEMMA GroundStays ==
  ASSUME PastGrows, NEW u \in Users, NEW n \in Names
  PROVE  /\ WereEntitled(u, n) => WereEntitled(u, n)'
         /\ HadReason(u, n) => HadReason(u, n)'
<1>1. \A k \in Kinds : <<k, n>> \in Entries
  BY DEF Entries
<1>2. QED
  BY <1>1 DEF WereEntitled, HadReason, PastGrows

\* Keys: only PostWrites adds one.
LEMMA EntitledStep ==
  ASSUME IInv, [Next]_vars
  PROVE  KeysWereEntitled'
<1> USE DEF IInv
<1>1. PastGrows
  BY HistoryGrows
<1>2. SUFFICES ASSUME NEW n \in Names, NEW id \in secret'[n]
               PROVE  WereEntitled(id[1], n)'
  BY DEF KeysWereEntitled
<1>3. ASSUME id \in secret[n] PROVE WereEntitled(id[1], n)'
  <2>1. id[1] \in Users
    BY <1>3 DEF TypeOK, ID
  <2>2. QED
    BY <1>1, <1>3, <2>1, GroundStays DEF KeysWereEntitled
<1>4. ASSUME UNCHANGED secret PROVE WereEntitled(id[1], n)'
  BY <1>3, <1>4
<1>5. ASSUME NEW r \in Requests, PostWrites(r) PROVE WereEntitled(id[1], n)'
  <2>1. PICK ok \in BOOLEAN : CreateKey(request[r].user, request[r].name, ok)
    BY <1>5 DEF PostWrites
  <2>2. request[r].pc = "create"
    BY <1>5 DEF PostWrites
  <2>3. request[r].user \in Users /\ request[r].name \in Names
    BY <2>2, RequestShape
  <2>4. CASE n = request[r].name /\ id[1] = request[r].user
    BY <1>1, <2>2, <2>3, <2>4, GroundStays DEF RequestsGrounded
  <2>5. QED
    BY <1>3, <2>1, <2>3, <2>4, CreateKeyShape
<1>6. ASSUME NEW i \in ID, NEW m \in Names, NEW ok \in BOOLEAN, RevokeKey(i, m, ok)
      PROVE  WereEntitled(id[1], n)'
  BY <1>3, <1>6, RevokeKeyShape
<1>7. ASSUME NEW r \in Requests, RequestStep(r) PROVE WereEntitled(id[1], n)'
  <2>1. CASE DeleteWrites(r)
    BY <1>4, <1>6, <2>1, RequestShape DEF DeleteWrites, Refused, keys
  <2>2. CASE RequestFails(r)
    BY <1>4, <2>2 DEF RequestFails, keys
  <2>3. QED
    BY <1>5, <1>7, <2>1, <2>2 DEF RequestStep
<1>8. CASE AuditStep
  <2>1. CASE AuditRevokes \/ AuditRevokeFails
    <3>1. audit.id \in ID /\ audit.entry[2] \in Names
      BY <2>1, AuditShape DEF AuditRevokes, AuditRevokeFails, Entries
    <3>2. QED
      BY <1>4, <1>6, <2>1, <3>1 DEF AuditRevokes, AuditRevokeFails, keys
  <2>2. QED
    BY <1>4, <1>8, <2>1 DEF AuditStep, AuditBegins, AuditModelDone, AuditEnds,
      AuditLists, AuditListFails, AuditLooksUp, AuditLookupFails, keys
<1>9. CASE WorldStep
  <2>1. ASSUME NEW e \in Entries, RemoveModel(e) PROVE id \in secret[n]
    BY <2>1 DEF RemoveModel, Set, TypeOK
  <2>2. QED
    BY <1>3, <1>4, <1>9, <2>1 DEF WorldStep, SetRule, MoveUser, RenewToken, Restart, keys
<1>10. CASE UNCHANGED vars
  BY <1>4, <1>10 DEF vars, keys
<1>11. ASSUME NEW r \in Requests, NEW u \in Users, NEW m \in Names,
              PostKey(r, u, m) \/ \E i \in ID : DeleteKey(r, u, m, i)
       PROVE  WereEntitled(id[1], n)'
  BY <1>4, <1>11 DEF PostKey, DeleteKey, keys
<1>12. CASE SyncLists \/ SyncInstalls \/ SyncFails
  BY <1>4, <1>12 DEF SyncLists, SyncInstalls, SyncFails, keys
<1>13. QED
  BY <1>7, <1>8, <1>9, <1>10, <1>11, <1>12 DEF Next

\* What is read is of the present or of the past.
LEMMA PastStep ==
  ASSUME IInv, [Next]_vars
  PROVE  DecidesOnThePast'
<1> USE DEF IInv
<1>0. PastGrows /\ TypeOK'
  BY HistoryGrows, TypeStep
<1>1. \A n \in Names : <<"llmmodel", n>> \in Entries
  BY DEF Entries, Kinds
<1>2. ASSUME UNCHANGED <<rules, groups, token, cache, sync>> PROVE DecidesOnThePast'
  BY <1>0, <1>1, <1>2 DEF DecidesOnThePast, PastGrows
<1>3. CASE SyncLists
  BY <1>0, <1>1, <1>3 DEF SyncLists, world, DecidesOnThePast, PastGrows
<1>4. CASE SyncInstalls
  <2>1. \A e \in Entries : e[1] = "llmmodel" =>
          e[2] \in Names /\ e = <<"llmmodel", e[2]>>
    BY DEF Entries
  <2>2. \A e \in Entries : cache'[e] \in ruled[e] \cup {Absent}
    BY <1>4, <2>1 DEF SyncInstalls, Updated, DecidesOnThePast
  <2>3. \A n \in Names : sync'.llm[n] = Absent
    BY <1>4 DEF SyncInstalls, NotSyncing
  <2>4. QED
    BY <1>4, <2>2, <2>3 DEF SyncInstalls, world, DecidesOnThePast
<1>5. CASE SyncFails
  <2>1. \A n \in Names : sync'.llm[n] = Absent
    BY <1>5 DEF SyncFails, NotSyncing
  <2>2. QED
    BY <1>5, <2>1 DEF SyncFails, world, DecidesOnThePast
<1>6. ASSUME NEW e \in Entries, RemoveModel(e) PROVE DecidesOnThePast'
  BY <1>6 DEF RemoveModel, watcher, DecidesOnThePast, TypeOK
<1>7. ASSUME NEW e \in Entries, NEW rule \in Rules, SetRule(e, rule)
      PROVE  DecidesOnThePast'
  BY <1>0, <1>1, <1>7 DEF SetRule, watcher, DecidesOnThePast, PastGrows, TypeOK
<1>8. ASSUME NEW u \in Users, NEW gs \in SUBSET Groups, MoveUser(u, gs)
      PROVE  DecidesOnThePast'
  BY <1>0, <1>8 DEF MoveUser, watcher, DecidesOnThePast, PastGrows, TypeOK
<1>9. ASSUME NEW u \in Users, RenewToken(u) PROVE DecidesOnThePast'
  BY <1>9 DEF RenewToken, watcher, DecidesOnThePast, TypeOK
<1>10. CASE Restart
  <2>1. \A n \in Names : sync'.llm[n] = Absent
    BY <1>10 DEF Restart, NotSyncing
  <2>2. QED
    BY <1>10, <2>1 DEF Restart, DecidesOnThePast
<1>11. ASSUME NEW r \in Requests, RequestStep(r) PROVE DecidesOnThePast'
  BY <1>2, <1>11
  DEF RequestStep, PostWrites, DeleteWrites, RequestFails, Finish, world, watcher
<1>12. ASSUME NEW r \in Requests, NEW u \in Users, NEW m \in Names,
              PostKey(r, u, m) \/ \E i \in ID : DeleteKey(r, u, m, i)
       PROVE  DecidesOnThePast'
  BY <1>2, <1>12 DEF PostKey, DeleteKey, world, watcher
<1>13. CASE AuditStep
  BY <1>2, <1>13 DEF AuditStep, AuditBegins, AuditModelDone, AuditEnds, AuditRevokes,
    AuditRevokeFails, AuditLists, AuditListFails, AuditLooksUp, AuditLookupFails,
    world, watcher
<1>14. CASE UNCHANGED vars
  BY <1>2, <1>14 DEF vars, world, watcher
<1>15. QED
  BY <1>3, <1>4, <1>5, <1>6, <1>7, <1>8, <1>9, <1>10, <1>11, <1>12, <1>13, <1>14
  DEF Next, WorldStep

\* A request in flight was decided on such a state.
LEMMA RequestsStep ==
  ASSUME IInv, [Next]_vars
  PROVE  RequestsGrounded'
<1> USE DEF IInv
<1>0. PastGrows
  BY HistoryGrows
<1> DEFINE Grounded(q) ==
      /\ request[q].pc = "create" => WereEntitled(request[q].user, request[q].name)
      /\ request[q].pc = "revoke" => request[q].id[1] = request[q].user
<1>1. SUFFICES ASSUME NEW q \in Requests PROVE Grounded(q)'
  BY DEF RequestsGrounded
<1>2. CASE request'[q] = request[q]
  BY <1>0, <1>2, GroundStays, RequestShape DEF RequestsGrounded
<1>3. CASE request'[q] = Idle
  BY <1>3 DEF Idle
<1>4. ASSUME NEW r \in Requests, NEW u \in Users, NEW n \in Names, PostKey(r, u, n)
      PROVE  Grounded(q)'
  <2>1. CASE q = r
    <3>1. PICK e \in FilterModelsForUser(token[u]) : e[2] = n
      BY <1>4 DEF PostKey
    <3>2. e \in Entries /\ Admits(cache[e], token[u])
      BY <3>1 DEF FilterModelsForUser
    <3>3. ~Admits(Absent, token[u])
      BY DEF Admits, HasOverlap, Absent
    <3>4. cache[e] \in ruled[e] /\ token[u] \in belonged[u]
      BY <3>2, <3>3 DEF DecidesOnThePast
    <3>5. e[1] \in Kinds /\ e = <<e[1], n>>
      BY <3>1, <3>2 DEF Entries
    <3>6. WereEntitled(u, n)
      BY <3>2, <3>4, <3>5 DEF WereEntitled
    <3>7. request'[q] = [pc |-> "create", user |-> u, name |-> n]
      BY <1>4, <2>1 DEF PostKey, TypeOK
    <3>8. QED
      BY <1>0, <3>6, <3>7, GroundStays
  <2>2. QED
    BY <1>2, <1>4, <2>1 DEF PostKey, TypeOK
<1>5. ASSUME NEW r \in Requests, NEW u \in Users, NEW n \in Names, NEW id \in ID,
             DeleteKey(r, u, n, id)
      PROVE  Grounded(q)'
  <2>1. CASE q = r
    <3>1. request'[q] = [pc |-> "revoke", user |-> u, name |-> n, id |-> id]
      BY <1>5, <2>1 DEF DeleteKey, TypeOK
    <3>2. QED
      BY <1>5, <3>1 DEF DeleteKey, OwnerOf
  <2>2. QED
    BY <1>2, <1>5, <2>1 DEF DeleteKey, TypeOK
<1>6. ASSUME NEW r \in Requests, RequestStep(r)
      PROVE  request'[q] = request[q] \/ request'[q] = Idle
  BY <1>6 DEF RequestStep, PostWrites, DeleteWrites, RequestFails, Finish, TypeOK
<1>7. CASE SyncLists \/ SyncInstalls \/ SyncFails
  BY <1>2, <1>7 DEF SyncLists, SyncInstalls, SyncFails
<1>8. CASE AuditStep
  BY <1>2, <1>8 DEF AuditStep, AuditBegins, AuditModelDone, AuditEnds, AuditRevokes,
    AuditRevokeFails, AuditLists, AuditListFails, AuditLooksUp, AuditLookupFails
<1>9. CASE WorldStep
  BY <1>2, <1>3, <1>9
  DEF WorldStep, RemoveModel, SetRule, MoveUser, RenewToken, Restart
<1>10. CASE UNCHANGED vars
  BY <1>2, <1>10 DEF vars
<1>11. QED
  BY <1>2, <1>3, <1>4, <1>5, <1>6, <1>7, <1>8, <1>9, <1>10 DEF Next

\* The auditor's snapshot is of the past, and a condemned key has its reason.
LEMMA AuditorStep ==
  ASSUME IInv, [Next]_vars
  PROVE  AuditGrounded'
<1> USE DEF IInv
<1>0. PastGrows
  BY HistoryGrows
<1>a. ASSUME NEW n \in Entries PROVE n[2] \in Names /\ n[1] \in Kinds /\ n = <<n[1], n[2]>>
  BY <1>a DEF Entries
<1>1. CASE UNCHANGED audit
  <2>1. audit.pc = "revoke" => audit.id[1] \in Users /\ audit.entry[2] \in Names
    BY AuditShape, <1>a DEF ID
  <2>2. (audit.pc # "resting" =>
           \A e \in Entries : audit.todo[e] \in ruled[e] \cup {Absent})'
    BY <1>0, <1>1 DEF AuditGrounded, PastGrows
  <2>3. (audit.pc = "revoke" => LookupWorks /\ HadReason(audit.id[1], audit.entry[2]))'
    BY <1>0, <1>1, <2>1, GroundStays DEF AuditGrounded
  <2>4. QED
    BY <1>1, <2>2, <2>3 DEF AuditGrounded
<1>2. CASE audit' = Resting
  BY <1>2 DEF Resting, AuditGrounded
<1>3. ASSUME AuditBegins PROVE AuditGrounded'
  BY <1>3 DEF AuditBegins, InModels, Auditable, DecidesOnThePast, AuditGrounded, world
<1>4. ASSUME NEW e \in Entries, AuditLists(e) PROVE AuditGrounded'
  BY <1>4 DEF AuditLists, InKeys, AuditGrounded, world
<1>5. ASSUME NEW e \in Entries, audit.pc # "resting", UNCHANGED ruled, audit' = Skip(e)
      PROVE  AuditGrounded'
  <2>1. audit.todo \in Todo
    BY <1>5, AuditShape
  <2>2. QED
    BY <1>5, <2>1 DEF Skip, InModels, AuditGrounded, Todo
<1>6. ASSUME NEW id \in ID, Looking(id), UNCHANGED ruled, audit' = NextKey(id)
      PROVE  AuditGrounded'
  BY <1>6 DEF Looking, NextKey, InKeys, AuditGrounded
<1>7. ASSUME NEW id \in ID, AuditLooksUp(id),
             ~HasOverlap(audit.todo[audit.entry], groups[id[1]])
      PROVE  AuditGrounded'
  <2>1. /\ audit' = Condemned(id)
        /\ audit.pc = "keys"
        /\ LookupWorks
        /\ UNCHANGED <<ruled, belonged>>
    BY <1>7 DEF AuditLooksUp, Looking, world
  <2>2. audit.entry \in Entries /\ audit.todo \in Todo
    BY <2>1, AuditShape
  <2>3. audit.todo[audit.entry] \in ruled[audit.entry] \cap Restricted
    BY <2>1, <2>2 DEF AuditGrounded, Todo
  <2>4. id[1] \in Users /\ groups[id[1]] \in belonged[id[1]]
    BY DEF DecidesOnThePast, ID
  <2>5. HadReason(id[1], audit.entry[2])
    BY <1>7, <1>a, <2>2, <2>3, <2>4 DEF HadReason
  <2>6. HadReason(id[1], audit.entry[2])'
    BY <1>0, <1>a, <2>2, <2>4, <2>5, GroundStays, <2>1 DEF HadReason, Condemned
  <2>7. QED
    BY <2>1, <2>5 DEF Condemned, AuditGrounded, HadReason
<1>8. ASSUME NEW id \in ID, AuditLooksUp(id) \/ AuditLookupFails(id) PROVE AuditGrounded'
  BY <1>6, <1>7, <1>8 DEF AuditLooksUp, AuditLookupFails, AfterFailedLookup, world
<1>9. ASSUME AuditRevokes \/ AuditRevokeFails PROVE AuditGrounded'
  <2>1. /\ audit.pc = "revoke"
        /\ audit' = AfterRevoke
        /\ UNCHANGED ruled
    BY <1>9 DEF AuditRevokes, AuditRevokeFails, world
  <2>2. QED
    BY <2>1 DEF AfterRevoke, InKeys, AuditGrounded
<1>10. CASE AuditStep
  <2>1. CASE AuditModelDone
    BY <1>5, <2>1, AuditShape DEF AuditModelDone, world
  <2>2. ASSUME NEW e \in Entries, AuditListFails(e) PROVE AuditGrounded'
    BY <1>5, <2>2 DEF AuditListFails, world
  <2>3. QED
    BY <1>2, <1>3, <1>4, <1>8, <1>9, <1>10, <2>1, <2>2 DEF AuditStep, AuditEnds
<1>11. ASSUME NEW r \in Requests, NEW u \in Users, NEW m \in Names,
              PostKey(r, u, m) \/ \E i \in ID : DeleteKey(r, u, m, i)
       PROVE  UNCHANGED audit
  BY <1>11 DEF PostKey, DeleteKey
<1>12. ASSUME NEW r \in Requests, RequestStep(r) PROVE UNCHANGED audit
  BY <1>12 DEF RequestStep, PostWrites, DeleteWrites, RequestFails, Finish
<1>13. CASE SyncLists \/ SyncInstalls \/ SyncFails
  BY <1>1, <1>13 DEF SyncLists, SyncInstalls, SyncFails
<1>14. CASE WorldStep
  BY <1>1, <1>2, <1>14 DEF WorldStep, RemoveModel, SetRule, MoveUser, RenewToken, Restart
<1>15. CASE UNCHANGED vars
  BY <1>1, <1>15 DEF vars
<1>16. QED
  BY <1>1, <1>10, <1>11, <1>12, <1>13, <1>14, <1>15 DEF Next

LEMMA InvariantInit == Init => IInv
<1> SUFFICES ASSUME Init PROVE IInv
  OBVIOUS
<1>1. TypeOK
  BY TypeInit
<1>2. KeysWereEntitled
  BY DEF Init, KeysWereEntitled
<1>3. DecidesOnThePast
  BY DEF Init, NotSyncing, DecidesOnThePast
<1>4. RequestsGrounded
  BY DEF Init, RequestsGrounded, Idle
<1>5. AuditGrounded
  BY DEF Init, AuditGrounded, Resting
<1>6. QED
  BY <1>1, <1>2, <1>3, <1>4, <1>5 DEF IInv

LEMMA InvariantStep == IInv /\ [Next]_vars => IInv'
<1> SUFFICES ASSUME IInv, [Next]_vars PROVE IInv'
  OBVIOUS
<1>1. TypeOK'
  BY TypeStep DEF IInv
<1>2. QED
  BY <1>1, EntitledStep, PastStep, RequestsStep, AuditorStep DEF IInv

\* The inductive invariant: what is decided is decided on rules and groups that
\* once were.
THEOREM InvariantHolds == Spec => []IInv
<1>1. QED
  BY InvariantInit, InvariantStep, PTL DEF Spec

\* createKey: a key belongs to somebody who was entitled to it.
THEOREM KeysAreEntitled == Spec => []KeysWereEntitled
<1>1. IInv => KeysWereEntitled
  BY DEF IInv
<1>2. QED
  BY <1>1, InvariantHolds, PTL

\* --------------------------------------------------------- action properties

\* deleteKey: requests withdraw the keys of their own user and model.
THEOREM RequestsTakeOwn == Spec => RequestsTakeOwnKeys
<1> DEFINE Own(r) ==
      request'[r] # request[r] =>
        \A n \in Names : \A id \in secret[n] \ secret'[n] :
          request[r].user = id[1] /\ request[r].name = n
<1>1. ASSUME IInv, [Next]_vars, NEW r \in Requests PROVE Own(r)
  <2> USE <1>1 DEF IInv
  <2>1. CASE UNCHANGED request
    BY <2>1
  <2>2. CASE \A n \in Names : secret[n] \subseteq secret'[n]
    BY <2>2
  <2>3. ASSUME NEW q \in Requests, RequestStep(q) PROVE Own(r)
    <3>1. CASE q # r
      BY <2>3, <3>1
      DEF RequestStep, PostWrites, DeleteWrites, RequestFails, Finish, TypeOK
    <3>2. CASE PostWrites(q)
      BY <2>2, <3>2, RequestShape, CreateKeyShape DEF PostWrites
    <3>3. CASE q = r /\ DeleteWrites(q)
      <4>1. request[r].pc = "revoke"
        BY <3>3 DEF DeleteWrites
      <4>2. /\ request[r].id \in ID /\ request[r].name \in Names
            /\ request[r].id[1] = request[r].user
        BY <4>1, RequestShape DEF RequestsGrounded
      <4>3. CASE Refused(request[r].id, request[r].name)
        BY <4>3 DEF Refused, keys
      <4>4. CASE \E ok \in BOOLEAN : RevokeKey(request[r].id, request[r].name, ok)
        BY <4>2, <4>4, RevokeKeyShape
      <4>5. QED
        BY <3>3, <4>3, <4>4 DEF DeleteWrites
    <3>4. CASE RequestFails(q)
      BY <2>2, <3>4 DEF RequestFails, keys
    <3>5. QED
      BY <2>3, <3>1, <3>2, <3>3, <3>4 DEF RequestStep
  <2>4. ASSUME NEW q \in Requests, NEW u \in Users, NEW m \in Names,
               PostKey(q, u, m) \/ \E i \in ID : DeleteKey(q, u, m, i)
        PROVE  Own(r)
    BY <2>2, <2>4 DEF PostKey, DeleteKey, keys
  <2>5. CASE SyncLists \/ SyncInstalls \/ SyncFails
    BY <2>1, <2>5 DEF SyncLists, SyncInstalls, SyncFails
  <2>6. CASE AuditStep
    BY <2>1, <2>6 DEF AuditStep, AuditBegins, AuditModelDone, AuditEnds, AuditRevokes,
      AuditRevokeFails, AuditLists, AuditListFails, AuditLooksUp, AuditLookupFails
  <2>7. CASE WorldStep
    BY <2>1, <2>2, <2>7
    DEF WorldStep, RemoveModel, SetRule, MoveUser, RenewToken, Restart, keys
  <2>8. CASE UNCHANGED vars
    BY <2>1, <2>8 DEF vars
  <2>9. QED
    BY <2>3, <2>4, <2>5, <2>6, <2>7, <2>8 DEF Next
<1>2. IInv /\ [Next]_vars =>
        [\A r \in Requests : request'[r] # request[r] =>
           \A n \in Names : \A id \in secret[n] \ secret'[n] :
             request[r].user = id[1] /\ request[r].name = n]_vars
  BY <1>1
<1>3. QED
  BY <1>2, InvariantHolds, PTL DEF Spec, RequestsTakeOwnKeys

\* RunOnce: the auditor withdraws a key for a reason, and none with a lookup that never
\* answers, as the repository's.
THEOREM RevocationsAreReasoned == Spec => RevocationsHadReason
<1>1. ASSUME IInv, [Next]_vars, audit' # audit,
             NEW n \in Names, NEW id \in secret[n] \ secret'[n]
      PROVE  LookupWorks /\ HadReason(id[1], n)
  <2> USE <1>1 DEF IInv
  <2>1. CASE UNCHANGED secret
    BY <2>1
  <2>2. CASE AuditRevokes \/ AuditRevokeFails
    <3>1. audit.pc = "revoke"
      BY <2>2 DEF AuditRevokes, AuditRevokeFails
    <3>2. /\ audit.id \in ID /\ audit.entry[2] \in Names
          /\ LookupWorks /\ HadReason(audit.id[1], audit.entry[2])
      BY <3>1, AuditShape DEF AuditGrounded, Entries
    <3>3. CASE \E ok \in BOOLEAN : RevokeKey(audit.id, audit.entry[2], ok)
      BY <3>2, <3>3, RevokeKeyShape
    <3>4. QED
      BY <2>1, <2>2, <3>3 DEF AuditRevokes, AuditRevokeFails, keys
  <2>3. CASE AuditStep
    BY <2>1, <2>2, <2>3 DEF AuditStep, AuditBegins, AuditModelDone, AuditEnds,
      AuditLists, AuditListFails, AuditLooksUp, AuditLookupFails, keys
  <2>4. ASSUME NEW r \in Requests, RequestStep(r) PROVE UNCHANGED audit
    BY <2>4 DEF RequestStep, PostWrites, DeleteWrites, RequestFails, Finish
  <2>5. ASSUME NEW r \in Requests, NEW u \in Users, NEW m \in Names,
               PostKey(r, u, m) \/ \E i \in ID : DeleteKey(r, u, m, i)
        PROVE  UNCHANGED audit
    BY <2>5 DEF PostKey, DeleteKey
  <2>6. CASE SyncLists \/ SyncInstalls \/ SyncFails
    BY <2>6 DEF SyncLists, SyncInstalls, SyncFails
  <2>7. CASE WorldStep
    BY <2>1, <2>7
    DEF WorldStep, RemoveModel, SetRule, MoveUser, RenewToken, Restart, keys
  <2>8. QED
    BY <2>3, <2>4, <2>5, <2>6, <2>7 DEF Next, vars
<1>2. IInv /\ [Next]_vars =>
        [audit' # audit =>
           \A n \in Names : \A id \in secret[n] \ secret'[n] :
             LookupWorks /\ HadReason(id[1], n)]_vars
  BY <1>1
<1>3. QED
  BY <1>2, InvariantHolds, PTL DEF Spec, RevocationsHadReason
=============================================================================
