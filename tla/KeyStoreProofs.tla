--------------------------- MODULE KeyStoreProofs ---------------------------
(***************************************************************************)
(* Proofs about KeyStore, for any number of models, users, calls and keys. *)
(***************************************************************************)
EXTENDS KeyStore, TLAPS

(***************************************************************************)
(* Shapes.                                                                 *)
(***************************************************************************)

LEMMA NothingIsData == Nothing \in Data
BY DEF Nothing, Data

\* A call that starts is a well-formed active call.
LEMMA BeginShape ==
  ASSUME NEW op \in {"create", "revoke"}, NEW m \in Models, NEW u \in Users,
         NEW n \in 0..MaxSeq
  PROVE  /\ Begin(op, m, u, n) \in Active
         /\ Begin(op, m, u, n).pc = "getSecret"
         /\ Begin(op, m, u, n).op = op
         /\ Begin(op, m, u, n).seq = n
<1>1. Nothing \in Data
  BY NothingIsData
<1>2. 1 \in 1..MaxRetries
  BY DEF MaxRetries
<1>3. QED
  BY <1>1, <1>2 DEF Begin, Active, Requesting

\* A call that is not idle is a record of an active call.
LEMMA ActiveCall ==
  ASSUME TypeOK, NEW c \in Calls, ~ At(c, "idle")
  PROVE  /\ call[c] \in Active
         /\ call[c].op = "revoke" => call[c].seq \in Seqs
         /\ Stored(c) => call[c].seq \in Seqs /\ call[c].key \in Keys
<1>1. call[c] \in CallState
  BY DEF TypeOK
<1>2. call[c] # Idle
  BY DEF At, Idle
<1>3. call[c] \in Running
  BY <1>1, <1>2 DEF CallState
<1>4. QED
  BY <1>3 DEF Running, Stored

\* A retried or failed call is an active call that has stored nothing.
LEMMA AfterErrorShape ==
  ASSUME TypeOK, NEW c \in Calls, ~ At(c, "idle"),
         NEW err \in {"conflict", "notFound", "other"}
  PROVE  /\ AfterError(c, err) \in CallState
         /\ AfterError(c, err).pc \in {"getSecret", "failed"}
<1>1. call[c] \in Active
  BY ActiveCall
<1>2. call[c].op = "revoke" => call[c].seq \in Seqs
  BY ActiveCall
<1> DEFINE n == IF call[c].op = "create" THEN 0 ELSE call[c].seq
           b == Begin(call[c].op, call[c].model, call[c].user, n)
<1>3. n \in 0..MaxSeq /\ (call[c].op = "revoke" => n \in Seqs)
  BY <1>1, <1>2, MaxSeqIsNat DEF Active, Seqs
<1>4. b \in Active /\ b.pc = "getSecret" /\ b.op = call[c].op /\ b.seq = n
  <2>1. /\ call[c].op \in {"create", "revoke"}
        /\ call[c].model \in Models
        /\ call[c].user \in Users
    BY <1>1 DEF Active
  <2> HIDE DEF n
  <2>2. QED
    BY <1>3, <2>1, BeginShape
<1>5. call[c].attempt \in 1..MaxRetries /\ (call[c].attempt < MaxRetries => call[c].attempt + 1 \in 1..MaxRetries)
  BY <1>1 DEF Active, MaxRetries
<1> HIDE DEF b, n
<1>6. CASE IsConflict(call[c].model, err) /\ call[c].attempt < MaxRetries
  <2>1. AfterError(c, err) = [b EXCEPT !.attempt = call[c].attempt + 1]
    BY <1>6 DEF AfterError, Attempt, b, n
  <2>2. QED
    BY <2>1, <1>3, <1>4, <1>5, <1>6 DEF Active, CallState, Running
<1>7. CASE ~ (IsConflict(call[c].model, err) /\ call[c].attempt < MaxRetries)
  <2>1. AfterError(c, err) = [[b EXCEPT !.attempt = call[c].attempt]
                               EXCEPT !.pc = "failed", !.err = err]
    BY <1>7 DEF AfterError, Attempt, b, n
  <2>2. QED
    BY <2>1, <1>3, <1>4, <1>5 DEF Active, CallState, Running
<1>8. QED
  BY <1>6, <1>7

\* Giving up a call's copies keeps the sets of current copies well-formed.
LEMMA FailShape ==
  ASSUME TypeOK, NEW c \in Calls, ~ At(c, "idle"),
         NEW err \in {"conflict", "notFound", "other"}, Fail(c, err)
  PROVE  /\ call' \in [Calls -> CallState]
         /\ secretCurrent' \in [Models -> SUBSET Calls]
         /\ metaCurrent' \in [Models -> SUBSET Calls]
<1>1. AfterError(c, err) \in CallState
  BY AfterErrorShape
<1>2. QED
  BY <1>1 DEF Fail, Drop, TypeOK

(***************************************************************************)
(* Type correctness: one step per action.                                  *)
(***************************************************************************)
LEMMA TypeStep == TypeOK /\ [Next]_vars => TypeOK'
<1> SUFFICES ASSUME TypeOK, [Next]_vars PROVE TypeOK'
  OBVIOUS
<1> USE DEF objects, history
<1>1. ASSUME NEW c \in Calls, NEW m \in Models, NEW u \in Users, BeginCreate(c, m, u)
      PROVE  TypeOK'
  <2>1. Begin("create", m, u, 0) \in CallState
    BY BeginShape, MaxSeqIsNat DEF CallState, Running
  <2>2. QED
    BY <1>1, <2>1 DEF BeginCreate, TypeOK
<1>2. ASSUME NEW c \in Calls, NEW m \in Models, NEW id \in ID, BeginRevoke(c, m, id)
      PROVE  TypeOK'
  <2>1. id[1] \in Users /\ id[2] \in Seqs /\ id[2] \in 0..MaxSeq
    BY MaxSeqIsNat DEF ID, Seqs
  <2>2. Begin("revoke", m, id[1], id[2]) \in CallState
    BY <2>1, BeginShape DEF CallState, Running
  <2>3. QED
    BY <1>2, <2>2 DEF BeginRevoke, TypeOK
<1>3. ASSUME NEW c \in Calls, GetSecret(c)
      PROVE  TypeOK'
  <2>1. call[c] \in Active /\ (call[c].op = "revoke" => call[c].seq \in Seqs)
    BY <1>3, ActiveCall DEF GetSecret, At
  <2>2. [call[c] EXCEPT !.pc = "getConfigMap", !.secret = secret[call[c].model]] \in CallState
    BY <2>1 DEF TypeOK, CallState, Running, Active, Requesting
  <2>3. QED
    BY <1>3, <2>1, <2>2 DEF GetSecret, TypeOK
<1>4. ASSUME NEW c \in Calls, GetConfigMap(c)
      PROVE  TypeOK'
  <2>1. call[c] \in Active /\ (call[c].op = "revoke" => call[c].seq \in Seqs)
    BY <1>4, ActiveCall DEF GetConfigMap, At
  <2>2. [call[c] EXCEPT !.pc = "putSecret", !.meta = meta[call[c].model]] \in CallState
    BY <2>1 DEF TypeOK, CallState, Running, Active, Requesting
  <2>3. QED
    BY <1>4, <2>1, <2>2 DEF GetConfigMap, TypeOK
<1>5. ASSUME NEW c \in Calls, CreateWritesSecret(c)
      PROVE  TypeOK'
  <2>1. call[c] \in Active /\ call[c].op = "create" /\ ~ At(c, "idle")
    BY <1>5, ActiveCall DEF CreateWritesSecret, WritesSecret, At
  <2>2. AfterError(c, "other") \in CallState
    BY <2>1, AfterErrorShape
  <2>3. PICK n \in Seqs, k \in Keys \ minted :
          LET m == call[c].model
              id == <<call[c].user, n>>
          IN  /\ secret' = [secret EXCEPT ![m] = [call[c].secret EXCEPT ![id] = k]]
              /\ secretCurrent' = [secretCurrent EXCEPT ![m] = {}]
              /\ minted' = minted \cup {k}
              /\ AfterSecretWrite(c, [call[c] EXCEPT !.pc = "putConfigMap", !.seq = n,
                                                     !.key = k, !.secret = Nothing])
    BY <1>5 DEF CreateWritesSecret
  <2> DEFINE r == [call[c] EXCEPT !.pc = "putConfigMap", !.seq = n, !.key = k,
                                  !.secret = Nothing]
  <2>4. r \in CallState
    <3>1. n \in 0..MaxSeq
      BY MaxSeqIsNat DEF Seqs
    <3>2. r \in Active
      BY <2>1, <3>1, NothingIsData DEF Active, Requesting
    <3>3. r.op = "create" /\ r.seq = n /\ r.key = k
      BY <2>1 DEF Active
    <3> HIDE DEF r
    <3>4. QED
      BY <3>2, <3>3 DEF CallState, Running
  <2>5. call' \in [Calls -> CallState] /\ metaCurrent' \in [Models -> SUBSET Calls]
    BY <2>2, <2>3, <2>4 DEF AfterSecretWrite, Drop, TypeOK
  <2>6. /\ secret' \in [Models -> Data]
        /\ secretCurrent' \in [Models -> SUBSET Calls]
        /\ minted' \in SUBSET Keys
    BY <2>1, <2>3 DEF TypeOK, Data, Active
  <2>7. QED
    BY <1>5, <2>3, <2>5, <2>6 DEF CreateWritesSecret, TypeOK
<1>6. ASSUME NEW c \in Calls, RevokeWritesSecret(c)
      PROVE  TypeOK'
  <2>1. call[c] \in Active /\ call[c].op = "revoke" /\ ~ At(c, "idle") /\ call[c].seq \in Seqs
    BY <1>6, ActiveCall DEF RevokeWritesSecret, WritesSecret, At
  <2>2. AfterError(c, "other") \in CallState
    BY <2>1, AfterErrorShape
  <2>3. [call[c] EXCEPT !.pc = "putConfigMap", !.secret = Nothing] \in CallState
    BY <2>1, NothingIsData DEF CallState, Running, Active, Requesting
  <2>4. call' \in [Calls -> CallState] /\ metaCurrent' \in [Models -> SUBSET Calls]
    BY <1>6, <2>2, <2>3 DEF RevokeWritesSecret, AfterSecretWrite, Drop, TypeOK
  <2>5. Target(c) \in ID /\ call[c].model \in Models /\ call[c].secret \in Data
    BY <2>1 DEF Target, ID, Active
  <2>6. call[c].secret[Target(c)] \in Keys
    BY <1>6, <2>1, <2>5 DEF RevokeWritesSecret, WritesSecret, Data
  <2>7. secret' \in [Models -> Data]
    <3>1. [call[c].secret EXCEPT ![Target(c)] = NoKey] \in Data
      BY <2>5 DEF Data
    <3>2. QED
      BY <1>6, <2>5, <3>1 DEF RevokeWritesSecret, TypeOK
  <2>8. QED
    BY <1>6, <2>4, <2>6, <2>7 DEF RevokeWritesSecret, TypeOK
<1>7. ASSUME NEW c \in Calls, RevokeFindsNothing(c)
      PROVE  TypeOK'
  BY <1>7, FailShape DEF RevokeFindsNothing, At, TypeOK
<1>8. ASSUME NEW c \in Calls, WriteConfigMap(c)
      PROVE  TypeOK'
  <2>1. call[c] \in Active /\ ~ At(c, "idle") /\ call[c].seq \in Seqs
        /\ (call[c].op = "create" => call[c].key \in Keys)
    BY <1>8, ActiveCall DEF WriteConfigMap, At, Stored, Active
  <2>2. AfterError(c, "other") \in CallState
    BY <2>1, AfterErrorShape
  <2>3. [call[c] EXCEPT !.pc = "returned", !.meta = Nothing] \in CallState
    BY <2>1, NothingIsData DEF CallState, Running, Active, Requesting
  <2>4. call' \in [Calls -> CallState]
    BY <1>8, <2>2, <2>3 DEF WriteConfigMap, TypeOK
  <2>5. NewMeta(c) \in Data
    BY <2>1 DEF NewMeta, Active, Data
  <2>6. QED
    BY <1>8, <2>1, <2>4, <2>5 DEF WriteConfigMap, TypeOK
<1>9. ASSUME NEW c \in Calls, Conflict(c)
      PROVE  TypeOK'
  BY <1>9, FailShape DEF Conflict, WritesSecret, At, TypeOK
<1>10. ASSUME NEW c \in Calls, RequestFails(c)
      PROVE  TypeOK'
  BY <1>10, FailShape DEF RequestFails, WritesSecret, Requesting, At, TypeOK
<1>11. ASSUME NEW c \in Calls, ReturnResult(c)
      PROVE  TypeOK'
  <2>1. call[c] \in Active /\ (Stored(c) => call[c].seq \in Seqs /\ call[c].key \in Keys)
    BY <1>11, ActiveCall DEF ReturnResult, At
  <2>2. call[c].op = "create" => CredentialOf(c) \in Credential
    BY <1>11, <2>1 DEF ReturnResult, At, Stored, CredentialOf, Credential, Target, ID, Active
  <2>3. QED
    BY <1>11, <2>2 DEF ReturnResult, TypeOK, CallState
<1>12. ASSUME NEW c \in Calls, ReturnError(c)
      PROVE  TypeOK'
  BY <1>12 DEF ReturnError, TypeOK, CallState
<1>13. CASE Restart
  BY <1>13 DEF Restart, TypeOK, CallState
<1>14. ASSUME NEW m \in Models, Operator(m)
      PROVE  TypeOK'
  <2>1. CASE OperatorCreatesSecret(m)
    BY <2>1 DEF OperatorCreatesSecret, TypeOK
  <2>2. CASE OperatorCreatesConfigMap(m)
    BY <2>2 DEF OperatorCreatesConfigMap, TypeOK
  <2>3. CASE OperatorRelabelsSecret(m)
    BY <2>3 DEF OperatorRelabelsSecret, TypeOK
  <2>4. CASE OperatorRelabelsConfigMap(m)
    BY <2>4 DEF OperatorRelabelsConfigMap, TypeOK
  <2>5. CASE OperatorDeletesSecret(m)
    BY <2>5, NothingIsData DEF OperatorDeletesSecret, KeysOf, TypeOK
  <2>6. CASE OperatorDeletesConfigMap(m)
    BY <2>6, NothingIsData DEF OperatorDeletesConfigMap, TypeOK
  <2>7. QED
    BY <1>14, <2>1, <2>2, <2>3, <2>4, <2>5, <2>6 DEF Operator
<1>15. CASE UNCHANGED vars
  BY <1>15 DEF vars, TypeOK
<1>16. QED
  BY <1>1, <1>2, <1>3, <1>4, <1>5, <1>6, <1>7, <1>8, <1>9, <1>10, <1>11, <1>12,
     <1>13, <1>14, <1>15 DEF Next, Step

\* Every reachable state has the shape TypeOK states.
THEOREM TypeCorrect == Spec => []TypeOK
<1>1. Init => TypeOK
  BY DEF Init, TypeOK, CallState, Data, Nothing
<1>2. QED
  BY <1>1, TypeStep, PTL DEF Spec

(***************************************************************************)
(* The inductive invariant.                                                *)
(***************************************************************************)

\* A running call works on a model, an ID it names is one of that model's.
LEMMA RunningCall ==
  ASSUME TypeOK, NEW c \in Calls, ~ At(c, "idle")
  PROVE  /\ call[c].model \in Models
         /\ call[c].user \in Users
         /\ call[c].secret \in Data
         /\ call[c].meta \in Data
         /\ call[c].op \in {"create", "revoke"}
         /\ call[c].op = "revoke" => Target(c) \in ID
         /\ Stored(c) => Target(c) \in ID /\ call[c].key \in Keys
                          /\ CredentialOf(c) \in Credential
<1>1. /\ call[c] \in Active
      /\ call[c].op = "revoke" => call[c].seq \in Seqs
      /\ Stored(c) => call[c].seq \in Seqs /\ call[c].key \in Keys
  BY ActiveCall
<1>2. /\ call[c].model \in Models
      /\ call[c].user \in Users
      /\ call[c].secret \in Data
      /\ call[c].meta \in Data
      /\ call[c].op \in {"create", "revoke"}
  BY <1>1 DEF Active
<1>3. call[c].seq \in Seqs => Target(c) \in ID
  BY <1>2 DEF Target, ID
<1>4. QED
  BY <1>1, <1>2, <1>3 DEF CredentialOf, Credential

LEMMA SettledShape == ASSUME TypeOK PROVE Settled \in SUBSET Credential
<1>1. ASSUME NEW c \in Calls, At(c, "returned"), call[c].op = "create"
      PROVE  CredentialOf(c) \in Credential
  BY <1>1, RunningCall DEF At, Stored
<1>2. QED
  BY <1>1 DEF Settled, TypeOK

\* Only ReturnResult issues, only a ConfigMap write settles.
LEMMA SettledShrinks ==
  ASSUME issued' = issued,
         \A d \in Calls : call'[d] = call[d] \/ call'[d].pc # "returned"
  PROVE  Settled' \subseteq Settled
<1> SUFFICES ASSUME NEW d \in Calls, At(d, "returned")', call'[d].op = "create"
             PROVE  CredentialOf(d)' \in Settled
  BY DEF Settled
<1>1. call'[d] = call[d]
  BY DEF At
<1>2. CredentialOf(d)' = CredentialOf(d)
  BY <1>1 DEF CredentialOf, Target
<1>3. QED
  BY <1>1, <1>2 DEF Settled, At

\* A pending create other than the one that moves stays as it was.
LEMMA PendingCreateKept ==
  ASSUME IInv, UNCHANGED <<secret, minted, retired>>,
         \A d \in Calls : call'[d] = call[d] \/ call'[d].pc \notin {"putConfigMap", "returned"}
  PROVE  PendingCreate'
<1> SUFFICES ASSUME NEW d \in Calls, ~ At(d, "idle")', Stored(d)'
             PROVE  /\ call'[d].key \in minted'
                    /\ Holds(CredentialOf(d))' \/ call'[d].key \in retired'
                    /\ At(d, "putConfigMap")' => call'[d].meta[Target(d)'] = NoKey
  BY DEF PendingCreate
<1>1. call'[d] = call[d]
  BY DEF Stored
<1>2. ~ At(d, "idle") /\ Stored(d) /\ Target(d)' = Target(d) /\ CredentialOf(d)' = CredentialOf(d)
  BY <1>1 DEF At, Stored, Target, CredentialOf
<1>3. QED
  BY <1>1, <1>2 DEF IInv, PendingCreate, Holds, At

\* A step that stores nothing and gives copies up rather than taking them.
LEMMA QuietStep ==
  ASSUME IInv, TypeOK', UNCHANGED <<objects, history>>,
         \A d \in Calls : \/ call'[d] = call[d]
                          \/ call'[d].pc \in {"idle", "getSecret", "failed"},
         \A m \in Models : /\ secretCurrent'[m] \subseteq secretCurrent[m]
                           /\ metaCurrent'[m] \subseteq metaCurrent[m]
  PROVE  IInv'
<1> USE DEF objects, history
<1>1. Settled' \subseteq Settled
  BY DEF Settled, CredentialOf, Target, At
<1>2. CopiesCurrent'
  <2> SUFFICES ASSUME NEW d \in Calls
               PROVE  /\ call'[d].pc \in {"getConfigMap", "putSecret"}
                           /\ d \in secretCurrent'[call'[d].model]
                           => call'[d].secret = secret'[call'[d].model]
                      /\ call'[d].pc \in {"putSecret", "putConfigMap"}
                           /\ d \in metaCurrent'[call'[d].model]
                           => call'[d].meta = meta'[call'[d].model]
    BY DEF CopiesCurrent
  <2>1. CASE call'[d].pc \in {"idle", "getSecret", "failed"}
    BY <2>1
  <2>2. CASE call'[d] = call[d] /\ ~ At(d, "idle")
    BY <2>2, RunningCall DEF IInv, CopiesCurrent
  <2>3. CASE call'[d] = call[d] /\ At(d, "idle")
    BY <2>3 DEF At
  <2>4. QED
    BY <2>1, <2>2, <2>3
<1>3. StoredIsMinted' /\ KeyHeldOnce' /\ RetiredStaysRetired' /\ IssuedUntilRetired'
  BY DEF IInv, StoredIsMinted, KeyHeldOnce, RetiredStaysRetired, IssuedUntilRetired, Holds
<1>4. PendingCreate'
  BY DEF IInv, PendingCreate, Stored, CredentialOf, Target, Holds, At
<1>5. PendingRevoke'
  <2> SUFFICES ASSUME NEW d \in Calls, call'[d].pc = "putConfigMap",
                      call'[d].op = "revoke", d \in metaCurrent'[call'[d].model],
                      NEW cred \in Settled', cred.model = call'[d].model, cred.id = Target(d)'
               PROVE  ~ Holds(cred)'
    BY DEF PendingRevoke, At
  <2>1. call'[d] = call[d] /\ ~ At(d, "idle")
    BY DEF At
  <2>2. call[d].model \in Models
    BY <2>1, RunningCall DEF IInv
  <2>3. QED
    BY <1>1, <2>1, <2>2 DEF IInv, PendingRevoke, At, Target, Holds
<1>6. SettledIsMinted' /\ SettledIsListed'
  BY <1>1 DEF IInv, SettledIsMinted, SettledIsListed, Holds
<1>7. QED
  BY <1>2, <1>3, <1>4, <1>5, <1>6 DEF IInv

\* Reading an object only adds a copy equal to what is stored.
LEMMA GetSecretStep ==
  ASSUME IInv, TypeOK', NEW c \in Calls, GetSecret(c)
  PROVE  IInv'
<1> USE DEF objects, history
<1>1. call[c] \in Active /\ call[c].model \in Models
  BY ActiveCall, RunningCall DEF GetSecret, At, IInv
<1>2. /\ call'[c].pc = "getConfigMap"
      /\ call'[c].model = call[c].model
      /\ call'[c].secret = secret[call[c].model]
      /\ \A d \in Calls \ {c} : call'[d] = call[d]
  BY <1>1 DEF GetSecret, IInv, TypeOK, Active
<1>3. Settled' \subseteq Settled
  BY <1>2, SettledShrinks DEF GetSecret
<1>4. CopiesCurrent'
  <2> SUFFICES ASSUME NEW d \in Calls
               PROVE  /\ call'[d].pc \in {"getConfigMap", "putSecret"}
                           /\ d \in secretCurrent'[call'[d].model]
                           => call'[d].secret = secret'[call'[d].model]
                      /\ call'[d].pc \in {"putSecret", "putConfigMap"}
                           /\ d \in metaCurrent'[call'[d].model]
                           => call'[d].meta = meta'[call'[d].model]
    BY DEF CopiesCurrent
  <2>1. CASE d = c
    BY <1>2, <2>1 DEF GetSecret
  <2>2. CASE d # c /\ ~ At(d, "idle")
    BY <1>1, <1>2, <2>2, RunningCall DEF IInv, TypeOK, CopiesCurrent, GetSecret
  <2>3. CASE d # c /\ At(d, "idle")
    BY <1>2, <2>3 DEF At
  <2>4. QED
    BY <2>1, <2>2, <2>3
<1>5. StoredIsMinted' /\ KeyHeldOnce' /\ RetiredStaysRetired' /\ IssuedUntilRetired'
  BY DEF GetSecret, IInv, StoredIsMinted, KeyHeldOnce, RetiredStaysRetired,
         IssuedUntilRetired, Holds
<1>6. PendingCreate'
  BY <1>2, PendingCreateKept DEF GetSecret
<1>7. PendingRevoke'
  <2> SUFFICES ASSUME NEW d \in Calls, At(d, "putConfigMap")', call'[d].op = "revoke",
                      d \in metaCurrent'[call'[d].model],
                      NEW cred \in Settled', cred.model = call'[d].model, cred.id = Target(d)'
               PROVE  ~ Holds(cred)'
    BY DEF PendingRevoke
  <2>1. call'[d] = call[d]
    BY <1>2 DEF At
  <2>2. At(d, "putConfigMap") /\ Target(d)' = Target(d)
    BY <2>1 DEF At, Target
  <2>3. ~ Holds(cred)
    BY <1>3, <2>1, <2>2 DEF GetSecret, IInv, PendingRevoke
  <2>4. QED
    BY <2>3 DEF GetSecret, Holds
<1>8. SettledIsMinted' /\ SettledIsListed'
  BY <1>3 DEF GetSecret, IInv, SettledIsMinted, SettledIsListed, Holds
<1>9. QED
  BY <1>4, <1>5, <1>6, <1>7, <1>8 DEF IInv

LEMMA GetConfigMapStep ==
  ASSUME IInv, TypeOK', NEW c \in Calls, GetConfigMap(c)
  PROVE  IInv'
<1> USE DEF objects, history
<1>1. call[c] \in Active /\ call[c].model \in Models
  BY ActiveCall, RunningCall DEF GetConfigMap, At, IInv
<1>2. /\ call'[c].pc = "putSecret"
      /\ call'[c].model = call[c].model
      /\ call'[c].secret = call[c].secret
      /\ call'[c].meta = meta[call[c].model]
      /\ \A d \in Calls \ {c} : call'[d] = call[d]
  BY <1>1 DEF GetConfigMap, IInv, TypeOK, Active
<1>3. Settled' \subseteq Settled
  BY <1>2, SettledShrinks DEF GetConfigMap
<1>4. CopiesCurrent'
  <2> SUFFICES ASSUME NEW d \in Calls
               PROVE  /\ call'[d].pc \in {"getConfigMap", "putSecret"}
                           /\ d \in secretCurrent'[call'[d].model]
                           => call'[d].secret = secret'[call'[d].model]
                      /\ call'[d].pc \in {"putSecret", "putConfigMap"}
                           /\ d \in metaCurrent'[call'[d].model]
                           => call'[d].meta = meta'[call'[d].model]
    BY DEF CopiesCurrent
  <2>1. CASE d = c
    BY <1>2, <2>1 DEF GetConfigMap, At, IInv, CopiesCurrent
  <2>2. CASE d # c /\ ~ At(d, "idle")
    BY <1>1, <1>2, <2>2, RunningCall DEF IInv, TypeOK, CopiesCurrent, GetConfigMap
  <2>3. CASE d # c /\ At(d, "idle")
    BY <1>2, <2>3 DEF At
  <2>4. QED
    BY <2>1, <2>2, <2>3
<1>5. StoredIsMinted' /\ KeyHeldOnce' /\ RetiredStaysRetired' /\ IssuedUntilRetired'
  BY DEF GetConfigMap, IInv, StoredIsMinted, KeyHeldOnce, RetiredStaysRetired,
         IssuedUntilRetired, Holds
<1>6. PendingCreate'
  BY <1>2, PendingCreateKept DEF GetConfigMap
<1>7. PendingRevoke'
  <2> SUFFICES ASSUME NEW d \in Calls, call'[d].pc = "putConfigMap",
                      call'[d].op = "revoke", d \in metaCurrent'[call'[d].model],
                      NEW cred \in Settled', cred.model = call'[d].model, cred.id = Target(d)'
               PROVE  ~ Holds(cred)'
    BY DEF PendingRevoke, At
  <2>1. d # c /\ call'[d] = call[d] /\ ~ At(d, "idle")
    BY <1>2 DEF At
  <2>2. call[d].model \in Models
    BY <2>1, RunningCall DEF IInv
  <2>3. d \in metaCurrent[call[d].model]
    BY <1>1, <2>1, <2>2 DEF GetConfigMap, IInv, TypeOK
  <2>4. QED
    BY <1>3, <2>1, <2>3 DEF GetConfigMap, IInv, PendingRevoke, At, Target, Holds
<1>8. SettledIsMinted' /\ SettledIsListed'
  BY <1>3 DEF GetConfigMap, IInv, SettledIsMinted, SettledIsListed, Holds
<1>9. QED
  BY <1>4, <1>5, <1>6, <1>7, <1>8 DEF IInv

(***************************************************************************)
(* The write of a create.  Its copy is the stored data, so the chosen ID   *)
(* is free in the Secret and everything else is written back unchanged.    *)
(***************************************************************************)
LEMMA CreateWritesSecretStep ==
  ASSUME IInv, TypeOK', NEW c \in Calls, CreateWritesSecret(c)
  PROVE  IInv'
<1> DEFINE m == call[c].model
<1>1. /\ call[c] \in Active /\ m \in Models /\ call[c].user \in Users
      /\ call[c].op = "create" /\ At(c, "putSecret") /\ ~ At(c, "idle")
      /\ call[c].secret \in Data /\ call[c].meta \in Data
  BY ActiveCall, RunningCall DEF CreateWritesSecret, WritesSecret, At, IInv
<1>2. m \in secretExists /\ c \in secretCurrent[m] /\ call[c].secret = secret[m]
  BY <1>1 DEF CreateWritesSecret, SecretAccepts, Missing, At, IInv, CopiesCurrent
<1>3. PICK n \in Seqs, k \in Keys \ minted :
        /\ IsSequence(c, n)
        /\ secret' = [secret EXCEPT ![m] = [call[c].secret EXCEPT ![<<call[c].user, n>>] = k]]
        /\ secretCurrent' = [secretCurrent EXCEPT ![m] = {}]
        /\ minted' = minted \cup {k}
        /\ AfterSecretWrite(c, [call[c] EXCEPT !.pc = "putConfigMap", !.seq = n,
                                               !.key = k, !.secret = Nothing])
  BY DEF CreateWritesSecret
<1>4. UNCHANGED <<meta, secretExists, metaExists, issued, retired>>
  BY DEF CreateWritesSecret
<1> DEFINE id == <<call[c].user, n>>
           r == [call[c] EXCEPT !.pc = "putConfigMap", !.seq = n, !.key = k,
                                !.secret = Nothing]
<1>5. id \in ID /\ k # NoKey /\ secret[m][id] = NoKey /\ call[c].meta[id] = NoKey
  BY <1>1, <1>2, <1>3, NoKeyNotKey DEF ID, IsSequence, Unused
<1>6. /\ \A m2 \in Models : m2 # m => secret'[m2] = secret[m2]
      /\ \A i \in ID : i # id => secret'[m][i] = secret[m][i]
      /\ secret'[m][id] = k
  BY <1>1, <1>2, <1>3, <1>5 DEF IInv, TypeOK, Data
<1>7. r.pc = "putConfigMap" /\ r.op = "create" /\ r.model = m /\ r.user = call[c].user
      /\ r.seq = n /\ r.key = k /\ r.meta = call[c].meta
  BY <1>1 DEF Active
<1> HIDE DEF r
<1>8. /\ \A d \in Calls \ {c} : call'[d] = call[d]
      /\ \/ call'[c] = r /\ metaCurrent' = metaCurrent
         \/ call'[c].pc \in {"getSecret", "failed"}
      /\ \A m2 \in Models : metaCurrent'[m2] \subseteq metaCurrent[m2]
  <2>1. AfterError(c, "other").pc \in {"getSecret", "failed"}
    BY <1>1, AfterErrorShape DEF IInv
  <2>2. AfterSecretWrite(c, r)
    BY <1>3 DEF r
  <2>3. QED
    BY <2>1, <2>2, <1>1 DEF AfterSecretWrite, Drop, IInv, TypeOK
<1>9. Settled' \subseteq Settled
  BY <1>4, <1>7, <1>8, SettledShrinks
<1>10. ASSUME NEW cred \in Credential, cred.key \in minted
       PROVE  Holds(cred)' <=> Holds(cred)
  <2>1. cred.model \in Models /\ cred.id \in ID /\ cred.key # k /\ cred.key # NoKey
    BY <1>3, <1>10, NoKeyNotKey DEF Credential
  <2>2. QED
    BY <1>5, <1>6, <2>1 DEF Holds
<1> HIDE DEF m, id
<1>11. CopiesCurrent'
  <2> SUFFICES ASSUME NEW d \in Calls
               PROVE  /\ call'[d].pc \in {"getConfigMap", "putSecret"}
                           /\ d \in secretCurrent'[call'[d].model]
                           => call'[d].secret = secret'[call'[d].model]
                      /\ call'[d].pc \in {"putSecret", "putConfigMap"}
                           /\ d \in metaCurrent'[call'[d].model]
                           => call'[d].meta = meta'[call'[d].model]
    BY DEF CopiesCurrent
  <2>1. CASE d = c
    BY <1>1, <1>4, <1>7, <1>8, <2>1 DEF IInv, CopiesCurrent, At, m
  <2>2. CASE d # c /\ ~ At(d, "idle")
    <3>1. call'[d] = call[d] /\ call[d].model \in Models
      BY <1>8, <2>2, RunningCall DEF IInv
    <3>2. CASE call[d].model = m
      BY <1>1, <1>3, <1>4, <1>8, <3>1, <3>2 DEF IInv, TypeOK, CopiesCurrent, m
    <3>3. CASE call[d].model # m
      BY <1>1, <1>3, <1>4, <1>6, <1>8, <3>1, <3>3 DEF IInv, TypeOK, CopiesCurrent, m
    <3>4. QED
      BY <3>2, <3>3
  <2>3. CASE d # c /\ At(d, "idle")
    BY <1>8, <2>3 DEF At
  <2>4. QED
    BY <2>1, <2>2, <2>3
<1>12. StoredIsMinted'
  <2>1. \A m2 \in Models : m2 \notin secretExists' => secret'[m2] = Nothing
    BY <1>2, <1>4, <1>6 DEF IInv, StoredIsMinted
  <2>2. \A m2 \in Models : \A i \in ID : secret'[m2][i] \in minted' \cup {NoKey}
    BY <1>3, <1>6 DEF IInv, StoredIsMinted
  <2>3. QED
    BY <1>3, <1>4, <2>1, <2>2 DEF IInv, StoredIsMinted
<1>13. KeyHeldOnce'
  <2>1. \A m2 \in Models : \A i \in ID : secret[m2][i] # k
    BY <1>3, <1>5 DEF IInv, StoredIsMinted
  <2>2. QED
    BY <1>6, <2>1 DEF IInv, KeyHeldOnce
<1>14. RetiredStaysRetired'
  BY <1>3, <1>4, <1>6 DEF IInv, RetiredStaysRetired, StoredIsMinted
<1>15. SettledIsMinted'
  BY <1>3, <1>9 DEF IInv, SettledIsMinted
<1>16. \A cred \in Settled' : cred \in Credential /\ cred.key \in minted
  BY <1>9, SettledShape DEF IInv, SettledIsMinted
<1>17. SettledIsListed'
  BY <1>4, <1>9, <1>10, <1>16 DEF IInv, SettledIsListed
<1>18. IssuedUntilRetired'
  <2>1. \A cred \in issued : cred \in Credential /\ cred.key \in minted
    BY DEF IInv, SettledIsMinted, Settled, TypeOK
  <2>2. QED
    BY <1>4, <1>10, <2>1 DEF IInv, IssuedUntilRetired
<1>19. PendingCreate'
  <2> SUFFICES ASSUME NEW d \in Calls, ~ At(d, "idle")', Stored(d)'
               PROVE  /\ call'[d].key \in minted'
                      /\ Holds(CredentialOf(d))' \/ call'[d].key \in retired'
                      /\ At(d, "putConfigMap")' => call'[d].meta[Target(d)'] = NoKey
    BY DEF PendingCreate
  <2>1. CASE d = c
    <3>1. call'[d] = r
      BY <1>8, <2>1 DEF Stored
    <3>2. Target(d)' = id
      BY <1>7, <3>1 DEF Target, id
    <3>3. QED
      BY <1>3, <1>5, <1>6, <1>7, <3>1, <3>2 DEF Holds, CredentialOf
  <2>2. CASE d # c
    <3>1. call'[d] = call[d]
      BY <1>8, <2>2
    <3>2. /\ ~ At(d, "idle") /\ Stored(d) /\ Target(d)' = Target(d)
          /\ CredentialOf(d)' = CredentialOf(d)
      BY <3>1 DEF At, Stored, Target, CredentialOf
    <3>3. /\ CredentialOf(d) \in Credential /\ CredentialOf(d).key = call[d].key
          /\ call[d].key \in minted
      BY <3>2, RunningCall DEF IInv, PendingCreate, CredentialOf
    <3>4. Holds(CredentialOf(d))' <=> Holds(CredentialOf(d))
      <4> DEFINE cred == CredentialOf(d)
      <4>1. Holds(cred)' <=> secret'[cred.model][cred.id] = cred.key
        BY <3>2 DEF Holds
      <4>2. QED
        BY <1>5, <1>6, <1>3, <3>3, <4>1, NoKeyNotKey DEF Holds, Credential
    <3>5. QED
      BY <1>3, <1>4, <3>1, <3>2, <3>3, <3>4 DEF IInv, PendingCreate, At
  <2>3. QED
    BY <2>1, <2>2
<1>20. PendingRevoke'
  <2> SUFFICES ASSUME NEW d \in Calls, call'[d].pc = "putConfigMap",
                      call'[d].op = "revoke", d \in metaCurrent'[call'[d].model],
                      NEW cred \in Settled', cred.model = call'[d].model, cred.id = Target(d)'
               PROVE  ~ Holds(cred)'
    BY DEF PendingRevoke, At
  <2>1. d # c /\ call'[d] = call[d] /\ ~ At(d, "idle")
    BY <1>7, <1>8 DEF At
  <2>2. d \in metaCurrent[call[d].model]
    BY <1>8, <2>1, RunningCall DEF IInv
  <2>3. Target(d)' = Target(d)
    BY <2>1 DEF Target
  <2>4. ~ Holds(cred)
    BY <1>9, <2>1, <2>2, <2>3 DEF IInv, PendingRevoke, At
  <2>5. QED
    BY <1>10, <1>16, <2>4
<1>21. QED
  BY <1>11, <1>12, <1>13, <1>14, <1>15, <1>17, <1>18, <1>19, <1>20 DEF IInv

(***************************************************************************)
(* The write of a revoke.  Its copy is the stored data, so exactly the     *)
(* targeted credential goes, and its value goes to the retired ones.       *)
(***************************************************************************)
LEMMA RevokeWritesSecretStep ==
  ASSUME IInv, TypeOK', NEW c \in Calls, RevokeWritesSecret(c)
  PROVE  IInv'
<1> DEFINE m == call[c].model
           id == Target(c)
           old == secret[m][id]
           r == [call[c] EXCEPT !.pc = "putConfigMap", !.secret = Nothing]
<1>1. /\ call[c] \in Active /\ m \in Models /\ id \in ID
      /\ call[c].op = "revoke" /\ At(c, "putSecret") /\ ~ At(c, "idle")
      /\ call[c].secret \in Data
  BY ActiveCall, RunningCall DEF RevokeWritesSecret, WritesSecret, At, IInv
<1>2. m \in secretExists /\ c \in secretCurrent[m] /\ call[c].secret = secret[m]
  BY <1>1 DEF RevokeWritesSecret, SecretAccepts, Missing, At, IInv, CopiesCurrent
<1>3. /\ secret' = [secret EXCEPT ![m] = [call[c].secret EXCEPT ![id] = NoKey]]
      /\ secretCurrent' = [secretCurrent EXCEPT ![m] = {}]
      /\ retired' = retired \cup {old}
      /\ AfterSecretWrite(c, r)
      /\ UNCHANGED <<meta, secretExists, metaExists, minted, issued>>
  BY <1>2 DEF RevokeWritesSecret
<1>4. old # NoKey /\ old \in Keys /\ old \in minted
  BY <1>1, <1>2 DEF RevokeWritesSecret, WritesSecret, IInv, StoredIsMinted, Data
<1>5. /\ \A m2 \in Models : m2 # m => secret'[m2] = secret[m2]
      /\ \A i \in ID : i # id => secret'[m][i] = secret[m][i]
      /\ secret'[m][id] = NoKey
  BY <1>1, <1>2, <1>3 DEF IInv, TypeOK, Data
<1>6. r.pc = "putConfigMap" /\ r.op = "revoke" /\ r.model = m /\ r.user = call[c].user
      /\ r.seq = call[c].seq /\ r.meta = call[c].meta
  BY <1>1 DEF Active
<1> HIDE DEF r
<1>7. /\ \A d \in Calls \ {c} : call'[d] = call[d]
      /\ \/ call'[c] = r /\ metaCurrent' = metaCurrent
         \/ call'[c].pc \in {"getSecret", "failed"}
      /\ \A m2 \in Models : metaCurrent'[m2] \subseteq metaCurrent[m2]
  <2>1. AfterError(c, "other").pc \in {"getSecret", "failed"}
    BY <1>1, AfterErrorShape DEF IInv
  <2>2. QED
    BY <2>1, <1>1, <1>3 DEF AfterSecretWrite, Drop, IInv, TypeOK
<1>8. Settled' \subseteq Settled
  BY <1>3, <1>6, <1>7, SettledShrinks
<1>9. ASSUME NEW cred \in Credential
      PROVE  /\ Holds(cred)' => Holds(cred)
             /\ Holds(cred) => Holds(cred)' \/ cred.key = old
             /\ cred.model = m /\ cred.id = id => ~ Holds(cred)'
  <2>1. cred.model \in Models /\ cred.id \in ID /\ cred.key # NoKey
    BY NoKeyNotKey DEF Credential
  <2>2. QED
    BY <1>5, <2>1 DEF Holds
<1> HIDE DEF m, id, old
<1>10. CopiesCurrent'
  <2> SUFFICES ASSUME NEW d \in Calls
               PROVE  /\ call'[d].pc \in {"getConfigMap", "putSecret"}
                           /\ d \in secretCurrent'[call'[d].model]
                           => call'[d].secret = secret'[call'[d].model]
                      /\ call'[d].pc \in {"putSecret", "putConfigMap"}
                           /\ d \in metaCurrent'[call'[d].model]
                           => call'[d].meta = meta'[call'[d].model]
    BY DEF CopiesCurrent
  <2>1. CASE d = c
    BY <1>1, <1>3, <1>6, <1>7, <2>1 DEF IInv, CopiesCurrent, At, m
  <2>2. CASE d # c /\ ~ At(d, "idle")
    <3>1. call'[d] = call[d] /\ call[d].model \in Models
      BY <1>7, <2>2, RunningCall DEF IInv
    <3>2. CASE call[d].model = m
      BY <1>1, <1>3, <1>7, <3>1, <3>2 DEF IInv, TypeOK, CopiesCurrent, m
    <3>3. CASE call[d].model # m
      BY <1>1, <1>3, <1>5, <1>7, <3>1, <3>3 DEF IInv, TypeOK, CopiesCurrent, m
    <3>4. QED
      BY <3>2, <3>3
  <2>3. CASE d # c /\ At(d, "idle")
    BY <1>7, <2>3 DEF At
  <2>4. QED
    BY <2>1, <2>2, <2>3
<1>11. StoredIsMinted'
  <2>1. \A m2 \in Models : m2 \notin secretExists' => secret'[m2] = Nothing
    BY <1>2, <1>3, <1>5 DEF IInv, StoredIsMinted
  <2>2. \A m2 \in Models : \A i \in ID : secret'[m2][i] \in minted' \cup {NoKey}
    BY <1>3, <1>5 DEF IInv, StoredIsMinted
  <2>3. QED
    BY <1>3, <1>4, <2>1, <2>2 DEF IInv, StoredIsMinted
<1>12. KeyHeldOnce'
  BY <1>5 DEF IInv, KeyHeldOnce
<1>13. RetiredStaysRetired'
  <2> SUFFICES ASSUME NEW m2 \in Models, NEW i \in ID
               PROVE  secret'[m2][i] \notin retired'
    BY DEF RetiredStaysRetired
  <2>1. CASE m2 = m /\ i = id
    BY <1>3, <1>4, <1>5, <2>1, NoKeyNotKey DEF IInv, TypeOK
  <2>2. CASE ~ (m2 = m /\ i = id)
    <3>1. secret'[m2][i] = secret[m2][i]
      BY <1>5, <2>2
    <3>2. secret[m2][i] # old
      BY <1>1, <1>4, <2>2 DEF IInv, KeyHeldOnce, old, m
    <3>3. QED
      BY <1>3, <3>1, <3>2 DEF IInv, RetiredStaysRetired
  <2>3. QED
    BY <2>1, <2>2
<1>14. SettledIsMinted'
  BY <1>3, <1>8 DEF IInv, SettledIsMinted
<1>15. \A cred \in Settled' : cred \in Credential
  BY <1>8, SettledShape DEF IInv
<1>16. SettledIsListed'
  BY <1>3, <1>8, <1>9, <1>15 DEF IInv, SettledIsListed
<1>17. IssuedUntilRetired'
  BY <1>3, <1>9 DEF IInv, TypeOK, IssuedUntilRetired
<1>18. PendingCreate'
  <2> SUFFICES ASSUME NEW d \in Calls, ~ At(d, "idle")', Stored(d)'
               PROVE  /\ call'[d].key \in minted'
                      /\ Holds(CredentialOf(d))' \/ call'[d].key \in retired'
                      /\ At(d, "putConfigMap")' => call'[d].meta[Target(d)'] = NoKey
    BY DEF PendingCreate
  <2>1. d # c /\ call'[d] = call[d]
    BY <1>6, <1>7 DEF Stored
  <2>2. /\ ~ At(d, "idle") /\ Stored(d) /\ Target(d)' = Target(d)
        /\ CredentialOf(d)' = CredentialOf(d)
    BY <2>1 DEF At, Stored, Target, CredentialOf
  <2>3. CredentialOf(d) \in Credential /\ CredentialOf(d).key = call[d].key
    BY <2>2, RunningCall DEF IInv, CredentialOf
  <2> DEFINE cred == CredentialOf(d)
  <2>4. Holds(CredentialOf(d))' <=> secret'[cred.model][cred.id] = cred.key
    BY <2>2 DEF Holds
  <2>5. Holds(cred) => secret'[cred.model][cred.id] = cred.key \/ cred.key = old
    BY <1>5, <2>3 DEF Holds, Credential, old
  <2>6. QED
    BY <1>3, <2>1, <2>2, <2>3, <2>4, <2>5 DEF IInv, PendingCreate, At
<1>19. PendingRevoke'
  <2> SUFFICES ASSUME NEW d \in Calls, call'[d].pc = "putConfigMap",
                      call'[d].op = "revoke", d \in metaCurrent'[call'[d].model],
                      NEW cred \in Settled', cred.model = call'[d].model, cred.id = Target(d)'
               PROVE  ~ Holds(cred)'
    BY DEF PendingRevoke, At
  <2>1. CASE d = c
    <3>1. call'[c] = r
      BY <1>7, <2>1
    <3>2. Target(d)' = id /\ call'[d].model = m
      BY <1>6, <2>1, <3>1 DEF Target, id
    <3>3. QED
      BY <1>9, <1>15, <3>2
  <2>2. CASE d # c
    <3>1. call'[d] = call[d] /\ ~ At(d, "idle") /\ Target(d)' = Target(d)
      BY <1>7, <2>2 DEF At, Target
    <3>2. d \in metaCurrent[call[d].model]
      BY <1>7, <3>1, RunningCall DEF IInv
    <3>3. ~ Holds(cred)
      BY <1>8, <3>1, <3>2 DEF IInv, PendingRevoke, At
    <3>4. QED
      BY <1>9, <1>15, <3>3
  <2>3. QED
    BY <2>1, <2>2
<1>20. QED
  BY <1>10, <1>11, <1>12, <1>13, <1>14, <1>16, <1>17, <1>18, <1>19 DEF IInv

(***************************************************************************)
(* The ConfigMap write.  Its copy is the stored data, so one entry changes *)
(* and it describes no other settled credential.                           *)
(***************************************************************************)
LEMMA WriteConfigMapStep ==
  ASSUME IInv, TypeOK', NEW c \in Calls, WriteConfigMap(c)
  PROVE  IInv'
<1> DEFINE m == call[c].model
           id == Target(c)
           r == [call[c] EXCEPT !.pc = "returned", !.meta = Nothing]
<1>1. /\ call[c] \in Active /\ m \in Models /\ id \in ID
      /\ call[c].op \in {"create", "revoke"} /\ At(c, "putConfigMap") /\ ~ At(c, "idle")
      /\ call[c].meta \in Data
      /\ call[c].op = "create" => Stored(c) /\ call[c].key \in Keys
                                  /\ CredentialOf(c) \in Credential
  BY ActiveCall, RunningCall DEF WriteConfigMap, At, Stored, IInv
<1>2. m \in metaExists /\ c \in metaCurrent[m] /\ call[c].meta = meta[m]
  BY <1>1 DEF WriteConfigMap, ConfigMapAccepts, Missing, At, IInv, CopiesCurrent
<1>3. /\ meta' = [meta EXCEPT ![m] = NewMeta(c)]
      /\ metaCurrent' = [metaCurrent EXCEPT ![m] =
                           IF NewMeta(c) = meta[m] THEN @ \ {c} ELSE {}]
      /\ \/ call' = [call EXCEPT ![c].pc = "returned", ![c].meta = Nothing]
         \/ call' = [call EXCEPT ![c] = AfterError(c, "other")]
      /\ UNCHANGED <<secret, secretExists, metaExists, secretCurrent, minted, issued, retired>>
  BY DEF WriteConfigMap, history
<1>4. /\ \A m2 \in Models : m2 # m => meta'[m2] = meta[m2]
      /\ \A i \in ID : i # id => meta'[m][i] = meta[m][i]
      /\ meta'[m][id] = IF call[c].op = "create" THEN call[c].key ELSE NoKey
  BY <1>1, <1>2, <1>3 DEF IInv, TypeOK, Data, NewMeta
<1>5. call[c].op = "create" => /\ meta[m][id] = NoKey
                               /\ NewMeta(c) # meta[m]
  <2>1. call[c].op = "create" => meta[m][id] = NoKey
    BY <1>1, <1>2 DEF IInv, PendingCreate
  <2>2. call[c].op = "create" => NewMeta(c)[id] = call[c].key /\ call[c].key # NoKey
    BY <1>1, NoKeyNotKey DEF NewMeta, Data
  <2>3. QED
    BY <2>1, <2>2
<1>6. r.pc = "returned" /\ r.op = call[c].op /\ r.model = m /\ r.user = call[c].user
      /\ r.seq = call[c].seq /\ r.key = call[c].key
  BY <1>1 DEF Active
<1>7. /\ \A d \in Calls \ {c} : call'[d] = call[d]
      /\ call'[c] = r \/ call'[c].pc \in {"getSecret", "failed"}
  <2>1. AfterError(c, "other").pc \in {"getSecret", "failed"}
    BY <1>1, AfterErrorShape DEF IInv
  <2>2. call \in [Calls -> CallState]
    BY DEF IInv, TypeOK
  <2>3. CASE call' = [call EXCEPT ![c].pc = "returned", ![c].meta = Nothing]
    BY <2>2, <2>3
  <2>4. CASE call' = [call EXCEPT ![c] = AfterError(c, "other")]
    BY <2>1, <2>2, <2>4
  <2>5. QED
    BY <1>3, <2>3, <2>4
<1>8. \A m2 \in Models : /\ metaCurrent'[m2] \subseteq metaCurrent[m2]
                         /\ metaCurrent'[m2] # {} => meta'[m2] = meta[m2]
                         /\ m2 = m /\ metaCurrent'[m2] # {} => call[c].op = "revoke"
  BY <1>1, <1>3, <1>5 DEF IInv, TypeOK
<1> HIDE DEF r
<1>9. /\ CredentialOf(c).model = m /\ CredentialOf(c).id = id
      /\ CredentialOf(c).key = call[c].key
  BY DEF CredentialOf
<1> HIDE DEF m, id
<1>10. Settled' \subseteq Settled \cup (IF call[c].op = "create" THEN {CredentialOf(c)} ELSE {})
  <2> SUFFICES ASSUME NEW d \in Calls, At(d, "returned")', call'[d].op = "create"
               PROVE  \/ CredentialOf(d)' \in Settled
                      \/ call[c].op = "create" /\ CredentialOf(d)' = CredentialOf(c)
    BY <1>3 DEF Settled
  <2>1. CASE d = c
    BY <1>6, <1>7, <2>1 DEF At, CredentialOf, Target, m
  <2>2. CASE d # c
    <3>1. call'[d] = call[d] /\ CredentialOf(d)' = CredentialOf(d)
      BY <1>7, <2>2 DEF CredentialOf, Target
    <3>2. QED
      BY <3>1 DEF At, Settled
  <2>3. QED
    BY <2>1, <2>2
<1>11. \A cred : Holds(cred)' <=> Holds(cred)
  BY <1>3 DEF Holds
<1>12. CopiesCurrent'
  <2> SUFFICES ASSUME NEW d \in Calls
               PROVE  /\ call'[d].pc \in {"getConfigMap", "putSecret"}
                           /\ d \in secretCurrent'[call'[d].model]
                           => call'[d].secret = secret'[call'[d].model]
                      /\ call'[d].pc \in {"putSecret", "putConfigMap"}
                           /\ d \in metaCurrent'[call'[d].model]
                           => call'[d].meta = meta'[call'[d].model]
    BY DEF CopiesCurrent
  <2>1. CASE d = c
    BY <1>6, <1>7, <2>1
  <2>2. CASE d # c /\ ~ At(d, "idle")
    <3>1. call'[d] = call[d] /\ call[d].model \in Models
      BY <1>7, <2>2, RunningCall DEF IInv
    <3>2. QED
      BY <1>3, <1>8, <3>1 DEF IInv, CopiesCurrent
  <2>3. CASE d # c /\ At(d, "idle")
    BY <1>7, <2>3 DEF At
  <2>4. QED
    BY <2>1, <2>2, <2>3
<1>13. StoredIsMinted' /\ KeyHeldOnce' /\ RetiredStaysRetired' /\ IssuedUntilRetired'
  BY <1>3 DEF IInv, StoredIsMinted, KeyHeldOnce, RetiredStaysRetired,
              IssuedUntilRetired, Holds
<1>14. call[c].op = "create" =>
         /\ call[c].key \in minted
         /\ Holds(CredentialOf(c)) \/ call[c].key \in retired
  BY <1>1 DEF IInv, PendingCreate
<1>15. PendingCreate'
  <2> SUFFICES ASSUME NEW d \in Calls, ~ At(d, "idle")', Stored(d)'
               PROVE  /\ call'[d].key \in minted'
                      /\ Holds(CredentialOf(d))' \/ call'[d].key \in retired'
                      /\ At(d, "putConfigMap")' => call'[d].meta[Target(d)'] = NoKey
    BY DEF PendingCreate
  <2>1. CASE d = c
    <3>1. call'[c] = r /\ call[c].op = "create"
      BY <1>6, <1>7, <2>1 DEF Stored
    <3>2. CredentialOf(d)' = CredentialOf(c)
      BY <1>6, <2>1, <3>1 DEF CredentialOf, Target, m
    <3>3. Holds(CredentialOf(d))' <=> Holds(CredentialOf(c))
      BY <1>3, <3>2 DEF Holds
    <3>4. QED
      BY <1>3, <1>6, <1>14, <2>1, <3>1, <3>3 DEF At
  <2>2. CASE d # c
    <3>1. call'[d] = call[d]
      BY <1>7, <2>2
    <3>2. /\ ~ At(d, "idle") /\ Stored(d) /\ Target(d)' = Target(d)
          /\ CredentialOf(d)' = CredentialOf(d)
      BY <3>1 DEF At, Stored, Target, CredentialOf
    <3>3. QED
      BY <1>3, <3>1, <3>2 DEF IInv, PendingCreate, Holds, At
  <2>3. QED
    BY <2>1, <2>2
<1>16. PendingRevoke'
  <2> SUFFICES ASSUME NEW d \in Calls, call'[d].pc = "putConfigMap",
                      call'[d].op = "revoke", d \in metaCurrent'[call'[d].model],
                      NEW cred \in Settled', cred.model = call'[d].model, cred.id = Target(d)'
               PROVE  ~ Holds(cred)'
    BY DEF PendingRevoke, At
  <2>1. d # c /\ call'[d] = call[d] /\ ~ At(d, "idle") /\ Target(d)' = Target(d)
    BY <1>6, <1>7 DEF At, Target
  <2>2. call[d].model \in Models
    BY <2>1, RunningCall DEF IInv
  <2>3. d \in metaCurrent[call[d].model]
    BY <1>8, <2>1, <2>2
  <2>4. cred \in Settled
    BY <1>8, <1>9, <1>10, <2>1, <2>2
  <2>5. QED
    BY <1>11, <2>1, <2>3, <2>4 DEF IInv, PendingRevoke, At
<1>17. SettledIsMinted'
  BY <1>3, <1>9, <1>10, <1>14 DEF IInv, SettledIsMinted
<1>18. SettledIsListed'
  <2> SUFFICES ASSUME NEW cred \in Settled', Holds(cred)
               PROVE  meta'[cred.model][cred.id] = cred.key
    BY <1>11 DEF SettledIsListed
  <2>1. CASE cred \in Settled
    <3>1. cred \in Credential /\ meta[cred.model][cred.id] = cred.key /\ cred.key # NoKey
      BY <2>1, SettledShape, NoKeyNotKey DEF IInv, SettledIsListed, Credential
    <3>2. ~ (cred.model = m /\ cred.id = id)
      BY <1>1, <1>2, <1>5, <2>1, <3>1 DEF IInv, PendingRevoke, m, id
    <3>3. QED
      BY <1>4, <3>1, <3>2 DEF Credential
  <2>2. CASE cred \notin Settled
    BY <1>4, <1>9, <1>10, <2>2
  <2>3. QED
    BY <2>1, <2>2
<1>19. QED
  BY <1>12, <1>13, <1>15, <1>16, <1>17, <1>18 DEF IInv

\* Returning a result issues what the call had settled already.
LEMMA ReturnResultStep ==
  ASSUME IInv, TypeOK', NEW c \in Calls, ReturnResult(c)
  PROVE  IInv'
<1> USE DEF objects
<1>1. ~ At(c, "idle") /\ call[c].op \in {"create", "revoke"}
      /\ (call[c].op = "create" => Stored(c) /\ CredentialOf(c) \in Settled)
  BY RunningCall DEF ReturnResult, At, Stored, Settled, IInv
<1>2. /\ call'[c].pc = "idle"
      /\ \A d \in Calls \ {c} : call'[d] = call[d]
  BY DEF ReturnResult, Idle, IInv, TypeOK
<1>3. Settled' \subseteq Settled
  <2>1. issued' \subseteq Settled
    BY <1>1 DEF ReturnResult, Settled
  <2>2. ASSUME NEW d \in Calls, At(d, "returned")', call'[d].op = "create"
        PROVE  CredentialOf(d)' \in Settled
    BY <1>2, <2>2 DEF At, CredentialOf, Target, Settled
  <2>3. QED
    BY <2>1, <2>2 DEF Settled
<1>4. CopiesCurrent'
  <2> SUFFICES ASSUME NEW d \in Calls
               PROVE  /\ call'[d].pc \in {"getConfigMap", "putSecret"}
                           /\ d \in secretCurrent'[call'[d].model]
                           => call'[d].secret = secret'[call'[d].model]
                      /\ call'[d].pc \in {"putSecret", "putConfigMap"}
                           /\ d \in metaCurrent'[call'[d].model]
                           => call'[d].meta = meta'[call'[d].model]
    BY DEF CopiesCurrent
  <2>1. CASE d = c
    BY <1>2, <2>1
  <2>2. CASE d # c
    BY <1>2, <2>2 DEF ReturnResult, IInv, CopiesCurrent
  <2>3. QED
    BY <2>1, <2>2
<1>5. StoredIsMinted' /\ KeyHeldOnce' /\ RetiredStaysRetired'
  BY DEF ReturnResult, IInv, StoredIsMinted, KeyHeldOnce, RetiredStaysRetired
<1>6. IssuedUntilRetired'
  <2>1. call[c].op = "create" => Holds(CredentialOf(c)) \/ CredentialOf(c).key \in retired
    BY <1>1 DEF IInv, PendingCreate, CredentialOf
  <2>2. QED
    BY <1>1, <2>1 DEF ReturnResult, IInv, IssuedUntilRetired, Holds
<1>7. PendingCreate'
  BY <1>2, PendingCreateKept DEF ReturnResult
<1>8. PendingRevoke'
  BY <1>2, <1>3 DEF ReturnResult, IInv, PendingRevoke, Target, Holds, At
<1>9. SettledIsMinted' /\ SettledIsListed'
  BY <1>3 DEF ReturnResult, IInv, SettledIsMinted, SettledIsListed, Holds
<1>10. QED
  BY <1>4, <1>5, <1>6, <1>7, <1>8, <1>9 DEF IInv

(***************************************************************************)
(* The operator's steps leave the calls and what is settled alone.         *)
(***************************************************************************)
LEMMA OperatorSettled == ASSUME UNCHANGED <<call, issued>> PROVE Settled' = Settled
<1>1. \A c \in Calls : /\ CredentialOf(c)' = CredentialOf(c)
                       /\ At(c, "returned")' <=> At(c, "returned")
                       /\ call'[c].op = call[c].op
  BY DEF Target, CredentialOf, At
<1>2. QED
  BY <1>1 DEF Settled

\* Creating or relabelling an object keeps its data.
LEMMA OperatorKeepsStep ==
  ASSUME IInv, TypeOK', UNCHANGED <<call, history, secret, meta>>,
         secretExists \subseteq secretExists',
         \A m \in Models : /\ secretCurrent'[m] \subseteq secretCurrent[m]
                           /\ metaCurrent'[m] \subseteq metaCurrent[m]
  PROVE  IInv'
<1> USE DEF history
<1>1. Settled' = Settled
  BY OperatorSettled
<1>2. CopiesCurrent'
  <2> SUFFICES ASSUME NEW d \in Calls
               PROVE  /\ call[d].pc \in {"getConfigMap", "putSecret"}
                           /\ d \in secretCurrent'[call[d].model]
                           => call[d].secret = secret[call[d].model]
                      /\ call[d].pc \in {"putSecret", "putConfigMap"}
                           /\ d \in metaCurrent'[call[d].model]
                           => call[d].meta = meta[call[d].model]
    BY DEF CopiesCurrent
  <2>1. CASE ~ At(d, "idle")
    BY <2>1, RunningCall DEF IInv, CopiesCurrent
  <2>2. CASE At(d, "idle")
    BY <2>2 DEF At
  <2>3. QED
    BY <2>1, <2>2
<1>3. StoredIsMinted' /\ KeyHeldOnce' /\ RetiredStaysRetired' /\ IssuedUntilRetired'
  BY DEF IInv, StoredIsMinted, KeyHeldOnce, RetiredStaysRetired, IssuedUntilRetired, Holds
<1>4. PendingCreate'
  BY PendingCreateKept
<1>5. PendingRevoke'
  <2> SUFFICES ASSUME NEW d \in Calls, call'[d].pc = "putConfigMap",
                      call'[d].op = "revoke", d \in metaCurrent'[call'[d].model],
                      NEW cred \in Settled', cred.model = call'[d].model, cred.id = Target(d)'
               PROVE  ~ Holds(cred)'
    BY DEF PendingRevoke, At
  <2>1. call'[d] = call[d] /\ d \in metaCurrent[call[d].model]
    BY RunningCall DEF IInv, At
  <2>2. Target(d)' = Target(d)
    BY <2>1 DEF Target
  <2>3. QED
    BY <1>1, <2>1, <2>2 DEF IInv, PendingRevoke, At, Holds
<1>6. SettledIsMinted' /\ SettledIsListed'
  BY <1>1 DEF IInv, SettledIsMinted, SettledIsListed, Holds
<1>7. QED
  BY <1>2, <1>3, <1>4, <1>5, <1>6 DEF IInv

\* Deleting the Secret retires all it holds.
LEMMA OperatorDeletesSecretStep ==
  ASSUME IInv, TypeOK', NEW m \in Models, OperatorDeletesSecret(m)
  PROVE  IInv'
<1>1. /\ secret' = [secret EXCEPT ![m] = Nothing]
      /\ secretExists' = secretExists \ {m}
      /\ secretCurrent' = [secretCurrent EXCEPT ![m] = {}]
      /\ retired' = retired \cup KeysOf(secret[m])
      /\ UNCHANGED <<meta, metaExists, metaCurrent, call, minted, issued>>
  BY DEF OperatorDeletesSecret
<1>2. /\ \A m2 \in Models : m2 # m => secret'[m2] = secret[m2]
      /\ secret'[m] = Nothing
      /\ \A i \in ID : secret'[m][i] = NoKey
  BY <1>1 DEF IInv, TypeOK, Nothing
<1>3. Settled' = Settled
  BY <1>1, OperatorSettled
<1>4. ASSUME NEW cred \in Credential
      PROVE  /\ Holds(cred)' => Holds(cred)
             /\ Holds(cred) => Holds(cred)' \/ cred.key \in retired'
  <2>1. cred.model \in Models /\ cred.id \in ID /\ cred.key \in Keys /\ cred.key # NoKey
    BY NoKeyNotKey DEF Credential
  <2>2. CASE cred.model = m
    BY <1>1, <1>2, <2>1, <2>2 DEF Holds, KeysOf
  <2>3. CASE cred.model # m
    BY <1>2, <2>1, <2>3 DEF Holds
  <2>4. QED
    BY <2>2, <2>3
<1>5. CopiesCurrent'
  <2> SUFFICES ASSUME NEW d \in Calls
               PROVE  /\ call[d].pc \in {"getConfigMap", "putSecret"}
                           /\ d \in secretCurrent'[call[d].model]
                           => call[d].secret = secret'[call[d].model]
                      /\ call[d].pc \in {"putSecret", "putConfigMap"}
                           /\ d \in metaCurrent[call[d].model]
                           => call[d].meta = meta[call[d].model]
    BY <1>1 DEF CopiesCurrent
  <2>1. CASE ~ At(d, "idle")
    <3>1. call[d].model \in Models
      BY <2>1, RunningCall DEF IInv
    <3>2. CASE call[d].model = m
      BY <1>1, <3>1, <3>2 DEF IInv, TypeOK, CopiesCurrent
    <3>3. CASE call[d].model # m
      BY <1>1, <1>2, <3>1, <3>3 DEF IInv, TypeOK, CopiesCurrent
    <3>4. QED
      BY <3>2, <3>3
  <2>2. CASE At(d, "idle")
    BY <2>2 DEF At
  <2>3. QED
    BY <2>1, <2>2
<1>6. StoredIsMinted'
  <2>1. KeysOf(secret[m]) \subseteq minted
    BY NoKeyNotKey DEF KeysOf, IInv, StoredIsMinted
  <2>2. QED
    BY <1>1, <1>2, <2>1 DEF IInv, StoredIsMinted
<1>7. KeyHeldOnce'
  BY <1>2 DEF IInv, KeyHeldOnce
<1>8. RetiredStaysRetired'
  <2> SUFFICES ASSUME NEW m2 \in Models, NEW i \in ID
               PROVE  secret'[m2][i] \notin retired'
    BY DEF RetiredStaysRetired
  <2>1. CASE m2 = m
    BY <1>2, <2>1, NoKeyNotKey DEF TypeOK
  <2>2. CASE m2 # m
    <3>1. secret'[m2][i] = secret[m2][i] /\ secret[m2][i] \notin retired
      BY <1>2, <2>2 DEF IInv, RetiredStaysRetired
    <3>2. secret[m2][i] \notin KeysOf(secret[m])
      BY <2>2, NoKeyNotKey DEF IInv, KeyHeldOnce, KeysOf
    <3>3. QED
      BY <1>1, <3>1, <3>2
  <2>3. QED
    BY <2>1, <2>2
<1>9. IssuedUntilRetired'
  BY <1>1, <1>4 DEF IInv, TypeOK, IssuedUntilRetired
<1>10. PendingCreate'
  <2> SUFFICES ASSUME NEW d \in Calls, ~ At(d, "idle")', Stored(d)'
               PROVE  /\ call'[d].key \in minted'
                      /\ Holds(CredentialOf(d))' \/ call'[d].key \in retired'
                      /\ At(d, "putConfigMap")' => call'[d].meta[Target(d)'] = NoKey
    BY DEF PendingCreate
  <2>0. call'[d] = call[d]
    BY <1>1
  <2>1. /\ ~ At(d, "idle") /\ Stored(d)
        /\ Target(d)' = Target(d)
        /\ CredentialOf(d)' = CredentialOf(d)
    BY <2>0 DEF At, Stored, Target, CredentialOf
  <2>2. CredentialOf(d) \in Credential /\ CredentialOf(d).key = call[d].key
    BY <2>1, RunningCall DEF IInv, CredentialOf
  <2>3. Holds(CredentialOf(d)) \/ call[d].key \in retired
    BY <2>1 DEF IInv, PendingCreate
  <2>4. Holds(CredentialOf(d)) => Holds(CredentialOf(d))' \/ call[d].key \in retired'
    <3> DEFINE cred == CredentialOf(d)
    <3>1. Holds(CredentialOf(d))' <=> secret'[cred.model][cred.id] = cred.key
      BY <2>1 DEF Holds
    <3>2. Holds(cred) => secret'[cred.model][cred.id] = cred.key \/ cred.key \in retired'
      <4> HIDE DEF cred
      <4>1. cred \in Credential
        BY <2>2 DEF cred
      <4>2. QED
        BY <1>4, <4>1 DEF Holds
    <3>3. QED
      BY <2>2, <3>1, <3>2
  <2>5. call[d].key \in minted'
    BY <1>1, <2>1 DEF IInv, PendingCreate
  <2>6. At(d, "putConfigMap")' => call'[d].meta[Target(d)'] = NoKey
    BY <2>0, <2>1 DEF IInv, PendingCreate, At
  <2>7. QED
    BY <1>1, <2>0, <2>3, <2>4, <2>5, <2>6
<1>11. PendingRevoke'
  <2> SUFFICES ASSUME NEW d \in Calls, call'[d].pc = "putConfigMap",
                      call'[d].op = "revoke", d \in metaCurrent'[call'[d].model],
                      NEW cred \in Settled', cred.model = call'[d].model, cred.id = Target(d)'
               PROVE  ~ Holds(cred)'
    BY DEF PendingRevoke, At
  <2>1. cred \in Settled /\ cred \in Credential
    BY <1>3, SettledShape DEF IInv
  <2>2. ~ Holds(cred)
    <3>1. call'[d] = call[d] /\ Target(d)' = Target(d) /\ metaCurrent' = metaCurrent
      BY <1>1 DEF Target
    <3>2. QED
      BY <2>1, <3>1 DEF IInv, PendingRevoke, At
  <2>3. QED
    BY <1>4, <2>1, <2>2
<1>12. SettledIsMinted'
  BY <1>1, <1>3 DEF IInv, SettledIsMinted
<1>13. SettledIsListed'
  BY <1>1, <1>3, <1>4, SettledShape DEF IInv, SettledIsListed
<1>14. QED
  BY <1>5, <1>6, <1>7, <1>8, <1>9, <1>10, <1>11, <1>12, <1>13 DEF IInv

\* By the time the ConfigMap goes, the Secret is gone: nothing is held.
LEMMA OperatorDeletesConfigMapStep ==
  ASSUME IInv, TypeOK', NEW m \in Models, OperatorDeletesConfigMap(m)
  PROVE  IInv'
<1> USE DEF history
<1>1. /\ meta' = [meta EXCEPT ![m] = Nothing]
      /\ metaCurrent' = [metaCurrent EXCEPT ![m] = {}]
      /\ m \notin secretExists
      /\ UNCHANGED <<secret, secretExists, secretCurrent, call, history>>
  BY DEF OperatorDeletesConfigMap
<1>2. \A m2 \in Models : m2 # m => meta'[m2] = meta[m2]
  BY <1>1 DEF IInv, TypeOK
<1>3. \A i \in ID : secret[m][i] = NoKey
  BY <1>1 DEF IInv, StoredIsMinted, Nothing
<1>4. Settled' = Settled
  BY <1>1, OperatorSettled
<1>5. CopiesCurrent'
  <2> SUFFICES ASSUME NEW d \in Calls
               PROVE  /\ call[d].pc \in {"getConfigMap", "putSecret"}
                           /\ d \in secretCurrent[call[d].model]
                           => call[d].secret = secret[call[d].model]
                      /\ call[d].pc \in {"putSecret", "putConfigMap"}
                           /\ d \in metaCurrent'[call[d].model]
                           => call[d].meta = meta'[call[d].model]
    BY <1>1 DEF CopiesCurrent
  <2>1. CASE ~ At(d, "idle")
    <3>1. call[d].model \in Models
      BY <2>1, RunningCall DEF IInv
    <3>2. QED
      BY <1>1, <1>2, <3>1 DEF IInv, TypeOK, CopiesCurrent
  <2>2. CASE At(d, "idle")
    BY <2>2 DEF At
  <2>3. QED
    BY <2>1, <2>2
<1>6. StoredIsMinted' /\ KeyHeldOnce' /\ RetiredStaysRetired' /\ IssuedUntilRetired'
  BY <1>1 DEF IInv, StoredIsMinted, KeyHeldOnce, RetiredStaysRetired,
              IssuedUntilRetired, Holds
<1>7. PendingCreate'
  BY <1>1, PendingCreateKept
<1>8. PendingRevoke'
  <2> SUFFICES ASSUME NEW d \in Calls, call'[d].pc = "putConfigMap",
                      call'[d].op = "revoke", d \in metaCurrent'[call'[d].model],
                      NEW cred \in Settled', cred.model = call'[d].model, cred.id = Target(d)'
               PROVE  ~ Holds(cred)'
    BY DEF PendingRevoke, At
  <2>1. call'[d] = call[d] /\ call[d].model \in Models
    BY <1>1, RunningCall DEF IInv, At
  <2>2. d \in metaCurrent[call[d].model]
    BY <1>1, <2>1 DEF IInv, TypeOK
  <2>3. Target(d)' = Target(d)
    BY <2>1 DEF Target
  <2>4. QED
    BY <1>1, <1>4, <2>1, <2>2, <2>3 DEF IInv, PendingRevoke, At, Holds
<1>9. SettledIsMinted'
  BY <1>1, <1>4 DEF IInv, SettledIsMinted
<1>10. SettledIsListed'
  <2> SUFFICES ASSUME NEW cred \in Settled, Holds(cred)
               PROVE  meta'[cred.model][cred.id] = cred.key
    BY <1>1, <1>4 DEF SettledIsListed, Holds
  <2>1. cred \in Credential /\ cred.key # NoKey
    BY SettledShape, NoKeyNotKey DEF IInv, Credential
  <2>2. cred.model # m
    BY <1>3, <2>1 DEF Holds, Credential
  <2>3. QED
    BY <1>2, <2>1, <2>2 DEF IInv, SettledIsListed, Credential
<1>11. QED
  BY <1>5, <1>6, <1>7, <1>8, <1>9, <1>10 DEF IInv

(***************************************************************************)
(* Every step keeps the invariant: one step per action.                    *)
(***************************************************************************)
LEMMA FailStep ==
  ASSUME IInv, TypeOK', NEW c \in Calls, ~ At(c, "idle"),
         NEW err \in {"conflict", "notFound", "other"}, Fail(c, err),
         UNCHANGED <<objects, history>>
  PROVE  IInv'
<1>1. AfterError(c, err).pc \in {"getSecret", "failed"}
  BY AfterErrorShape DEF IInv
<1>2. \A d \in Calls : call'[d] = call[d] \/ call'[d].pc \in {"idle", "getSecret", "failed"}
  BY <1>1 DEF Fail, IInv, TypeOK
<1>3. \A m \in Models : /\ secretCurrent'[m] \subseteq secretCurrent[m]
                        /\ metaCurrent'[m] \subseteq metaCurrent[m]
  BY DEF Fail, Drop, IInv, TypeOK
<1>4. QED
  BY <1>2, <1>3, QuietStep

LEMMA OperatorStep ==
  ASSUME IInv, TypeOK', NEW m \in Models, Operator(m)
  PROVE  IInv'
<1>1. CASE OperatorCreatesSecret(m)
  BY <1>1, OperatorKeepsStep DEF OperatorCreatesSecret
<1>2. CASE OperatorCreatesConfigMap(m)
  BY <1>2, OperatorKeepsStep DEF OperatorCreatesConfigMap
<1>3. CASE OperatorRelabelsSecret(m)
  <2>1. secret' = secret /\ \A m2 \in Models : secretCurrent'[m2] \subseteq secretCurrent[m2]
    BY <1>3 DEF OperatorRelabelsSecret, IInv, TypeOK
  <2>2. QED
    BY <1>3, <2>1, OperatorKeepsStep DEF OperatorRelabelsSecret
<1>4. CASE OperatorRelabelsConfigMap(m)
  <2>1. meta' = meta /\ \A m2 \in Models : metaCurrent'[m2] \subseteq metaCurrent[m2]
    BY <1>4 DEF OperatorRelabelsConfigMap, IInv, TypeOK
  <2>2. QED
    BY <1>4, <2>1, OperatorKeepsStep DEF OperatorRelabelsConfigMap
<1>5. CASE OperatorDeletesSecret(m)
  BY <1>5, OperatorDeletesSecretStep
<1>6. CASE OperatorDeletesConfigMap(m)
  BY <1>6, OperatorDeletesConfigMapStep
<1>7. QED
  BY <1>1, <1>2, <1>3, <1>4, <1>5, <1>6 DEF Operator

LEMMA InvStep == IInv /\ [Next]_vars => IInv'
<1> SUFFICES ASSUME IInv, [Next]_vars PROVE IInv'
  OBVIOUS
<1>0. TypeOK /\ TypeOK'
  BY TypeStep DEF IInv
<1>1. ASSUME NEW c \in Calls, NEW m \in Models, NEW u \in Users, BeginCreate(c, m, u)
      PROVE  IInv'
  <2>1. Begin("create", m, u, 0).pc = "getSecret"
    BY DEF Begin
  <2>2. QED
    BY <1>0, <1>1, <2>1, QuietStep DEF BeginCreate, TypeOK
<1>2. ASSUME NEW c \in Calls, NEW m \in Models, NEW id \in ID, BeginRevoke(c, m, id)
      PROVE  IInv'
  <2>1. Begin("revoke", m, id[1], id[2]).pc = "getSecret"
    BY DEF Begin
  <2>2. QED
    BY <1>0, <1>2, <2>1, QuietStep DEF BeginRevoke, TypeOK
<1>3. ASSUME NEW c \in Calls, Step(c)
      PROVE  IInv'
  <2>1. CASE GetSecret(c)
    BY <1>0, <2>1, GetSecretStep
  <2>2. CASE GetConfigMap(c)
    BY <1>0, <2>2, GetConfigMapStep
  <2>3. CASE CreateWritesSecret(c)
    BY <1>0, <2>3, CreateWritesSecretStep
  <2>4. CASE RevokeWritesSecret(c)
    BY <1>0, <2>4, RevokeWritesSecretStep
  <2>5. CASE RevokeFindsNothing(c)
    BY <1>0, <2>5, FailStep DEF RevokeFindsNothing, At
  <2>6. CASE WriteConfigMap(c)
    BY <1>0, <2>6, WriteConfigMapStep
  <2>7. CASE Conflict(c)
    BY <1>0, <2>7, FailStep DEF Conflict, WritesSecret, At
  <2>8. CASE RequestFails(c)
    BY <1>0, <2>8, FailStep DEF RequestFails, WritesSecret, Requesting, At
  <2>9. CASE ReturnResult(c)
    BY <1>0, <2>9, ReturnResultStep
  <2>10. CASE ReturnError(c)
    BY <1>0, <2>10, QuietStep DEF ReturnError, TypeOK, Idle
  <2>11. QED
    BY <1>3, <2>1, <2>2, <2>3, <2>4, <2>5, <2>6, <2>7, <2>8, <2>9, <2>10 DEF Step
<1>4. ASSUME NEW m \in Models, Operator(m)
      PROVE  IInv'
  BY <1>0, <1>4, OperatorStep
<1>5. CASE Restart
  BY <1>0, <1>5, QuietStep DEF Restart, TypeOK, Idle
<1>6. CASE UNCHANGED vars
  <2>1. UNCHANGED <<objects, history, call, secretCurrent, metaCurrent>>
    BY <1>6 DEF vars
  <2>2. QED
    BY <1>0, <2>1, QuietStep
<1>7. QED
  BY <1>1, <1>2, <1>3, <1>4, <1>5, <1>6 DEF Next

LEMMA InvInit == Init => IInv
<1> SUFFICES ASSUME Init PROVE IInv
  OBVIOUS
<1>1. TypeOK
  BY DEF Init, TypeOK, CallState, Data, Nothing
<1>2. \A c \in Calls : call[c].pc = "idle"
  BY DEF Init, Idle
<1>3. Settled = {}
  BY <1>2 DEF Settled, At, Init
<1>4. \A m \in Models : \A id \in ID : secret[m][id] = NoKey
  BY DEF Init, Nothing
<1>5. CopiesCurrent /\ PendingCreate /\ PendingRevoke
  BY <1>2 DEF CopiesCurrent, PendingCreate, PendingRevoke, At
<1>6. StoredIsMinted /\ KeyHeldOnce /\ RetiredStaysRetired
  BY <1>4 DEF Init, StoredIsMinted, KeyHeldOnce, RetiredStaysRetired
<1>7. IssuedUntilRetired /\ SettledIsMinted /\ SettledIsListed
  BY <1>3 DEF Init, IssuedUntilRetired, SettledIsMinted, SettledIsListed
<1>8. QED
  BY <1>1, <1>5, <1>6, <1>7 DEF IInv

\* The inductive invariant holds in every reachable state.
THEOREM InvariantHolds == Spec => []IInv
BY InvInit, InvStep, PTL DEF Spec

\* A key CreateKey returned opens its ID until it is revoked or its model goes.
THEOREM IssuedKeysKept == Spec => []IssuedUntilRetired
<1>1. IInv => IssuedUntilRetired
  BY DEF IInv
<1>2. QED
  BY <1>1, InvariantHolds, PTL

\* A revoked key value never comes back.
THEOREM RetiredKeysGone == Spec => []RetiredStaysRetired
<1>1. IInv => RetiredStaysRetired
  BY DEF IInv
<1>2. QED
  BY <1>1, InvariantHolds, PTL

\* A key value opens one client ID of one model.
THEOREM KeysAreExclusive == Spec => []KeyHeldOnce
<1>1. IInv => KeyHeldOnce
  BY DEF IInv
<1>2. QED
  BY <1>1, InvariantHolds, PTL

\* A working key its owner holds is listed with its own metadata.
THEOREM IssuedKeysListed == Spec => []IssuedIsListed
<1>1. IInv => IssuedIsListed
  BY DEF IInv, SettledIsListed, Settled, IssuedIsListed
<1>2. QED
  BY <1>1, InvariantHolds, PTL

(***************************************************************************)
(* KeyStore implements KeyLedger: every step on the two objects of a model *)
(* is one step of the ledger, or none.  The map is the Secrets themselves. *)
(***************************************************************************)

\* A create's Secret write mints one credential under an ID that holds nothing.
LEMMA CreateMints ==
  ASSUME IInv, NEW c \in Calls, CreateWritesSecret(c)
  PROVE  \E cred \in Ledger!Credential : Ledger!Mint(cred)
<1> DEFINE m == call[c].model
<1>1. /\ m \in Models /\ call[c].user \in Users /\ secret \in [Models -> Data]
      /\ call[c].pc = "putSecret" /\ c \in secretCurrent[m]
  BY RunningCall DEF CreateWritesSecret, WritesSecret, SecretAccepts, At, IInv, TypeOK
<1>2. call[c].secret = secret[m]
  BY <1>1 DEF IInv, CopiesCurrent
<1>3. PICK n \in Seqs, k \in Keys \ minted :
        /\ IsSequence(c, n)
        /\ secret' = [secret EXCEPT ![m] = [call[c].secret EXCEPT ![<<call[c].user, n>>] = k]]
        /\ minted' = minted \cup {k}
  BY DEF CreateWritesSecret
<1> DEFINE id == <<call[c].user, n>>
           cred == [model |-> m, id |-> id, key |-> k]
<1>4. id \in ID /\ secret[m][id] = NoKey
  BY <1>1, <1>2, <1>3 DEF IsSequence, Unused, ID
<1>5. secret' = [secret EXCEPT ![m][id] = k]
  BY <1>1, <1>2, <1>3
<1>6. UNCHANGED <<issued, retired>>
  BY DEF CreateWritesSecret
<1>7. cred \in Ledger!Credential
  BY <1>1, <1>3, <1>4 DEF Ledger!Credential
<1>8. Ledger!Mint(cred)
  BY <1>3, <1>4, <1>5, <1>6 DEF Ledger!Mint
<1>9. QED
  BY <1>7, <1>8

\* A revoke's Secret write retires exactly one credential.
LEMMA RevokeRetires ==
  ASSUME IInv, NEW c \in Calls, RevokeWritesSecret(c)
  PROVE  \E cred \in Ledger!Credential : Ledger!Retire(cred)
<1> DEFINE m == call[c].model
           id == Target(c)
           cred == [model |-> m, id |-> id, key |-> secret[m][id]]
<1>1. /\ m \in Models /\ secret \in [Models -> Data]
      /\ call[c].pc = "putSecret" /\ c \in secretCurrent[m]
      /\ id \in ID
  BY RunningCall, ActiveCall
     DEF RevokeWritesSecret, WritesSecret, SecretAccepts, At, Target, ID, IInv, TypeOK
<1>2. call[c].secret = secret[m]
  BY <1>1 DEF IInv, CopiesCurrent
<1>3. secret[m][id] \in Keys
  BY <1>1, <1>2 DEF RevokeWritesSecret, WritesSecret, Data
<1>4. secret' = [secret EXCEPT ![m][id] = NoKey]
  BY <1>1, <1>2 DEF RevokeWritesSecret
<1>5. retired' = retired \cup {secret[m][id]} /\ UNCHANGED <<minted, issued>>
  BY <1>2 DEF RevokeWritesSecret
<1>6. cred \in Ledger!Credential
  BY <1>1, <1>3 DEF Ledger!Credential
<1>7. Ledger!Retire(cred)
  BY <1>4, <1>5 DEF Ledger!Retire, Ledger!Holds
<1>8. QED
  BY <1>6, <1>7

\* Returning from CreateKey issues a credential the ledger knows.
LEMMA ReturnIssues ==
  ASSUME IInv, NEW c \in Calls, ReturnResult(c)
  PROVE  \/ \E cred \in Ledger!Credential : Ledger!Issue(cred)
         \/ UNCHANGED <<secret, minted, issued, retired>>
<1>1. UNCHANGED <<secret, minted, retired>>
  BY DEF ReturnResult, objects
<1>2. CASE call[c].op = "create"
  <2>1. ~ At(c, "idle") /\ Stored(c)
    BY <1>2 DEF ReturnResult, At, Stored
  <2>2. CredentialOf(c) \in Ledger!Credential
    BY <2>1, RunningCall DEF IInv, Ledger!Credential, CredentialOf
  <2>3. Holds(CredentialOf(c)) \/ CredentialOf(c).key \in retired
    BY <2>1 DEF IInv, PendingCreate, CredentialOf
  <2>4. issued' = issued \cup {CredentialOf(c)}
    BY <1>2 DEF ReturnResult
  <2>5. Ledger!Issue(CredentialOf(c))
    BY <1>1, <2>3, <2>4 DEF Ledger!Issue, Ledger!Holds, Holds
  <2>6. QED
    BY <2>2, <2>5
<1>3. CASE call[c].op # "create"
  BY <1>1, <1>3 DEF ReturnResult
<1>4. QED
  BY <1>2, <1>3

\* Deleting the Secret of a model retires every credential of it.
LEMMA DeletionRetires ==
  ASSUME NEW m \in Models, OperatorDeletesSecret(m)
  PROVE  Ledger!RetireAll(m)
BY DEF OperatorDeletesSecret, Nothing, KeysOf, Ledger!RetireAll

\* Relabelling writes back the data the Secret has.
LEMMA RelabelKeepsData ==
  ASSUME TypeOK, NEW m \in Models, OperatorRelabelsSecret(m)
  PROVE  UNCHANGED <<secret, minted, issued, retired>>
BY DEF OperatorRelabelsSecret, TypeOK, history

LEMMA LedgerStep ==
  IInv /\ [Next]_vars => [Ledger!LedgerNext]_(Ledger!ledgerVars)
<1> SUFFICES ASSUME IInv, [Next]_vars
             PROVE  Ledger!LedgerNext \/ UNCHANGED <<secret, minted, issued, retired>>
  BY DEF Ledger!ledgerVars
<1>1. ASSUME NEW c \in Calls, Step(c)
      PROVE  Ledger!LedgerNext \/ UNCHANGED <<secret, minted, issued, retired>>
  <2>1. CASE CreateWritesSecret(c)
    BY <2>1, CreateMints DEF Ledger!LedgerNext
  <2>2. CASE RevokeWritesSecret(c)
    BY <2>2, RevokeRetires DEF Ledger!LedgerNext
  <2>3. CASE ReturnResult(c)
    BY <2>3, ReturnIssues DEF Ledger!LedgerNext
  <2>4. QED
    BY <1>1, <2>1, <2>2, <2>3
       DEF Step, GetSecret, GetConfigMap, RevokeFindsNothing, WriteConfigMap, Conflict,
           RequestFails, ReturnError, objects, history
<1>2. ASSUME NEW m \in Models, Operator(m)
      PROVE  Ledger!LedgerNext \/ UNCHANGED <<secret, minted, issued, retired>>
  <2>1. CASE OperatorDeletesSecret(m)
    BY <2>1, DeletionRetires DEF Ledger!LedgerNext
  <2>2. CASE OperatorRelabelsSecret(m)
    BY <2>2, RelabelKeepsData DEF IInv
  <2>3. QED
    BY <1>2, <2>1, <2>2
       DEF Operator, OperatorCreatesSecret, OperatorCreatesConfigMap,
           OperatorRelabelsConfigMap, OperatorDeletesConfigMap, history
<1>3. CASE \/ \E c \in Calls, m \in Models :
                \/ \E u \in Users : BeginCreate(c, m, u)
                \/ \E id \in ID : BeginRevoke(c, m, id)
           \/ Restart
           \/ UNCHANGED vars
  BY <1>3 DEF BeginCreate, BeginRevoke, Restart, vars, objects, history
<1>4. QED
  BY <1>1, <1>2, <1>3 DEF Next

\* The Secrets of the models, with the key-manager's calls and the operator
\* working on them, implement the ledger.
THEOREM StoreImplementsLedger == Spec => ImplementsLedger
<1>1. Init => Ledger!LedgerInit
  BY DEF Init, Ledger!LedgerInit, Nothing
<1>2. QED
  BY <1>1, LedgerStep, InvariantHolds, PTL DEF Spec, ImplementsLedger, Ledger!LedgerSpec
=============================================================================
