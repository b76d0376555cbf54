----------------------------- MODULE ClientIds ------------------------------
(***************************************************************************)
(* The client IDs of secrets.Manager, character by character               *)
(* (key-manager/internal/secrets/manager.go): createKeyOnce composes       *)
(* "user-<username>-<model>-<hash of both>-<number>", the names made fit   *)
(* for the data key of a Secret.  The gateway pools the Secrets of all     *)
(* models and authorizes by the ID, so an ID must name one user and model. *)
(*                                                                         *)
(* Usernames are any the identity provider gives out, one that holds the   *)
(* hash of somebody else's key included: hashes are characters like all    *)
(* others, and known to everyone who sees an ID.  Calls come one after the *)
(* other; KeyStore.tla has their requests and conflicts.                   *)
(***************************************************************************)
EXTENDS Naturals, Sequences, FiniteSets

CONSTANTS ValidBytes,  \* isValidDataKeyByte: letters, digits, "-", "." and "_"
          Bytes,       \* what names are made of
          Usernames,   \* usernames of tokens
          ModelNames,  \* names of LLMModels and PassthroughModels
          Digest,      \* shortHash: a function on <<name>> and <<username, model>>
          HashLen,     \* how many characters it yields: 32
          Decimal,     \* a function: the sequence numbers in digits
          MaxSeq,      \* bound: largest sequence number
          MaxMints,    \* bound: IDs handed out
          KeyLimit     \* the longest data key the API server takes: 253

Seqs == 1..MaxSeq
Pairs == Usernames \X ModelNames

ASSUME BoundsAreNats == {MaxSeq, MaxMints, KeyLimit, HashLen} \subseteq Nat

\* Handlers and Manager refuse an empty username, the API server an empty object name.
ASSUME NamesAreStrings == Usernames \cup ModelNames \subseteq Seq(Bytes) \ {<<>>}

\* What the code puts between the names is valid, digits and hex digits too.
ASSUME WrittenIsValid ==
  /\ {"u", "s", "e", "r", "a", "t", "-"} \subseteq ValidBytes
  /\ \A n \in Seqs : Decimal[n] \in Seq(ValidBytes \ {"-"})
  /\ \A p \in {<<s>> : s \in Usernames \cup ModelNames} \cup Pairs :
       Digest[p] \in Seq(ValidBytes) /\ Len(Digest[p]) = HashLen

\* "Collisions are computationally infeasible."
ASSUME DigestsDiffer == \A p, q \in Pairs : Digest[p] = Digest[q] => p = q

VARIABLES secret,   \* secret[m]: the data keys of <m>-api-keys
          meta,     \* meta[m]: those of <m>-api-key-metadata
          minted,   \* history: the IDs written, with what they were written for
          refused   \* history: the IDs the API server did not take

vars == <<secret, meta, minted, refused>>

\* isValidDataKeyName.
Valid(s) == s # <<>> /\ \A i \in DOMAIN s : s[i] \in ValidBytes

Dash == <<"-">>

\* "@" becomes "-at-", any other byte a data key cannot hold "-".
Replacement(ch) ==
  IF ch = "@" THEN <<"-", "a", "t", "-">> ELSE IF ch \in ValidBytes THEN <<ch>> ELSE Dash

\* The bytes replaced, one after the other.
Replaced(s) ==
  LET upTo[n \in 0..Len(s)] == IF n = 0 THEN <<>> ELSE upTo[n - 1] \o Replacement(s[n])
  IN  upTo[Len(s)]

\* Mutant of Sanitize: only "@" is looked for.
SanitizeAt(s) ==
  IF \A i \in DOMAIN s : s[i] # "@" THEN s ELSE Replaced(s) \o Dash \o Digest[<<s>>]

\* sanitizeUsernameForKey.
Sanitize(s) == IF Valid(s) THEN s ELSE Replaced(s) \o Dash \o Digest[<<s>>]

Front(u, m) == <<"u", "s", "e", "r", "-">> \o Sanitize(u) \o Dash \o Sanitize(m) \o Dash

\* Mutant of Prefix: the names alone (the bypass of issue #116).
PrefixOfNames(u, m) == Front(u, m)

\* Mutant of Prefix: the hash is of the model's name only.
PrefixOfModel(u, m) == Front(u, m) \o Digest[<<m>>] \o Dash

\* userPrefix.
Prefix(u, m) == Front(u, m) \o Digest[<<u, m>>] \o Dash

ClientID(u, m, n) == Prefix(u, m) \o Decimal[n]

HasPrefix(id, prefix) ==
  Len(prefix) <= Len(id) /\ SubSeq(id, 1, Len(prefix)) = prefix

\* The entries createKeyOnce counts: those of another user too whose name goes on as the
\* prefix does.
Count(u, m) == Cardinality({id \in secret[m] : HasPrefix(id, Prefix(u, m))})

Unused(u, m, n) == ClientID(u, m, n) \notin secret[m] \cup meta[m]

IsSequence(u, m, n) ==
  /\ n > Count(u, m)
  /\ Unused(u, m, n)
  /\ \A i \in Seqs : Count(u, m) < i /\ i < n => ~ Unused(u, m, i)

\* The API server's check of the keys of Secrets and ConfigMaps.
IsDataKey(id) == Valid(id) /\ Len(id) <= KeyLimit

\* createKeyOnce: the Secret is written, and then the ConfigMap unless that fails.
CreateKey(u, m) ==
  /\ \E n \in Seqs :
       LET id == ClientID(u, m, n)
       IN  /\ IsSequence(u, m, n) /\ IsDataKey(id)
           /\ secret' = [secret EXCEPT ![m] = @ \cup {id}]
           /\ meta' \in {meta, [meta EXCEPT ![m] = @ \cup {id}]}
           /\ minted' = minted \cup {[id |-> id, user |-> u, model |-> m]}
  /\ Cardinality(minted') <= MaxMints
  /\ UNCHANGED refused

\* The Secret's write is refused, and nothing written.
CreateRefused(u, m) ==
  /\ \E n \in Seqs :
       /\ IsSequence(u, m, n) /\ ~ IsDataKey(ClientID(u, m, n))
       /\ refused' = refused \cup {ClientID(u, m, n)}
  /\ UNCHANGED <<secret, meta, minted>>

\* revokeKeyOnce: here too the second write can fail.
RevokeKey(m, id) ==
  /\ id \in secret[m]
  /\ secret' = [secret EXCEPT ![m] = @ \ {id}]
  /\ meta' \in {meta, [meta EXCEPT ![m] = @ \ {id}]}
  /\ UNCHANGED <<minted, refused>>

\* The operator deletes both objects with their model, and makes them anew, empty.
ModelRecreated(m) ==
  /\ secret' = [secret EXCEPT ![m] = {}]
  /\ meta' = [meta EXCEPT ![m] = {}]
  /\ UNCHANGED <<minted, refused>>

Init ==
  /\ secret = [m \in ModelNames |-> {}]
  /\ meta = [m \in ModelNames |-> {}]
  /\ minted = {}
  /\ refused = {}

Next ==
  \E m \in ModelNames :
    \/ \E u \in Usernames : CreateKey(u, m) \/ CreateRefused(u, m)
    \/ \E id \in secret[m] : RevokeKey(m, id)
    \/ ModelRecreated(m)

Spec == Init /\ [][Next]_vars

(***************************************************************************)
(* Properties.                                                             *)
(***************************************************************************)

\* The Secrets of two models never hold the same ID, so that no key counts for a model it
\* was not made for when the gateway pools them (createKeyOnce; architecture.mdx: client
\* IDs are globally unique).
PooledIDsDiffer ==
  \A m, n \in ModelNames : m # n => secret[m] \cap secret[n] = {}

\* An ID is never written for two users or two models, not even after a revocation has freed
\* it: whoever is known to the gateway and in its log by an ID is one principal (createKeyOnce,
\* sanitizeUsernameForKey).
IDsNameOnePrincipal ==
  \A x, y \in minted : x.id = y.id => x = y

\* A create the API server refuses is refused for the length of its ID, never for what a
\* username is made of (sanitizeUsernameForKey; SSO usernames are mail addresses).
RefusedForLength == \A id \in refused : Len(id) > KeyLimit

\* Why they hold: what is written was composed by ClientID, and a Secret holds what was
\* written for its model.
Composed ==
  /\ secret \in [ModelNames -> SUBSET Seq(ValidBytes)]
  /\ meta \in [ModelNames -> SUBSET Seq(ValidBytes)]
  /\ \A x \in minted :
       \E u \in Usernames, m \in ModelNames, n \in Seqs :
         x = [id |-> ClientID(u, m, n), user |-> u, model |-> m]
  /\ \A m \in ModelNames : \A id \in secret[m] :
       \E x \in minted : x.id = id /\ x.model = m

IInv == Composed /\ RefusedForLength
=============================================================================
