----------------------------- MODULE KeyLedger -----------------------------
(***************************************************************************)
(* What the API-key manager promises its callers, with no Secret, no       *)
(* ConfigMap and no concurrency: a ledger of credentials.                  *)
(*                                                                         *)
(* A credential is a key value held under a client ID of one model.  It is *)
(* minted once under an unused ID, may be handed to its owner, and may be  *)
(* retired; a retired value never comes back.  KeyStore implements this    *)
(* ledger with two Kubernetes objects per model and optimistic writes.     *)
(***************************************************************************)
CONSTANTS Models,   \* model names
          ID,       \* client IDs a model's Secret may hold
          Keys,     \* key values the generator can return
          NoKey     \* marks an ID that holds no credential

VARIABLES live,     \* live[m][id]: the key value gateways accept for id
          minted,   \* key values generated so far
          issued,   \* credentials handed to a caller
          retired   \* key values withdrawn for good

ledgerVars == <<live, minted, issued, retired>>

Credential == [model : Models, id : ID, key : Keys]

Holds(c) == live[c.model][c.id] = c.key

LedgerInit ==
  /\ live = [m \in Models |-> [id \in ID |-> NoKey]]
  /\ minted = {}
  /\ issued = {}
  /\ retired = {}

\* A fresh key value is stored under an ID that holds nothing.
Mint(c) ==
  /\ live[c.model][c.id] = NoKey
  /\ c.key \notin minted
  /\ live' = [live EXCEPT ![c.model][c.id] = c.key]
  /\ minted' = minted \cup {c.key}
  /\ UNCHANGED <<issued, retired>>

\* The owner learns the credential; by then it may already be retired.
Issue(c) ==
  /\ Holds(c) \/ c.key \in retired
  /\ issued' = issued \cup {c}
  /\ UNCHANGED <<live, minted, retired>>

\* Exactly one credential is withdrawn.
Retire(c) ==
  /\ Holds(c)
  /\ live' = [live EXCEPT ![c.model][c.id] = NoKey]
  /\ retired' = retired \cup {c.key}
  /\ UNCHANGED <<minted, issued>>

\* The model is deleted and every credential of it with it.
RetireAll(m) ==
  /\ live' = [live EXCEPT ![m] = [id \in ID |-> NoKey]]
  /\ retired' = retired \cup {k \in Keys : \E id \in ID : live[m][id] = k}
  /\ UNCHANGED <<minted, issued>>

LedgerNext ==
  \/ \E c \in Credential : Mint(c) \/ Issue(c) \/ Retire(c)
  \/ \E m \in Models : RetireAll(m)

LedgerSpec == LedgerInit /\ [][LedgerNext]_ledgerVars
=============================================================================
