--------------------------- MODULE AdmissionProofs ---------------------------
(***************************************************************************)
(* Proofs about Admission, for any names, users, groups and                *)
(* specifications and any bound on the edits.                              *)
(*                                                                         *)
(* The argument: a copy that has the stored resourceVersion is the object, *)
(* so a controller's request for the finalizer that is still current keeps *)
(* its object in existence, and the webhook refuses the twin's; once the   *)
(* finalizer is stored, the twin's request can only have been admitted     *)
(* before this object existed, and then it is not current.                 *)
(***************************************************************************)
EXTENDS Admission, TLAPS

(***************************************************************************)
(* The inductive invariant.                                                *)
(***************************************************************************)

\* A cached copy with the stored resourceVersion is the object.
CopiesFresh == \A o \in fresh : seen[o] = object[o]

\* Who makes which requests, and what a request that is current says of its object.
Fits(c) ==
  call[c] # Idle =>
    LET r == call[c] IN
    /\ c \in Users => r.op \in {"create", "update"}
    /\ c \in Kinds => r.op \in Ops \ {"create", "update"} /\ r.object[1] = c
    /\ r.current /\ r.op # "create" => object[r.object].exists
    /\ r.current /\ r.op = "addFinalizer" =>
         ~object[r.object].finalizer /\ ~object[r.object].deleting
    /\ r.current /\ r.op \in {"clean", "removeFinalizer"} =>
         Held(r.object) /\ object[r.object].deleting

CallsFit == \A c \in Clients : Fits(c)

\* The request for o's finalizer that can still be stored.
Admitted(o) ==
  LET r == call[o[1]] IN
  r # Idle /\ r.op = "addFinalizer" /\ r.object = o /\ r.step = "admitted" /\ r.current

\* It excludes that its twin has the finalizer, or could still get it.
AdmittedAlone == \A o \in Objects : Admitted(o) => ~Held(Twin(o)) /\ ~Admitted(Twin(o))

\* Creations under way, and the ones that were admitted too early, are known to race.
CreatesAt(c, o) == call[c] # Idle /\ call[c].op = "create" /\ call[c].object = o
RacesKnown ==
  \A c \in Users, o \in Objects : CreatesAt(c, o) =>
    /\ Creating(Twin(o)) => o[2] \in raced
    /\ call[c].step = "admitted" /\ object[Twin(o)].exists => o[2] \in raced

IInv ==
  /\ TypeOK /\ CopiesFresh /\ CallsFit
  /\ AdmittedAlone /\ OneFinalizer /\ RacesKnown /\ OnlyRacesCollide

(***************************************************************************)
(* Shapes.                                                                 *)
(***************************************************************************)
LEMMA TwinShape ==
  ASSUME NEW o \in Objects
  PROVE  /\ Twin(o) \in Objects /\ Twin(Twin(o)) = o /\ Twin(o) # o
         /\ Twin(o)[2] = o[2] /\ o = <<o[1], o[2]>>
         /\ o[1] \in Kinds /\ o[2] \in Names
BY DEF Twin, Other, Objects, Kinds

LEMMA AskingShape ==
  ASSUME NEW op \in Ops, NEW o \in Objects, NEW s \in Specs
  PROVE  /\ Asking(op, o, s) \in Call
         /\ Asking(op, o, s) # Idle
         /\ Asking(op, o, s).op = op /\ Asking(op, o, s).object = o
         /\ Asking(op, o, s).step = "asked" /\ Asking(op, o, s).current
BY DEF Asking, Call, Ops, Idle

\* A controller asks as its copy says.
LEMMA AskingCopy ==
  ASSUME TypeOK, NEW op \in Ops, NEW o \in Objects, seen[o].exists
  PROVE  /\ AskingAsSeen(op, o) \in Call /\ AskingAsSeen(op, o) # Idle
         /\ AskingAsSeen(op, o).op = op /\ AskingAsSeen(op, o).object = o
         /\ AskingAsSeen(op, o).spec = seen[o].spec
         /\ AskingAsSeen(op, o).step = "asked"
         /\ AskingAsSeen(op, o).current <=> o \in fresh
<1>1. seen[o] \in Object
  BY DEF TypeOK, Absent
<1>2. seen[o].spec \in Specs
  BY <1>1 DEF Object
<1>3. AskingAsSeen(op, o).op = op /\ AskingAsSeen(op, o) # Idle
  <2>1. AskingAsSeen(op, o).op = op
    BY DEF AskingAsSeen
  <2>2. Idle.op \notin Ops
    BY DEF Idle, Ops
  <2>3. QED
    BY <2>1, <2>2
<1>4. AskingAsSeen(op, o) \in Call
  <2>1. CASE o \in fresh
    <3>1. AskingAsSeen(op, o) = [op |-> op, object |-> o, spec |-> seen[o].spec,
                                 step |-> "asked", current |-> TRUE]
      BY <2>1, Zenon DEF AskingAsSeen
    <3>2. QED
      BY <1>2, <3>1 DEF Call
  <2>2. CASE o \notin fresh
    <3>1. AskingAsSeen(op, o) = [op |-> op, object |-> o, spec |-> seen[o].spec,
                                 step |-> "asked", current |-> FALSE]
      <4>1. (o \in fresh) = FALSE
        BY <2>2
      <4>2. QED
        BY <4>1, Zenon DEF AskingAsSeen
    <3>2. QED
      BY <1>2, <3>1 DEF Call
  <2>3. QED
    BY <2>1, <2>2
<1>5. QED
  BY <1>3, <1>4 DEF AskingAsSeen

\* A request that is under way is a record.
LEMMA UnderWay ==
  ASSUME TypeOK, NEW c \in Clients, call[c] # Idle
  PROVE  /\ call[c] \in Call /\ call[c].object \in Objects
         /\ call[c].op \in Ops /\ call[c].spec \in Specs
BY DEF TypeOK, Call

LEMMA DoesSomething ==
  ASSUME TypeOK, NEW c \in Clients, NEW op \in Ops, Does(c, op)
  PROVE  call[c] # Idle /\ call[c] \in Call /\ call[c].object \in Objects
BY UnderWay DEF Does, Idle, Ops

\* An object that is there is a record.
LEMMA Present ==
  ASSUME TypeOK, NEW o \in Objects, object[o].exists
  PROVE  object[o] \in Object
BY DEF TypeOK, Absent

LEMMA OutdatedShape ==
  ASSUME NEW r \in Call \cup {Idle}, NEW o
  PROVE  /\ Outdated(r, o) \in Call \cup {Idle}
         /\ Outdated(r, o) = Idle <=> r = Idle
         /\ r # Idle => /\ Outdated(r, o).op = r.op /\ Outdated(r, o).object = r.object
                        /\ Outdated(r, o).step = r.step
                        /\ Outdated(r, o).current => r.current /\ r.object # o
BY DEF Outdated, Call, Idle, Ops

\* What a request that ends with a store does to the others.
LEMMA EndsWithShape ==
  ASSUME TypeOK, NEW c \in Clients, NEW o \in Objects, EndsWith(c, o)
  PROVE  /\ call' \in [Clients -> Call \cup {Idle}]
         /\ call'[c] = Idle
         /\ \A d \in Clients \ {c} : call'[d] = Outdated(call[d], o)
BY OutdatedShape DEF EndsWith, TypeOK

(***************************************************************************)
(* Types.                                                                  *)
(***************************************************************************)
LEMMA ClientKinds ==
  /\ \A k \in Kinds : k \in Clients /\ k \notin Users
  /\ \A c \in Users : c \in Clients /\ c \notin Kinds
BY UsersAreNoKinds DEF Clients

\* The object of a request that is current is there.
LEMMA ObjectOfCall ==
  ASSUME TypeOK, CallsFit, NEW c \in Clients, call[c] # Idle, call[c].op # "create",
         call[c].current
  PROVE  object[call[c].object] \in Object
<1>1. object[call[c].object].exists
  BY DEF CallsFit, Fits
<1>2. QED
  BY <1>1, UnderWay, Present

LEMMA InitTypeOK == Init => TypeOK
BY EditsAreNat DEF Init, TypeOK, Absent

LEMMA EditBound == ASSUME Edit, edits \in 0..MaxEdits PROVE edits' \in 0..MaxEdits
BY EditsAreNat DEF Edit

LEMMA TypeStep == TypeOK /\ CallsFit /\ [Next]_vars => TypeOK'
<1> SUFFICES ASSUME TypeOK, CallsFit, [Next]_vars PROVE TypeOK'
  OBVIOUS
<1> USE ClientKinds
<1>1. ASSUME NEW c \in Users, NEW o \in Objects, NEW s \in Specs, AskCreate(c, o, s)
      PROVE  TypeOK'
  <2>1. Asking("create", o, s) \in Call
    BY AskingShape DEF Ops
  <2>2. o[2] \in Names
    BY TwinShape
  <2>3. QED
    BY <1>1, <2>1, <2>2, EditBound DEF AskCreate, TypeOK, cache
<1>2. ASSUME NEW c \in Users, NEW o \in Objects, NEW s \in Specs, AskUpdate(c, o, s)
      PROVE  TypeOK'
  <2>1. Asking("update", o, s) \in Call
    BY AskingShape DEF Ops
  <2>2. QED
    BY <1>2, <2>1, EditBound DEF AskUpdate, TypeOK, cache
<1>3. ASSUME NEW c \in Users, StoreCreate(c) PROVE TypeOK'
  <2>1. call[c] # Idle /\ call[c].object \in Objects /\ call[c].spec \in Specs
    BY <1>3, DoesSomething, UnderWay DEF StoreCreate, Ops
  <2>2. [exists |-> TRUE, spec |-> call[c].spec, finalizer |-> FALSE, deleting |-> FALSE] \in Object
    BY <2>1 DEF Object
  <2>3. QED
    BY <1>3, <2>1, <2>2, EndsWithShape DEF StoreCreate, Store, TypeOK
<1>4. ASSUME NEW c \in Users, StoreUpdate(c) PROVE TypeOK'
  <2>1. call[c] # Idle /\ call[c].object \in Objects /\ call[c].spec \in Specs
        /\ call[c].op = "update"
    BY <1>4, DoesSomething, UnderWay DEF StoreUpdate, Ops, Does
  <2>2. object[call[c].object] \in Object
    BY <1>4, <2>1, ObjectOfCall DEF StoreUpdate
  <2>3. [object[call[c].object] EXCEPT !.spec = call[c].spec] \in Object
    BY <2>1, <2>2 DEF Object
  <2>4. QED
    BY <1>4, <2>1, <2>3, EndsWithShape DEF StoreUpdate, Store, TypeOK
<1>5. ASSUME NEW o \in Objects, Delete(o) PROVE TypeOK'
  <2>1. object[o] \in Object
    BY <1>5, Present DEF Delete
  <2>2. Deleted(object[o]) \in Object \cup {Absent}
    BY <2>1 DEF Deleted, Object
  <2>3. QED
    BY <1>5, <2>2, OutdatedShape DEF Delete, Store, TypeOK
<1>6. CASE Relabel
  BY <1>6, EditBound DEF Relabel, TypeOK, cache
<1>7. ASSUME NEW k \in Kinds, NEW n \in Names,
             AskAddFinalizer(k, n) \/ BeginProvision(k, n) \/ BeginDelete(k, n)
      PROVE  TypeOK'
  <2>1. <<k, n>> \in Objects
    BY DEF Objects
  <2>2. seen[<<k, n>>].exists
    BY <1>7 DEF AskAddFinalizer, BeginProvision, BeginDelete
  <2>3. \A op \in Ops : AskingAsSeen(op, <<k, n>>) \in Call
    BY <2>1, <2>2, AskingCopy
  <2>4. {"addFinalizer", "provision", "clean"} \subseteq Ops
    BY DEF Ops
  <2>5. QED
    BY <1>7, <2>3, <2>4 DEF AskAddFinalizer, BeginProvision, BeginDelete, TypeOK, cache
<1>8. ASSUME NEW k \in Kinds, StoreFinalizer(k) PROVE TypeOK'
  <2>1. call[k] # Idle /\ call[k].object \in Objects /\ call[k].op = "addFinalizer"
    BY <1>8, DoesSomething DEF StoreFinalizer, Ops, Does
  <2>2. object[call[k].object] \in Object
    BY <1>8, <2>1, ObjectOfCall DEF StoreFinalizer
  <2>3. [object[call[k].object] EXCEPT !.finalizer = TRUE] \in Object
    BY <2>2 DEF Object
  <2>4. QED
    BY <1>8, <2>1, <2>3, EndsWithShape DEF StoreFinalizer, Store, TypeOK
<1>9. ASSUME NEW k \in Kinds, WriteSecret(k) PROVE TypeOK'
  <2>1. call[k].object \in Objects
    BY <1>9, DoesSomething DEF WriteSecret, Ops
  <2>2. call[k].object[2] \in Names
    BY <2>1, TwinShape
  <2>3. QED
    BY <1>9, <2>2 DEF WriteSecret, Finish, TypeOK, cache
<1>10. ASSUME NEW k \in Kinds, DeleteSecret(k) PROVE TypeOK'
  <2>1. call[k] \in Call
    BY <1>10, DoesSomething DEF DeleteSecret, Ops
  <2>2. [call[k] EXCEPT !.op = "removeFinalizer"] \in Call
    BY <2>1 DEF Call, Ops
  <2>3. QED
    BY <1>10, <2>2 DEF DeleteSecret, TypeOK, cache
<1>11. ASSUME NEW k \in Kinds, StoreRemoval(k) PROVE TypeOK'
  <2>1. call[k].object \in Objects
    BY <1>11, DoesSomething DEF StoreRemoval, Ops
  <2>2. QED
    BY <1>11, <2>1, EndsWithShape DEF StoreRemoval, Store, TypeOK
<1>12. ASSUME NEW c \in Clients, CheckNamespace(c) \/ CheckName(c) PROVE TypeOK'
  <2>1. call[c] \in Call
    BY <1>12, UnderWay DEF CheckNamespace, CheckName, NeedsAdmission, Idle
  <2>2. \A step \in {"labelled", "admitted"} : [call[c] EXCEPT !.step = step] \in Call
    BY <2>1 DEF Call
  <2>3. QED
    BY <1>12, <2>2 DEF CheckNamespace, CheckName, Advance, TypeOK, cache
<1>13. ASSUME NEW c \in Clients, Refused(c) PROVE TypeOK'
  BY <1>13 DEF Refused, Finish, TypeOK, cache
<1>14. CASE Restart
  BY <1>14, EditBound DEF Restart, TypeOK, cache
<1>15. CASE UNCHANGED vars
  BY <1>15 DEF vars, cache, TypeOK
<1>16. ASSUME NEW o \in Objects, SeeObject(o) PROVE TypeOK'
  BY <1>16 DEF SeeObject, TypeOK
<1>17. QED
  BY <1>1, <1>2, <1>3, <1>4, <1>5, <1>6, <1>7, <1>8, <1>9, <1>10, <1>11, <1>12, <1>13,
     <1>14, <1>15, <1>16 DEF Next, UserStep, ControllerStep

\* What is stored makes the copies of it old.
LEMMA CopyStep == TypeOK /\ CopiesFresh /\ [Next]_vars => CopiesFresh'
<1> SUFFICES ASSUME TypeOK, CopiesFresh, [Next]_vars PROVE CopiesFresh'
  OBVIOUS
<1>1. ASSUME UNCHANGED <<object, cache>> PROVE CopiesFresh'
  BY <1>1 DEF CopiesFresh, cache
<1>2. ASSUME NEW o, NEW x, Store(o, x) PROVE CopiesFresh'
  BY <1>2 DEF CopiesFresh, Store, TypeOK
<1>3. ASSUME NEW o \in Objects, SeeObject(o) PROVE CopiesFresh'
  BY <1>3 DEF CopiesFresh, SeeObject, TypeOK
<1>4. QED
  BY <1>1, <1>2, <1>3
     DEF Next, UserStep, ControllerStep, vars, AskCreate, AskUpdate, StoreCreate, StoreUpdate,
         Delete, Relabel, AskAddFinalizer, BeginProvision, BeginDelete, StoreFinalizer,
         WriteSecret, DeleteSecret, StoreRemoval, CheckNamespace, CheckName, Refused, Restart

(***************************************************************************)
(* Requests fit their objects.                                             *)
(***************************************************************************)

\* A store leaves every other request fitting: those for the object are outdated.
LEMMA StoreFits ==
  ASSUME TypeOK, CallsFit, NEW d \in Clients, NEW o \in Objects,
         call'[d] = Outdated(call[d], o),
         \A p \in Objects : p # o => object'[p] = object[p]
  PROVE  Fits(d)'
<1>1. call[d] \in Call \cup {Idle}
  BY DEF TypeOK
<1>2. CASE call[d] = Idle
  BY <1>1, <1>2, OutdatedShape DEF Fits
<1>3. CASE call[d] # Idle
  <2>1. /\ call'[d] # Idle /\ call'[d].op = call[d].op /\ call'[d].object = call[d].object
        /\ call'[d].current => call[d].current /\ call[d].object # o
    BY <1>1, <1>3, OutdatedShape
  <2>2. call[d].object \in Objects
    BY <1>3, UnderWay
  <2>3. Fits(d)
    BY DEF CallsFit
  <2>4. QED
    BY <1>3, <2>1, <2>2, <2>3 DEF Fits, Held
<1>4. QED
  BY <1>2, <1>3

\* So does a request that ends, when no object changes.
LEMMA SameFits ==
  ASSUME CallsFit, NEW d \in Clients, UNCHANGED object,
         call'[d] = call[d] \/ call'[d] = Idle
  PROVE  Fits(d)'
BY DEF CallsFit, Fits, Held

LEMMA FitStep == TypeOK /\ CopiesFresh /\ CallsFit /\ [Next]_vars => CallsFit'
<1> SUFFICES ASSUME TypeOK, CopiesFresh, CallsFit, [Next]_vars, NEW d \in Clients
             PROVE  Fits(d)'
  BY DEF CallsFit
<1> USE ClientKinds
<1>1. ASSUME NEW c \in Users, NEW o \in Objects, NEW s \in Specs,
             AskCreate(c, o, s) \/ AskUpdate(c, o, s)
      PROVE  Fits(d)'
  <2>1. CASE d = c
    <3>1. \/ AskCreate(c, o, s) /\ call'[c] = Asking("create", o, s) /\ UNCHANGED object
          \/ AskUpdate(c, o, s) /\ call'[c] = Asking("update", o, s) /\ UNCHANGED object
      BY <1>1 DEF AskCreate, AskUpdate, TypeOK
    <3>2. Asking("create", o, s).op = "create" /\ Asking("update", o, s).op = "update"
          /\ Asking("update", o, s).object = o
      BY DEF Asking
    <3>3. QED
      BY <2>1, <3>1, <3>2 DEF Fits, AskUpdate
  <2>2. CASE d # c
    BY <1>1, <2>2, SameFits DEF AskCreate, AskUpdate, TypeOK
  <2>3. QED
    BY <2>1, <2>2
<1>2. ASSUME NEW c \in Users, StoreCreate(c) PROVE Fits(d)'
  <2>1. call[c] # Idle /\ call[c].object \in Objects
    BY <1>2, DoesSomething DEF StoreCreate, Ops
  <2>2. CASE d = c
    BY <1>2, <2>1, <2>2, EndsWithShape DEF StoreCreate, Fits
  <2>3. CASE d # c
    BY <1>2, <2>1, <2>3, EndsWithShape, StoreFits DEF StoreCreate, Store, TypeOK
  <2>4. QED
    BY <2>2, <2>3
<1>3. ASSUME NEW c \in Users, StoreUpdate(c) PROVE Fits(d)'
  <2>1. call[c] # Idle /\ call[c].object \in Objects /\ call[c].op = "update"
    BY <1>3, DoesSomething DEF StoreUpdate, Ops, Does
  <2>2. CASE d = c
    BY <1>3, <2>1, <2>2, EndsWithShape DEF StoreUpdate, Fits
  <2>3. CASE d # c
    BY <1>3, <2>1, <2>3, EndsWithShape, StoreFits DEF StoreUpdate, Store, TypeOK
  <2>4. QED
    BY <2>2, <2>3
<1>4. ASSUME NEW o \in Objects, Delete(o) PROVE Fits(d)'
  BY <1>4, StoreFits DEF Delete, Store, TypeOK
<1>5. CASE Relabel
  BY <1>5, SameFits DEF Relabel
<1>6. ASSUME NEW k \in Kinds, NEW n \in Names,
             AskAddFinalizer(k, n) \/ BeginProvision(k, n) \/ BeginDelete(k, n)
      PROVE  Fits(d)'
  <2>1. CASE d = k
    <3> DEFINE o == <<k, n>>
    <3>0. o \in Objects /\ seen[o].exists
      BY <1>6 DEF Objects, AskAddFinalizer, BeginProvision, BeginDelete
    <3>1. /\ UNCHANGED object
          /\ \/ /\ call'[k] = AskingAsSeen("addFinalizer", o)
                /\ ~seen[o].finalizer /\ ~seen[o].deleting
             \/ call'[k] = AskingAsSeen("provision", o)
             \/ /\ call'[k] = AskingAsSeen("clean", o)
                /\ seen[o].deleting /\ seen[o].finalizer
      BY <1>6 DEF AskAddFinalizer, BeginProvision, BeginDelete, TypeOK
    <3>2. \A op \in Ops : /\ AskingAsSeen(op, o).op = op /\ AskingAsSeen(op, o).object = o
                          /\ AskingAsSeen(op, o).current => seen[o] = object[o]
      BY <3>0, AskingCopy DEF CopiesFresh
    <3>3. {"addFinalizer", "provision", "clean"} \subseteq Ops \ {"create", "update"}
      BY DEF Ops
    <3>4. QED
      BY <2>1, <3>0, <3>1, <3>2, <3>3 DEF Fits, Held
  <2>2. CASE d # k
    BY <1>6, <2>2, SameFits DEF AskAddFinalizer, BeginProvision, BeginDelete, TypeOK
  <2>3. QED
    BY <2>1, <2>2
<1>7. ASSUME NEW k \in Kinds, StoreFinalizer(k) \/ StoreRemoval(k) PROVE Fits(d)'
  <2>1. call[k] # Idle /\ call[k].object \in Objects
    BY <1>7, DoesSomething DEF StoreFinalizer, StoreRemoval, Ops
  <2>2. CASE d = k
    BY <1>7, <2>1, <2>2, EndsWithShape DEF StoreFinalizer, StoreRemoval, Fits
  <2>3. CASE d # k
    BY <1>7, <2>1, <2>3, EndsWithShape, StoreFits
       DEF StoreFinalizer, StoreRemoval, Store, TypeOK
  <2>4. QED
    BY <2>2, <2>3
<1>8. ASSUME NEW k \in Kinds, WriteSecret(k) PROVE Fits(d)'
  BY <1>8, SameFits DEF WriteSecret, Finish, TypeOK
<1>9. ASSUME NEW k \in Kinds, DeleteSecret(k) PROVE Fits(d)'
  <2>1. CASE d = k
    <3>1. call[k] \in Call /\ call[k].op = "clean" /\ call[k] # Idle
      BY <1>9, DoesSomething DEF DeleteSecret, Ops, Does
    <3>2. /\ call'[k].op = "removeFinalizer" /\ call'[k].object = call[k].object
          /\ call'[k].current = call[k].current
      BY <1>9, <3>1 DEF DeleteSecret, TypeOK, Call
    <3>3. "removeFinalizer" \in Ops \ {"create", "update"}
      BY DEF Ops
    <3>4. Fits(k)
      BY DEF CallsFit
    <3>5. QED
      BY <1>9, <2>1, <3>1, <3>2, <3>3, <3>4 DEF Fits, Held, DeleteSecret
  <2>2. CASE d # k
    BY <1>9, <2>2, SameFits DEF DeleteSecret, TypeOK
  <2>3. QED
    BY <2>1, <2>2
<1>10. ASSUME NEW c \in Clients, CheckNamespace(c) \/ CheckName(c) PROVE Fits(d)'
  <2>1. CASE d = c
    <3>1. call[c] \in Call /\ call[c] # Idle
      BY <1>10, UnderWay DEF CheckNamespace, CheckName, NeedsAdmission, Idle
    <3>2. /\ call'[c].op = call[c].op /\ call'[c].object = call[c].object
          /\ call'[c].current = call[c].current
      BY <1>10, <3>1 DEF CheckNamespace, CheckName, Advance, TypeOK, Call
    <3>3. Fits(c)
      BY DEF CallsFit
    <3>4. QED
      BY <1>10, <2>1, <3>1, <3>2, <3>3 DEF Fits, Held, CheckNamespace, CheckName
  <2>2. CASE d # c
    BY <1>10, <2>2, SameFits DEF CheckNamespace, CheckName, Advance, TypeOK
  <2>3. QED
    BY <2>1, <2>2
<1>11. ASSUME NEW c \in Clients, Refused(c) PROVE Fits(d)'
  BY <1>11, SameFits DEF Refused, Finish, TypeOK
<1>12. CASE Restart
  BY <1>12, SameFits DEF Restart
<1>13. CASE UNCHANGED vars \/ \E o \in Objects : SeeObject(o)
  BY <1>13, SameFits DEF vars, SeeObject
<1>14. QED
  BY <1>1, <1>2, <1>3, <1>4, <1>5, <1>6, <1>7, <1>8, <1>9, <1>10, <1>11, <1>12, <1>13
     DEF Next, UserStep, ControllerStep

(***************************************************************************)
(* One finalizer.                                                          *)
(***************************************************************************)
LEMMA AloneKept ==
  ASSUME AdmittedAlone, OneFinalizer,
         \A o \in Objects : Admitted(o)' => Admitted(o),
         \A o \in Objects : Held(o)' => Held(o)
  PROVE  AdmittedAlone' /\ OneFinalizer'
BY TwinShape DEF AdmittedAlone, OneFinalizer

\* A request that is not admitted now, but was not changed for the better either.
LEMMA NotAdmitted ==
  ASSUME TypeOK, NEW o \in Objects, NEW r \in Call \cup {Idle},
         call'[o[1]] = r,
         \/ r = Idle \/ r = call[o[1]]
         \/ r.step # "admitted" \/ r.op # "addFinalizer"
         \/ \E p : r = Outdated(call[o[1]], p)
  PROVE  Admitted(o)' => Admitted(o)
<1>1. call[o[1]] \in Call \cup {Idle}
  BY TwinShape, ClientKinds DEF TypeOK
<1>2. QED
  BY <1>1, OutdatedShape DEF Admitted

LEMMA AloneStep ==
  TypeOK /\ CallsFit /\ AdmittedAlone /\ OneFinalizer /\ [Next]_vars
  => AdmittedAlone' /\ OneFinalizer'
<1> SUFFICES ASSUME TypeOK, CallsFit, AdmittedAlone, OneFinalizer, [Next]_vars
             PROVE  AdmittedAlone' /\ OneFinalizer'
  OBVIOUS
<1> USE ClientKinds
<1>t. TypeOK'
  BY TypeStep
<1>k. \A o \in Objects : o[1] \in Kinds /\ o[1] \in Clients /\ o[1] \notin Users
  BY TwinShape
<1>1. ASSUME NEW c \in Users, NEW o \in Objects, NEW s \in Specs,
             AskCreate(c, o, s) \/ AskUpdate(c, o, s)
      PROVE  AdmittedAlone' /\ OneFinalizer'
  BY <1>1, <1>k, AloneKept DEF AskCreate, AskUpdate, Held, Admitted, TypeOK
<1>2. ASSUME NEW c \in Users, StoreCreate(c) \/ StoreUpdate(c)
      PROVE  AdmittedAlone' /\ OneFinalizer'
  <2> DEFINE o == call[c].object
  <2>1. call[c] # Idle /\ o \in Objects /\ call[c] \in Call
    BY <1>2, DoesSomething DEF StoreCreate, StoreUpdate, Ops
  <2>2. EndsWith(c, o)
    BY <1>2 DEF StoreCreate, StoreUpdate
  <2>3. \A p \in Objects : Admitted(p)' => Admitted(p)
    <3> SUFFICES ASSUME NEW p \in Objects PROVE Admitted(p)' => Admitted(p)
      OBVIOUS
    <3>1. call'[p[1]] = Outdated(call[p[1]], o)
      BY <2>1, <2>2, <1>k, EndsWithShape
    <3>2. call'[p[1]] \in Call \cup {Idle}
      BY <1>t, <1>k DEF TypeOK
    <3>3. QED
      BY <3>1, <3>2, NotAdmitted
  <2>4. CASE StoreCreate(c)
    BY <2>1, <2>3, <2>4, AloneKept DEF StoreCreate, Store, TypeOK, Held
  <2>5. CASE StoreUpdate(c)
    <3>1. object[o] \in Object
      BY <2>1, <2>5, ObjectOfCall DEF StoreUpdate, Does
    <3>2. \A p \in Objects : Held(p)' => Held(p)
      BY <2>1, <2>5, <3>1 DEF StoreUpdate, Store, TypeOK, Held, Object
    <3>3. QED
      BY <2>3, <3>2, AloneKept
  <2>6. QED
    BY <1>2, <2>4, <2>5
<1>3. ASSUME NEW o \in Objects, Delete(o) PROVE AdmittedAlone' /\ OneFinalizer'
  <2>1. \A p \in Objects : Admitted(p)' => Admitted(p)
    <3> SUFFICES ASSUME NEW p \in Objects PROVE Admitted(p)' => Admitted(p)
      OBVIOUS
    <3>1. call'[p[1]] = Outdated(call[p[1]], o)
      BY <1>3, <1>k DEF Delete
    <3>2. call'[p[1]] \in Call \cup {Idle}
      BY <1>t, <1>k DEF TypeOK
    <3>3. QED
      BY <3>1, <3>2, NotAdmitted
  <2>2. object[o] \in Object
    BY <1>3, Present DEF Delete
  <2>3. \A p \in Objects : Held(p)' => Held(p)
    BY <1>3, <2>2 DEF Delete, Store, Deleted, Absent, TypeOK, Held, Object
  <2>4. QED
    BY <2>1, <2>3, AloneKept
<1>4. CASE Relabel
  BY <1>4, AloneKept DEF Relabel, Held, Admitted
<1>5. ASSUME NEW k \in Kinds, NEW n \in Names,
             AskAddFinalizer(k, n) \/ BeginProvision(k, n) \/ BeginDelete(k, n)
      PROVE  AdmittedAlone' /\ OneFinalizer'
  <2>1. UNCHANGED object /\ \A d \in Clients : d # k => call'[d] = call[d]
    BY <1>5 DEF AskAddFinalizer, BeginProvision, BeginDelete, TypeOK
  <2>2. call'[k].step = "asked"
    BY <1>5 DEF AskAddFinalizer, BeginProvision, BeginDelete, TypeOK, AskingAsSeen
  <2>3. \A p \in Objects : Admitted(p)' => Admitted(p)
    BY <2>1, <2>2, <1>k DEF Admitted
  <2>4. QED
    BY <2>1, <2>3, AloneKept DEF Held
<1>6. ASSUME NEW k \in Kinds, StoreFinalizer(k) PROVE AdmittedAlone' /\ OneFinalizer'
  <2>0. call[k] # Idle /\ call[k].object \in Objects /\ call[k].op = "addFinalizer"
        /\ call[k].object[1] = k
    BY <1>6, DoesSomething DEF StoreFinalizer, Ops, Does, CallsFit, Fits
  <2> PICK o \in Objects : o = call[k].object
    BY <2>0
  <2>1. o = call[k].object /\ o[1] = k /\ call[k] # Idle /\ call[k].op = "addFinalizer"
    BY <2>0
  <2>2. Admitted(o)
    BY <1>6, <2>1 DEF StoreFinalizer, Admitted
  <2>3. ~Held(Twin(o)) /\ ~Admitted(Twin(o))
    BY <2>1, <2>2 DEF AdmittedAlone
  <2>4. EndsWith(k, o)
    BY <1>6 DEF StoreFinalizer
  <2>5. \A p \in Objects : Admitted(p)' => Admitted(p)
    <3> SUFFICES ASSUME NEW p \in Objects PROVE Admitted(p)' => Admitted(p)
      OBVIOUS
    <3>1. call'[p[1]] = Outdated(call[p[1]], o) \/ call'[p[1]] = Idle
      BY <2>1, <2>4, <1>k, EndsWithShape
    <3>2. call'[p[1]] \in Call \cup {Idle}
      BY <1>t, <1>k DEF TypeOK
    <3>3. QED
      BY <3>1, <3>2, NotAdmitted
  <2>6. \A p \in Objects : p # o => (Held(p)' => Held(p))
    BY <1>6, <2>1 DEF StoreFinalizer, Store, TypeOK, Held
  <2>7. ~Held(Twin(o))' /\ ~Admitted(Twin(o))' /\ ~Admitted(o)'
    <3>1. ~Admitted(o)'
      <4>1. call'[k] = Idle
        BY <2>4, EndsWithShape
      <4>2. QED
        BY <2>1, <4>1 DEF Admitted
    <3>2. QED
      BY <3>1, <2>1, <2>3, <2>5, <2>6, TwinShape
  <2>8. \A p \in Objects : Twin(p) = o => p = Twin(o)
    BY TwinShape
  <2>9. AdmittedAlone'
    BY <2>1, <2>5, <2>6, <2>7, <2>8, TwinShape DEF AdmittedAlone
  <2>10. OneFinalizer'
    BY <2>1, <2>6, <2>7, <2>8, TwinShape DEF OneFinalizer
  <2>11. QED
    BY <2>9, <2>10
<1>7. ASSUME NEW k \in Kinds, WriteSecret(k) \/ DeleteSecret(k)
      PROVE  AdmittedAlone' /\ OneFinalizer'
  <2>1. call[k] \in Call
    BY <1>7, DoesSomething DEF WriteSecret, DeleteSecret, Ops
  <2>2. UNCHANGED object /\ \A d \in Clients : d # k => call'[d] = call[d]
    BY <1>7 DEF WriteSecret, DeleteSecret, Finish, TypeOK
  <2>3. call'[k] = Idle \/ call'[k].op = "removeFinalizer"
    BY <1>7, <2>1 DEF WriteSecret, DeleteSecret, Finish, TypeOK, Call
  <2>4. \A p \in Objects : Admitted(p)' => Admitted(p)
    BY <2>2, <2>3, <1>k DEF Admitted
  <2>5. QED
    BY <2>2, <2>4, AloneKept DEF Held
<1>8. ASSUME NEW k \in Kinds, StoreRemoval(k) PROVE AdmittedAlone' /\ OneFinalizer'
  <2> DEFINE o == call[k].object
  <2>1. call[k] # Idle /\ o \in Objects
    BY <1>8, DoesSomething DEF StoreRemoval, Ops
  <2>2. EndsWith(k, o)
    BY <1>8 DEF StoreRemoval
  <2>3. \A p \in Objects : Admitted(p)' => Admitted(p)
    <3> SUFFICES ASSUME NEW p \in Objects PROVE Admitted(p)' => Admitted(p)
      OBVIOUS
    <3>1. call'[p[1]] = Outdated(call[p[1]], o) \/ call'[p[1]] = Idle
      BY <2>1, <2>2, <1>k, EndsWithShape
    <3>2. call'[p[1]] \in Call \cup {Idle}
      BY <1>t, <1>k DEF TypeOK
    <3>3. QED
      BY <3>1, <3>2, NotAdmitted
  <2>4. \A p \in Objects : Held(p)' => Held(p)
    BY <1>8, <2>1 DEF StoreRemoval, Store, Absent, TypeOK, Held
  <2>5. QED
    BY <2>3, <2>4, AloneKept
<1>9. ASSUME NEW c \in Clients, CheckNamespace(c) PROVE AdmittedAlone' /\ OneFinalizer'
  <2>1. call[c] \in Call
    BY <1>9, UnderWay DEF CheckNamespace, NeedsAdmission, Idle
  <2>2. call'[c].step = "labelled" /\ UNCHANGED object
        /\ \A d \in Clients : d # c => call'[d] = call[d]
    BY <1>9, <2>1 DEF CheckNamespace, Advance, TypeOK, Call
  <2>3. \A p \in Objects : Admitted(p)' => Admitted(p)
    BY <2>2, <1>k DEF Admitted
  <2>4. QED
    BY <2>2, <2>3, AloneKept DEF Held
<1>10. ASSUME NEW c \in Clients, CheckName(c) PROVE AdmittedAlone' /\ OneFinalizer'
  <2> DEFINE o == call[c].object
  <2>1. call[c] \in Call /\ call[c] # Idle /\ o \in Objects
    BY <1>10, UnderWay DEF CheckName, NeedsAdmission, Idle
  <2>2. UNCHANGED object /\ \A d \in Clients : d # c => call'[d] = call[d]
    BY <1>10 DEF CheckName, Advance, TypeOK
  <2>3. \A p \in Objects : p # o => (Admitted(p)' => Admitted(p))
    <3>1. call'[c].object = o
      BY <1>10, <2>1 DEF CheckName, Advance, TypeOK, Call
    <3>2. QED
      BY <2>2, <3>1, <1>k DEF Admitted
  <2>4. ~object[Twin(o)].exists
    BY <1>10 DEF CheckName, NameTaken
  <2>5. ~Held(Twin(o)) /\ ~Admitted(Twin(o))
    <3>1. ~Held(Twin(o))
      BY <2>4 DEF Held
    <3>2. ~Admitted(Twin(o))
      <4>1. Twin(o) \in Objects
        BY <2>1, TwinShape
      <4>2. QED
        BY <2>4, <4>1, <1>k DEF Admitted, CallsFit, Fits
    <3>3. QED
      BY <3>1, <3>2
  <2>6. \A p \in Objects : Held(p)' <=> Held(p)
    BY <2>2 DEF Held
  <2>7. \A p \in Objects : Twin(p) = o => p = Twin(o)
    BY TwinShape
  <2>8. AdmittedAlone'
    <3> SUFFICES ASSUME NEW p \in Objects, Admitted(p)'
                 PROVE  ~Held(Twin(p))' /\ ~Admitted(Twin(p))'
      BY DEF AdmittedAlone
    <3>1. CASE p = o
      BY <2>1, <2>3, <2>5, <2>6, <3>1, TwinShape
    <3>2. CASE p # o
      <4>1. Admitted(p)
        BY <2>3, <3>2
      <4>2. Twin(p) # o
        BY <4>1, <2>5, <2>7
      <4>3. ~Held(Twin(p)) /\ ~Admitted(Twin(p)) /\ Twin(p) \in Objects
        BY <4>1, TwinShape DEF AdmittedAlone
      <4>4. QED
        BY <4>2, <4>3, <2>3, <2>6
    <3>3. QED
      BY <3>1, <3>2
  <2>9. OneFinalizer'
    BY <2>6, TwinShape DEF OneFinalizer
  <2>10. QED
    BY <2>8, <2>9
<1>11. ASSUME NEW c \in Clients, Refused(c) PROVE AdmittedAlone' /\ OneFinalizer'
  <2>1. UNCHANGED object /\ \A d \in Clients : call'[d] = call[d] \/ call'[d] = Idle
    BY <1>11 DEF Refused, Finish, TypeOK
  <2>2. \A p \in Objects : Admitted(p)' => Admitted(p)
    BY <2>1, <1>k DEF Admitted
  <2>3. QED
    BY <2>1, <2>2, AloneKept DEF Held
<1>12. CASE Restart
  <2>1. UNCHANGED object /\ \A d \in Clients : call'[d] = call[d] \/ call'[d] = Idle
    BY <1>12 DEF Restart
  <2>2. \A p \in Objects : Admitted(p)' => Admitted(p)
    BY <2>1, <1>k DEF Admitted
  <2>3. QED
    BY <2>1, <2>2, AloneKept DEF Held
<1>13. CASE UNCHANGED vars \/ \E o \in Objects : SeeObject(o)
  BY <1>13, AloneKept DEF vars, SeeObject, Held, Admitted
<1>14. QED
  BY <1>1, <1>2, <1>3, <1>4, <1>5, <1>6, <1>7, <1>8, <1>9, <1>10, <1>11, <1>12, <1>13
     DEF Next, UserStep, ControllerStep

(***************************************************************************)
(* Only races collide.                                                     *)
(***************************************************************************)
LEMMA RacesKept ==
  ASSUME RacesKnown, OnlyRacesCollide, raced \subseteq raced',
         \A c \in Users, o \in Objects : CreatesAt(c, o)' =>
           CreatesAt(c, o) /\ (call'[c].step = "admitted" => call[c].step = "admitted"),
         \A o \in Objects : object'[o].exists => object[o].exists
  PROVE  RacesKnown' /\ OnlyRacesCollide'
<1>1. \A o \in Objects : Creating(o) <=> \E c \in Users : CreatesAt(c, o)
  BY DEF Creating, CreatesAt, Does, Idle
<1>2. \A o \in Objects : Creating(o)' <=> \E c \in Users : CreatesAt(c, o)'
  BY DEF Creating, CreatesAt, Does, Idle
<1>3. QED
  BY <1>1, <1>2, TwinShape DEF RacesKnown, OnlyRacesCollide

\* What leaves the calls of users as they are, outdates or ends them keeps the races.
LEMMA CreatesKept ==
  ASSUME TypeOK, NEW c \in Users, NEW o \in Objects,
         call'[c] = call[c] \/ call'[c] = Idle \/ \E p : call'[c] = Outdated(call[c], p)
  PROVE  CreatesAt(c, o)' =>
           CreatesAt(c, o) /\ (call'[c].step = "admitted" => call[c].step = "admitted")
<1>1. call[c] \in Call \cup {Idle}
  BY ClientKinds DEF TypeOK
<1>2. QED
  BY <1>1, OutdatedShape DEF CreatesAt

LEMMA RaceStep ==
  TypeOK /\ CallsFit /\ RacesKnown /\ OnlyRacesCollide /\ [Next]_vars
  => RacesKnown' /\ OnlyRacesCollide'
<1> SUFFICES ASSUME TypeOK, CallsFit, RacesKnown, OnlyRacesCollide, [Next]_vars
             PROVE  RacesKnown' /\ OnlyRacesCollide'
  OBVIOUS
<1> USE ClientKinds
<1>1. ASSUME NEW c \in Users, NEW o \in Objects, NEW s \in Specs, AskCreate(c, o, s)
      PROVE  RacesKnown' /\ OnlyRacesCollide'
  <2>1. /\ call'[c].op = "create" /\ call'[c].object = o /\ call'[c].step = "asked"
        /\ call[c] = Idle /\ UNCHANGED object /\ raced \subseteq raced'
        /\ \A d \in Users : d # c => call'[d] = call[d]
        /\ Creating(Twin(o)) => o[2] \in raced'
    BY <1>1 DEF AskCreate, Asking, TypeOK
  <2>2. \A d \in Users, p \in Objects : CreatesAt(d, p)' =>
          \/ d = c /\ p = o
          \/ d # c /\ CreatesAt(d, p) /\ call'[d].step = call[d].step
    BY <2>1 DEF CreatesAt
  <2>3. \A p \in Objects : Creating(p) <=> \E d \in Users : CreatesAt(d, p)
    BY DEF Creating, CreatesAt, Does, Idle
  <2>4. \A p \in Objects : Creating(p)' => p = o \/ Creating(p)
    <3>1. \A p \in Objects : Creating(p)' => \E d \in Users : CreatesAt(d, p)'
      BY DEF Creating, CreatesAt, Does, Idle
    <3>2. QED
      BY <2>2, <2>3, <3>1
  <2>5. RacesKnown'
    <3> SUFFICES ASSUME NEW d \in Users, NEW p \in Objects, CreatesAt(d, p)'
                 PROVE  /\ Creating(Twin(p))' => p[2] \in raced'
                        /\ call'[d].step = "admitted" /\ object'[Twin(p)].exists => p[2] \in raced'
      BY DEF RacesKnown
    <3>1. CASE d = c /\ p = o
      BY <2>1, <2>4, <3>1, TwinShape
    <3>2. CASE d # c /\ CreatesAt(d, p) /\ call'[d].step = call[d].step
      <4>1. Creating(p)
        BY <2>3, <3>2
      <4>2. CASE Twin(p) = o
        BY <2>1, <3>2, <4>1, <4>2, TwinShape DEF RacesKnown
      <4>3. CASE Twin(p) # o
        BY <2>1, <2>4, <3>2, <4>3, TwinShape DEF RacesKnown
      <4>4. QED
        BY <4>2, <4>3
    <3>3. QED
      BY <2>2, <3>1, <3>2
  <2>6. OnlyRacesCollide'
    BY <2>1 DEF OnlyRacesCollide
  <2>7. QED
    BY <2>5, <2>6
<1>2. ASSUME NEW c \in Users, NEW o \in Objects, NEW s \in Specs, AskUpdate(c, o, s)
      PROVE  RacesKnown' /\ OnlyRacesCollide'
  <2>1. /\ call'[c].op = "update" /\ UNCHANGED <<object, raced>>
        /\ \A d \in Users : d # c => call'[d] = call[d]
    BY <1>2 DEF AskUpdate, Asking, TypeOK
  <2>2. \A d \in Users, p \in Objects : CreatesAt(d, p)' =>
          CreatesAt(d, p) /\ call'[d].step = call[d].step
    BY <2>1 DEF CreatesAt
  <2>3. QED
    BY <2>1, <2>2, RacesKept
<1>3. ASSUME NEW c \in Users, StoreCreate(c) PROVE RacesKnown' /\ OnlyRacesCollide'
  <2>0. call[c] # Idle /\ call[c].object \in Objects /\ call[c].op = "create"
    BY <1>3, DoesSomething DEF StoreCreate, Ops, Does
  <2> PICK o \in Objects : o = call[c].object
    BY <2>0
  <2>1. CreatesAt(c, o) /\ call[c].step = "admitted"
    BY <1>3, <2>0 DEF StoreCreate, CreatesAt
  <2>2. Creating(o)
    BY <2>0 DEF Creating, Does
  <2>3. UNCHANGED raced /\ \A p \in Objects : p # o => object'[p] = object[p]
    BY <1>3 DEF StoreCreate, Store, TypeOK
  <2>4. \A d \in Users, p \in Objects : CreatesAt(d, p)' =>
           CreatesAt(d, p) /\ (call'[d].step = "admitted" => call[d].step = "admitted")
    <3> SUFFICES ASSUME NEW d \in Users, NEW p \in Objects
                 PROVE  CreatesAt(d, p)' =>
                          /\ CreatesAt(d, p)
                          /\ call'[d].step = "admitted" => call[d].step = "admitted"
      OBVIOUS
    <3>1. call'[d] = Idle \/ call'[d] = Outdated(call[d], o)
      BY <1>3, EndsWithShape DEF StoreCreate
    <3>2. QED
      BY <3>1, CreatesKept
  <2>5. \A p \in Objects : Creating(p)' => Creating(p)
    <3>1. \A p \in Objects : Creating(p)' => \E d \in Users : CreatesAt(d, p)'
      BY DEF Creating, CreatesAt, Does, Idle
    <3>2. \A p \in Objects : (\E d \in Users : CreatesAt(d, p)) => Creating(p)
      BY DEF Creating, CreatesAt, Does
    <3>3. QED
      BY <2>4, <3>1, <3>2
  <2>6. RacesKnown'
    <3> SUFFICES ASSUME NEW d \in Users, NEW p \in Objects, CreatesAt(d, p)'
                 PROVE  /\ Creating(Twin(p))' => p[2] \in raced'
                        /\ call'[d].step = "admitted" /\ object'[Twin(p)].exists => p[2] \in raced'
      BY DEF RacesKnown
    <3>1. CreatesAt(d, p) /\ Twin(p) \in Objects
      BY <2>4, TwinShape
    <3>2. CASE Twin(p) = o
      BY <2>2, <2>3, <3>1, <3>2 DEF RacesKnown
    <3>3. CASE Twin(p) # o
      BY <2>3, <2>4, <2>5, <3>1, <3>3 DEF RacesKnown
    <3>4. QED
      BY <3>2, <3>3
  <2>7. OnlyRacesCollide'
    <3> SUFFICES ASSUME NEW p \in Objects, object'[p].exists, object'[Twin(p)].exists
                 PROVE  p[2] \in raced'
      BY DEF OnlyRacesCollide
    <3>1. CASE p = o
      <4>1. object[Twin(o)].exists
        BY <2>3, <3>1, TwinShape
      <4>2. QED
        BY <2>1, <2>3, <3>1, <4>1 DEF RacesKnown
    <3>2. CASE Twin(p) = o
      <4>1. object[Twin(o)].exists /\ p = Twin(o) /\ p[2] = o[2]
        BY <2>3, <3>2, TwinShape
      <4>2. QED
        BY <2>1, <2>3, <4>1 DEF RacesKnown
    <3>3. CASE p # o /\ Twin(p) # o
      BY <2>3, <3>3, TwinShape DEF OnlyRacesCollide
    <3>4. QED
      BY <3>1, <3>2, <3>3
  <2>8. QED
    BY <2>6, <2>7
<1>4. ASSUME NEW c \in Clients, NEW o \in Objects,
             EndsWith(c, o), UNCHANGED raced,
             \A p \in Objects : object'[p].exists => object[p].exists
      PROVE  RacesKnown' /\ OnlyRacesCollide'
  <2> SUFFICES ASSUME NEW d \in Users, NEW p \in Objects
               PROVE  CreatesAt(d, p)' =>
                        CreatesAt(d, p) /\ (call'[d].step = "admitted" => call[d].step = "admitted")
    BY <1>4, RacesKept
  <2>1. call'[d] = Idle \/ call'[d] = Outdated(call[d], o)
    BY <1>4, EndsWithShape
  <2>2. QED
    BY <2>1, CreatesKept
<1>5. ASSUME NEW c \in Clients, StoreUpdate(c) \/ StoreFinalizer(c) \/ StoreRemoval(c)
      PROVE  RacesKnown' /\ OnlyRacesCollide'
  <2>1. call[c] # Idle /\ call[c].object \in Objects /\ call[c].op # "create"
    BY <1>5, DoesSomething DEF StoreUpdate, StoreFinalizer, StoreRemoval, Ops, Does
  <2>2. object[call[c].object] \in Object
    BY <1>5, <2>1, ObjectOfCall DEF StoreUpdate, StoreFinalizer, StoreRemoval
  <2>3. \A p \in Objects : object'[p].exists => object[p].exists
    BY <1>5, <2>1, <2>2 DEF StoreUpdate, StoreFinalizer, StoreRemoval, Store, TypeOK, Object, Absent
  <2>4. EndsWith(c, call[c].object) /\ UNCHANGED raced
    BY <1>5 DEF StoreUpdate, StoreFinalizer, StoreRemoval
  <2>5. QED
    BY <1>4, <2>1, <2>3, <2>4
<1>6. ASSUME NEW o \in Objects, Delete(o) PROVE RacesKnown' /\ OnlyRacesCollide'
  <2>1. object[o] \in Object
    BY <1>6, Present DEF Delete
  <2>2. \A p \in Objects : object'[p].exists => object[p].exists
    BY <1>6, <2>1 DEF Delete, Store, Deleted, Absent, TypeOK, Object
  <2>3. UNCHANGED raced /\ \A d \in Users : call'[d] = Outdated(call[d], o)
    BY <1>6 DEF Delete
  <2>4. QED
    BY <2>2, <2>3, CreatesKept, RacesKept
<1>7. ASSUME UNCHANGED <<object, raced>>,
             \A d \in Users : call'[d] = call[d] \/ call'[d] = Idle
      PROVE  RacesKnown' /\ OnlyRacesCollide'
  BY <1>7, CreatesKept, RacesKept
<1>8. ASSUME NEW k \in Kinds, NEW n \in Names,
             AskAddFinalizer(k, n) \/ BeginProvision(k, n) \/ BeginDelete(k, n)
      PROVE  RacesKnown' /\ OnlyRacesCollide'
  BY <1>7, <1>8 DEF AskAddFinalizer, BeginProvision, BeginDelete, TypeOK
<1>9. ASSUME NEW k \in Kinds, WriteSecret(k) \/ DeleteSecret(k)
      PROVE  RacesKnown' /\ OnlyRacesCollide'
  BY <1>7, <1>9 DEF WriteSecret, DeleteSecret, Finish, TypeOK
<1>10. ASSUME NEW c \in Clients, CheckNamespace(c) PROVE RacesKnown' /\ OnlyRacesCollide'
  <2>1. call[c] \in Call
    BY <1>10, UnderWay DEF CheckNamespace, NeedsAdmission, Idle
  <2>2. /\ call'[c].step = "labelled" /\ call'[c].op = call[c].op
        /\ call'[c].object = call[c].object /\ UNCHANGED <<object, raced>>
        /\ call[c] # Idle /\ \A d \in Clients : d # c => call'[d] = call[d]
    BY <1>10, <2>1 DEF CheckNamespace, Advance, TypeOK, Call, NeedsAdmission, Idle
  <2>3. \A d \in Users, p \in Objects : CreatesAt(d, p)' =>
          CreatesAt(d, p) /\ (call'[d].step = "admitted" => call[d].step = "admitted")
    BY <2>2 DEF CreatesAt
  <2>4. QED
    BY <2>2, <2>3, RacesKept
<1>11. ASSUME NEW c \in Clients, CheckName(c) PROVE RacesKnown' /\ OnlyRacesCollide'
  <2>1. call[c] \in Call
    BY <1>11, UnderWay DEF CheckName, NeedsAdmission, Idle
  <2>2. /\ call'[c].op = call[c].op /\ call'[c].object = call[c].object
        /\ UNCHANGED <<object, raced>> /\ call[c] # Idle
        /\ \A d \in Clients : d # c => call'[d] = call[d]
        /\ ~object[Twin(call[c].object)].exists
    BY <1>11, <2>1 DEF CheckName, Advance, TypeOK, Call, NeedsAdmission, Idle, NameTaken
  <2>3. \A d \in Users, p \in Objects : CreatesAt(d, p)' => CreatesAt(d, p)
    BY <2>2 DEF CreatesAt
  <2>4. \A p \in Objects : Creating(p)' => Creating(p)
    <3>1. \A p \in Objects : Creating(p)' => \E d \in Users : CreatesAt(d, p)'
      BY DEF Creating, CreatesAt, Does, Idle
    <3>2. \A p \in Objects : (\E d \in Users : CreatesAt(d, p)) => Creating(p)
      BY DEF Creating, CreatesAt, Does
    <3>3. QED
      BY <2>3, <3>1, <3>2
  <2>5. RacesKnown'
    <3> SUFFICES ASSUME NEW d \in Users, NEW p \in Objects, CreatesAt(d, p)'
                 PROVE  /\ Creating(Twin(p))' => p[2] \in raced'
                        /\ call'[d].step = "admitted" /\ object'[Twin(p)].exists => p[2] \in raced'
      BY DEF RacesKnown
    <3>1. CreatesAt(d, p) /\ Twin(p) \in Objects
      BY <2>3, TwinShape
    <3>2. Creating(Twin(p))' => p[2] \in raced'
      BY <2>2, <2>4, <3>1 DEF RacesKnown
    <3>3. CASE d = c
      BY <2>2, <3>1, <3>2, <3>3 DEF CreatesAt
    <3>4. CASE d # c
      BY <2>2, <3>1, <3>2, <3>4 DEF RacesKnown
    <3>5. QED
      BY <3>3, <3>4
  <2>6. OnlyRacesCollide'
    BY <2>2 DEF OnlyRacesCollide
  <2>7. QED
    BY <2>5, <2>6
<1>12. ASSUME NEW c \in Clients, Refused(c) PROVE RacesKnown' /\ OnlyRacesCollide'
  BY <1>7, <1>12 DEF Refused, Finish, TypeOK
<1>13. CASE Restart
  BY <1>7, <1>13 DEF Restart
<1>14. CASE Relabel
  BY <1>7, <1>14 DEF Relabel
<1>15. CASE UNCHANGED vars \/ \E o \in Objects : SeeObject(o)
  BY <1>7, <1>15 DEF vars, SeeObject
<1>16. QED
  BY <1>1, <1>2, <1>3, <1>5, <1>6, <1>8, <1>9, <1>10, <1>11, <1>12, <1>13, <1>14, <1>15
     DEF Next, UserStep, ControllerStep

(***************************************************************************)
(* The theorems.                                                           *)
(***************************************************************************)
LEMMA InitIInv == Init => IInv
<1> SUFFICES ASSUME Init PROVE IInv
  OBVIOUS
<1>1. TypeOK
  BY InitTypeOK
<1>2. \A c \in Clients : call[c] = Idle
  BY DEF Init
<1>3. \A o \in Objects : object[o].exists = FALSE
  BY DEF Init, Absent
<1>4. QED
  BY <1>1, <1>2, <1>3, TwinShape, ClientKinds
     DEF IInv, Init, CopiesFresh, CallsFit, Fits, AdmittedAlone, Admitted, OneFinalizer, Held,
         RacesKnown, CreatesAt, OnlyRacesCollide

LEMMA StepIInv == IInv /\ [Next]_vars => IInv'
BY TypeStep, CopyStep, FitStep, AloneStep, RaceStep DEF IInv

\* The inductive invariant of the admission of objects.
THEOREM InvariantHolds == Spec => []IInv
BY InitIInv, StepIInv, PTL DEF Spec

\* Every reachable state has its type.
THEOREM TypeCorrect == Spec => []TypeOK
<1>1. IInv => TypeOK
  BY DEF IInv
<1>2. QED
  BY <1>1, InvariantHolds, PTL

\* Names are unique across both kinds, but for creations that race
\* (validateNoNameCollision).
THEOREM NamesCollideInRaces == Spec => []OnlyRacesCollide
<1>1. IInv => OnlyRacesCollide
  BY DEF IInv
<1>2. QED
  BY <1>1, InvariantHolds, PTL

\* Of two objects of one name only one ever gets its finalizer: the webhook looks at
\* the controllers' updates too.
THEOREM OneHolds == Spec => []OneFinalizer
<1>1. IInv => OneFinalizer
  BY DEF IInv
<1>2. QED
  BY <1>1, InvariantHolds, PTL

(***************************************************************************)
(* Whose keys a deletion can take.                                         *)
(***************************************************************************)
Kept(o) == Held(o) /\ Live(o)
Cleaning(k) == call[k] # Idle /\ call[k].op = "clean"

\* A copy with the deletion mark, and a deletion worked from it, are of an object that is
\* not alive with the finalizer (any more, or again): before it is, its controller has
\* looked at a copy without the mark.
CurrentIsFresh == \A k \in Kinds : call[k] # Idle /\ call[k].current => call[k].object \in fresh
MarksAreOld == \A o \in Objects : seen[o].exists /\ seen[o].deleting => ~Kept(o)
CleanedAreOld == \A k \in Kinds : Cleaning(k) => ~Kept(call[k].object)
KInv == CurrentIsFresh /\ MarksAreOld /\ CleanedAreOld

\* A step that makes nothing live, shows nothing and starts nothing keeps this.
LEMMA MarksKept ==
  ASSUME IInv, KInv, UNCHANGED seen,
         \A o \in Objects : Kept(o)' => Kept(o),
         \A k \in Kinds : call'[k] # Idle =>
           /\ call[k] # Idle /\ call'[k].object = call[k].object
           /\ call'[k].op = "clean" => call[k].op = "clean"
           /\ call'[k].current => call[k].current
                /\ (call[k].object \in fresh => call[k].object \in fresh')
  PROVE  KInv'
<1>1. \A k \in Kinds : call[k] # Idle => call[k].object \in Objects
  BY UnderWay, ClientKinds DEF IInv
<1>2. CurrentIsFresh'
  BY DEF KInv, CurrentIsFresh
<1>3. MarksAreOld'
  BY DEF KInv, MarksAreOld
<1>4. CleanedAreOld'
  BY <1>1 DEF KInv, CleanedAreOld, Cleaning
<1>5. QED
  BY <1>2, <1>3, <1>4 DEF KInv

\* A store outdates what it does not end.
LEMMA StoreKeepsMarks ==
  ASSUME IInv, KInv, NEW c \in Clients, NEW o \in Objects, NEW x,
         Store(o, x), EndsWith(c, o),
         \A p \in Objects : Kept(p)' => Kept(p)
  PROVE  KInv'
<1>1. ASSUME NEW k \in Kinds, call'[k] # Idle
      PROVE  /\ call[k] # Idle /\ call'[k].object = call[k].object
             /\ call'[k].op = "clean" => call[k].op = "clean"
             /\ call'[k].current => call[k].current
                  /\ (call[k].object \in fresh => call[k].object \in fresh')
  <2>1. k \in Clients /\ TypeOK /\ k # c
    BY <1>1, EndsWithShape, ClientKinds DEF IInv
  <2>2. call'[k] = Outdated(call[k], o) /\ call[k] \in Call \cup {Idle}
    BY <2>1, EndsWithShape DEF TypeOK
  <2>3. call[k] # Idle
    BY <1>1, <2>2, OutdatedShape
  <2>4. /\ call'[k].op = call[k].op /\ call'[k].object = call[k].object
        /\ call'[k].current => call[k].current /\ call[k].object # o
    BY <2>2, <2>3, OutdatedShape
  <2>5. QED
    BY <2>3, <2>4 DEF Store
<1>2. QED
  BY <1>1, MarksKept DEF Store

LEMMA MarksStep == IInv /\ KInv /\ [Next]_vars => KInv'
<1> SUFFICES ASSUME IInv, KInv, [Next]_vars PROVE KInv'
  OBVIOUS
<1> USE ClientKinds
<1>0. TypeOK /\ CopiesFresh /\ CallsFit
  BY DEF IInv
<1>u. ASSUME UNCHANGED <<object, cache>>,
             \A k \in Kinds : call'[k] = call[k] \/ call'[k] = Idle
      PROVE  KInv'
  BY <1>u, MarksKept DEF cache, Kept, Held, Live
<1>1. ASSUME NEW c \in Users, NEW o \in Objects, NEW s \in Specs,
             AskCreate(c, o, s) \/ AskUpdate(c, o, s)
      PROVE  KInv'
  BY <1>0, <1>u, <1>1 DEF AskCreate, AskUpdate, TypeOK
<1>2. ASSUME NEW c \in Users, StoreCreate(c) PROVE KInv'
  <2>1. call[c].object \in Objects
    BY <1>0, <1>2, DoesSomething DEF StoreCreate, Ops
  <2>2. \A p \in Objects : Kept(p)' => Kept(p)
    BY <1>0, <1>2, <2>1 DEF StoreCreate, Store, TypeOK, Kept, Held, Live
  <2>3. QED
    BY <1>2, <2>1, <2>2, StoreKeepsMarks DEF StoreCreate
<1>3. ASSUME NEW c \in Users, StoreUpdate(c) PROVE KInv'
  <2>1. call[c] # Idle /\ call[c].object \in Objects /\ call[c].op = "update"
    BY <1>0, <1>3, DoesSomething DEF StoreUpdate, Ops, Does
  <2>2. object[call[c].object] \in Object
    BY <1>0, <1>3, <2>1, ObjectOfCall DEF StoreUpdate
  <2>3. \A p \in Objects : Kept(p)' => Kept(p)
    BY <1>0, <1>3, <2>1, <2>2 DEF StoreUpdate, Store, TypeOK, Object, Kept, Held, Live
  <2>4. QED
    BY <1>3, <2>1, <2>3, StoreKeepsMarks DEF StoreUpdate
<1>4. ASSUME NEW o \in Objects, Delete(o) PROVE KInv'
  <2>1. object[o] \in Object
    BY <1>0, <1>4, Present DEF Delete
  <2>2. \A p \in Objects : Kept(p)' => Kept(p)
    BY <1>0, <1>4, <2>1 DEF Delete, Store, Deleted, Absent, TypeOK, Object, Kept, Held, Live
  <2>3. ASSUME NEW k \in Kinds, call'[k] # Idle
        PROVE  /\ call[k] # Idle /\ call'[k].object = call[k].object
               /\ call'[k].op = "clean" => call[k].op = "clean"
               /\ call'[k].current => call[k].current
                    /\ (call[k].object \in fresh => call[k].object \in fresh')
    <3>1. call'[k] = Outdated(call[k], o) /\ call[k] \in Call \cup {Idle}
      BY <1>0, <1>4 DEF Delete, TypeOK
    <3>2. call[k] # Idle
      BY <2>3, <3>1, OutdatedShape
    <3>3. /\ call'[k].op = call[k].op /\ call'[k].object = call[k].object
          /\ call'[k].current => call[k].current /\ call[k].object # o
      BY <3>1, <3>2, OutdatedShape
    <3>4. QED
      BY <1>4, <3>2, <3>3 DEF Delete, Store
  <2>4. QED
    BY <1>4, <2>2, <2>3, MarksKept DEF Delete, Store
<1>5. ASSUME NEW k \in Kinds, NEW n \in Names,
             AskAddFinalizer(k, n) \/ BeginProvision(k, n) \/ BeginDelete(k, n)
      PROVE  KInv'
  <2> DEFINE o == <<k, n>>
  <2>1. o \in Objects /\ seen[o].exists /\ UNCHANGED <<object, seen, fresh>>
    BY <1>5 DEF Objects, AskAddFinalizer, BeginProvision, BeginDelete, cache
  <2>2. PICK op \in Ops : /\ call' = [call EXCEPT ![k] = AskingAsSeen(op, o)]
                          /\ op = "clean" => seen[o].deleting
    BY <1>5 DEF AskAddFinalizer, BeginProvision, BeginDelete, Ops
  <2>3. /\ call'[k].object = o /\ call'[k].op = op
        /\ call'[k].current => o \in fresh
        /\ \A j \in Kinds : j # k => call'[j] = call[j]
    BY <1>0, <2>1, <2>2, AskingCopy DEF TypeOK
  <2>4. CurrentIsFresh'
    <3> SUFFICES ASSUME NEW j \in Kinds, call'[j] # Idle, call'[j].current
                 PROVE  call'[j].object \in fresh'
      BY DEF CurrentIsFresh
    <3>1. CASE j = k
      BY <2>1, <2>3, <3>1
    <3>2. CASE j # k
      BY <2>1, <2>3, <3>2 DEF KInv, CurrentIsFresh
    <3>3. QED
      BY <3>1, <3>2
  <2>5. MarksAreOld'
    BY <2>1 DEF KInv, MarksAreOld, Kept, Held, Live
  <2>6. op = "clean" => ~Kept(o)
    BY <2>1, <2>2 DEF KInv, MarksAreOld
  <2>7. CleanedAreOld'
    <3> SUFFICES ASSUME NEW j \in Kinds, call'[j] # Idle, call'[j].op = "clean",
                        Kept(call[j].object)'
                 PROVE  FALSE
      BY DEF CleanedAreOld, Cleaning
    <3>1. object'[call'[j].object] = object[call'[j].object]
      BY <2>1
    <3>2. CASE j = k
      BY <2>3, <2>6, <3>1, <3>2 DEF Kept, Held, Live
    <3>3. CASE j # k
      <4>1. Cleaning(j) /\ Kept(call[j].object)
        BY <2>3, <3>1, <3>3 DEF Cleaning, Kept, Held, Live
      <4>2. QED
        BY <4>1 DEF KInv, CleanedAreOld
    <3>4. QED
      BY <3>2, <3>3
  <2>8. QED
    BY <2>4, <2>5, <2>7 DEF KInv
<1>6. ASSUME NEW k \in Kinds, StoreFinalizer(k) PROVE KInv'
  <2>0. /\ call[k] # Idle /\ call[k].object \in Objects /\ call[k].op = "addFinalizer"
        /\ call[k].current /\ call[k].object[1] = k
    BY <1>0, <1>6, DoesSomething DEF StoreFinalizer, Ops, Does, CallsFit, Fits
  <2> PICK o \in Objects : o = call[k].object
    BY <2>0
  <2>1. ~seen[o].deleting
    <3>1. o \in fresh
      BY <2>0 DEF KInv, CurrentIsFresh
    <3>2. ~object[o].deleting
      BY <1>0, <2>0 DEF CallsFit, Fits
    <3>3. QED
      BY <1>0, <3>1, <3>2 DEF CopiesFresh
  <2>2. /\ UNCHANGED seen /\ fresh' = fresh \ {o}
        /\ \A p \in Objects : p # o => object'[p] = object[p]
    BY <1>0, <1>6 DEF StoreFinalizer, Store, TypeOK
  <2>3. EndsWith(k, o)
    BY <1>6 DEF StoreFinalizer
  <2>4. call'[k] = Idle
    BY <1>0, <2>3, EndsWithShape
  <2>5. ASSUME NEW j \in Kinds, call'[j] # Idle
        PROVE  /\ call[j] # Idle /\ call'[j].object = call[j].object
               /\ call'[j].op = call[j].op /\ call[j].object # o
               /\ call[j].object \in Objects
               /\ call'[j].current => call[j].current
    <3>1. j # k
      BY <2>4, <2>5
    <3>2. call'[j] = Outdated(call[j], o) /\ call[j] \in Call \cup {Idle}
      BY <1>0, <2>3, <3>1, EndsWithShape DEF TypeOK
    <3>3. call[j] # Idle
      BY <2>5, <3>2, OutdatedShape
    <3>4. call[j].object[1] = j /\ call[j].object \in Objects
      BY <1>0, <3>3, UnderWay DEF CallsFit, Fits
    <3>5. QED
      BY <2>0, <3>1, <3>2, <3>3, <3>4, OutdatedShape
  <2>6. CurrentIsFresh'
    <3> SUFFICES ASSUME NEW j \in Kinds, call'[j] # Idle, call'[j].current
                 PROVE  call'[j].object \in fresh'
      BY DEF CurrentIsFresh
    <3>1. call[j].object \in fresh /\ call[j].object # o /\ call'[j].object = call[j].object
      BY <2>5 DEF KInv, CurrentIsFresh
    <3>2. QED
      BY <2>2, <3>1
  <2>7. MarksAreOld'
    BY <2>1, <2>2 DEF KInv, MarksAreOld, Kept, Held, Live
  <2>8. CleanedAreOld'
    <3> SUFFICES ASSUME NEW j \in Kinds, call'[j] # Idle, call'[j].op = "clean",
                        Kept(call[j].object)'
                 PROVE  FALSE
      BY DEF CleanedAreOld, Cleaning
    <3> DEFINE p == call[j].object
    <3>1. p \in Objects /\ p # o /\ call'[j].object = p /\ Cleaning(j)
      BY <2>5 DEF Cleaning
    <3>2. object'[p] = object[p]
      BY <2>2, <3>1
    <3>3. Kept(p)
      BY <3>1, <3>2 DEF Kept, Held, Live
    <3>4. QED
      BY <3>1, <3>3 DEF KInv, CleanedAreOld
  <2>9. QED
    BY <2>6, <2>7, <2>8 DEF KInv
<1>7. ASSUME NEW k \in Kinds, StoreRemoval(k) PROVE KInv'
  <2>1. call[k].object \in Objects
    BY <1>0, <1>7, DoesSomething DEF StoreRemoval, Ops
  <2>2. \A p \in Objects : Kept(p)' => Kept(p)
    BY <1>0, <1>7, <2>1 DEF StoreRemoval, Store, Absent, TypeOK, Kept, Held, Live
  <2>3. QED
    BY <1>7, <2>1, <2>2, StoreKeepsMarks DEF StoreRemoval
<1>8. ASSUME NEW k \in Kinds, WriteSecret(k) PROVE KInv'
  BY <1>0, <1>u, <1>8 DEF WriteSecret, Finish, TypeOK
<1>9. ASSUME NEW c \in Clients, NEW new, call[c] # Idle, UNCHANGED <<object, cache>>,
             \A d \in Clients : d # c => call'[d] = call[d],
             call'[c] = new, new.object = call[c].object, new.current = call[c].current,
             new.op = "clean" => call[c].op = "clean"
      PROVE  KInv'
  BY <1>9, MarksKept DEF cache, Kept, Held, Live
<1>10. ASSUME NEW k \in Kinds, DeleteSecret(k) PROVE KInv'
  <2>1. call[k] \in Call /\ call[k] # Idle
    BY <1>0, <1>10, DoesSomething DEF DeleteSecret, Ops
  <2>2. /\ call'[k].op = "removeFinalizer" /\ call'[k].object = call[k].object
        /\ call'[k].current = call[k].current
        /\ \A d \in Clients : d # k => call'[d] = call[d]
    BY <1>0, <1>10, <2>1 DEF DeleteSecret, TypeOK, Call
  <2>3. QED
    BY <1>9, <1>10, <2>1, <2>2 DEF DeleteSecret
<1>11. ASSUME NEW c \in Clients, CheckNamespace(c) \/ CheckName(c) PROVE KInv'
  <2>1. call[c] \in Call /\ call[c] # Idle
    BY <1>0, <1>11, UnderWay DEF CheckNamespace, CheckName, NeedsAdmission, Idle
  <2>2. /\ call'[c].op = call[c].op /\ call'[c].object = call[c].object
        /\ call'[c].current = call[c].current
        /\ \A d \in Clients : d # c => call'[d] = call[d]
    BY <1>0, <1>11, <2>1 DEF CheckNamespace, CheckName, Advance, TypeOK, Call
  <2>3. QED
    BY <1>9, <1>11, <2>1, <2>2 DEF CheckNamespace, CheckName
<1>12. ASSUME NEW c \in Clients, Refused(c) PROVE KInv'
  BY <1>0, <1>u, <1>12 DEF Refused, Finish, TypeOK
<1>13. CASE Restart
  BY <1>u, <1>13 DEF Restart
<1>14. CASE Relabel
  BY <1>u, <1>14 DEF Relabel
<1>15. CASE UNCHANGED vars
  BY <1>u, <1>15 DEF vars
<1>16. ASSUME NEW o \in Objects, SeeObject(o) PROVE KInv'
  <2>1. CurrentIsFresh'
    BY <1>16 DEF SeeObject, KInv, CurrentIsFresh
  <2>2. MarksAreOld'
    BY <1>0, <1>16 DEF SeeObject, TypeOK, KInv, MarksAreOld, Kept, Held, Live
  <2>3. CleanedAreOld'
    BY <1>16 DEF SeeObject, KInv, CleanedAreOld, Cleaning, Kept, Held, Live
  <2>4. QED
    BY <2>1, <2>2, <2>3 DEF KInv
<1>17. QED
  BY <1>1, <1>2, <1>3, <1>4, <1>5, <1>6, <1>7, <1>8, <1>10, <1>11, <1>12, <1>13, <1>14, <1>15,
     <1>16 DEF Next, UserStep, ControllerStep

\* A live model with its finalizer loses its keys only to its twin's controller, working a
\* deletion from an outdated copy (reconcileDelete deletes the Secret by name).
THEOREM OnlyStaleDeletionsHurt == Spec => OnlyStaleTwinsTakeKeys
<1>1. Init => KInv
  BY ClientKinds DEF Init, Absent, KInv, CurrentIsFresh, MarksAreOld, CleanedAreOld, Cleaning
<1>2. IInv /\ KInv /\ [Next]_vars =>
        \A o \in Objects :
          Held(o) /\ Live(o) /\ o[2] \in secret /\ o[2] \notin secret' =>
            LET k == Other(o[1]) IN
            Does(k, "clean") /\ call[k].object = Twin(o) /\ ~call[k].current
  <2> SUFFICES ASSUME IInv, KInv, [Next]_vars, NEW o \in Objects, Held(o), Live(o),
                      o[2] \in secret, o[2] \notin secret'
               PROVE  LET k == Other(o[1]) IN
                      Does(k, "clean") /\ call[k].object = Twin(o) /\ ~call[k].current
    OBVIOUS
  <2>1. PICK k \in Kinds : DeleteSecret(k)
    BY DEF Next, UserStep, ControllerStep, vars, cache, AskCreate, AskUpdate, StoreCreate,
           StoreUpdate, Delete, Relabel, AskAddFinalizer, BeginProvision, BeginDelete,
           StoreFinalizer, WriteSecret, StoreRemoval, CheckNamespace, CheckName, Refused,
           Restart, SeeObject
  <2>2. /\ call[k] # Idle /\ call[k].op = "clean" /\ call[k].object \in Objects
        /\ call[k].object[1] = k /\ call[k].object[2] = o[2]
    BY <2>1, DoesSomething, ClientKinds DEF DeleteSecret, Does, Ops, IInv, CallsFit, Fits
  <2>3. call[k].object # o
    BY <2>2 DEF KInv, CleanedAreOld, Cleaning, Kept
  <2>4. call[k].object = Twin(o) /\ k = Other(o[1])
    BY <2>2, <2>3 DEF Objects, Twin, Other, Kinds
  <2>5. ~call[k].current
    <3>1. SUFFICES ASSUME call[k].current PROVE FALSE
      OBVIOUS
    <3>2. Held(call[k].object)
      BY <2>2, <3>1, ClientKinds DEF IInv, CallsFit, Fits
    <3>3. QED
      BY <2>4, <3>2 DEF IInv, OneFinalizer
  <2>6. QED
    BY <2>2, <2>4, <2>5 DEF Does
<1>3. QED
  BY <1>1, <1>2, MarksStep, InvariantHolds, PTL DEF Spec, OnlyStaleTwinsTakeKeys

(***************************************************************************)
(* What is stored has passed the webhook.                                  *)
(***************************************************************************)
\* The spec that is stored, the cached one, and the one of a request that is past the
\* first check.
ObjectFits(o) == object[o].exists => WellFormed(o[1], object[o].spec)
CopyFits(o) == seen[o].exists => WellFormed(o[1], seen[o].spec)
RequestFits(c) ==
  call[c] # Idle /\ (c \in Kinds \/ call[c].step # "asked") =>
    WellFormed(call[c].object[1], call[c].spec)
SpecsFit ==
  /\ \A o \in Objects : ObjectFits(o)
  /\ \A o \in Objects : CopyFits(o)
  /\ \A c \in Clients : RequestFits(c)

\* A request that is outdated is the same request.
LEMMA OutdatedSpec ==
  ASSUME NEW r \in Call \cup {Idle}, NEW o, r # Idle
  PROVE  /\ Outdated(r, o) # Idle /\ Outdated(r, o).spec = r.spec
         /\ Outdated(r, o).object = r.object /\ Outdated(r, o).step = r.step
         /\ Outdated(r, o).op = r.op
BY DEF Outdated, Call, Idle, Ops

\* A request that stays as it is, is outdated or ends keeps fitting.
LEMMA RequestKept ==
  ASSUME TypeOK, NEW d \in Clients, RequestFits(d),
         \/ call'[d] = call[d] \/ call'[d] = Idle
         \/ \E o : call'[d] = Outdated(call[d], o)
  PROVE  RequestFits(d)'
<1>1. call[d] \in Call \cup {Idle}
  BY DEF TypeOK
<1>2. CASE \E o : call'[d] = Outdated(call[d], o)
  BY <1>1, <1>2, OutdatedSpec, OutdatedShape DEF RequestFits
<1>3. QED
  BY <1>2 DEF RequestFits

\* A store of what fits leaves what is stored, and the copies, fitting.
LEMMA ObjectsKept ==
  ASSUME \A o \in Objects : ObjectFits(o), \A o \in Objects : CopyFits(o),
         NEW p \in Objects, NEW x,
         x.exists => WellFormed(p[1], x.spec),
         TypeOK, Store(p, x)
  PROVE  /\ \A o \in Objects : ObjectFits(o)'
         /\ \A o \in Objects : CopyFits(o)'
BY DEF ObjectFits, CopyFits, TypeOK, Store

\* Every step keeps it so: the one that needs the webhook is the first of the checks.
LEMMA SpecsFitStep == TypeOK /\ CallsFit /\ SpecsFit /\ [Next]_vars => SpecsFit'
<1> SUFFICES ASSUME TypeOK, CallsFit, SpecsFit, [Next]_vars PROVE SpecsFit'
  OBVIOUS
<1> USE ClientKinds
<1>0. /\ \A o \in Objects : ObjectFits(o)
      /\ \A o \in Objects : CopyFits(o)
      /\ \A c \in Clients : RequestFits(c)
  BY DEF SpecsFit
<1>a. ASSUME UNCHANGED <<object, cache>>, \A d \in Clients : RequestFits(d)' PROVE SpecsFit'
  BY <1>0, <1>a DEF SpecsFit, ObjectFits, CopyFits, cache
<1>1. ASSUME NEW c \in Users, NEW o \in Objects, NEW s \in Specs,
             AskCreate(c, o, s) \/ AskUpdate(c, o, s)
      PROVE  SpecsFit'
  <2>1. ASSUME NEW d \in Clients PROVE RequestFits(d)'
    <3>1. CASE d = c
      <4>1. \/ call'[c] = Asking("create", o, s) \/ call'[c] = Asking("update", o, s)
        BY <1>1 DEF AskCreate, AskUpdate, TypeOK
      <4>2. call'[c].step = "asked"
        BY <4>1 DEF Asking
      <4>3. QED
        BY <3>1, <4>2 DEF RequestFits
    <3>2. CASE d # c
      BY <1>0, <1>1, <3>2, RequestKept DEF AskCreate, AskUpdate, TypeOK
    <3>3. QED
      BY <3>1, <3>2
  <2>2. QED
    BY <1>a, <1>1, <2>1 DEF AskCreate, AskUpdate
<1>2. ASSUME NEW c \in Clients, NEW o \in Objects, EndsWith(c, o)
      PROVE  \A d \in Clients : RequestFits(d)'
  BY <1>0, <1>2, EndsWithShape, RequestKept
<1>3. ASSUME NEW c \in Users, StoreCreate(c) PROVE SpecsFit'
  <2> DEFINE x == [exists |-> TRUE, spec |-> call[c].spec, finalizer |-> FALSE,
                   deleting |-> FALSE]
             o == call[c].object
  <2>1. call[c] # Idle /\ o \in Objects /\ call[c].step = "admitted"
    BY <1>3, DoesSomething DEF StoreCreate, Ops
  <2>2. WellFormed(o[1], x.spec)
    BY <1>0, <2>1 DEF RequestFits
  <2>3. Store(o, x) /\ EndsWith(c, o)
    BY <1>3 DEF StoreCreate
  <2>4. (\A p \in Objects : ObjectFits(p)') /\ (\A p \in Objects : CopyFits(p)')
    <3> HIDE DEF x, o
    <3>1. QED
      BY <1>0, <2>1, <2>2, <2>3, ObjectsKept
  <2>5. QED
    BY <1>2, <2>1, <2>3, <2>4 DEF SpecsFit
<1>4. ASSUME NEW c \in Users, StoreUpdate(c) PROVE SpecsFit'
  <2> DEFINE o == call[c].object
             x == [object[o] EXCEPT !.spec = call[c].spec]
  <2>1. /\ call[c] # Idle /\ o \in Objects /\ call[c].step = "admitted"
        /\ call[c].op = "update" /\ call[c].current
    BY <1>4, DoesSomething DEF StoreUpdate, Ops, Does
  <2>2. object[o] \in Object
    BY <2>1, ObjectOfCall
  <2>3. WellFormed(o[1], x.spec)
    BY <1>0, <2>1, <2>2 DEF RequestFits, Object
  <2>4. Store(o, x) /\ EndsWith(c, o)
    BY <1>4 DEF StoreUpdate
  <2>5. (\A p \in Objects : ObjectFits(p)') /\ (\A p \in Objects : CopyFits(p)')
    <3> HIDE DEF x, o
    <3>1. QED
      BY <1>0, <2>1, <2>3, <2>4, ObjectsKept
  <2>6. QED
    BY <1>2, <2>1, <2>4, <2>5 DEF SpecsFit
<1>5. ASSUME NEW o \in Objects, Delete(o) PROVE SpecsFit'
  <2>1. object[o] \in Object /\ object[o].exists
    BY <1>5, Present DEF Delete
  <2>2. Deleted(object[o]).exists => WellFormed(o[1], Deleted(object[o]).spec)
    BY <1>0, <2>1 DEF Deleted, ObjectFits, Absent, Object
  <2>3. (\A p \in Objects : ObjectFits(p)') /\ (\A p \in Objects : CopyFits(p)')
    BY <1>0, <1>5, <2>2, ObjectsKept DEF Delete
  <2>4. \A d \in Clients : RequestFits(d)'
    BY <1>0, <1>5, RequestKept DEF Delete
  <2>5. QED
    BY <2>3, <2>4 DEF SpecsFit
<1>6. CASE Relabel \/ UNCHANGED vars
  BY <1>0, <1>6 DEF Relabel, vars, cache, SpecsFit, ObjectFits, CopyFits, RequestFits
<1>7. ASSUME NEW k \in Kinds, NEW n \in Names,
             AskAddFinalizer(k, n) \/ BeginProvision(k, n) \/ BeginDelete(k, n)
      PROVE  SpecsFit'
  <2> DEFINE o == <<k, n>>
  <2>1. o \in Objects /\ o[1] = k
    BY DEF Objects
  <2>2. /\ UNCHANGED <<object, cache>> /\ seen[o].exists
        /\ \E op \in Ops : call' = [call EXCEPT ![k] = AskingAsSeen(op, o)]
    BY <1>7 DEF AskAddFinalizer, BeginProvision, BeginDelete, Ops
  <2>3. ASSUME NEW d \in Clients PROVE RequestFits(d)'
    <3>1. CASE d = k
      <4>1. call'[k].object = o /\ call'[k].spec = seen[o].spec
        BY <2>1, <2>2, AskingCopy DEF TypeOK
      <4>2. QED
        BY <1>0, <2>1, <2>2, <3>1, <4>1 DEF RequestFits, CopyFits
    <3>2. CASE d # k
      BY <1>0, <2>2, <3>2, RequestKept DEF TypeOK
    <3>3. QED
      BY <3>1, <3>2
  <2>4. QED
    BY <1>a, <2>2, <2>3
<1>8. ASSUME NEW k \in Kinds, StoreFinalizer(k) PROVE SpecsFit'
  <2> DEFINE o == call[k].object
             x == [object[o] EXCEPT !.finalizer = TRUE]
  <2>1. /\ call[k] # Idle /\ o \in Objects /\ call[k].current /\ call[k].op = "addFinalizer"
    BY <1>8, DoesSomething DEF StoreFinalizer, Ops, Does
  <2>2. object[o] \in Object
    BY <2>1, ObjectOfCall
  <2>3. x.exists => WellFormed(o[1], x.spec)
    BY <1>0, <2>1, <2>2 DEF ObjectFits, Object
  <2>4. Store(o, x) /\ EndsWith(k, o)
    BY <1>8 DEF StoreFinalizer
  <2>5. (\A p \in Objects : ObjectFits(p)') /\ (\A p \in Objects : CopyFits(p)')
    <3> HIDE DEF x, o
    <3>1. QED
      BY <1>0, <2>1, <2>3, <2>4, ObjectsKept
  <2>6. QED
    BY <1>2, <2>1, <2>4, <2>5 DEF SpecsFit
<1>9. ASSUME NEW k \in Kinds, StoreRemoval(k) PROVE SpecsFit'
  <2>1. call[k].object \in Objects
    BY <1>9, DoesSomething DEF StoreRemoval, Ops
  <2>2. ~Absent.exists
    BY DEF Absent
  <2>3. Store(call[k].object, Absent) /\ EndsWith(k, call[k].object)
    BY <1>9 DEF StoreRemoval
  <2>4. (\A p \in Objects : ObjectFits(p)') /\ (\A p \in Objects : CopyFits(p)')
    BY <1>0, <2>1, <2>2, <2>3, ObjectsKept
  <2>5. QED
    BY <1>2, <2>1, <2>3, <2>4 DEF SpecsFit
<1>10. ASSUME NEW k \in Kinds, WriteSecret(k) PROVE SpecsFit'
  <2>1. \A d \in Clients : RequestFits(d)'
    BY <1>0, <1>10, RequestKept DEF WriteSecret, Finish, TypeOK
  <2>2. QED
    BY <1>a, <1>10, <2>1 DEF WriteSecret
<1>11. ASSUME NEW k \in Kinds, DeleteSecret(k) PROVE SpecsFit'
  <2>1. call[k] \in Call
    BY <1>11, DoesSomething DEF DeleteSecret, Ops
  <2>2. call'[k].object = call[k].object /\ call'[k].spec = call[k].spec /\ call[k] # Idle
    BY <1>11, <2>1, DoesSomething DEF DeleteSecret, TypeOK, Call, Ops
  <2>3. ASSUME NEW d \in Clients PROVE RequestFits(d)'
    <3>1. CASE d = k
      BY <1>0, <2>2, <3>1 DEF RequestFits
    <3>2. CASE d # k
      BY <1>0, <1>11, <3>2, RequestKept DEF DeleteSecret, TypeOK
    <3>3. QED
      BY <3>1, <3>2
  <2>4. QED
    BY <1>a, <1>11, <2>3 DEF DeleteSecret
<1>12. ASSUME NEW c \in Clients, CheckNamespace(c) \/ CheckName(c) PROVE SpecsFit'
  <2>1. call[c] \in Call /\ call[c] # Idle
    BY <1>12, UnderWay DEF CheckNamespace, CheckName, NeedsAdmission, Idle
  <2>2. call'[c].object = call[c].object /\ call'[c].spec = call[c].spec
    BY <1>12, <2>1 DEF CheckNamespace, CheckName, Advance, TypeOK, Call
  <2>3. WellFormed(call[c].object[1], call[c].spec)
    BY <1>0, <1>12, <2>1 DEF RequestFits, CheckNamespace, CheckName
  <2>4. ASSUME NEW d \in Clients PROVE RequestFits(d)'
    <3>1. CASE d = c
      BY <2>2, <2>3, <3>1 DEF RequestFits
    <3>2. CASE d # c
      BY <1>0, <1>12, <3>2, RequestKept DEF CheckNamespace, CheckName, Advance, TypeOK
    <3>3. QED
      BY <3>1, <3>2
  <2>5. QED
    BY <1>a, <1>12, <2>4 DEF CheckNamespace, CheckName
<1>13. ASSUME NEW c \in Clients, Refused(c) PROVE SpecsFit'
  <2>1. \A d \in Clients : RequestFits(d)'
    BY <1>0, <1>13, RequestKept DEF Refused, Finish, TypeOK
  <2>2. QED
    BY <1>a, <1>13, <2>1 DEF Refused
<1>14. CASE Restart
  <2>1. \A d \in Clients : RequestFits(d)'
    BY <1>0, <1>14, RequestKept DEF Restart, TypeOK
  <2>2. QED
    BY <1>a, <1>14, <2>1 DEF Restart
<1>15. ASSUME NEW o \in Objects, SeeObject(o) PROVE SpecsFit'
  <2>1. \A p \in Objects : ObjectFits(p)' /\ CopyFits(p)'
    BY <1>0, <1>15 DEF SeeObject, ObjectFits, CopyFits, TypeOK
  <2>2. \A d \in Clients : RequestFits(d)'
    BY <1>0, <1>15, RequestKept DEF SeeObject
  <2>3. QED
    BY <2>1, <2>2 DEF SpecsFit
<1>16. QED
  BY <1>1, <1>3, <1>4, <1>5, <1>6, <1>7, <1>8, <1>9, <1>10, <1>11, <1>12, <1>13, <1>14, <1>15
     DEF Next, UserStep, ControllerStep

\* Nothing ill-formed is ever stored: whatever is in the API server has passed the
\* webhook's checks of its fields, also after the updates of the controllers and when a
\* user's update overtakes them.
THEOREM StoredIsWellFormed == Spec => []SpecsFit
<1>1. Init => SpecsFit
  BY DEF Init, SpecsFit, ObjectFits, CopyFits, RequestFits, Absent
<1>2. IInv => TypeOK /\ CallsFit
  BY DEF IInv
<1>3. QED
  BY <1>1, <1>2, SpecsFitStep, InvariantHolds, PTL DEF Spec

(***************************************************************************)
(* Deletions end.                                                          *)
(***************************************************************************)
Deletes(k, n) == object[<<k, n>>].exists /\ object[<<k, n>>].deleting

\* Where the request for a deletion is.
Cleans(k, n) ==
  About(k, n) /\ Does(k, "clean") /\ call[k].step = "asked" /\ call[k].current
Removes(k, n, step) ==
  About(k, n) /\ Does(k, "removeFinalizer") /\ call[k].step = step /\ call[k].current

\* The request of the controller was made for the object as it is.
Fresh(k, n) ==
  About(k, n) => Cleans(k, n) \/ Removes(k, n, "asked") \/ Removes(k, n, "labelled")
                 \/ Removes(k, n, "admitted")

\* What throws a deletion back: a restart of the operator, an update of the object.
Interferes(k, n) == Restart \/ \E c \in Users : call[c].object = <<k, n>> /\ StoreUpdate(c)

\* What the controller of k itself does.
Turn(k) == ControllerStep(k) \/ CheckNamespace(k) \/ CheckName(k) \/ Refused(k)

\* While its object is being deleted, nobody else changes what its controller is about:
\* the others' stores are of other objects.
LEMMA Waiting ==
  ASSUME IInv, NEW k \in Kinds, NEW n \in Names, Deletes(k, n), [Next]_vars, ~Turn(k),
         Deletes(k, n)', ~Interferes(k, n)
  PROVE  /\ call'[k] = Idle <=> call[k] = Idle
         /\ About(k, n)' <=> About(k, n)
         /\ About(k, n) => call'[k] = call[k]
<1> USE ClientKinds
<1>0. /\ TypeOK /\ CallsFit /\ <<k, n>> \in Objects /\ k \in Clients
      /\ call[k] \in Call \cup {Idle}
  BY DEF IInv, Objects, TypeOK
<1>1. ASSUME call'[k] = call[k]
      PROVE  /\ call'[k] = Idle <=> call[k] = Idle
             /\ About(k, n)' <=> About(k, n)
             /\ About(k, n) => call'[k] = call[k]
  BY <1>1 DEF About
<1>2. ASSUME NEW o \in Objects, o # <<k, n>>, call'[k] = Outdated(call[k], o)
      PROVE  /\ call'[k] = Idle <=> call[k] = Idle
             /\ About(k, n)' <=> About(k, n)
             /\ About(k, n) => call'[k] = call[k]
  BY <1>0, <1>2, OutdatedShape, OutdatedSpec DEF About, Outdated
<1>3. ASSUME NEW c \in Clients, c # k, NEW o \in Objects, EndsWith(c, o), o # <<k, n>>
      PROVE  /\ call'[k] = Idle <=> call[k] = Idle
             /\ About(k, n)' <=> About(k, n)
             /\ About(k, n) => call'[k] = call[k]
  BY <1>0, <1>2, <1>3, EndsWithShape
<1>4. ASSUME NEW c \in Users,
             \/ \E o \in Objects, s \in Specs : AskCreate(c, o, s) \/ AskUpdate(c, o, s)
      PROVE  call'[k] = call[k]
  BY <1>0, <1>4 DEF AskCreate, AskUpdate, TypeOK
<1>5. ASSUME NEW c \in Users, StoreCreate(c) \/ StoreUpdate(c)
      PROVE  /\ call[c].object \in Objects /\ EndsWith(c, call[c].object)
             /\ call[c].object # <<k, n>>
  BY <1>0, <1>5, DoesSomething DEF StoreCreate, StoreUpdate, Ops, Deletes, Interferes
<1>6. ASSUME NEW o \in Objects, Delete(o)
      PROVE  o # <<k, n>> /\ call'[k] = Outdated(call[k], o)
  BY <1>0, <1>6 DEF Delete, Deletes
<1>7. ASSUME NEW j \in Kinds, j # k, StoreFinalizer(j) \/ StoreRemoval(j)
      PROVE  /\ call[j].object \in Objects /\ EndsWith(j, call[j].object)
             /\ call[j].object # <<k, n>>
  <2>1. call[j] # Idle /\ call[j].object \in Objects
    BY <1>0, <1>7, DoesSomething DEF StoreFinalizer, StoreRemoval, Ops
  <2>2. call[j].object[1] = j
    BY <1>0, <2>1 DEF CallsFit, Fits
  <2>3. QED
    BY <1>7, <2>1, <2>2 DEF StoreFinalizer, StoreRemoval
<1>8. ASSUME NEW j \in Kinds, j # k,
             \/ \E m \in Names : AskAddFinalizer(j, m) \/ BeginProvision(j, m) \/ BeginDelete(j, m)
             \/ WriteSecret(j) \/ DeleteSecret(j)
      PROVE  call'[k] = call[k]
  BY <1>0, <1>8 DEF AskAddFinalizer, BeginProvision, BeginDelete, WriteSecret, DeleteSecret,
                    Finish, TypeOK
<1>9. ASSUME NEW c \in Clients, c # k, CheckNamespace(c) \/ CheckName(c) \/ Refused(c)
      PROVE  call'[k] = call[k]
  BY <1>0, <1>9 DEF CheckNamespace, CheckName, Refused, Advance, Finish, TypeOK
<1>10. CASE Relabel \/ UNCHANGED vars \/ \E o \in Objects : SeeObject(o)
  BY <1>1, <1>10 DEF Relabel, vars, SeeObject
<1>11. ~Restart
  BY DEF Interferes
<1>12. ASSUME NEW c \in Users,
              \/ StoreCreate(c) \/ StoreUpdate(c)
              \/ \E o \in Objects, s \in Specs : AskCreate(c, o, s) \/ AskUpdate(c, o, s)
       PROVE  /\ call'[k] = Idle <=> call[k] = Idle
              /\ About(k, n)' <=> About(k, n)
              /\ About(k, n) => call'[k] = call[k]
  <2>1. c \in Clients /\ c # k
    OBVIOUS
  <2>2. QED
    BY <1>1, <1>3, <1>4, <1>5, <1>12, <2>1
<1>13. ASSUME NEW j \in Kinds, ControllerStep(j)
       PROVE  /\ call'[k] = Idle <=> call[k] = Idle
              /\ About(k, n)' <=> About(k, n)
              /\ About(k, n) => call'[k] = call[k]
  <2>1. j \in Clients /\ j # k
    BY <1>13 DEF Turn
  <2>2. QED
    BY <1>1, <1>3, <1>7, <1>8, <1>13, <2>1 DEF ControllerStep
<1>14. ASSUME NEW c \in Clients, CheckNamespace(c) \/ CheckName(c) \/ Refused(c)
       PROVE  /\ call'[k] = Idle <=> call[k] = Idle
              /\ About(k, n)' <=> About(k, n)
              /\ About(k, n) => call'[k] = call[k]
  BY <1>1, <1>9, <1>14 DEF Turn
<1>15. QED
  BY <1>2, <1>6, <1>10, <1>11, <1>12, <1>13, <1>14 DEF Next, UserStep

\* Nothing is stored at the object meanwhile, and the cache keeps showing it once it does.
Sees(k, n) == <<k, n>> \in fresh
LEMMA SeesOn ==
  ASSUME IInv, NEW k \in Kinds, NEW n \in Names, Deletes(k, n), [Next]_vars,
         Deletes(k, n)', ~Interferes(k, n), Sees(k, n)
  PROVE  Sees(k, n)'
<1> USE ClientKinds
<1>0. TypeOK /\ CallsFit /\ <<k, n>> \in Objects
  BY DEF IInv, Objects
<1>1. ASSUME NEW o, NEW x, Store(o, x), o # <<k, n>> PROVE Sees(k, n)'
  BY <1>1 DEF Store, Sees
<1>2. ASSUME NEW c \in Users, StoreCreate(c) \/ StoreUpdate(c) PROVE call[c].object # <<k, n>>
  BY <1>2 DEF StoreCreate, StoreUpdate, Deletes, Interferes
<1>3. ASSUME NEW o \in Objects, Delete(o) PROVE o # <<k, n>>
  BY <1>3 DEF Delete, Deletes
<1>4. ASSUME NEW j \in Kinds, StoreFinalizer(j) PROVE call[j].object # <<k, n>>
  <2>1. call[j] # Idle /\ call[j].op = "addFinalizer" /\ call[j].current
    BY <1>0, <1>4, DoesSomething DEF StoreFinalizer, Ops, Does
  <2>2. ~object[call[j].object].deleting
    BY <2>1 DEF IInv, CallsFit, Fits
  <2>3. QED
    BY <2>2 DEF Deletes
<1>5. ASSUME NEW j \in Kinds, StoreRemoval(j) PROVE call[j].object # <<k, n>>
  BY <1>0, <1>5 DEF StoreRemoval, Store, TypeOK, Deletes, Absent
<1>6. ASSUME NEW o \in Objects, SeeObject(o) PROVE Sees(k, n)'
  BY <1>6 DEF SeeObject, Sees
<1>7. ASSUME UNCHANGED cache PROVE Sees(k, n)'
  BY <1>7 DEF cache, Sees
<1>8. ASSUME NEW c \in Users, StoreCreate(c) \/ StoreUpdate(c) PROVE Sees(k, n)'
  BY <1>1, <1>2, <1>8 DEF StoreCreate, StoreUpdate
<1>9. ASSUME NEW o \in Objects, Delete(o) PROVE Sees(k, n)'
  BY <1>1, <1>3, <1>9 DEF Delete
<1>10. ASSUME NEW j \in Kinds, StoreFinalizer(j) \/ StoreRemoval(j) PROVE Sees(k, n)'
  BY <1>1, <1>4, <1>5, <1>10 DEF StoreFinalizer, StoreRemoval
<1>11. QED
  BY <1>6, <1>7, <1>8, <1>9, <1>10
     DEF Next, UserStep, ControllerStep, vars, AskCreate, AskUpdate, Relabel, AskAddFinalizer,
         BeginProvision, BeginDelete, WriteSecret, DeleteSecret, CheckNamespace, CheckName,
         Refused, Restart

\* The controller's own steps, one by one, while its object is being deleted and its copy
\* says so.
LEMMA TurnMoves ==
  ASSUME IInv, NEW k \in Kinds, NEW n \in Names, Deletes(k, n), Turn(k), Deletes(k, n)',
         Sees(k, n)
  PROVE  /\ call[k] = Idle => Cleans(k, n)' \/ ~About(k, n)'
         /\ BeginDelete(k, n) => Cleans(k, n)'
         /\ Cleans(k, n) => Removes(k, n, "asked")'
         /\ Removes(k, n, "asked") => Removes(k, n, "labelled")' \/ (call[k] = Idle)'
         /\ Removes(k, n, "labelled") => Removes(k, n, "admitted")' \/ (call[k] = Idle)'
         /\ Removes(k, n, "admitted") => (call[k] = Idle)'
         /\ CheckNamespace(k) /\ Removes(k, n, "asked") => Removes(k, n, "labelled")'
         /\ CheckName(k) /\ Removes(k, n, "labelled") => Removes(k, n, "admitted")'
         /\ call[k] # Idle /\ ~About(k, n) => ~About(k, n)'
<1> USE ClientKinds
<1>0. /\ TypeOK /\ CallsFit /\ <<k, n>> \in Objects /\ k \in Clients
      /\ call[k] \in Call \cup {Idle}
  BY DEF IInv, Objects, TypeOK
<1>s. seen[<<k, n>>] = object[<<k, n>>]
  BY DEF IInv, CopiesFresh, Sees
<1>1. ASSUME NEW m \in Names, AskAddFinalizer(k, m) \/ BeginProvision(k, m)
      PROVE  call[k] = Idle /\ ~About(k, n)'
  <2>1. call[k] = Idle /\ m # n
    BY <1>1, <1>s DEF AskAddFinalizer, BeginProvision, Deletes
  <2>2. call'[k].object = <<k, m>>
    BY <1>0, <1>1 DEF AskAddFinalizer, BeginProvision, TypeOK, AskingAsSeen
  <2>3. QED
    BY <2>1, <2>2 DEF About
<1>2. ASSUME NEW m \in Names, BeginDelete(k, m)
      PROVE  /\ call[k] = Idle
             /\ m = n => Cleans(k, n)'
             /\ m # n => ~About(k, n)'
  <2>1. call[k] = Idle /\ call'[k] = AskingAsSeen("clean", <<k, m>>)
    BY <1>0, <1>2 DEF BeginDelete, TypeOK
  <2>2. seen[<<k, m>>].exists /\ <<k, m>> \in Objects /\ "clean" \in Ops
    BY <1>2 DEF BeginDelete, Objects, Ops
  <2>3. /\ call'[k].op = "clean" /\ call'[k].object = <<k, m>>
        /\ m = n => call'[k].current
        /\ call'[k].step = "asked" /\ call'[k] # Idle
    BY <1>0, <2>1, <2>2, AskingCopy DEF Sees
  <2>4. QED
    BY <2>1, <2>3 DEF About, Cleans, Does
<1>3. CASE DeleteSecret(k)
  <2>1. call[k] \in Call /\ call[k] # Idle /\ call[k].op = "clean"
    BY <1>0, <1>3, DoesSomething DEF DeleteSecret, Ops, Does
  <2>2. /\ call'[k].op = "removeFinalizer" /\ call'[k].object = call[k].object
        /\ call'[k].current = call[k].current /\ call'[k].step = call[k].step
        /\ call'[k] # Idle
    BY <1>0, <1>3, <2>1 DEF DeleteSecret, TypeOK, Call, Idle
  <2>3. QED
    BY <2>1, <2>2 DEF About, Cleans, Does, Removes, BeginDelete
<1>4. CASE WriteSecret(k) \/ StoreFinalizer(k) \/ StoreRemoval(k) \/ Refused(k)
  <2>1. call'[k] = Idle /\ call[k] # Idle
    <3>1. CASE WriteSecret(k)
      BY <1>0, <3>1, DoesSomething DEF WriteSecret, Finish, TypeOK, Ops
    <3>2. CASE StoreFinalizer(k)
      <4>1. call[k] # Idle /\ call[k].object \in Objects /\ EndsWith(k, call[k].object)
        BY <1>0, <3>2, DoesSomething DEF StoreFinalizer, Ops
      <4>2. QED
        BY <1>0, <4>1, EndsWithShape
    <3>3. CASE StoreRemoval(k)
      <4>1. call[k] # Idle /\ call[k].object \in Objects /\ EndsWith(k, call[k].object)
        BY <1>0, <3>3, DoesSomething DEF StoreRemoval, Ops
      <4>2. QED
        BY <1>0, <4>1, EndsWithShape
    <3>4. CASE Refused(k)
      BY <1>0, <3>4 DEF Refused, NeedsAdmission, Idle, Finish, TypeOK
    <3>5. QED
      BY <1>4, <3>1, <3>2, <3>3, <3>4
  <2>2. ~Cleans(k, n)
    BY <1>4 DEF WriteSecret, StoreFinalizer, StoreRemoval, Refused, NeedsAdmission, Does, Cleans
  <2>3. ~CheckNamespace(k) /\ ~CheckName(k) /\ ~BeginDelete(k, n)
    <3>1. ~CheckNamespace(k)
      <4>1. SUFFICES ASSUME CheckNamespace(k) PROVE FALSE
        OBVIOUS
      <4>2. call'[k] = [call[k] EXCEPT !.step = "labelled"] /\ call[k] \in Call
        BY <1>0, <2>1, <4>1 DEF CheckNamespace, Advance, TypeOK
      <4>3. call'[k].step = "labelled" /\ call'[k].op \in Ops
        BY <4>2 DEF Call
      <4>4. QED
        BY <2>1, <4>3 DEF Idle, Ops
    <3>2. ~CheckName(k)
      <4>1. SUFFICES ASSUME CheckName(k) PROVE FALSE
        OBVIOUS
      <4>2. call'[k] = [call[k] EXCEPT !.step = "admitted"] /\ call[k] \in Call
        BY <1>0, <2>1, <4>1 DEF CheckName, Advance, TypeOK
      <4>3. call'[k].step = "admitted" /\ call'[k].op \in Ops
        BY <4>2 DEF Call
      <4>4. QED
        BY <2>1, <4>3 DEF Idle, Ops
    <3>3. QED
      BY <2>1, <3>1, <3>2 DEF BeginDelete
  <2>4. ~About(k, n)'
    BY <2>1 DEF About
  <2>5. QED
    BY <2>1, <2>2, <2>3, <2>4
<1>5. CASE CheckNamespace(k) \/ CheckName(k)
  <2>1. call[k] \in Call /\ call[k] # Idle /\ NeedsAdmission(k)
    BY <1>0, <1>5, UnderWay DEF CheckNamespace, CheckName, NeedsAdmission, Idle
  <2>2. /\ call'[k].op = call[k].op /\ call'[k].object = call[k].object
        /\ call'[k].current = call[k].current /\ call'[k] # Idle
        /\ CheckNamespace(k) => call[k].step = "asked" /\ call'[k].step = "labelled"
        /\ CheckName(k) => call[k].step = "labelled" /\ call'[k].step = "admitted"
    BY <1>0, <1>5, <2>1 DEF CheckNamespace, CheckName, Advance, TypeOK, Call, Idle
  <2>3. ~Cleans(k, n) /\ ~BeginDelete(k, n)
    BY <2>1 DEF NeedsAdmission, Cleans, Does, BeginDelete
  <2>4. About(k, n)' <=> About(k, n)
    BY <2>1, <2>2 DEF About
  <2>5. QED
    BY <1>5, <2>1, <2>2, <2>3, <2>4 DEF Removes, Does
<1>6. QED
  <2>1. ASSUME NEW m \in Names, AskAddFinalizer(k, m) \/ BeginProvision(k, m) \/ BeginDelete(k, m)
        PROVE  /\ call[k] = Idle /\ ~About(k, n) /\ ~Cleans(k, n)
               /\ \A step \in {"asked", "labelled", "admitted"} : ~Removes(k, n, step)
    BY <2>1 DEF AskAddFinalizer, BeginProvision, BeginDelete, About, Cleans, Removes
  <2>2. ASSUME NEW m \in Names, AskAddFinalizer(k, m) \/ BeginProvision(k, m)
        PROVE  ~BeginDelete(k, n)
    BY <1>0, <2>2, <1>1, <1>2 DEF Cleans
  <2>3. ASSUME NEW m \in Names, BeginDelete(k, m)
        PROVE  BeginDelete(k, n) => Cleans(k, n)'
    BY <1>2
  <2>4. QED
    BY <1>1, <1>2, <1>3, <1>4, <1>5, <2>1, <2>2, <2>3 DEF Turn, ControllerStep

\* The operator and the users leave the deletion alone, from some time on.
Calm(k, n) == <>[][~Interferes(k, n)]_vars
TwinLives(k, n) == Live(Twin(<<k, n>>))

\* How the operation of a controller's request can change.
LEMMA WorkerMoves ==
  ASSUME IInv, [Next]_vars, NEW k \in Kinds, call[k] # Idle
  PROVE  \/ call'[k] = Idle
         \/ call'[k] # Idle /\ call'[k].op = call[k].op
         \/ call[k].op = "clean" /\ call'[k] # Idle /\ call'[k].op = "removeFinalizer"
<1> USE ClientKinds
<1>0. /\ TypeOK /\ CallsFit /\ k \in Clients /\ call[k] \in Call
  BY UnderWay DEF IInv
<1>1. ASSUME NEW o, call'[k] = Outdated(call[k], o)
      PROVE  call'[k] # Idle /\ call'[k].op = call[k].op
  BY <1>0, <1>1, OutdatedSpec
<1>2. ASSUME NEW c \in Clients, NEW o \in Objects, EndsWith(c, o)
      PROVE  \/ call'[k] = Idle
             \/ call'[k] # Idle /\ call'[k].op = call[k].op
  BY <1>0, <1>1, <1>2, EndsWithShape
<1>3. ASSUME NEW c \in Clients,
             StoreCreate(c) \/ StoreUpdate(c) \/ StoreFinalizer(c) \/ StoreRemoval(c)
      PROVE  \E o \in Objects : EndsWith(c, o)
  BY <1>0, <1>3, DoesSomething DEF StoreCreate, StoreUpdate, StoreFinalizer, StoreRemoval, Ops
<1>4. ASSUME NEW c \in Clients, NEW o \in Objects, NEW s \in Specs,
             AskCreate(c, o, s) \/ AskUpdate(c, o, s)
      PROVE  call'[k] = call[k]
  BY <1>0, <1>4 DEF AskCreate, AskUpdate, TypeOK
<1>5. ASSUME NEW o \in Objects, Delete(o) PROVE call'[k] = Outdated(call[k], o)
  BY <1>0, <1>5 DEF Delete
<1>6. ASSUME NEW j \in Kinds, NEW m \in Names,
             AskAddFinalizer(j, m) \/ BeginProvision(j, m) \/ BeginDelete(j, m)
      PROVE  call'[k] = call[k]
  BY <1>0, <1>6 DEF AskAddFinalizer, BeginProvision, BeginDelete, TypeOK
<1>7. ASSUME NEW j \in Kinds, DeleteSecret(j)
      PROVE  \/ call'[k] = call[k]
             \/ call[k].op = "clean" /\ call'[k] # Idle /\ call'[k].op = "removeFinalizer"
  <2>1. CASE j = k
    <3>1. call[k].op = "clean" /\ call'[k] = [call[k] EXCEPT !.op = "removeFinalizer"]
      BY <1>0, <1>7, <2>1 DEF DeleteSecret, Does, TypeOK
    <3>2. QED
      BY <1>0, <3>1 DEF Call, Idle
  <2>2. CASE j # k
    BY <1>0, <1>7, <2>2 DEF DeleteSecret, TypeOK
  <2>3. QED
    BY <2>1, <2>2
<1>8. ASSUME NEW c \in Clients, CheckNamespace(c) \/ CheckName(c)
      PROVE  call'[k] # Idle /\ call'[k].op = call[k].op
  <2>1. PICK step \in {"labelled", "admitted"} : Advance(c, step)
    BY <1>8 DEF CheckNamespace, CheckName
  <2>2. call'[k] = call[k] \/ call'[k] = [call[k] EXCEPT !.step = step]
    BY <1>0, <2>1 DEF Advance, TypeOK
  <2>3. QED
    BY <1>0, <2>2 DEF Call, Idle, Ops
<1>9. ASSUME NEW c \in Clients, WriteSecret(c) \/ Refused(c)
      PROVE  call'[k] = call[k] \/ call'[k] = Idle
  BY <1>0, <1>9 DEF WriteSecret, Refused, Finish, TypeOK
<1>10. CASE Relabel \/ Restart \/ UNCHANGED vars \/ \E o \in Objects : SeeObject(o)
  BY <1>0, <1>10 DEF Relabel, Restart, vars, SeeObject, TypeOK
<1>11. QED
  BY <1>1, <1>2, <1>3, <1>4, <1>5, <1>6, <1>7, <1>8, <1>9, <1>10
     DEF Next, UserStep, ControllerStep

\* A controller that works comes to rest again and again.
LEMMA WorkerRests ==
  ASSUME NEW k \in Kinds
  PROVE  Spec /\ FairWorker(k) /\ []WorkerEnabled(k) => []<>(call[k] = Idle)
<1> DEFINE P == Does(k, "provision")
           C == Does(k, "clean")
           M == call[k] # Idle /\ NeedsAdmission(k)
<1>0. k \in Clients /\ k \notin Users
  BY ClientKinds
<1>1. IInv => call[k] = Idle \/ P \/ C \/ M
  <2> SUFFICES ASSUME IInv, call[k] # Idle PROVE P \/ C \/ M
    OBVIOUS
  <2>1. call[k].op \in Ops \ {"create", "update"}
    BY <1>0 DEF IInv, CallsFit, Fits
  <2>2. QED
    BY <2>1 DEF Ops, Does, NeedsAdmission
<1>2. P \/ C \/ M => call[k] # Idle
  BY DEF Does, Idle
<1>3. IInv /\ [Next]_vars =>
        /\ P => P' \/ (call[k] = Idle)'
        /\ C => C' \/ M' \/ (call[k] = Idle)'
        /\ M => M' \/ (call[k] = Idle)'
  <2> SUFFICES ASSUME IInv, [Next]_vars, call[k] # Idle
               PROVE  /\ P => P' \/ (call[k] = Idle)'
                      /\ C => C' \/ M' \/ (call[k] = Idle)'
                      /\ M => M' \/ (call[k] = Idle)'
    BY <1>2
  <2>1. \/ call'[k] = Idle
        \/ call'[k] # Idle /\ call'[k].op = call[k].op
        \/ call[k].op = "clean" /\ call'[k] # Idle /\ call'[k].op = "removeFinalizer"
    BY WorkerMoves
  <2>2. QED
    BY <2>1 DEF Does, NeedsAdmission
<1>4. IInv /\ <<Ends(k)>>_vars =>
        /\ P => (call[k] = Idle)'
        /\ C => M'
        /\ M => (call[k] = Idle)'
  <2> SUFFICES ASSUME IInv, Ends(k)
               PROVE  /\ P => (call[k] = Idle)'
                      /\ C => M'
                      /\ M => (call[k] = Idle)'
    OBVIOUS
  <2>1. TypeOK /\ k \in Clients
    BY <1>0 DEF IInv
  <2>2. CASE DeleteSecret(k)
    <3>1. call[k] \in Call /\ call[k].op = "clean"
      BY <2>1, <2>2, DoesSomething DEF DeleteSecret, Ops, Does
    <3>2. call'[k].op = "removeFinalizer" /\ call'[k] # Idle
      BY <2>1, <2>2, <3>1 DEF DeleteSecret, TypeOK, Call, Idle
    <3>3. QED
      BY <3>1, <3>2 DEF Does, NeedsAdmission
  <2>3. CASE WriteSecret(k) \/ Refused(k)
    BY <2>1, <2>3 DEF WriteSecret, Refused, Finish, TypeOK, NeedsAdmission, Does
  <2>4. QED
    BY <2>2, <2>3 DEF Ends
<1>5. QED
  BY <1>1, <1>2, <1>3, <1>4, InvariantHolds, PTL DEF Spec, FairWorker, WorkerEnabled

\* What is being deleted has a twin only if that one lives: both cannot have the finalizer.
LEMMA DeletingAlone ==
  ASSUME IInv, NEW o \in Objects, object[o].exists, object[o].deleting, ~Live(Twin(o))
  PROVE  ~NameTaken(o)
<1>1. SUFFICES ASSUME object[Twin(o)].exists PROVE FALSE
  BY DEF NameTaken
<1>2. Twin(o) \in Objects /\ TypeOK
  BY TwinShape DEF IInv
<1>3. object[o] \in Object /\ object[Twin(o)] \in Object /\ object[Twin(o)].deleting
  BY <1>1, <1>2, Present DEF Live
<1>4. Held(o) /\ Held(Twin(o))
  BY <1>3 DEF Object, Held
<1>5. QED
  BY <1>4 DEF IInv, OneFinalizer

\* An object that is deleted for good, with a calm operator, is seen as it is from some
\* time on, and what its controller had begun before ends.  Then the controller makes the
\* request again and again (a round may be refused at any step); the webhook's two checks
\* and the store are each possible again and again, so each is done, and the store of the
\* removal contradicts that the object stays.
LEMMA DeletionEnds ==
  ASSUME NEW k \in Kinds, NEW n \in Names
  PROVE  /\ Spec /\ FairCache(<<k, n>>) /\ FairWorker(k) /\ FairTurns(k, n)
         /\ FairAnswers(k, n) /\ []CacheEnabled(<<k, n>>)
         /\ []WorkerEnabled(k) /\ []TurnsEnabled(k, n) /\ []AnswersEnabled(k, n)
         /\ Calm(k, n) /\ <>[]Deletes(k, n)
         => []<>TwinLives(k, n) \/ []<>(~managed)
<1> DEFINE C == Cleans(k, n)
           R(step) == Removes(k, n, step)
           F == Fresh(k, n)
           I == call[k] = Idle
           S == Sees(k, n)
           Free == managed /\ ~TwinLives(k, n)
           Known == IInv /\ SpecsFit
<1>1. I => F
  BY DEF Fresh, About
<1>2. Known /\ Deletes(k, n) /\ Deletes(k, n)' /\ [Next /\ ~Interferes(k, n)]_vars /\ S =>
        /\ S'
        /\ F => F'
        /\ C => C' \/ R("asked")'
        /\ R("asked") => R("asked")' \/ R("labelled")' \/ I'
        /\ R("labelled") => R("labelled")' \/ R("admitted")' \/ I'
  <2>1. SUFFICES ASSUME Known, Deletes(k, n), Deletes(k, n)', Next, ~Interferes(k, n), S
        PROVE  /\ S'
               /\ F => F'
               /\ C => C' \/ R("asked")'
               /\ R("asked") => R("asked")' \/ R("labelled")' \/ I'
               /\ R("labelled") => R("labelled")' \/ R("admitted")' \/ I'
    BY DEF vars, cache, Fresh, Cleans, Removes, About, Does, Sees
  <2>2. S'
    BY <2>1, SeesOn
  <2>3. CASE Turn(k)
    BY <2>1, <2>2, <2>3, TurnMoves DEF Fresh, About
  <2>4. CASE ~Turn(k)
    BY <2>1, <2>2, <2>4, Waiting DEF Fresh, Cleans, Removes, About, Does
  <2>5. QED
    BY <2>3, <2>4
<1>3. Known /\ I /\ S /\ Deletes(k, n) => ToBeginDelete(k, n)
  BY DEF ToBeginDelete, Deletes, Sees, IInv, CopiesFresh
<1>s. <<SeeObject(<<k, n>>)>>_vars => S'
  BY DEF SeeObject, Sees
<1>e. CacheEnabled(<<k, n>>) => S \/ ENABLED <<SeeObject(<<k, n>>)>>_vars
  BY DEF CacheEnabled, Sees
<1>4. Known /\ Deletes(k, n) /\ Deletes(k, n)' /\ S =>
        /\ <<BeginDelete(k, n)>>_vars => C'
        /\ <<Ends(k)>>_vars /\ C => R("asked")'
        /\ <<NamespaceChecked(k, n)>>_vars /\ F => R("labelled")'
        /\ <<NameChecked(k, n)>>_vars /\ F => R("admitted")'
  BY TurnMoves DEF Turn, ControllerStep, Ends, NamespaceChecked, NameChecked, Fresh,
     CheckNamespace, CheckName, Cleans, Removes, Does, NeedsAdmission
<1>5. IInv /\ <<Removed(k, n)>>_vars => ~Deletes(k, n)'
  BY ClientKinds DEF Removed, About, StoreRemoval, Store, Deletes, Absent, IInv, TypeOK, Objects
<1>6. Known /\ Deletes(k, n) /\ Free =>
        /\ C => call[k] # Idle
        /\ R("asked") => ToCheckNamespace(k, n)
        /\ R("labelled") => ToCheckName(k, n)
        /\ R("admitted") => ToStoreRemoval(k, n)
  <2> SUFFICES ASSUME Known, Deletes(k, n), Free
               PROVE  /\ C => call[k] # Idle
                      /\ R("asked") => ToCheckNamespace(k, n)
                      /\ R("labelled") => ToCheckName(k, n)
                      /\ R("admitted") => ToStoreRemoval(k, n)
    OBVIOUS
  <2>1. k \in Clients /\ <<k, n>> \in Objects
    BY ClientKinds DEF Objects
  <2>2. About(k, n) => WellFormed(k, call[k].spec)
    BY <2>1 DEF SpecsFit, RequestFits, About
  <2>3. ~NameTaken(<<k, n>>)
    BY <2>1, DeletingAlone DEF Deletes, TwinLives
  <2>4. QED
    BY <2>2, <2>3 DEF Cleans, Removes, ToCheckNamespace, ToCheckName, ToStoreRemoval,
                      NeedsAdmission, Does, About
<1>7. QED
  BY <1>1, <1>2, <1>3, <1>s, <1>e, <1>4, <1>5, <1>6, WorkerRests, InvariantHolds,
     StoredIsWellFormed, PTL
     DEF Spec, FairCache, FairWorker, FairTurns, FairAnswers, WorkerEnabled, TurnsEnabled,
         AnswersEnabled, Calm

\* A deletion ends unless a live object of the other kind or a missing label holds it up,
\* for any number of names: under FairSpec, whose steps can be taken when their guards
\* hold, once the object is no longer updated and the operator no longer restarted.
THEOREM DeletionsComplete ==
  /\ FairSpec /\ []StepsAreEnabled
  /\ \A k \in Kinds, n \in Names : Calm(k, n)
  => DeletionsEnd
<1> SUFFICES ASSUME NEW o \in Objects
             PROVE  /\ FairSpec /\ []StepsAreEnabled
                    /\ \A k \in Kinds, n \in Names : Calm(k, n)
                    => (<>[](object[o].exists /\ object[o].deleting)
                        => []<>Live(Twin(o)) \/ []<>(~managed))
  BY DEF DeletionsEnd
<1>1. ASSUME NEW k \in Kinds, NEW n \in Names, o = <<k, n>>
      PROVE  /\ FairSpec /\ []StepsAreEnabled
             /\ \A j \in Kinds, m \in Names : Calm(j, m)
             => (<>[](object[o].exists /\ object[o].deleting)
                 => []<>Live(Twin(o)) \/ []<>(~managed))
  <2>0. <<k, n>> \in Objects
    BY DEF Objects
  <2>1. StepsAreEnabled => /\ CacheEnabled(<<k, n>>) /\ WorkerEnabled(k)
                           /\ TurnsEnabled(k, n) /\ AnswersEnabled(k, n)
    BY <2>0 DEF StepsAreEnabled
  <2>2. FairSpec => /\ Spec /\ FairCache(<<k, n>>) /\ FairWorker(k)
                    /\ FairTurns(k, n) /\ FairAnswers(k, n)
    BY <2>0 DEF FairSpec
  <2>3. (\A j \in Kinds, m \in Names : Calm(j, m)) => Calm(k, n)
    OBVIOUS
  <2>4. /\ object[o].exists /\ object[o].deleting => Deletes(k, n)
        /\ TwinLives(k, n) => Live(Twin(o))
    BY <1>1 DEF Deletes, TwinLives
  <2>5. QED
    BY <2>1, <2>2, <2>3, <2>4, DeletionEnds, PTL
<1>2. \E k \in Kinds, n \in Names : o = <<k, n>>
  BY DEF Objects
<1>3. QED
  BY <1>1, <1>2
====
