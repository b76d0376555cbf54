-------------------------- MODULE PassthroughProofs --------------------------
(***************************************************************************)
(* Proofs about PassthroughController, for any specifications and client   *)
(* IDs and any bounds on edits and faults.                                 *)
(*                                                                         *)
(* That no Reconcile takes the keys of a live model is an argument about   *)
(* stale reads: a Reconcile deletes for a model it has seen deleting, and  *)
(* what lives under that name then is either that model, and deleting, or  *)
(* a later one.  The later one has no finalizer yet: only this worker      *)
(* could set it, and to do so it must first have seen the new uid.         *)
(*                                                                         *)
(* That a settled gateway is right is an argument about what a Reconcile   *)
(* works on: see "What is settled".  That the gateway follows is one about *)
(* what comes next, once nobody interferes: see "Progress".                *)
(***************************************************************************)
EXTENDS PassthroughController, TLAPS

(***************************************************************************)
(* The inductive invariant.                                                *)
(***************************************************************************)

\* A uid is as old as the edit that created it: the next model's is a new one.
UidsAreOld ==
  /\ model.exists => model.uid <= edits
  /\ modelSeen.exists => modelSeen.uid <= edits
  /\ work # Idle => work.copy.uid <= edits

\* The model the cache shows is this one, or another of its name.
SeenIsThis == modelSeen.exists /\ model.exists /\ modelSeen.uid = model.uid

\* A deletion that is seen goes on.
DeletionsLast == SeenIsThis /\ modelSeen.deleting => model.deleting

\* What the worker provisions, the cache shows.
WorkIsSeen ==
  work # Idle /\ ~work.copy.deleting /\ model.exists /\ work.copy.uid = model.uid => SeenIsThis

Kept == Alive /\ model.finalizer

\* Whoever has the finalizer was seen before it got it.
KeptIsSeen == Kept => SeenIsThis

\* The worker deletes for nobody who lives.
DeletesForNobody == At("deleteSecret") \/ At("removeFinalizer") => ~Kept

IInv == TypeOK /\ UidsAreOld /\ DeletionsLast /\ WorkIsSeen /\ KeptIsSeen /\ DeletesForNobody

(***************************************************************************)
(* Shapes.                                                                 *)
(***************************************************************************)

\* A model that is there is a record.
LEMMA ModelShape ==
  ASSUME NEW m \in Model \cup {NoModel}, m.exists
  PROVE  m \in Model
BY DEF NoModel

\* A Reconcile at a step has its record, with the copy of a model.
LEMMA AtShape ==
  ASSUME TypeOK, NEW pc \in PCs, At(pc)
  PROVE  work \in Running /\ work # Idle /\ work.copy \in Model /\ work.copy.exists
<1>1. "idle" \notin PCs
  BY DEF PCs
<1>2. work # Idle
  BY <1>1 DEF At, Idle
<1>3. QED
  BY <1>2 DEF TypeOK, Running, Model

\* The record that Fetch makes of a model.
LEMMA StartShape ==
  ASSUME NEW m \in Model
  PROVE  /\ Start(m) \in Running /\ Start(m) # Idle /\ Start(m).copy = m
         /\ Start(m).pc = "deleteSecret" <=> m.deleting
         /\ Start(m).pc # "removeFinalizer"
<1>1. /\ Start(m).pc \in PCs /\ Start(m).pc # "idle" /\ Start(m).pc # "removeFinalizer"
      /\ Start(m).pc = "deleteSecret" <=> m.deleting
  BY DEF Start, PCs
<1>2. Start(m).copy = m /\ Start(m) # Idle
  BY <1>1 DEF Start, Idle
<1>3. Start(m) \in Running
  BY <1>1 DEF Start, Running
<1>4. QED
  BY <1>1, <1>2, <1>3

LEMMA StepsShape == ASSUME NEW i \in 1..5 PROVE Steps[i] \in Objects
<1>1. i = 1 \/ i = 2 \/ i = 3 \/ i = 4 \/ i = 5
  OBVIOUS
<1>2. QED
  BY <1>1 DEF Steps, Objects, Route, Policy, Endpoints

LEMMA RenderedShape ==
  ASSUME TypeOK, work \in Running, NEW o \in Objects
  PROVE  Rendered(o) \in Object
BY DEF Rendered, Object, Running, Model

LEMMA EditBound == ASSUME Edit, edits \in 0..MaxEdits
                   PROVE  /\ edits' \in 0..MaxEdits /\ edits' \in Generations
                          /\ edits' = edits + 1
BY BoundsAreNats DEF Edit, Generations

LEMMA FaultBound == ASSUME Fault, faults \in 0..MaxFaults PROVE faults' \in 0..MaxFaults
BY BoundsAreNats DEF Fault

LEMMA RefusalBound ==
  ASSUME NEW current, Refusal(current), faults \in 0..MaxFaults PROVE faults' \in 0..MaxFaults
BY FaultBound DEF Refusal
(***************************************************************************)
(* Types.                                                                  *)
(***************************************************************************)
LEMMA ExistsIsBoolean == ASSUME NEW m \in Model \cup {NoModel} PROVE m.exists \in BOOLEAN
<1>1. CASE m \in Model
  BY <1>1 DEF Model
<1>2. CASE m = NoModel
  BY <1>2 DEF NoModel
<1>3. QED
  BY <1>1, <1>2

LEMMA InitTypeOK == Init => TypeOK
<1> SUFFICES ASSUME Init PROVE TypeOK
  OBVIOUS
<1>1. secret \in Secret
  BY DEF Init, Secret, NoSecret
<1>2. secretsSeen \in Secrets
  BY <1>1 DEF Init, Stored, Secrets
<1>3. edits \in 0..MaxEdits /\ faults \in 0..MaxFaults
  BY BoundsAreNats DEF Init
<1>4. objects \in [Objects -> Object \cup {NoObject}]
  BY DEF Init
<1>5. QED
  BY <1>1, <1>2, <1>3, <1>4 DEF Init, TypeOK

LEMMA FinishType ==
  ASSUME TypeOK, Finish
  PROVE  work' = Idle /\ queued' \in BOOLEAN /\ timer' \in BOOLEAN
BY DEF Finish, Again, Done, TypeOK

LEMMA NextObjectType ==
  ASSUME TypeOK, At("apply"), NEW failed \in BOOLEAN, NextObject(failed)
  PROVE  /\ work' \in Running /\ work'.copy = work.copy /\ work'.pc \in {"apply", "status"}
         /\ queued' = queued /\ timer' = timer
<1>1. work \in Running
  BY AtShape DEF PCs
<1>2. /\ (IF work.i = 5 THEN "status" ELSE "apply") \in PCs
      /\ (IF work.i = 5 THEN 5 ELSE work.i + 1) \in 1..5
      /\ (work.failed \/ failed) \in BOOLEAN
  BY <1>1 DEF Running, PCs
<1>3. work' \in Running
  BY <1>1, <1>2 DEF NextObject, Running
<1>4. QED
  BY <1>1, <1>3 DEF NextObject, Running

LEMMA TypeStep == TypeOK /\ [Next]_vars => TypeOK'
<1> SUFFICES ASSUME TypeOK, [Next]_vars PROVE TypeOK'
  OBVIOUS
<1> USE DEF world, caches, queue, counts
<1>1. CASE Fetch
  <2>1. modelSeen.exists => modelSeen \in Model
    BY ModelShape DEF TypeOK
  <2>2. work' \in Running \cup {Idle}
    BY <1>1, <2>1, StartShape DEF Fetch, TypeOK
  <2>3. QED
    BY <1>1, <2>2 DEF Fetch, TypeOK
<1>2. CASE AddFinalizer
  <2>1. work \in Running /\ model \in Model
    BY <1>2, AtShape DEF AddFinalizer, PCs
  <2>2. model' \in Model
    BY <1>2, <2>1 DEF AddFinalizer, Model
  <2>3. work' \in Running
    BY <1>2, <2>1, <2>2 DEF AddFinalizer, Running, PCs
  <2>4. QED
    BY <1>2, <2>2, <2>3 DEF AddFinalizer, TypeOK
<1>3. CASE ModelUpdateFails
  BY <1>3, RefusalBound DEF ModelUpdateFails, Again, TypeOK
<1>4. CASE ReadKeys \/ ListSecrets
  <2>1. work \in Running
    BY <1>4, AtShape DEF ReadKeys, ListSecrets, PCs
  <2>2. secretsSeen.own.ids \in SUBSET ClientIDs
    BY DEF TypeOK, Secrets, Secret
  <2>3. CASE ReadKeys
    <3>1. work' = [work EXCEPT !.pc = "listSecrets", !.ids = secretsSeen.own.ids]
      BY <2>3 DEF ReadKeys
    <3>2. work' \in Running
      BY <2>1, <2>2, <3>1 DEF Running, PCs
    <3>3. QED
      BY <2>3, <3>2 DEF ReadKeys, TypeOK
  <2>4. CASE ListSecrets
    <3>1. PICK refs \in SUBSET SecretNames : work' = [work EXCEPT !.pc = "secret", !.refs = refs]
      BY <2>4 DEF ListSecrets, SecretNames
    <3>2. work' \in Running
      BY <2>1, <3>1 DEF Running, PCs
    <3>3. QED
      BY <2>4, <3>2 DEF ListSecrets, TypeOK
  <2>5. QED
    BY <1>4, <2>3, <2>4
<1>5. CASE WriteSecret
  <2>1. work \in Running
    BY <1>5, AtShape DEF WriteSecret, PCs
  <2>2. work' \in Running
    BY <1>5, <2>1 DEF WriteSecret, Goto, Running, PCs
  <2>3. secret' \in Secret
    BY <1>5 DEF WriteSecret, WrittenSecret, EmptySecret, Secret, TypeOK
  <2>4. QED
    BY <1>5, <2>2, <2>3 DEF WriteSecret, Goto, TypeOK
<1>6. CASE SecretWriteFails
  BY <1>6, RefusalBound DEF SecretWriteFails, Again, TypeOK
<1>7. CASE Apply
  <2>1. work \in Running
    BY <1>7, AtShape DEF Apply, PCs
  <2>2. Applying \in Objects
    BY <2>1, StepsShape DEF Applying, Running
  <2>3. objects' \in [Objects -> Object \cup {NoObject}]
    BY <1>7, <2>1, <2>2, RenderedShape DEF Apply, TypeOK
  <2>4. QED
    BY <1>7, <2>3, NextObjectType DEF Apply, TypeOK
<1>8. CASE ApplyFails
  BY <1>8, NextObjectType, FaultBound DEF ApplyFails, TypeOK
<1>9. CASE UpdateStatus
  <2>1. model' \in Model \cup {NoModel}
    <3>1. CASE modelSeen.exists
      <4>1. model \in Model /\ modelSeen \in Model
        BY <1>9, <3>1, ModelShape DEF UpdateStatus, TypeOK
      <4>2. QED
        BY <1>9, <3>1, <4>1 DEF UpdateStatus, Model
    <3>2. CASE ~modelSeen.exists
      BY <1>9, <3>2 DEF UpdateStatus, TypeOK
    <3>3. QED
      BY <3>1, <3>2
  <2>2. QED
    BY <1>9, <2>1, FinishType DEF UpdateStatus, TypeOK
<1>10. CASE StatusUpdateFails
  BY <1>10, RefusalBound DEF StatusUpdateFails, Again, TypeOK
<1>11. CASE DeleteSecret
  <2>1. work \in Running
    BY <1>11, AtShape DEF DeleteSecret, PCs
  <2>2. work' \in Running
    BY <1>11, <2>1 DEF DeleteSecret, Goto, Running, PCs
  <2>3. secret' \in Secret
    BY <1>11 DEF DeleteSecret, NoSecret, Secret, TypeOK
  <2>4. QED
    BY <1>11, <2>2, <2>3 DEF DeleteSecret, Goto, TypeOK
<1>12. CASE SecretDeleteFails
  BY <1>12, FaultBound DEF SecretDeleteFails, Again, TypeOK
<1>13. CASE RemoveFinalizer
  BY <1>13 DEF RemoveFinalizer, Done, TypeOK
<1>14. CASE SeeModel \/ SeeSecrets \/ TimerFires
  <2>1. queued' \in BOOLEAN
    BY <1>14, ExistsIsBoolean DEF SeeModel, SeeSecrets, TimerFires, SecretEvent, TypeOK
  <2>2. Stored \in Secrets
    BY DEF Stored, Secrets, TypeOK
  <2>3. QED
    BY <1>14, <2>1, <2>2 DEF SeeModel, SeeSecrets, TimerFires, TypeOK
<1>15. ASSUME NEW s \in Specs, CreateModel(s) PROVE TypeOK'
  <2>1. model' \in Model /\ edits' \in 0..MaxEdits
    <3>1. 0 \in Generations
      BY BoundsAreNats DEF Generations
    <3>2. edits' \in 0..MaxEdits /\ edits' \in Generations
      BY <1>15, EditBound DEF CreateModel, TypeOK
    <3>3. QED
      BY <1>15, <3>1, <3>2 DEF CreateModel, Model
  <2>2. QED
    BY <1>15, <2>1 DEF CreateModel, TypeOK
<1>16. ASSUME NEW s \in Specs, EditModel(s) PROVE TypeOK'
  <2>1. model \in Model
    BY <1>16, ModelShape DEF EditModel, TypeOK
  <2>2. edits' \in 0..MaxEdits /\ edits' \in Generations
    BY <1>16, EditBound DEF EditModel, TypeOK
  <2>3. model' \in Model
    BY <1>16, <2>1, <2>2 DEF EditModel, Model
  <2>4. QED
    BY <1>16, <2>2, <2>3 DEF EditModel, TypeOK
<1>17. CASE DeleteModel
  <2>1. model \in Model
    BY <1>17, ModelShape DEF DeleteModel, TypeOK
  <2>2. model' \in Model \cup {NoModel}
    BY <1>17, <2>1 DEF DeleteModel, Model
  <2>3. QED
    BY <1>17, <2>2, EditBound DEF DeleteModel, TypeOK
<1>18. ASSUME NEW ids \in SUBSET ClientIDs, ChangeKeys(ids) PROVE TypeOK'
  <2>1. secret' \in Secret
    BY <1>18 DEF ChangeKeys, TypeOK, Secret
  <2>2. QED
    BY <1>18, <2>1, EditBound DEF ChangeKeys, TypeOK
<1>19. CASE ChangeNeighbour
  BY <1>19, EditBound DEF ChangeNeighbour, TypeOK
<1>20. ASSUME NEW o \in Objects, Collect(o) PROVE TypeOK'
  BY <1>20 DEF Collect, TypeOK
<1>21. CASE Restart
  <2>1. queued' \in BOOLEAN
    BY <1>21, ExistsIsBoolean DEF Restart, TypeOK
  <2>2. Stored \in Secrets
    BY DEF Stored, Secrets, TypeOK
  <2>3. QED
    BY <1>21, <2>1, <2>2, FaultBound DEF Restart, TypeOK
<1>22. CASE UNCHANGED vars
  BY <1>22 DEF vars, TypeOK
<1>23. QED
  BY <1>1, <1>2, <1>3, <1>4, <1>5, <1>6, <1>7, <1>8, <1>9, <1>10, <1>11, <1>12, <1>13,
     <1>14, <1>15, <1>16, <1>17, <1>18, <1>19, <1>20, <1>21, <1>22
     DEF Next, ReconcileStep, WorldStep, Collects
(***************************************************************************)
(* The invariant.                                                          *)
(***************************************************************************)
Parts == UidsAreOld /\ DeletionsLast /\ WorkIsSeen /\ KeptIsSeen /\ DeletesForNobody

LEMMA InitParts == Init => Parts
BY DEF Init, Parts, UidsAreOld, DeletionsLast, WorkIsSeen, KeptIsSeen, DeletesForNobody,
       SeenIsThis, Kept, Alive, At, NoModel, Idle

\* Uids are numbers, and flags are Boolean.
LEMMA Numbers ==
  ASSUME TypeOK
  PROVE  /\ edits \in Nat
         /\ model.exists \in BOOLEAN /\ modelSeen.exists \in BOOLEAN
         /\ model.exists =>
              model.uid \in Nat /\ model.deleting \in BOOLEAN /\ model.finalizer \in BOOLEAN
         /\ modelSeen.exists => modelSeen.uid \in Nat
         /\ work # Idle => work.copy.uid \in Nat
<1>1. edits \in Nat /\ Generations \subseteq Nat
  BY BoundsAreNats DEF TypeOK, Generations
<1>2. (model.exists => model \in Model) /\ (modelSeen.exists => modelSeen \in Model)
  BY ModelShape DEF TypeOK
<1>3. work # Idle => work.copy \in Model
  BY DEF TypeOK, Running
<1>4. model.exists \in BOOLEAN /\ modelSeen.exists \in BOOLEAN
  BY ExistsIsBoolean DEF TypeOK
<1>5. QED
  BY <1>1, <1>2, <1>3, <1>4 DEF Model

\* A step that leaves the model's identity, its deletion and its finalizer alone, and the
\* cache, keeps the invariant, when the Reconcile goes on with its copy, if it goes on at
\* all, and does not turn to deleting.
SameModel ==
  /\ model'.exists = model.exists
  /\ model.exists => /\ model'.uid = model.uid /\ model'.deleting = model.deleting
                     /\ model'.finalizer = model.finalizer

GoesOn ==
  \/ work' = Idle
  \/ work' = work
  \/ /\ work # Idle /\ work' # Idle /\ work'.copy = work.copy
     /\ work'.pc \in {"deleteSecret", "removeFinalizer"} =>
          At("deleteSecret") \/ At("removeFinalizer")

LEMMA Frame ==
  ASSUME TypeOK, Parts, SameModel, modelSeen' = modelSeen, GoesOn,
         edits' = edits \/ edits' = edits + 1
  PROVE  Parts'
<1>1. UidsAreOld'
  BY Numbers DEF Parts, UidsAreOld, SameModel, GoesOn
<1>2. DeletionsLast' /\ KeptIsSeen'
  BY Numbers DEF Parts, DeletionsLast, KeptIsSeen, Kept, Alive, SeenIsThis, SameModel
<1>3. WorkIsSeen'
  BY Numbers DEF Parts, WorkIsSeen, SeenIsThis, SameModel, GoesOn
<1>4. DeletesForNobody'
  BY Numbers DEF Parts, DeletesForNobody, Kept, Alive, At, SameModel, GoesOn, Idle
<1>5. QED
  BY <1>1, <1>2, <1>3, <1>4 DEF Parts

\* The steps of a Reconcile that the frame covers.
LEMMA GoesOnSteps ==
  ASSUME TypeOK,
         \/ ModelUpdateFails \/ ReadKeys \/ ListSecrets \/ WriteSecret \/ SecretWriteFails
         \/ Apply \/ ApplyFails \/ UpdateStatus \/ StatusUpdateFails
         \/ DeleteSecret \/ SecretDeleteFails
  PROVE  GoesOn /\ edits' = edits /\ modelSeen' = modelSeen
<1> USE DEF world, caches, counts
<1>1. CASE ModelUpdateFails \/ SecretWriteFails \/ StatusUpdateFails \/ SecretDeleteFails
  BY <1>1 DEF ModelUpdateFails, SecretWriteFails, StatusUpdateFails, SecretDeleteFails,
              Again, GoesOn
<1>2. CASE ReadKeys \/ ListSecrets \/ WriteSecret \/ DeleteSecret
  <2>1. work \in Running /\ work # Idle
    BY <1>2, AtShape DEF ReadKeys, ListSecrets, WriteSecret, DeleteSecret, PCs
  <2>2. work' # Idle /\ work'.copy = work.copy
    BY <1>2, <2>1 DEF ReadKeys, ListSecrets, WriteSecret, DeleteSecret, Goto, Running, Idle
  <2>3. work'.pc \in {"deleteSecret", "removeFinalizer"} => DeleteSecret
    BY <1>2, <2>1 DEF ReadKeys, ListSecrets, WriteSecret, Goto, Running
  <2>4. QED
    BY <1>2, <2>1, <2>2, <2>3
       DEF GoesOn, ReadKeys, ListSecrets, WriteSecret, DeleteSecret
<1>3. CASE Apply \/ ApplyFails
  <2>1. work # Idle
    BY <1>3, AtShape DEF Apply, ApplyFails, PCs
  <2>2. work'.copy = work.copy /\ work'.pc \in {"apply", "status"}
    BY <1>3, NextObjectType DEF Apply, ApplyFails
  <2>3. QED
    BY <1>3, <2>1, <2>2 DEF GoesOn, Apply, ApplyFails, Idle
<1>4. CASE UpdateStatus
  BY <1>4, FinishType DEF UpdateStatus, GoesOn
<1>5. QED
  BY <1>1, <1>2, <1>3, <1>4
LEMMA PartsStep == TypeOK /\ Parts /\ [Next]_vars => Parts'
<1> SUFFICES ASSUME TypeOK, Parts, [Next]_vars PROVE Parts'
  OBVIOUS
<1> USE DEF world, caches, queue, counts
<1>1. CASE Fetch
  <2>1. model' = model /\ modelSeen' = modelSeen /\ edits' = edits
    BY <1>1 DEF Fetch
  <2>2. CASE modelSeen.exists /\ (modelSeen.deleting => modelSeen.finalizer)
    <3>1. modelSeen \in Model /\ work' = Start(modelSeen)
      BY <1>1, <2>2, ModelShape DEF Fetch, TypeOK
    <3>2. UidsAreOld' /\ WorkIsSeen'
      BY <2>1, <3>1, <2>2, StartShape DEF Parts, UidsAreOld, WorkIsSeen, SeenIsThis
    <3>3. DeletesForNobody'
      <4>1. SUFFICES ASSUME modelSeen.deleting, Kept PROVE FALSE
        BY <2>1, <3>1, StartShape DEF DeletesForNobody, At, Kept, Alive
      <4>2. SeenIsThis /\ model.deleting
        BY <4>1 DEF Parts, KeptIsSeen, DeletionsLast
      <4>3. QED
        BY <4>1, <4>2 DEF Kept, Alive
    <3>4. QED
      BY <2>1, <3>2, <3>3 DEF Parts, DeletionsLast, KeptIsSeen, SeenIsThis, Kept, Alive
  <2>3. CASE ~(modelSeen.exists /\ (modelSeen.deleting => modelSeen.finalizer))
    <3>1. work' = work
      BY <1>1, <2>3 DEF Fetch
    <3>2. QED
      BY <2>1, <3>1, Frame DEF SameModel, GoesOn
  <2>4. QED
    BY <2>2, <2>3
<1>2. CASE AddFinalizer
  <2>1. work \in Running /\ work # Idle /\ model \in Model /\ work.copy = model /\ model.exists
    BY <1>2, AtShape DEF AddFinalizer, PCs
  <2>2. /\ model'.exists /\ model'.uid = model.uid /\ model'.deleting = model.deleting
        /\ modelSeen' = modelSeen /\ edits' = edits
    BY <1>2, <2>1 DEF AddFinalizer, Model
  <2>3. work'.pc = "readKeys" /\ work'.copy = model'
    BY <1>2, <2>1 DEF AddFinalizer, Running
  <2>4. ~model.deleting => SeenIsThis
    BY <2>1 DEF Parts, WorkIsSeen
  <2>5. UidsAreOld' /\ DeletionsLast' /\ DeletesForNobody'
    BY <2>1, <2>2, <2>3 DEF Parts, UidsAreOld, DeletionsLast, DeletesForNobody, SeenIsThis, At
  <2>6. WorkIsSeen' /\ KeptIsSeen'
    BY <2>2, <2>3, <2>4 DEF WorkIsSeen, KeptIsSeen, Kept, Alive, SeenIsThis
  <2>7. QED
    BY <2>5, <2>6 DEF Parts
<1>3. CASE \/ ModelUpdateFails \/ ReadKeys \/ ListSecrets \/ WriteSecret \/ SecretWriteFails
           \/ Apply \/ ApplyFails \/ StatusUpdateFails \/ DeleteSecret \/ SecretDeleteFails
  <2>1. model' = model
    BY <1>3 DEF ModelUpdateFails, ReadKeys, ListSecrets, WriteSecret, SecretWriteFails,
                Apply, ApplyFails, StatusUpdateFails, DeleteSecret, SecretDeleteFails
  <2>2. QED
    BY <1>3, <2>1, GoesOnSteps, Frame DEF SameModel
<1>4. CASE UpdateStatus
  <2>1. SameModel
    <3>1. CASE modelSeen.exists
      <4>1. model \in Model
        BY <1>4, <3>1, ModelShape DEF UpdateStatus, TypeOK
      <4>2. QED
        BY <1>4, <3>1, <4>1 DEF UpdateStatus, Model, SameModel
    <3>2. CASE ~modelSeen.exists
      BY <1>4, <3>2 DEF UpdateStatus, SameModel
    <3>3. QED
      BY <3>1, <3>2
  <2>2. QED
    BY <1>4, <2>1, GoesOnSteps, Frame
<1>5. CASE RemoveFinalizer
  <2>1. ~model'.exists /\ work' = Idle /\ modelSeen' = modelSeen /\ edits' = edits
    BY <1>5 DEF RemoveFinalizer, Done, NoModel
  <2>2. QED
    BY <2>1 DEF Parts, UidsAreOld, DeletionsLast, WorkIsSeen, KeptIsSeen, DeletesForNobody,
                SeenIsThis, Kept, Alive, At, Idle
<1>6. CASE SeeModel
  <2>1. modelSeen' = model /\ model' = model /\ work' = work /\ edits' = edits
    BY <1>6 DEF SeeModel
  <2>2. QED
    BY <2>1 DEF Parts, UidsAreOld, DeletionsLast, WorkIsSeen, KeptIsSeen, DeletesForNobody,
                SeenIsThis, Kept, Alive, At
<1>7. ASSUME NEW s \in Specs, CreateModel(s) PROVE Parts'
  <2>1. /\ model'.exists /\ model'.uid = edits + 1 /\ ~model'.finalizer
        /\ modelSeen' = modelSeen /\ work' = work /\ edits' = edits + 1
    BY <1>7 DEF CreateModel, Edit
  <2>2. /\ modelSeen.exists => modelSeen.uid # edits + 1
        /\ work # Idle => work.copy.uid # edits + 1
    BY Numbers DEF Parts, UidsAreOld
  <2>3. UidsAreOld'
    BY <2>1, Numbers DEF Parts, UidsAreOld
  <2>4. QED
    BY <2>1, <2>2, <2>3 DEF Parts, DeletionsLast, WorkIsSeen, KeptIsSeen, DeletesForNobody,
                            SeenIsThis, Kept
<1>8. ASSUME NEW s \in Specs, EditModel(s) PROVE Parts'
  <2>1. model \in Model
    BY <1>8, ModelShape DEF EditModel, TypeOK
  <2>2. SameModel
    BY <1>8, <2>1 DEF EditModel, Model, SameModel
  <2>3. QED
    BY <1>8, <2>2, Frame DEF EditModel, Edit, GoesOn
<1>9. CASE DeleteModel
  <2>1. model \in Model /\ model.exists
    BY <1>9, ModelShape DEF DeleteModel, TypeOK
  <2>2. /\ model'.exists => model'.uid = model.uid /\ model'.deleting
        /\ modelSeen' = modelSeen /\ work' = work /\ edits' = edits + 1
    BY <1>9, <2>1 DEF DeleteModel, Edit, Model, NoModel
  <2>3. UidsAreOld'
    BY <2>1, <2>2, Numbers DEF Parts, UidsAreOld
  <2>4. QED
    BY <2>1, <2>2, <2>3 DEF Parts, DeletionsLast, WorkIsSeen, KeptIsSeen, DeletesForNobody,
                            SeenIsThis, Kept, Alive
<1>10. CASE Restart
  <2>1. modelSeen' = model /\ model' = model /\ work' = Idle /\ edits' = edits
    BY <1>10 DEF Restart
  <2>2. QED
    BY <2>1 DEF Parts, UidsAreOld, DeletionsLast, WorkIsSeen, KeptIsSeen, DeletesForNobody,
                SeenIsThis, Kept, Alive, At, Idle
<1>11. ASSUME \/ SeeSecrets \/ TimerFires \/ ChangeNeighbour \/ UNCHANGED vars
              \/ \E ids \in SUBSET ClientIDs : ChangeKeys(ids)
              \/ \E o \in Objects : Collect(o)
       PROVE  Parts'
  <2>1. /\ model' = model /\ modelSeen' = modelSeen /\ work' = work
        /\ edits' = edits \/ edits' = edits + 1
    BY <1>11 DEF SeeSecrets, TimerFires, ChangeNeighbour, ChangeKeys, Collect, Edit, vars
  <2>2. QED
    BY <2>1, Frame DEF SameModel, GoesOn
<1>12. QED
  BY <1>1, <1>2, <1>3, <1>4, <1>5, <1>6, <1>7, <1>8, <1>9, <1>10, <1>11
     DEF Next, ReconcileStep, WorldStep, Collects

(***************************************************************************)
(* What is settled.  Whoever sees a change queues the model, so that a     *)
(* Reconcile during which nothing is queued works on what the caches       *)
(* show, to its end; what it has applied stays, because nobody else        *)
(* writes the gateway's objects and the collector takes only what has      *)
(* another owner.                                                          *)
(***************************************************************************)
Refs(seen) == {"own"} \cup IF seen.neighbour THEN {"neighbour"} ELSE {}

\* Object o is as model m wants it, with these client IDs and Secrets.
Renders(o, m, ids, refs) ==
  /\ objects[o].exists /\ objects[o].owner = m.uid /\ objects[o].spec = m.spec
  /\ o = Policy("external") => objects[o].allowed = ids /\ objects[o].refs = refs

WantedBy(m) == {Backend} \cup UNION {{Route(e), Policy(e)} : e \in m.spec.enabled}

GenerationsAreOld ==
  /\ model.exists => model.generation <= edits
  /\ modelSeen.exists => modelSeen.generation <= edits

Deleting == {"deleteSecret", "removeFinalizer"}
Beginning == {"addFinalizer", "readKeys", "listSecrets", "secret"}

\* The objects are applied from the first on.
BeginsAtFirst == work # Idle /\ work.pc \in Beginning => work.i = 1

\* While nothing is queued, a Reconcile works on what the caches show.
WorkIsFresh ==
  work # Idle /\ work.pc \notin Deleting /\ ~queued =>
    /\ modelSeen.exists /\ modelSeen.uid = work.copy.uid /\ modelSeen.spec = work.copy.spec
    /\ work.pc \notin {"addFinalizer", "readKeys"} => work.ids = secretsSeen.own.ids
    /\ work.pc \notin {"addFinalizer", "readKeys", "listSecrets"} =>
         work.refs = Refs(secretsSeen)

\* The steps of applyAll that are over.
Over == IF At("apply") THEN {j \in 1..5 : j < work.i} ELSE 1..5

\* Unless a write has failed, what it has applied is in place.
AppliedStays ==
  (At("apply") \/ At("status")) /\ ~work.failed /\ model.exists /\ model.uid = work.copy.uid =>
    \A j \in Over : Steps[j] \in WantedBy(work.copy)
                     => Renders(Steps[j], work.copy, work.ids, work.refs)

\* When no Reconcile runs or waits, the last one has done what the caches ask for.
Rests ==
  /\ work = Idle /\ ~queued /\ ~timer
  /\ modelSeen.exists /\ ~modelSeen.deleting /\ model.exists /\ model.uid = modelSeen.uid
  => /\ \A o \in WantedBy(modelSeen) :
          Renders(o, modelSeen, secretsSeen.own.ids, Refs(secretsSeen))
     /\ model.generation = modelSeen.generation =>
          model.phase = "Ready" /\ model.observed = model.generation

SettledParts == GenerationsAreOld /\ BeginsAtFirst /\ WorkIsFresh /\ AppliedStays /\ Rests

LEMMA InitSettled == Init => SettledParts
BY DEF Init, SettledParts, GenerationsAreOld, BeginsAtFirst, WorkIsFresh, AppliedStays, Rests,
       At, NoModel, Idle

\* Generations are numbers.
LEMMA GenerationNumbers ==
  ASSUME TypeOK
  PROVE  /\ model.exists => model.generation \in Nat
         /\ modelSeen.exists => modelSeen.generation \in Nat
<1>1. Generations \subseteq Nat
  BY BoundsAreNats DEF Generations
<1>2. (model.exists => model \in Model) /\ (modelSeen.exists => modelSeen \in Model)
  BY ModelShape DEF TypeOK
<1>3. QED
  BY <1>1, <1>2 DEF Model

\* What a step may do to the model: it keeps its uid and its generation, or gives them the
\* number of the edit.
LEMMA ModelStep ==
  ASSUME TypeOK, [Next]_vars
  PROVE  /\ edits' = edits \/ edits' = edits + 1
         /\ model'.exists =>
              /\ \/ model.exists /\ model'.uid = model.uid
                 \/ edits' = edits + 1 /\ model'.uid = edits'
              /\ \/ model.exists /\ model'.generation = model.generation
                 \/ edits' = edits + 1 /\ model'.generation = edits'
         /\ modelSeen' = modelSeen \/ modelSeen' = model
<1> USE DEF world, caches, queue, counts
<1>1. model.exists => model \in Model
  BY ModelShape DEF TypeOK
<1>2. CASE AddFinalizer
  <2>1. model.exists
    BY <1>2, AtShape DEF AddFinalizer, PCs
  <2>2. model'.uid = model.uid /\ model'.generation = model.generation
    BY <1>1, <1>2, <2>1 DEF AddFinalizer, Model
  <2>3. QED
    BY <1>2, <2>1, <2>2 DEF AddFinalizer
<1>3. CASE DeleteModel
  <2>1. model'.exists => model'.uid = model.uid /\ model'.generation = model.generation
    BY <1>1, <1>3 DEF DeleteModel, Model, NoModel
  <2>2. QED
    BY <1>3, <2>1 DEF DeleteModel, Edit
<1>4. CASE UpdateStatus
  <2>1. modelSeen.exists =>
          model.exists /\ model'.uid = model.uid /\ model'.generation = model.generation
    BY <1>1, <1>4 DEF UpdateStatus, Model
  <2>2. QED
    BY <1>4, <2>1 DEF UpdateStatus
<1>5. ASSUME NEW s \in Specs, CreateModel(s)
      PROVE  /\ edits' = edits + 1 /\ modelSeen' = modelSeen
             /\ model'.uid = edits' /\ model'.generation = edits'
  BY <1>5 DEF CreateModel, Edit
<1>6. ASSUME NEW s \in Specs, EditModel(s)
      PROVE  /\ edits' = edits + 1 /\ modelSeen' = modelSeen
             /\ model.exists /\ model'.uid = model.uid /\ model'.generation = edits'
  BY <1>1, <1>6 DEF EditModel, Edit, Model
<1>7. CASE RemoveFinalizer
  BY <1>7 DEF RemoveFinalizer, NoModel
<1>8. CASE Restart \/ SeeModel
  BY <1>8 DEF Restart, SeeModel
<1>9. ASSUME \/ Fetch \/ ModelUpdateFails \/ ReadKeys \/ ListSecrets \/ WriteSecret
             \/ SecretWriteFails \/ Apply \/ ApplyFails \/ StatusUpdateFails \/ DeleteSecret
             \/ SecretDeleteFails \/ SeeSecrets \/ TimerFires \/ ChangeNeighbour
             \/ UNCHANGED vars
             \/ \E ids \in SUBSET ClientIDs : ChangeKeys(ids)
             \/ \E o \in Objects : Collect(o)
      PROVE  model' = model /\ modelSeen' = modelSeen /\ (edits' = edits \/ edits' = edits + 1)
  BY <1>9 DEF Fetch, ModelUpdateFails, ReadKeys, ListSecrets, WriteSecret, SecretWriteFails,
     Apply, ApplyFails, StatusUpdateFails, DeleteSecret, SecretDeleteFails, SeeSecrets,
     TimerFires, ChangeNeighbour, ChangeKeys, Collect, Edit, vars
<1>10. QED
  BY <1>2, <1>3, <1>4, <1>5, <1>6, <1>7, <1>8, <1>9
     DEF Next, ReconcileStep, WorldStep, Collects

LEMMA GenerationsStep ==
  ASSUME TypeOK, GenerationsAreOld, [Next]_vars
  PROVE  GenerationsAreOld'
<1>1. edits \in Nat
  BY Numbers
<1>2. QED
  BY <1>1, ModelStep, GenerationNumbers DEF GenerationsAreOld

\* The steps that neither start a Reconcile nor take it further.
WorkStays ==
  \/ SeeModel \/ SeeSecrets \/ TimerFires \/ WorldStep \/ Collects \/ UNCHANGED vars

\* The steps that end one.
WorkEnds ==
  \/ ModelUpdateFails \/ SecretWriteFails \/ UpdateStatus \/ StatusUpdateFails
  \/ SecretDeleteFails \/ RemoveFinalizer \/ Restart

LEMMA StaysAndEnds ==
  /\ WorkStays => work' = work
  /\ WorkEnds => work' = Idle
<1>1. WorkStays => work' = work
  BY DEF WorkStays, WorldStep, Collects, SeeModel, SeeSecrets, TimerFires, CreateModel,
     EditModel, DeleteModel, ChangeKeys, ChangeNeighbour, Collect, vars, queue
<1>2. WorkEnds => work' = Idle
  BY DEF WorkEnds, ModelUpdateFails, SecretWriteFails, UpdateStatus, StatusUpdateFails,
     SecretDeleteFails, RemoveFinalizer, Restart, Finish, Again, Done
<1>3. QED
  BY <1>1, <1>2

\* How a Reconcile goes on: only Fetch and AddFinalizer give it a copy, only ReadKeys client
\* IDs and only ListSecrets Secrets; the count is 1 until the objects are applied.
LEMMA WorkGoesOn ==
  ASSUME TypeOK, BeginsAtFirst
  PROVE  /\ Fetch => \/ work' = Idle
                     \/ /\ modelSeen.exists /\ work' = Start(modelSeen) /\ work'.i = 1
                        /\ work'.pc \in {"deleteSecret", "readKeys", "addFinalizer"}
                        /\ work'.copy = modelSeen
         /\ AddFinalizer =>
              /\ work'.pc = "readKeys" /\ work'.i = 1
              /\ work'.copy.uid = work.copy.uid /\ work'.copy.spec = work.copy.spec
         /\ ReadKeys => /\ work'.pc = "listSecrets" /\ work'.i = 1 /\ work'.copy = work.copy
                        /\ work'.ids = secretsSeen.own.ids
         /\ ListSecrets => /\ work'.pc = "secret" /\ work'.i = 1 /\ work'.copy = work.copy
                           /\ work'.ids = work.ids /\ work'.refs = Refs(secretsSeen)
         /\ WriteSecret => /\ work'.pc = "apply" /\ work'.i = 1 /\ work'.copy = work.copy
                           /\ work'.ids = work.ids /\ work'.refs = work.refs
         /\ DeleteSecret => work'.pc = "removeFinalizer"
<1>1. ASSUME Fetch
      PROVE  \/ work' = Idle
             \/ /\ modelSeen.exists /\ work' = Start(modelSeen) /\ work'.i = 1
                /\ work'.pc \in {"deleteSecret", "readKeys", "addFinalizer"}
                /\ work'.copy = modelSeen
  BY <1>1 DEF Fetch, Start
<1>2. ASSUME AddFinalizer
      PROVE  /\ work'.pc = "readKeys" /\ work'.i = 1
             /\ work'.copy.uid = work.copy.uid /\ work'.copy.spec = work.copy.spec
  <2>1. work \in Running /\ work # Idle /\ work.copy \in Model
    BY <1>2, AtShape DEF AddFinalizer, PCs
  <2>2. work' = [work EXCEPT !.pc = "readKeys", !.copy = model']
        /\ model' = [work.copy EXCEPT !.finalizer = TRUE]
    BY <1>2 DEF AddFinalizer
  <2>3. work.i = 1
    BY <1>2, <2>1 DEF AddFinalizer, At, BeginsAtFirst, Beginning
  <2>4. QED
    BY <2>1, <2>2, <2>3 DEF Running, Model
<1>3. ASSUME ReadKeys \/ ListSecrets \/ WriteSecret
      PROVE  work \in Running /\ work.i = 1
  <2>1. work \in Running /\ work # Idle
    BY <1>3, AtShape DEF ReadKeys, ListSecrets, WriteSecret, PCs
  <2>2. QED
    BY <1>3, <2>1 DEF ReadKeys, ListSecrets, WriteSecret, At, BeginsAtFirst, Beginning
<1>4. ASSUME ReadKeys
      PROVE  /\ work'.pc = "listSecrets" /\ work'.i = 1 /\ work'.copy = work.copy
             /\ work'.ids = secretsSeen.own.ids
  BY <1>3, <1>4 DEF ReadKeys, Running
<1>5. ASSUME ListSecrets
      PROVE  /\ work'.pc = "secret" /\ work'.i = 1 /\ work'.copy = work.copy
             /\ work'.ids = work.ids /\ work'.refs = Refs(secretsSeen)
  <2>1. work' = [work EXCEPT !.pc = "secret", !.refs = Refs(secretsSeen)]
    BY <1>5 DEF ListSecrets, Refs
  <2>2. QED
    BY <1>3, <1>5, <2>1 DEF Running
<1>6. ASSUME WriteSecret
      PROVE  /\ work'.pc = "apply" /\ work'.i = 1 /\ work'.copy = work.copy
             /\ work'.ids = work.ids /\ work'.refs = work.refs
  BY <1>3, <1>6 DEF WriteSecret, Goto, Running
<1>7. ASSUME DeleteSecret PROVE work'.pc = "removeFinalizer"
  <2>1. work \in Running
    BY <1>7, AtShape DEF DeleteSecret, PCs
  <2>2. QED
    BY <1>7, <2>1 DEF DeleteSecret, Goto, Running
<1>8. QED
  BY <1>1, <1>2, <1>4, <1>5, <1>6, <1>7

\* The next object: the same work, one step on.
LEMMA NextObjectFields ==
  ASSUME TypeOK, At("apply"), NEW failed \in BOOLEAN, NextObject(failed)
  PROVE  /\ work.i \in 1..5 /\ work.failed \in BOOLEAN
         /\ work'.pc = IF work.i = 5 THEN "status" ELSE "apply"
         /\ work'.i = IF work.i = 5 THEN 5 ELSE work.i + 1
         /\ work'.failed = (work.failed \/ failed)
         /\ work'.copy = work.copy /\ work'.ids = work.ids /\ work'.refs = work.refs
<1>1. work \in Running
  BY AtShape DEF PCs
<1>2. QED
  BY <1>1 DEF NextObject, Running

LEMMA BeginsStep ==
  ASSUME TypeOK, BeginsAtFirst, [Next]_vars
  PROVE  BeginsAtFirst'
<1>1. CASE Fetch \/ AddFinalizer \/ ReadKeys \/ ListSecrets \/ WriteSecret \/ DeleteSecret
  BY <1>1, WorkGoesOn DEF BeginsAtFirst, Beginning
<1>2. CASE Apply \/ ApplyFails
  <2>1. work'.pc \in {"apply", "status"}
    BY <1>2, NextObjectType DEF Apply, ApplyFails
  <2>2. QED
    BY <2>1 DEF BeginsAtFirst, Beginning
<1>3. CASE WorkStays \/ WorkEnds
  BY <1>3, StaysAndEnds DEF BeginsAtFirst
<1>4. QED
  BY <1>1, <1>2, <1>3 DEF Next, ReconcileStep, WorkStays, WorkEnds

\* Whoever changes what a cache shows queues the model, or it does not show it.
LEMMA WhoSeesQueues ==
  ASSUME TypeOK, WorkStays
  PROVE  \/ queued'
         \/ /\ ~queued /\ modelSeen' = modelSeen
            /\ secretsSeen' = secretsSeen \/ ~modelSeen.exists
<1> USE DEF world, caches, queue, counts
<1>1. CASE SeeModel \/ TimerFires
  BY <1>1 DEF SeeModel, TimerFires
<1>2. CASE SeeSecrets
  BY <1>2, ExistsIsBoolean DEF SeeSecrets, SecretEvent, TypeOK
<1>3. CASE WorldStep \/ Collects \/ UNCHANGED vars
  <2>1. queued' = queued /\ modelSeen' = modelSeen /\ secretsSeen' = secretsSeen
    BY <1>3 DEF WorldStep, Collects, CreateModel, EditModel, DeleteModel, ChangeKeys,
       ChangeNeighbour, Collect, vars
  <2>2. QED
    BY <2>1
<1>4. QED
  BY <1>1, <1>2, <1>3 DEF WorkStays

LEMMA FreshStep ==
  ASSUME TypeOK, BeginsAtFirst, WorkIsFresh, [Next]_vars
  PROVE  WorkIsFresh'
<1> USE DEF world, caches, queue, counts
<1>1. CASE Fetch \/ DeleteSecret
  <2>1. modelSeen' = modelSeen
    BY <1>1 DEF Fetch, DeleteSecret
  <2>2. QED
    BY <1>1, <2>1, WorkGoesOn DEF WorkIsFresh, Deleting
<1>2. CASE AddFinalizer \/ ReadKeys \/ ListSecrets \/ WriteSecret
  <2>1. /\ modelSeen' = modelSeen /\ secretsSeen' = secretsSeen /\ queued' = queued
    BY <1>2 DEF AddFinalizer, ReadKeys, ListSecrets, WriteSecret, Goto
  <2>2. work # Idle
    BY <1>2, AtShape DEF AddFinalizer, ReadKeys, ListSecrets, WriteSecret, PCs
  <2>3. work.pc \in Beginning
    BY <1>2 DEF AddFinalizer, ReadKeys, ListSecrets, WriteSecret, At, Beginning
  <2>4. CASE AddFinalizer
    BY <2>1, <2>2, <2>3, <2>4, WorkGoesOn DEF WorkIsFresh, Deleting, Beginning
  <2>5. CASE ReadKeys
    BY <2>1, <2>2, <2>3, <2>5, WorkGoesOn DEF WorkIsFresh, Deleting, Beginning
  <2>6. CASE ListSecrets
    BY <2>1, <2>2, <2>6, WorkGoesOn DEF WorkIsFresh, Deleting, ListSecrets, At
  <2>7. CASE WriteSecret
    BY <2>1, <2>2, <2>7, WorkGoesOn DEF WorkIsFresh, Deleting, WriteSecret, At
  <2>8. QED
    BY <1>2, <2>4, <2>5, <2>6, <2>7
<1>3. CASE Apply \/ ApplyFails
  <2>1. modelSeen' = modelSeen /\ secretsSeen' = secretsSeen /\ queued' = queued
    BY <1>3 DEF Apply, ApplyFails, NextObject
  <2>2. /\ work # Idle /\ At("apply")
        /\ work'.copy = work.copy /\ work'.ids = work.ids /\ work'.refs = work.refs
    BY <1>3, AtShape, NextObjectFields DEF Apply, ApplyFails, PCs
  <2>3. QED
    BY <2>1, <2>2 DEF WorkIsFresh, Deleting, At
<1>4. CASE WorkStays
  <2>1. work' = work
    BY <1>4, StaysAndEnds
  <2>2. QED
    BY <1>4, <2>1, WhoSeesQueues DEF WorkIsFresh
<1>5. CASE WorkEnds
  BY <1>5, StaysAndEnds DEF WorkIsFresh
<1>6. QED
  BY <1>1, <1>2, <1>3, <1>4, <1>5 DEF Next, ReconcileStep, WorkStays, WorkEnds

\* The steps of applyAll are different objects, and all that a model can want.
LEMMA StepsDiffer == ASSUME NEW i \in 1..5, NEW j \in 1..5, i # j PROVE Steps[i] # Steps[j]
<1>1. /\ i = 1 \/ i = 2 \/ i = 3 \/ i = 4 \/ i = 5
      /\ j = 1 \/ j = 2 \/ j = 3 \/ j = 4 \/ j = 5
  OBVIOUS
<1>2. QED
  BY <1>1 DEF Steps, Backend, Route, Policy

LEMMA WantedAreSteps ==
  ASSUME NEW m \in Model, NEW o \in WantedBy(m)
  PROVE  o \in Objects /\ \E j \in 1..5 : o = Steps[j]
<1>1. m.spec.enabled \subseteq Endpoints
  BY SpecsEnable DEF Model
<1>2. o = Backend \/ \E e \in Endpoints : o = Route(e) \/ o = Policy(e)
  BY <1>1 DEF WantedBy
<1>3. \/ o = Steps[1] \/ o = Steps[2] \/ o = Steps[3] \/ o = Steps[4] \/ o = Steps[5]
  BY <1>2 DEF Steps, Endpoints
<1>4. PICK j \in 1..5 : o = Steps[j]
  BY <1>3
<1>5. QED
  BY <1>4, StepsShape

\* The garbage collector spares what the model that is there owns.
LEMMA CollectSpares ==
  ASSUME TypeOK, Collects, model.exists, NEW o \in Objects, objects[o].owner = model.uid
  PROVE  objects'[o] = objects[o]
BY DEF Collects, Collect, Orphaned, TypeOK

\* The objects that a step leaves alone.
LEMMA ObjectsStay ==
  ASSUME WorkStays \/ WorkEnds \/ Fetch, ~Collects PROVE objects' = objects
BY DEF WorkStays, WorkEnds, WorldStep, ModelUpdateFails, SecretWriteFails, UpdateStatus,
   StatusUpdateFails, SecretDeleteFails, RemoveFinalizer, Restart, SeeModel, SeeSecrets,
   TimerFires, CreateModel, EditModel, DeleteModel, ChangeKeys, ChangeNeighbour, Fetch,
   vars, world

LEMMA AppliedStep ==
  ASSUME TypeOK, UidsAreOld, BeginsAtFirst, AppliedStays, [Next]_vars
  PROVE  AppliedStays'
<1>1. CASE Fetch \/ AddFinalizer \/ ReadKeys \/ ListSecrets \/ DeleteSecret
  BY <1>1, WorkGoesOn DEF AppliedStays, At, Idle
<1>2. CASE WriteSecret
  <2>1. work'.pc = "apply" /\ work'.i = 1
    BY <1>2, WorkGoesOn
  <2>2. Over' = {}
    BY <2>1 DEF Over, At
  <2>3. QED
    BY <2>2 DEF AppliedStays
<1>3. CASE ApplyFails
  <2>1. work'.failed
    BY <1>3, NextObjectFields DEF ApplyFails
  <2>2. QED
    BY <2>1 DEF AppliedStays
<1>4. CASE Apply
  <2>1. /\ work \in Running /\ work # Idle /\ work.i \in 1..5
        /\ work'.pc = IF work.i = 5 THEN "status" ELSE "apply"
        /\ work'.i = IF work.i = 5 THEN 5 ELSE work.i + 1
        /\ work'.failed = work.failed
        /\ work'.copy = work.copy /\ work'.ids = work.ids /\ work'.refs = work.refs
    BY <1>4, AtShape, NextObjectFields DEF Apply, PCs
  <2>2. Over' = Over \cup {work.i} /\ Over = {j \in 1..5 : j < work.i}
    BY <1>4, <2>1 DEF Over, At, Apply
  <2>3. model' = model
    BY <1>4 DEF Apply
  <2>4. SUFFICES ASSUME ~work.failed, model.exists, model.uid = work.copy.uid,
                        NEW j \in Over', Steps[j] \in WantedBy(work.copy)
                 PROVE  Renders(Steps[j], work.copy, work.ids, work.refs)'
    BY <2>1, <2>3 DEF AppliedStays, WantedBy
  <2>5. j \in 1..5 /\ Applying \in Objects /\ Steps[j] \in Objects
    BY <2>1, <2>2, StepsShape DEF Applying
  <2>6. CASE j = work.i
    <3>1. ~Skipped
      BY <2>4, <2>6 DEF Skipped, Applying, WantedBy, Route, Policy, Backend
    <3>2. objects'[Steps[j]] = Rendered(Steps[j])
      BY <1>4, <2>5, <2>6, <3>1 DEF Apply, Applying, TypeOK
    <3>3. QED
      BY <2>1, <3>2 DEF Rendered, Renders
  <2>7. CASE j # work.i
    <3>1. j \in Over /\ Steps[j] # Applying
      BY <2>1, <2>2, <2>5, <2>7, StepsDiffer DEF Applying
    <3>2. objects'[Steps[j]] = objects[Steps[j]]
      BY <1>4, <2>5, <3>1 DEF Apply, TypeOK
    <3>3. Renders(Steps[j], work.copy, work.ids, work.refs)
      BY <1>4, <2>4, <3>1 DEF AppliedStays, Apply
    <3>4. QED
      BY <2>1, <3>2, <3>3 DEF Renders
  <2>8. QED
    BY <2>6, <2>7
<1>5. CASE WorkStays
  <2>1. work' = work /\ Over' = Over
    BY <1>5, StaysAndEnds DEF Over, At
  <2>2. SUFFICES ASSUME At("apply") \/ At("status"), ~work.failed,
                        model'.exists, model'.uid = work.copy.uid,
                        NEW j \in Over, Steps[j] \in WantedBy(work.copy)
                 PROVE  Renders(Steps[j], work.copy, work.ids, work.refs)'
    BY <2>1 DEF AppliedStays, At, WantedBy
  <2>3. work # Idle /\ j \in 1..5
    BY <2>2 DEF Over, At, Idle
  <2>4. model.exists /\ model.uid = work.copy.uid
    BY <2>2, <2>3, ModelStep, Numbers DEF UidsAreOld
  <2>5. Renders(Steps[j], work.copy, work.ids, work.refs)
    BY <2>2, <2>4 DEF AppliedStays
  <2>6. objects'[Steps[j]] = objects[Steps[j]]
    BY <1>5, <2>3, <2>4, <2>5, ObjectsStay, CollectSpares, StepsShape DEF Renders
  <2>7. QED
    BY <2>1, <2>5, <2>6 DEF Renders
<1>6. CASE WorkEnds
  BY <1>6, StaysAndEnds DEF AppliedStays, At, Idle
<1>7. QED
  BY <1>1, <1>2, <1>3, <1>4, <1>5, <1>6 DEF Next, ReconcileStep, WorkStays, WorkEnds

\* What Rests is about, and what it says.
AtRest ==
  /\ work = Idle /\ ~queued /\ ~timer
  /\ modelSeen.exists /\ ~modelSeen.deleting /\ model.exists /\ model.uid = modelSeen.uid

InPlace ==
  \A o \in WantedBy(modelSeen) :
     Renders(o, modelSeen, secretsSeen.own.ids, Refs(secretsSeen))

Told == model.generation = modelSeen.generation =>
          model.phase = "Ready" /\ model.observed = model.generation

\* A Reconcile comes to rest only when it has written the status.
LEMMA UpdateRests ==
  ASSUME TypeOK, WorkIsFresh, AppliedStays, UpdateStatus, AtRest'
  PROVE  InPlace' /\ Told'
<1> USE DEF world, caches, queue, counts
<1>1. work \in Running /\ work # Idle /\ work.copy \in Model /\ At("status")
  BY AtShape DEF UpdateStatus, PCs
<1>2. modelSeen' = modelSeen /\ secretsSeen' = secretsSeen /\ objects' = objects
  BY DEF UpdateStatus
<1>3. modelSeen.exists /\ modelSeen = model
  BY <1>2 DEF AtRest, UpdateStatus
<1>4. model \in Model
  BY <1>3, ModelShape DEF TypeOK
<1>5. ~work.failed /\ ~queued
  BY DEF AtRest, UpdateStatus, Finish, Again, Done
<1>6. /\ modelSeen.uid = work.copy.uid /\ modelSeen.spec = work.copy.spec
      /\ work.ids = secretsSeen.own.ids /\ work.refs = Refs(secretsSeen)
  BY <1>1, <1>5 DEF WorkIsFresh, Deleting, At
<1>7. ASSUME NEW o \in WantedBy(modelSeen)
      PROVE  Renders(o, modelSeen, secretsSeen.own.ids, Refs(secretsSeen))'
  <2>1. o \in WantedBy(work.copy)
    BY <1>6 DEF WantedBy
  <2>2. PICK j \in 1..5 : o = Steps[j]
    BY <1>1, <2>1, WantedAreSteps
  <2>3. j \in Over
    BY <1>1 DEF Over, At
  <2>4. Renders(o, work.copy, work.ids, work.refs)
    BY <1>1, <1>3, <1>5, <1>6, <2>1, <2>2, <2>3 DEF AppliedStays
  <2>5. QED
    BY <1>2, <1>6, <2>4 DEF Renders, Refs
<1>8. InPlace'
  BY <1>2, <1>7 DEF InPlace, WantedBy
<1>9. Told'
  BY <1>2, <1>3, <1>4, <1>5 DEF Told, UpdateStatus, Model
<1>10. QED
  BY <1>8, <1>9

\* At rest only the world moves, and it takes nothing from what is in place.
LEMMA StayRests ==
  ASSUME TypeOK, UidsAreOld, GenerationsAreOld, AtRest => InPlace /\ Told,
         WorkStays, [Next]_vars, AtRest'
  PROVE  InPlace' /\ Told'
<1> USE DEF world, caches, queue, counts
<1>1. ~SeeModel /\ ~TimerFires /\ ~SeeSecrets
  <2>1. ~SeeModel /\ ~TimerFires
    BY DEF AtRest, SeeModel, TimerFires
  <2>2. SeeSecrets => queued'
    BY DEF AtRest, SeeSecrets, SecretEvent
  <2>3. QED
    BY <2>1, <2>2 DEF AtRest
<1>2. /\ work' = work /\ queued' = queued /\ timer' = timer
      /\ modelSeen' = modelSeen /\ secretsSeen' = secretsSeen
  BY <1>1 DEF WorkStays, WorldStep, Collects, CreateModel, EditModel, DeleteModel, ChangeKeys,
     ChangeNeighbour, Collect, vars
<1>3. model.exists /\ model'.uid = model.uid
  BY <1>2, ModelStep, Numbers DEF AtRest, UidsAreOld
<1>4. AtRest
  BY <1>2, <1>3 DEF AtRest
<1>5. modelSeen \in Model
  BY <1>4, ModelShape DEF AtRest, TypeOK
<1>6. ASSUME NEW o \in WantedBy(modelSeen)
      PROVE  Renders(o, modelSeen, secretsSeen.own.ids, Refs(secretsSeen))'
  <2>1. Renders(o, modelSeen, secretsSeen.own.ids, Refs(secretsSeen))
    BY <1>4 DEF InPlace
  <2>2. o \in Objects
    BY <1>5, WantedAreSteps
  <2>3. objects'[o] = objects[o]
    BY <1>4, <2>1, <2>2, ObjectsStay, CollectSpares DEF Renders, AtRest
  <2>4. QED
    BY <1>2, <2>1, <2>3 DEF Renders, Refs
<1>7. InPlace'
  BY <1>2, <1>6 DEF InPlace, WantedBy
<1>8. Told'
  <2>1. SUFFICES ASSUME model'.generation = modelSeen.generation
                 PROVE  model'.phase = "Ready" /\ model'.observed = model'.generation
    BY <1>2 DEF Told
  <2>2. model'.exists /\ edits \in Nat /\ model \in Model
    BY <1>3, Numbers, ModelShape DEF AtRest, TypeOK
  <2>3. model'.generation = model.generation
    BY <1>4, <2>1, <2>2, ModelStep, GenerationNumbers DEF GenerationsAreOld, AtRest
  <2>4. model'.phase = model.phase /\ model'.observed = model.observed
    <3>1. CASE \E s \in Specs : CreateModel(s)
      BY <1>3, <3>1 DEF CreateModel
    <3>2. CASE \E s \in Specs : EditModel(s)
      BY <2>2, <3>2 DEF EditModel, Model
    <3>3. CASE DeleteModel
      BY <2>2, <3>3 DEF DeleteModel, Model, NoModel
    <3>4. CASE Collects \/ ChangeNeighbour \/ UNCHANGED vars
               \/ \E ids \in SUBSET ClientIDs : ChangeKeys(ids)
      BY <3>4 DEF Collects, Collect, ChangeNeighbour, ChangeKeys, vars
    <3>5. QED
      BY <1>1, <3>1, <3>2, <3>3, <3>4 DEF WorkStays, WorldStep
  <2>5. QED
    BY <1>4, <2>1, <2>3, <2>4 DEF Told
<1>9. QED
  BY <1>7, <1>8

LEMMA RestsStep ==
  ASSUME TypeOK, UidsAreOld, SettledParts, [Next]_vars
  PROVE  Rests'
<1> USE DEF world, caches, queue, counts
<1>1. Rests <=> (AtRest => InPlace /\ Told)
  BY DEF Rests, AtRest, InPlace, Told
<1>2. SUFFICES ASSUME AtRest' PROVE InPlace' /\ Told'
  BY DEF Rests, AtRest, InPlace, Told
<1>3. CASE WorkStays
  BY <1>1, <1>2, <1>3, StayRests DEF SettledParts
<1>4. CASE UpdateStatus
  BY <1>2, <1>4, UpdateRests DEF SettledParts
<1>5. CASE Fetch
  <2>1. modelSeen' = modelSeen /\ work' = Idle
    BY <1>2, <1>5 DEF Fetch, AtRest
  <2>2. modelSeen.exists /\ ~modelSeen.deleting
    BY <1>2, <2>1 DEF AtRest
  <2>3. work' # Idle
    BY <1>5, <2>2, StartShape, ModelShape DEF Fetch, TypeOK
  <2>4. QED
    BY <2>1, <2>3
<1>6. CASE WorkEnds /\ ~UpdateStatus
  <2>1. timer' \/ ~model'.exists \/ queued'
    BY <1>6, ExistsIsBoolean DEF WorkEnds, ModelUpdateFails, SecretWriteFails,
       StatusUpdateFails, SecretDeleteFails, RemoveFinalizer, Restart, Again, NoModel, TypeOK
  <2>2. QED
    BY <1>2, <2>1 DEF AtRest
<1>7. CASE AddFinalizer \/ ReadKeys \/ ListSecrets \/ WriteSecret \/ DeleteSecret
           \/ Apply \/ ApplyFails
  <2>1. work'.pc \in PCs
    BY <1>7, WorkGoesOn, NextObjectType DEF Apply, ApplyFails, SettledParts, PCs
  <2>2. QED
    BY <1>2, <2>1 DEF AtRest, Idle, PCs
<1>8. QED
  BY <1>3, <1>4, <1>5, <1>6, <1>7 DEF Next, ReconcileStep, WorkStays, WorkEnds

LEMMA SettledStep == IInv /\ SettledParts /\ [Next]_vars => SettledParts'
BY GenerationsStep, BeginsStep, FreshStep, AppliedStep, RestsStep DEF IInv, SettledParts

LEMMA RestIsSettled == ASSUME Rests PROVE SettledGateway
<1> SUFFICES ASSUME Settled, Alive
             PROVE  Provisioned /\ model.phase = "Ready" /\ model.observed = model.generation
  BY DEF SettledGateway
<1>1. /\ AtRest /\ modelSeen = model
      /\ secretsSeen.own = secret /\ secretsSeen.neighbour = neighbour
  BY DEF Settled, Alive, AtRest, Stored
<1>2. InPlace /\ Told
  BY <1>1 DEF Rests, AtRest, InPlace, Told
<1>3. \A o \in Wanted : Right(o)
  BY <1>1, <1>2 DEF InPlace, Wanted, WantedBy, Renders, Refs, Right
<1>4. QED
  BY <1>1, <1>2, <1>3 DEF Told, Provisioned

(***************************************************************************)
(* The theorems.                                                           *)
(***************************************************************************)

\* A step that touches existing keys is one of users, or deletes them for nobody who lives.
LEMMA KeysStep ==
  ASSUME TypeOK, DeletesForNobody, [Next]_vars,
         secret.exists, secret' # secret, edits' = edits
  PROVE  ~secret'.exists /\ ~Kept
<1> USE DEF world, caches, queue, counts
<1>1. edits' # edits + 1
  BY BoundsAreNats DEF TypeOK
<1>2. WriteSecret \/ DeleteSecret
  BY <1>1 DEF Next, ReconcileStep, WorldStep, Collects, vars, Fetch, AddFinalizer,
     ModelUpdateFails, ReadKeys, ListSecrets, SecretWriteFails, Apply, ApplyFails,
     UpdateStatus, StatusUpdateFails, SecretDeleteFails, RemoveFinalizer, SeeModel,
     SeeSecrets, TimerFires, CreateModel, EditModel, DeleteModel, ChangeKeys,
     ChangeNeighbour, Collect, Restart, Edit
<1>3. ~WriteSecret
  BY DEF WriteSecret, SecretAccepts, WrittenSecret
<1>4. secret' = NoSecret /\ At("deleteSecret")
  BY <1>2, <1>3 DEF DeleteSecret
<1>5. QED
  BY <1>4 DEF NoSecret, DeletesForNobody

\* The invariant holds in every state of every behaviour.
THEOREM InvariantHolds == Spec => []IInv
<1>1. Init => IInv
  BY InitTypeOK, InitParts DEF IInv, Parts
<1>2. IInv /\ [Next]_vars => IInv'
  BY TypeStep, PartsStep DEF IInv, Parts
<1>3. QED
  BY <1>1, <1>2, PTL DEF Spec

\* Every variable has its type.
THEOREM TypeCorrect == Spec => []TypeOK
<1>1. IInv => TypeOK
  BY DEF IInv
<1>2. QED
  BY <1>1, InvariantHolds, PTL

\* No Reconcile touches the keys of a model that lives and has its finalizer, whatever the
\* caches it has read said (createOrUpdateSecret, reconcileDelete).
THEOREM KeysAreKept == Spec => ReconcileKeepsKeys
<1>1. IInv /\ [Next]_vars
        => [ secret.exists /\ secret' # secret /\ edits' = edits
             => ~secret'.exists /\ ~(Alive /\ model.finalizer) ]_vars
  BY KeysStep DEF IInv, Kept
<1>2. QED
  BY <1>1, InvariantHolds, PTL DEF Spec, ReconcileKeepsKeys

\* What is settled is so in every state of every behaviour.
LEMMA SettledPartsHold == Spec => []SettledParts
<1>1. Init => SettledParts
  BY InitSettled
<1>2. IInv /\ SettledParts /\ [Next]_vars => SettledParts'
  BY SettledStep
<1>3. QED
  BY <1>1, <1>2, InvariantHolds, PTL DEF Spec

\* When nothing is to be done, every enabled endpoint of a live model has its route and the
\* policy that guards it, of the model's own and current making; the external one admits
\* the keys of the Secret out of all the Secrets there are; and the status says so.
THEOREM GatewayIsSettled == Spec => []SettledGateway
<1>1. SettledParts => SettledGateway
  BY RestIsSettled DEF SettledParts
<1>2. QED
  BY <1>1, SettledPartsHold, PTL

(***************************************************************************)
(* Progress, once edits and failures have ceased.  What FairSpec says of   *)
(* steps that can be taken is applied with StepsAreEnabled, since what     *)
(* ENABLED means cannot be looked into here.                               *)
(***************************************************************************)

\* The steps that take a Reconcile further.
Onward ==
  \/ AddFinalizer \/ ReadKeys \/ ListSecrets \/ WriteSecret \/ Apply \/ ApplyFails
  \/ DeleteSecret

\* Every step starts a Reconcile, takes it further, ends it or leaves it alone.
LEMMA KindsOfSteps ==
  /\ [Next]_vars => Fetch \/ Onward \/ WorkEnds \/ WorkStays
  /\ ReconcileStep => Fetch \/ Onward \/ WorkEnds
BY DEF Next, ReconcileStep, Onward, WorkEnds, WorkStays

\* From one step of a Reconcile to the next.
MovesOn ==
  /\ work # Idle /\ work' # Idle
  /\ \/ work.pc = "addFinalizer" /\ work'.pc = "readKeys"
     \/ work.pc = "readKeys" /\ work'.pc = "listSecrets"
     \/ work.pc = "listSecrets" /\ work'.pc = "secret"
     \/ work.pc = "secret" /\ work'.pc = "apply" /\ work'.i = 1
     \/ work.pc = "apply" /\ work.i \in 1..4 /\ work'.pc = "apply" /\ work'.i = work.i + 1
     \/ work.pc = "apply" /\ work.i = 5 /\ work'.pc = "status"
     \/ work.pc = "deleteSecret" /\ work'.pc = "removeFinalizer"

\* Each of them does.
LEMMA OnwardMoves == ASSUME TypeOK, BeginsAtFirst, Onward PROVE MovesOn
<1>1. /\ work # Idle
      /\ AddFinalizer => work.pc = "addFinalizer"
      /\ ReadKeys => work.pc = "readKeys"
      /\ ListSecrets => work.pc = "listSecrets"
      /\ WriteSecret => work.pc = "secret"
      /\ DeleteSecret => work.pc = "deleteSecret"
      /\ Apply \/ ApplyFails => work.pc = "apply"
  BY AtShape DEF Onward, AddFinalizer, ReadKeys, ListSecrets, WriteSecret, DeleteSecret, Apply,
     ApplyFails, At, PCs
<1>2. CASE Apply \/ ApplyFails
  <2>1. /\ work'.pc \in {"apply", "status"} /\ work.i \in 1..5
        /\ work'.pc = IF work.i = 5 THEN "status" ELSE "apply"
        /\ work'.i = IF work.i = 5 THEN 5 ELSE work.i + 1
    BY <1>2, NextObjectFields DEF Apply, ApplyFails
  <2>2. work' # Idle
    BY <2>1 DEF Idle
  <2>3. QED
    BY <1>1, <1>2, <2>1, <2>2 DEF MovesOn
<1>3. CASE ~(Apply \/ ApplyFails)
  <2>1. work'.pc # "idle"
    BY <1>3, WorkGoesOn DEF Onward
  <2>2. work' # Idle
    BY <2>1 DEF Idle
  <2>3. QED
    BY <1>1, <1>3, <2>2, WorkGoesOn DEF Onward, MovesOn
<1>4. QED
  BY <1>2, <1>3

\* A Reconcile moves only so, and when the worker takes a step it does.
LEMMA NextMoves ==
  ASSUME TypeOK, BeginsAtFirst, [Next]_vars, work # Idle
  PROVE  /\ work' = work \/ work' = Idle \/ MovesOn
         /\ ReconcileStep => work' = Idle \/ MovesOn
<1>1. ~Fetch
  BY DEF Fetch
<1>2. QED
  BY <1>1, KindsOfSteps, OnwardMoves, StaysAndEnds

\* Every Reconcile ends.
LEMMA EveryReconcileEnds ==
  Spec /\ FairWorker /\ []WorkerEnabled => []<>(work = Idle)
<1> DEFINE I == work = Idle
           S(pc) == work # Idle /\ work.pc = pc
           A(i) == work # Idle /\ work.pc = "apply" /\ work.i = i
           E1 == S("addFinalizer")
           E2 == S("readKeys")
           E3 == S("listSecrets")
           E4 == S("secret")
           E5 == A(1)
           E6 == A(2)
           E7 == A(3)
           E8 == A(4)
           E9 == A(5)
           E10 == S("status") \/ S("removeFinalizer")
           E11 == S("deleteSecret")
           Known == IInv /\ BeginsAtFirst
<1>1. Known => I \/ E1 \/ E2 \/ E3 \/ E4 \/ E5 \/ E6 \/ E7 \/ E8 \/ E9 \/ E10 \/ E11
  <2> SUFFICES ASSUME TypeOK, work # Idle
               PROVE  E1 \/ E2 \/ E3 \/ E4 \/ E5 \/ E6 \/ E7 \/ E8 \/ E9 \/ E10 \/ E11
    BY DEF IInv
  <2>1. work.pc \in PCs /\ work.i \in 1..5
    BY DEF TypeOK, Running
  <2>2. work.i = 1 \/ work.i = 2 \/ work.i = 3 \/ work.i = 4 \/ work.i = 5
    BY <2>1
  <2>3. QED
    BY <2>1, <2>2 DEF PCs
<1>2. Known /\ [Next]_vars =>
        /\ E1 => E1' \/ E2' \/ I'
        /\ E2 => E2' \/ E3' \/ I'
        /\ E3 => E3' \/ E4' \/ I'
        /\ E4 => E4' \/ E5' \/ I'
        /\ E5 => E5' \/ E6' \/ I'
        /\ E6 => E6' \/ E7' \/ I'
        /\ E7 => E7' \/ E8' \/ I'
        /\ E8 => E8' \/ E9' \/ I'
        /\ E9 => E9' \/ E10' \/ I'
        /\ E10 => E10' \/ I'
        /\ E11 => E11' \/ E10' \/ I'
  <2> SUFFICES ASSUME Known, [Next]_vars, work # Idle, work' # Idle, work' # work, MovesOn
      PROVE  /\ E1 => E2'
             /\ E2 => E3'
             /\ E3 => E4'
             /\ E4 => E5'
             /\ E5 => E6'
             /\ E6 => E7'
             /\ E7 => E8'
             /\ E8 => E9'
             /\ E9 => E10'
             /\ ~E10
             /\ E11 => E10'
    BY NextMoves DEF IInv
  <2>1. QED
    BY DEF MovesOn
<1>3. Known /\ <<ReconcileStep>>_vars =>
        /\ E1 => E2' \/ I'
        /\ E2 => E3' \/ I'
        /\ E3 => E4' \/ I'
        /\ E4 => E5' \/ I'
        /\ E5 => E6' \/ I'
        /\ E6 => E7' \/ I'
        /\ E7 => E8' \/ I'
        /\ E8 => E9' \/ I'
        /\ E9 => E10' \/ I'
        /\ E10 => I'
        /\ E11 => E10' \/ I'
  <2> SUFFICES ASSUME Known, ReconcileStep, work # Idle, work' # Idle, MovesOn
      PROVE  /\ E1 => E2'
             /\ E2 => E3'
             /\ E3 => E4'
             /\ E4 => E5'
             /\ E5 => E6'
             /\ E6 => E7'
             /\ E7 => E8'
             /\ E8 => E9'
             /\ E9 => E10'
             /\ ~E10
             /\ E11 => E10'
    BY NextMoves DEF IInv, Next
  <2>1. QED
    BY DEF MovesOn
<1>4. /\ Known /\ [Next]_vars =>
          /\ E7 => E7' \/ E8' \/ I'
          /\ E8 => E8' \/ E9' \/ I'
          /\ E9 => E9' \/ E10' \/ I'
          /\ E10 => E10' \/ I'
          /\ E11 => E11' \/ E10' \/ I'
      /\ Known /\ <<ReconcileStep>>_vars =>
          /\ E7 => E8' \/ I'
          /\ E8 => E9' \/ I'
          /\ E9 => E10' \/ I'
          /\ E10 => I'
          /\ E11 => E10' \/ I'
      /\ E7 \/ E8 \/ E9 \/ E10 \/ E11 => work # Idle
  BY <1>2, <1>3
<1>5. /\ Known /\ [Next]_vars =>
          /\ E4 => E4' \/ E5' \/ I'
          /\ E5 => E5' \/ E6' \/ I'
          /\ E6 => E6' \/ E7' \/ I'
      /\ Known /\ <<ReconcileStep>>_vars =>
          /\ E4 => E5' \/ I'
          /\ E5 => E6' \/ I'
          /\ E6 => E7' \/ I'
      /\ E4 \/ E5 \/ E6 => work # Idle
  BY <1>2, <1>3
<1>6. /\ Known /\ [Next]_vars =>
          /\ E1 => E1' \/ E2' \/ I'
          /\ E2 => E2' \/ E3' \/ I'
          /\ E3 => E3' \/ E4' \/ I'
      /\ Known /\ <<ReconcileStep>>_vars =>
          /\ E1 => E2' \/ I'
          /\ E2 => E3' \/ I'
          /\ E3 => E4' \/ I'
      /\ E1 \/ E2 \/ E3 => work # Idle
  BY <1>2, <1>3
<1> DEFINE Fair == Spec /\ FairWorker /\ []WorkerEnabled
<1>7. SettledParts => BeginsAtFirst
  BY DEF SettledParts
<1>8. Fair => []Known
  BY <1>7, InvariantHolds, SettledPartsHold, PTL
<1> HIDE DEF E1, E2, E3, E4, E5, E6, E7, E8, E9, E10, E11, Known
<1>9. Fair => []((E7 \/ E8 \/ E9 \/ E10 \/ E11) => <>I)
  BY <1>4, <1>8, PTL DEF Spec, FairWorker, WorkerEnabled
<1>10. Fair => []((E4 \/ E5 \/ E6) => <>(I \/ E7))
  BY <1>5, <1>8, PTL DEF Spec, FairWorker, WorkerEnabled
<1>11. Fair => []((E1 \/ E2 \/ E3) => <>(I \/ E4))
  BY <1>6, <1>8, PTL DEF Spec, FairWorker, WorkerEnabled
<1> HIDE DEF I, Fair
<1>12. Fair => []<>I
  BY <1>1, <1>8, <1>9, <1>10, <1>11, PTL
<1>13. QED
  BY <1>12 DEF I, Fair

\* A cache stays as it is or shows what there is.
LEMMA CachesStep ==
  ASSUME [Next]_vars
  PROVE  /\ modelSeen' = modelSeen \/ (modelSeen' = model /\ model' = model)
         /\ secretsSeen' = secretsSeen \/ (secretsSeen' = Stored /\ Stored' = Stored)
<1> USE DEF world, caches
<1>1. CASE Fetch \/ Onward \/ (WorkEnds /\ ~Restart)
  <2>1. UNCHANGED caches
    BY <1>1 DEF Fetch, Onward, WorkEnds, AddFinalizer, ModelUpdateFails, ReadKeys, ListSecrets,
       WriteSecret, SecretWriteFails, Apply, ApplyFails, UpdateStatus, StatusUpdateFails,
       DeleteSecret, SecretDeleteFails, RemoveFinalizer
  <2>2. QED
    BY <2>1
<1>2. CASE Restart
  BY <1>2 DEF Restart, Stored
<1>3. CASE SeeModel \/ SeeSecrets \/ TimerFires \/ UNCHANGED vars
  BY <1>3 DEF SeeModel, SeeSecrets, TimerFires, Stored, vars
<1>4. CASE WorldStep \/ Collects
  <2>1. UNCHANGED caches
    BY <1>4 DEF WorldStep, CreateModel, EditModel, DeleteModel, ChangeKeys, ChangeNeighbour,
       Collects, Collect
  <2>2. QED
    BY <2>1
<1>5. QED
  BY <1>1, <1>2, <1>3, <1>4, KindsOfSteps DEF WorkStays

\* Who changes what there is: the worker, or a user; and the collector, the objects.
LEMMA WorldChanges ==
  ASSUME TypeOK, [Next]_vars
  PROVE  \/ edits' # edits
         \/ /\ neighbour' = neighbour
            /\ model' = model \/ AddFinalizer \/ UpdateStatus \/ RemoveFinalizer
            /\ secret' = secret \/ WriteSecret \/ DeleteSecret
            /\ objects' = objects \/ Apply \/ Collects
<1> USE DEF world
<1>1. WorldStep => edits' # edits
  <2>1. Edit => edits' # edits
    BY DEF Edit, TypeOK
  <2>2. QED
    BY <2>1 DEF WorldStep, CreateModel, EditModel, DeleteModel, ChangeKeys, ChangeNeighbour
<1>2. CASE Fetch \/ Onward
  BY <1>2 DEF Fetch, Onward, AddFinalizer, ReadKeys, ListSecrets, WriteSecret, Apply, ApplyFails,
     DeleteSecret
<1>3. CASE WorkEnds
  BY <1>3 DEF WorkEnds, ModelUpdateFails, SecretWriteFails, UpdateStatus, StatusUpdateFails,
     SecretDeleteFails, RemoveFinalizer, Restart
<1>4. CASE SeeModel \/ SeeSecrets \/ TimerFires \/ Collects \/ UNCHANGED vars
  BY <1>4 DEF SeeModel, SeeSecrets, TimerFires, Collects, Collect, vars
<1>5. QED
  BY <1>1, <1>2, <1>3, <1>4, KindsOfSteps DEF WorkStays

\* Between two Reconciles, the next one starts or the request goes on to wait.
LEMMA IdleStep ==
  ASSUME TypeOK, [Next]_vars, work = Idle
  PROVE  /\ Fetch \/ WorkStays \/ Restart
         /\ ReconcileStep => Fetch
         /\ TimerFires => WorkStays
         /\ WorkStays => /\ work' = Idle
                         /\ queued => queued'
                         /\ timer => timer' \/ queued'
                         /\ TimerFires => queued'
<1>1. /\ ~Onward
      /\ WorkEnds => Restart
      /\ ReconcileStep => Fetch
  <2>1. \A pc \in PCs : ~At(pc)
    BY AtShape
  <2>2. QED
    BY <2>1 DEF Onward, WorkEnds, ReconcileStep, AddFinalizer, ModelUpdateFails, ReadKeys,
       ListSecrets, WriteSecret, SecretWriteFails, Apply, ApplyFails, UpdateStatus,
       StatusUpdateFails, DeleteSecret, SecretDeleteFails, RemoveFinalizer, PCs
<1>2. SUFFICES ASSUME WorkStays
               PROVE  /\ queued => queued'
                      /\ timer => timer' \/ queued'
                      /\ TimerFires => queued'
  BY <1>1, KindsOfSteps, StaysAndEnds DEF WorkStays
<1>3. CASE SeeModel \/ TimerFires
  BY <1>3 DEF SeeModel, TimerFires
<1>4. CASE SeeSecrets
  <2>1. queued' = (queued \/ modelSeen.exists) /\ timer' = timer
    BY <1>4 DEF SeeSecrets, SecretEvent
  <2>2. queued \in BOOLEAN /\ modelSeen.exists \in BOOLEAN
    BY ExistsIsBoolean DEF TypeOK
  <2>3. TimerFires => queued'
    BY DEF TimerFires
  <2>4. QED
    BY <2>1, <2>2, <2>3
<1>5. CASE WorldStep \/ Collects \/ UNCHANGED vars
  <2>1. UNCHANGED queue
    BY <1>5 DEF WorldStep, Collects, CreateModel, EditModel, DeleteModel, ChangeKeys,
       ChangeNeighbour, Collect, vars, queue
  <2>2. queued' = queued /\ timer' = timer
    BY <2>1 DEF queue
  <2>3. TimerFires => queued'
    BY DEF TimerFires
  <2>4. QED
    BY <2>2, <2>3
<1>6. QED
  BY <1>2, <1>3, <1>4, <1>5 DEF WorkStays

(***************************************************************************)
(* A model that lives is provisioned.                                      *)
(***************************************************************************)

\* The model lives, and no counter moves.
Lives(e, n) == Alive /\ edits = e /\ faults = n

\* While the model lives and nobody interferes, only its finalizer and its status change.
LEMMA LivesStep ==
  ASSUME IInv, [Next]_vars, NEW e, NEW n, Lives(e, n), Lives(e, n)'
  PROVE  /\ ~Fault /\ ~RemoveFinalizer /\ ~Restart
         /\ model' = model \/ AddFinalizer \/ UpdateStatus
         /\ model'.uid = model.uid /\ model'.spec = model.spec
         /\ neighbour' = neighbour
         /\ secret' = secret \/ WriteSecret \/ DeleteSecret
         /\ objects' = objects \/ Apply \/ Collects
<1>1. ~Fault /\ edits' = edits
  BY DEF Lives, Fault, IInv, TypeOK
<1>2. ~RemoveFinalizer /\ ~Restart
  <2>1. model'.exists
    BY DEF Lives, Alive
  <2>2. RemoveFinalizer => ~model'.exists
    BY DEF RemoveFinalizer, NoModel
  <2>3. QED
    BY <1>1, <2>1, <2>2 DEF Restart
<1>3. model \in Model
  BY ModelShape DEF Lives, Alive, IInv, TypeOK
<1>4. AddFinalizer \/ UpdateStatus => model'.uid = model.uid /\ model'.spec = model.spec
  BY <1>3 DEF AddFinalizer, UpdateStatus, Model
<1>5. QED
  BY <1>1, <1>2, <1>4, WorldChanges DEF IInv

\* The cache shows the model that lives.
LifeSeen == SeenIsThis /\ ~modelSeen.deleting /\ modelSeen.spec = model.spec

\* Once it does, it goes on to.
LEMMA LifeIsSeen ==
  ASSUME IInv, [Next]_vars, NEW e, NEW n, Lives(e, n), Lives(e, n)'
  PROVE  /\ LifeSeen => LifeSeen'
         /\ modelSeen = model => LifeSeen
         /\ SeeModel => LifeSeen'
<1>1. model'.uid = model.uid /\ model'.spec = model.spec
  BY LivesStep
<1>2. /\ modelSeen' = modelSeen \/ (modelSeen' = model /\ model' = model)
      /\ SeeModel => modelSeen' = model /\ model' = model
  BY CachesStep DEF SeeModel, world
<1>3. QED
  BY <1>1, <1>2 DEF LifeSeen, SeenIsThis, Lives, Alive

\* A Reconcile works for it.
WorksForIt ==
  work # Idle => /\ work.pc \notin Deleting
                 /\ work.copy.uid = model.uid /\ work.copy.spec = model.spec

\* What a Reconcile that goes on does with its copy.
LEMMA CopyStep ==
  ASSUME TypeOK, BeginsAtFirst, [Next]_vars
  PROVE  \/ work' = Idle \/ work' = work
         \/ Fetch /\ modelSeen \in Model /\ work' = Start(modelSeen)
         \/ /\ Onward /\ MovesOn
            /\ work'.copy.uid = work.copy.uid /\ work'.copy.spec = work.copy.spec
<1>1. CASE Fetch
  <2>1. work' = Idle \/ (modelSeen.exists /\ work' = Start(modelSeen))
    BY <1>1, WorkGoesOn
  <2>2. QED
    BY <1>1, <2>1, ModelShape DEF TypeOK
<1>2. CASE DeleteSecret
  <2>1. work \in Running
    BY <1>2, AtShape DEF DeleteSecret, PCs
  <2>2. work'.copy = work.copy
    BY <1>2, <2>1 DEF DeleteSecret, Goto, Running
  <2>3. QED
    BY <1>2, <2>2, OnwardMoves DEF Onward
<1>3. CASE Apply \/ ApplyFails
  BY <1>3, OnwardMoves, NextObjectFields DEF Onward, Apply, ApplyFails
<1>4. CASE Onward /\ ~DeleteSecret /\ ~Apply /\ ~ApplyFails
  BY <1>4, OnwardMoves, WorkGoesOn DEF Onward
<1>5. CASE WorkEnds \/ WorkStays
  BY <1>5, StaysAndEnds
<1>6. QED
  BY <1>1, <1>2, <1>3, <1>4, <1>5, KindsOfSteps

\* Once a Reconcile works for it, all do, and the Secret stays, once it is there.
LEMMA WorksStep ==
  ASSUME IInv, BeginsAtFirst, [Next]_vars, NEW e, NEW n, Lives(e, n), Lives(e, n)',
         LifeSeen, WorksForIt
  PROVE  /\ WorksForIt'
         /\ secret.exists => secret'.exists
         /\ secret.exists \/ ~secret'.exists => secret' = secret
<1>1. model'.uid = model.uid /\ model'.spec = model.spec
  BY LivesStep
<1>2. WorksForIt'
  <2>1. CASE work' = Idle \/ work' = work
    BY <1>1, <2>1 DEF WorksForIt
  <2>2. CASE modelSeen \in Model /\ work' = Start(modelSeen)
    BY <1>1, <2>2, StartShape DEF WorksForIt, LifeSeen, SeenIsThis, Deleting
  <2>3. CASE MovesOn /\ work'.copy.uid = work.copy.uid /\ work'.copy.spec = work.copy.spec
    BY <1>1, <2>3 DEF WorksForIt, MovesOn, Deleting
  <2>4. QED
    BY <2>1, <2>2, <2>3, CopyStep DEF IInv
<1>3. ~DeleteSecret
  BY AtShape DEF DeleteSecret, WorksForIt, Deleting, At, PCs, IInv
<1>4. WriteSecret => secret' = secret \/ (~secret.exists /\ secret'.exists)
  BY DEF WriteSecret, SecretAccepts, WrittenSecret, EmptySecret
<1>5. secret' = secret \/ (~secret.exists /\ secret'.exists)
  BY <1>3, <1>4, LivesStep
<1>6. QED
  BY <1>2, <1>5

\* The caches show all there is to know, and a Reconcile goes by it.
Informed == LifeSeen /\ secretsSeen = Stored

InformedWork ==
  /\ WorksForIt
  /\ work # Idle =>
       /\ ~work.failed
       /\ work.pc \notin {"addFinalizer", "readKeys"} => work.ids = secret.ids
       /\ work.pc \notin {"addFinalizer", "readKeys", "listSecrets"} => work.refs = Refs(Stored)

\* A Reconcile that goes by what there is to know goes on to.
LEMMA InformedStep ==
  ASSUME IInv, BeginsAtFirst, [Next]_vars, NEW e, NEW n, Lives(e, n), Lives(e, n)',
         Informed, secret' = secret, InformedWork
  PROVE  InformedWork'
<1>1. WorksForIt'
  BY WorksStep DEF Informed, InformedWork
<1>2. Stored' = Stored
  BY LivesStep DEF Stored
<1>3. Refs(Stored)' = Refs(Stored)
  BY <1>2 DEF Refs
<1> DEFINE Knows == /\ ~work.failed
                    /\ work.pc \notin {"addFinalizer", "readKeys"} => work.ids = secret.ids
                    /\ work.pc \notin {"addFinalizer", "readKeys", "listSecrets"}
                         => work.refs = Refs(Stored)
<1>4. work' # Idle => Knows'
  <2>1. CASE work' = Idle \/ work' = work
    BY <1>3, <2>1 DEF InformedWork
  <2>2. CASE modelSeen \in Model /\ work' = Start(modelSeen)
    <3>1. ~modelSeen.deleting
      BY DEF Informed, LifeSeen
    <3>2. work'.pc \in {"addFinalizer", "readKeys"} /\ ~work'.failed
      BY <2>2, <3>1 DEF Start
    <3>3. QED
      BY <3>2
  <2>3. CASE Onward
    <3>1. MovesOn /\ Knows
      BY <2>3, OnwardMoves DEF IInv, InformedWork, MovesOn
    <3>2. ~DeleteSecret /\ ~ApplyFails
      BY LivesStep, AtShape DEF DeleteSecret, ApplyFails, InformedWork, WorksForIt, Deleting, At,
         PCs, IInv
    <3>3. CASE AddFinalizer
      <4>1. work \in Running /\ At("addFinalizer")
        BY <3>3, AtShape DEF AddFinalizer, IInv, PCs
      <4>2. work'.failed = work.failed /\ work'.pc = "readKeys"
        BY <3>3, <4>1 DEF AddFinalizer, Running
      <4>3. QED
        BY <3>1, <4>2
    <3>4. CASE ReadKeys \/ ListSecrets \/ WriteSecret
      <4>1. work \in Running /\ work.pc \in {"readKeys", "listSecrets", "secret"}
        BY <3>4, AtShape DEF ReadKeys, ListSecrets, WriteSecret, At, IInv, PCs
      <4>2. work'.failed = work.failed
        BY <3>4, <4>1 DEF ReadKeys, ListSecrets, WriteSecret, Goto, Running
      <4>3. /\ ReadKeys => work'.pc = "listSecrets" /\ work'.ids = secret.ids
            /\ ListSecrets => /\ work'.pc = "secret" /\ work'.ids = work.ids
                              /\ work'.refs = Refs(Stored) /\ work.pc = "listSecrets"
            /\ WriteSecret => /\ work'.ids = work.ids /\ work'.refs = work.refs
                              /\ work.pc = "secret"
        BY WorkGoesOn DEF IInv, Informed, Stored, ListSecrets, WriteSecret, At
      <4>4. QED
        BY <1>3, <3>1, <3>4, <4>2, <4>3
    <3>5. CASE Apply
      <4>1. /\ work.pc = "apply" /\ work'.ids = work.ids /\ work'.refs = work.refs
            /\ work'.failed = work.failed
        BY <3>5, NextObjectFields DEF Apply, At, IInv
      <4>2. QED
        BY <1>3, <3>1, <4>1
    <3>6. QED
      BY <2>3, <3>2, <3>3, <3>4, <3>5 DEF Onward
  <2>4. QED
    BY <2>1, <2>2, <2>3, CopyStep DEF IInv
<1>5. QED
  BY <1>1, <1>4 DEF InformedWork

\* All that there is to know about a model that lives comes to be known.
LEMMA LifeIsKnown ==
  ASSUME NEW e, NEW n
  PROVE  FairSpec /\ []StepsAreEnabled /\ <>[]Lives(e, n) => <>[](Informed /\ InformedWork)
<1> DEFINE U == IInv /\ SettledParts /\ Lives(e, n)
           V == U /\ LifeSeen /\ WorksForIt
           E == secret.exists
           MM == modelSeen = model
           SS == secretsSeen = Stored
           I == work = Idle
           Fair == FairSpec /\ []StepsAreEnabled /\ <>[]Lives(e, n)
<1>1. U /\ U' /\ [Next]_vars =>
        /\ LifeSeen => LifeSeen'
        /\ MM => LifeSeen
  BY LifeIsSeen
<1>2. U /\ U' /\ [Next]_vars => (LifeSeen /\ WorksForIt => WorksForIt')
  BY WorksStep DEF SettledParts
<1>3. V /\ V' /\ [Next]_vars =>
        /\ E => E'
        /\ (E \/ ~E') /\ SS => SS'
        /\ (E \/ ~E') /\ SS /\ InformedWork => InformedWork'
  <2> SUFFICES ASSUME V, V', [Next]_vars
               PROVE  /\ E => E'
                      /\ (E \/ ~E') /\ SS => SS'
                      /\ (E \/ ~E') /\ SS /\ InformedWork => InformedWork'
    OBVIOUS
  <2>1. E => E'
    BY WorksStep DEF SettledParts
  <2>2. E \/ ~E' => secret' = secret
    BY WorksStep DEF SettledParts
  <2>3. SS /\ secret' = secret => SS'
    BY CachesStep, LivesStep DEF Stored
  <2>4. SS /\ secret' = secret /\ InformedWork => InformedWork'
    BY InformedStep DEF SettledParts, Informed
  <2>5. QED
    BY <2>1, <2>2, <2>3, <2>4
<1>4. /\ U /\ U' /\ <<SeeModel>>_vars => LifeSeen'
      /\ V /\ V' /\ <<SeeSecrets>>_vars => SS'
  BY LifeIsSeen DEF SeeSecrets, Next, world, Stored
<1>5. StepsAreEnabled =>
        /\ MM \/ ENABLED <<SeeModel>>_vars
        /\ SS \/ ENABLED <<SeeSecrets>>_vars
  BY DEF StepsAreEnabled, CachesEnabled
<1>6. Fair => []<>I
  BY EveryReconcileEnds, PTL DEF FairSpec, StepsAreEnabled
<1>7. I => WorksForIt /\ InformedWork
  BY DEF WorksForIt, InformedWork
<1>8. Fair => <>[]U
  BY InvariantHolds, SettledPartsHold, PTL DEF FairSpec
<1>9. V => LifeSeen
  OBVIOUS
<1>10. U /\ LifeSeen /\ WorksForIt => V
  OBVIOUS
<1> HIDE DEF U, V, E, MM, SS, I
<1>11. Fair => <>[]LifeSeen
  BY <1>1, <1>4, <1>5, <1>8, PTL DEF FairSpec, Spec, FairCaches
<1>12. Fair => <>[]WorksForIt
  BY <1>2, <1>6, <1>7, <1>8, <1>11, PTL DEF FairSpec, Spec
<1>13. Fair => <>[]V
  BY <1>8, <1>10, <1>11, <1>12, PTL
<1>14. Fair => <>[]E \/ <>[]~E
  BY <1>3, <1>13, PTL DEF FairSpec, Spec
<1>15. Fair => <>[]SS
  BY <1>3, <1>4, <1>5, <1>13, <1>14, PTL DEF FairSpec, Spec, FairCaches
<1>16. Fair => <>[]InformedWork
  BY <1>3, <1>6, <1>7, <1>13, <1>14, <1>15, PTL DEF FairSpec, Spec
<1>17. LifeSeen /\ SS => Informed
  BY DEF Informed, SS
<1>18. QED
  BY <1>11, <1>15, <1>16, <1>17, PTL

\* The model wants some of the objects there are.
LEMMA WantedShape ==
  ASSUME TypeOK, Alive
  PROVE  /\ model \in Model /\ Wanted = WantedBy(model)
         /\ \A o \in Wanted : o \in Objects /\ \E j \in 1..5 : o = Steps[j]
<1>1. model \in Model
  BY ModelShape DEF TypeOK, Alive
<1>2. Wanted = WantedBy(model)
  BY DEF Wanted, WantedBy
<1>3. QED
  BY <1>1, <1>2, WantedAreSteps

\* What is provisioned stays: a Reconcile writes it again, and the collector spares it.
LEMMA ProvisionedStays ==
  ASSUME IInv, [Next]_vars, NEW e, NEW n, Lives(e, n), Lives(e, n)',
         Informed, secret' = secret, InformedWork, Provisioned
  PROVE  Provisioned'
<1>1. /\ model'.uid = model.uid /\ model'.spec = model.spec /\ neighbour' = neighbour
      /\ objects' = objects \/ Apply \/ Collects
  BY LivesStep
<1>2. Wanted' = Wanted
  BY <1>1 DEF Wanted
<1>3. SUFFICES ASSUME NEW o \in Wanted PROVE Right(o)'
  BY <1>2 DEF Provisioned
<1>4. /\ Right(o) /\ o \in Objects
  BY WantedShape DEF Provisioned, Lives, IInv
<1>5. CASE objects'[o] = objects[o]
  BY <1>1, <1>4, <1>5 DEF Right
<1>6. CASE Collects
  <2>1. objects'[o] = objects[o]
    BY <1>4, <1>6, CollectSpares DEF Right, Lives, Alive, IInv
  <2>2. QED
    BY <1>5, <2>1
<1>7. CASE Apply /\ objects'[o] # objects[o]
  <2>1. objects'[o] = Rendered(o)
    BY <1>4, <1>7 DEF Apply, IInv, TypeOK
  <2>2. work # Idle /\ work.pc = "apply"
    BY <1>7, AtShape DEF Apply, At, PCs, IInv
  <2>3. /\ work.copy.uid = model.uid /\ work.copy.spec = model.spec
        /\ work.ids = secret.ids /\ work.refs = Refs(Stored)
    BY <2>2 DEF InformedWork, WorksForIt
  <2>4. QED
    BY <1>1, <2>1, <2>3 DEF Rendered, Right, Refs, Stored
<1>8. QED
  BY <1>1, <1>5, <1>6, <1>7

\* A Reconcile that has come to the status has provisioned the model.
LEMMA StatusIsProvisioned ==
  ASSUME IInv, AppliedStays, NEW e, NEW n, Lives(e, n), InformedWork,
         work # Idle, work.pc = "status"
  PROVE  Provisioned
<1>1. /\ At("status") /\ ~work.failed /\ Over = 1..5 /\ model.exists
      /\ model.uid = work.copy.uid /\ model.spec = work.copy.spec
      /\ work.ids = secret.ids /\ work.refs = Refs(Stored)
  BY DEF At, Over, InformedWork, WorksForIt, Lives, Alive
<1>2. SUFFICES ASSUME NEW o \in Wanted PROVE Right(o)
  BY DEF Provisioned
<1>3. PICK j \in 1..5 : o = Steps[j]
  BY WantedShape DEF Lives, IInv
<1>4. o \in WantedBy(work.copy)
  BY <1>1 DEF Wanted, WantedBy
<1>5. Renders(o, work.copy, work.ids, work.refs)
  BY <1>1, <1>3, <1>4 DEF AppliedStays
<1>6. QED
  BY <1>1, <1>5 DEF Renders, Right, Refs, Stored

\* Stages of a Reconcile that provisions the model.
Provisions(pc) == work # Idle /\ work.pc = pc
Provides(i) == work # Idle /\ work.pc = "apply" /\ work.i = i

\* Nothing makes a Reconcile end before the status.
LEMMA ProvisionStep ==
  ASSUME IInv, BeginsAtFirst, [Next]_vars, NEW e, NEW n, Lives(e, n), Lives(e, n)',
         Informed, InformedWork, work # Idle, work.pc \notin {"addFinalizer", "status"}
  PROVE  /\ work' = work \/ MovesOn
         /\ ReconcileStep => MovesOn
<1>1. /\ ~Fault /\ ~RemoveFinalizer /\ ~Restart
  BY LivesStep
<1>2. work.pc \notin {"addFinalizer", "status", "deleteSecret", "removeFinalizer"}
  BY DEF InformedWork, WorksForIt, Deleting
<1>3. ~ModelUpdateFails /\ ~UpdateStatus /\ ~StatusUpdateFails /\ ~SecretDeleteFails
  BY <1>2 DEF ModelUpdateFails, UpdateStatus, StatusUpdateFails, SecretDeleteFails, At
<1>4. ~SecretWriteFails
  <2>1. SecretAccepts
    BY DEF SecretAccepts, Informed, Stored
  <2>2. QED
    BY <1>1, <2>1 DEF SecretWriteFails, Refusal
<1>5. ~WorkEnds /\ ~Fetch
  BY <1>1, <1>3, <1>4 DEF WorkEnds, Fetch
<1>6. QED
  BY <1>5, KindsOfSteps, OnwardMoves, StaysAndEnds DEF IInv

\* A Reconcile that reads the keys provisions the model.
LEMMA KeysGetThere ==
  ASSUME NEW e, NEW n
  PROVE  FairSpec /\ []StepsAreEnabled /\ <>[]Lives(e, n)
           => /\ <>[](Provisions("readKeys") => <>Provisioned)
              /\ <>[](Provisioned => []Provisioned)
<1> DEFINE K == IInv /\ SettledParts /\ Lives(e, n) /\ Informed /\ InformedWork
           E == secret.exists
           S1 == Provisions("readKeys")
           S2 == Provisions("listSecrets")
           S3 == Provisions("secret")
           S4 == Provides(1)
           S5 == Provides(2)
           S6 == Provides(3)
           S7 == Provides(4)
           S8 == Provides(5)
           S9 == Provisions("status")
           P == Provisioned
           Fair == FairSpec /\ []StepsAreEnabled /\ <>[]Lives(e, n)
<1>1. K /\ K' /\ [Next]_vars =>
        /\ S1 => S1' \/ S2'
        /\ S2 => S2' \/ S3'
        /\ S3 => S3' \/ S4'
        /\ S4 => S4' \/ S5'
        /\ S5 => S5' \/ S6'
        /\ S6 => S6' \/ S7'
        /\ S7 => S7' \/ S8'
        /\ S8 => S8' \/ S9'
  <2> SUFFICES ASSUME K, K', [Next]_vars, work # Idle, work.pc \notin {"addFinalizer", "status"}
               PROVE  /\ S1 => S1' \/ S2'
                      /\ S2 => S2' \/ S3'
                      /\ S3 => S3' \/ S4'
                      /\ S4 => S4' \/ S5'
                      /\ S5 => S5' \/ S6'
                      /\ S6 => S6' \/ S7'
                      /\ S7 => S7' \/ S8'
                      /\ S8 => S8' \/ S9'
    BY DEF Provisions, Provides
  <2>1. work' = work \/ MovesOn
    BY ProvisionStep DEF SettledParts
  <2>2. QED
    BY <2>1 DEF Provisions, Provides, MovesOn
<1>2. K /\ K' /\ <<ReconcileStep>>_vars =>
        /\ S1 => S2'
        /\ S2 => S3'
        /\ S3 => S4'
        /\ S4 => S5'
        /\ S5 => S6'
        /\ S6 => S7'
        /\ S7 => S8'
        /\ S8 => S9'
  <2> SUFFICES ASSUME K, K', ReconcileStep, work # Idle, work.pc \notin {"addFinalizer", "status"}
               PROVE  /\ S1 => S2'
                      /\ S2 => S3'
                      /\ S3 => S4'
                      /\ S4 => S5'
                      /\ S5 => S6'
                      /\ S6 => S7'
                      /\ S7 => S8'
                      /\ S8 => S9'
    BY DEF Provisions, Provides
  <2>1. MovesOn
    BY ProvisionStep DEF SettledParts, Next
  <2>2. QED
    BY <2>1 DEF Provisions, Provides, MovesOn
<1>3. K /\ K' /\ [Next]_vars =>
        /\ E => E'
        /\ (E \/ ~E') /\ P => P'
  <2> SUFFICES ASSUME K, K', [Next]_vars PROVE (E => E') /\ ((E \/ ~E') /\ P => P')
    OBVIOUS
  <2>1. E => E'
    BY WorksStep DEF Informed, InformedWork, SettledParts
  <2>2. E \/ ~E' => secret' = secret
    BY WorksStep DEF Informed, InformedWork, SettledParts
  <2>3. QED
    BY <2>1, <2>2, ProvisionedStays
<1>4. S1 \/ S2 \/ S3 \/ S4 \/ S5 \/ S6 \/ S7 \/ S8 => work # Idle \/ queued
  BY DEF Provisions, Provides
<1>5. /\ K /\ K' /\ [Next]_vars =>
           /\ S1 => S1' \/ S2'
           /\ S2 => S2' \/ S3'
           /\ S3 => S3' \/ S4'
           /\ S4 => S4' \/ S5'
      /\ K /\ K' /\ <<ReconcileStep>>_vars =>
           /\ S1 => S2'
           /\ S2 => S3'
           /\ S3 => S4'
           /\ S4 => S5'
      /\ S1 \/ S2 \/ S3 \/ S4 => work # Idle \/ queued
  BY <1>1, <1>2, <1>4
<1>6. /\ K /\ K' /\ [Next]_vars =>
           /\ S5 => S5' \/ S6'
           /\ S6 => S6' \/ S7'
           /\ S7 => S7' \/ S8'
           /\ S8 => S8' \/ S9'
      /\ K /\ K' /\ <<ReconcileStep>>_vars =>
           /\ S5 => S6'
           /\ S6 => S7'
           /\ S7 => S8'
           /\ S8 => S9'
      /\ S5 \/ S6 \/ S7 \/ S8 => work # Idle \/ queued
  BY <1>1, <1>2, <1>4
<1>7. K => (S9 => P)
  BY StatusIsProvisioned DEF SettledParts, Provisions
<1>8. Fair => <>[]K
  BY LifeIsKnown, InvariantHolds, SettledPartsHold, PTL DEF FairSpec
<1> HIDE DEF K, E, S1, S2, S3, S4, S5, S6, S7, S8, S9, P
<1>9. Fair => <>[](S5 => <>P)
  BY <1>6, <1>7, <1>8, PTL DEF FairSpec, Spec, FairWorker, StepsAreEnabled, WorkerEnabled
<1>10. Fair => <>[](S1 => <>S5)
  BY <1>5, <1>8, PTL DEF FairSpec, Spec, FairWorker, StepsAreEnabled, WorkerEnabled
<1>11. Fair => <>[]E \/ <>[]~E
  BY <1>3, <1>8, PTL DEF FairSpec, Spec
<1>12. Fair => <>[](P => []P)
  BY <1>3, <1>8, <1>11, PTL DEF FairSpec, Spec
<1>13. QED
  BY <1>9, <1>10, <1>12, PTL DEF S1, P

\* The model is not provisioned, and everybody knows what there is to know.
Overdue == Informed /\ InformedWork /\ SettledParts /\ ~Provisioned

\* Then no Reconcile has come to the status, and one is to come.
LEMMA OverdueWork ==
  ASSUME IInv, NEW e, NEW n, Lives(e, n), Overdue
  PROVE  /\ ~Provisions("status")
         /\ work = Idle => queued \/ timer
<1>1. ~Provisions("status")
  BY StatusIsProvisioned DEF Overdue, SettledParts, Provisions
<1>2. ASSUME work = Idle, ~queued, ~timer PROVE Provisioned
  <2>1. AtRest
    BY <1>2 DEF AtRest, Overdue, Informed, LifeSeen, SeenIsThis
  <2>2. InPlace
    BY <2>1 DEF Overdue, SettledParts, Rests, AtRest, InPlace
  <2>3. /\ modelSeen.uid = model.uid /\ modelSeen.spec = model.spec
        /\ secretsSeen.own = secret /\ secretsSeen.neighbour = neighbour
    BY DEF Overdue, Informed, LifeSeen, SeenIsThis, Stored
  <2>4. QED
    BY <2>2, <2>3 DEF InPlace, Provisioned, Wanted, WantedBy, Right, Renders, Refs
<1>3. QED
  BY <1>1, <1>2 DEF Overdue

\* Nothing changes the model but the step before the keys are read.
LEMMA OverdueModel ==
  ASSUME IInv, [Next]_vars, NEW e, NEW n, Lives(e, n), Lives(e, n)', Overdue
  PROVE  model' = model \/ Provisions("readKeys")'
<1>1. ~UpdateStatus
  BY OverdueWork, AtShape DEF UpdateStatus, Provisions, At, PCs, IInv
<1>2. AddFinalizer => Provisions("readKeys")'
  BY OnwardMoves, WorkGoesOn DEF Onward, MovesOn, Provisions, Overdue, SettledParts, IInv
<1>3. QED
  BY <1>1, <1>2, LivesStep

\* Stages of the Reconcile that comes.
Waits == work = Idle /\ ~queued /\ timer
Waited == work = Idle /\ queued
Begins == work # Idle /\ work.pc = "addFinalizer" /\ work.copy = model

\* Each stage lasts or gives way to the next one.
LEMMA NextReconcile ==
  ASSUME IInv, [Next]_vars, NEW e, NEW n, Lives(e, n), Lives(e, n)',
         Overdue, modelSeen = model, modelSeen' = model'
  PROVE  /\ Waits => Waits' \/ Waited'
         /\ Waits /\ TimerFires => Waited'
         /\ Waited => Waited' \/ Begins' \/ Provisions("readKeys")'
         /\ Waited /\ ReconcileStep => Begins' \/ Provisions("readKeys")'
         /\ Begins => Begins' \/ Provisions("readKeys")'
         /\ Begins /\ ReconcileStep => Provisions("readKeys")'
<1>1. ~Fault /\ ~RemoveFinalizer /\ ~Restart
  BY LivesStep
<1>2. CASE work = Idle
  <2>1. Fetch => Waited /\ (Begins' \/ Provisions("readKeys")')
    <3>1. SUFFICES ASSUME Fetch PROVE Waited /\ (Begins' \/ Provisions("readKeys")')
      OBVIOUS
    <3>2. model' = model
      BY <3>1 DEF Fetch, world
    <3>3. /\ modelSeen \in Model /\ work' = Start(modelSeen) /\ ~modelSeen.deleting
      BY <3>1, ModelShape DEF Fetch, Lives, Alive, IInv, TypeOK
    <3>4. work' # Idle /\ work'.copy = modelSeen /\ work'.pc \in {"addFinalizer", "readKeys"}
      BY <3>3, StartShape DEF Start
    <3>5. QED
      BY <3>1, <3>2, <3>4 DEF Fetch, Waited, Begins, Provisions
  <2>2. QED
    BY <1>1, <1>2, <2>1, IdleStep DEF IInv, Waits, Waited, Begins
<1>3. CASE Begins
  <2>1. model' = model \/ Provisions("readKeys")'
    BY OverdueModel
  <2>2. /\ ~ModelUpdateFails
    BY <1>1, <1>3 DEF ModelUpdateFails, Refusal, Begins
  <2>3. /\ ~Fetch /\ ~UpdateStatus /\ ~StatusUpdateFails /\ ~SecretWriteFails /\ ~SecretDeleteFails
    BY <1>3 DEF Begins, Fetch, UpdateStatus, StatusUpdateFails, SecretWriteFails,
       SecretDeleteFails, At
  <2>4. ~WorkEnds
    BY <1>1, <2>2, <2>3 DEF WorkEnds
  <2>5. Onward => Provisions("readKeys")'
    BY <1>3, OnwardMoves DEF MovesOn, Begins, Provisions, Overdue, SettledParts, IInv
  <2>6. WorkStays => work' = work
    BY StaysAndEnds
  <2>7. QED
    BY <1>3, <2>1, <2>3, <2>4, <2>5, <2>6, KindsOfSteps DEF Begins, Waits, Waited
<1>4. QED
  BY <1>2, <1>3 DEF Waits, Waited, Begins

\* So the model comes to be provisioned: were it never to, it would not change, the cache would
\* show it, and the Reconcile that is still to come would read the keys.
LEMMA LifeIsProvisioned ==
  ASSUME NEW e, NEW n
  PROVE  FairSpec /\ []StepsAreEnabled /\ <>[]Lives(e, n) => <>[]Provisioned
<1> DEFINE K == IInv /\ Lives(e, n) /\ Overdue
           MM == modelSeen = model
           R == Provisions("readKeys")
           Fair == FairSpec /\ []StepsAreEnabled /\ <>[]Lives(e, n)
           Never == Fair /\ <>[]~Provisioned
<1>1. Fair => <>[](Informed /\ InformedWork)
  BY LifeIsKnown
<1>2. Fair => <>[](R => <>Provisioned) /\ <>[](Provisioned => []Provisioned)
  BY KeysGetThere
<1>3. IInv /\ Lives(e, n) /\ Informed /\ InformedWork /\ SettledParts /\ ~Provisioned => K
  BY DEF Overdue
<1>4. K /\ K' /\ [Next]_vars => R' \/ (MM => MM')
  <2> SUFFICES ASSUME K, K', [Next]_vars, ~R', MM PROVE MM'
    OBVIOUS
  <2>1. model' = model
    BY OverdueModel
  <2>2. QED
    BY <2>1, CachesStep
<1>5. K /\ K' /\ <<SeeModel>>_vars => MM'
  BY DEF SeeModel, world
<1>6. K /\ K' /\ MM /\ MM' /\ [Next]_vars =>
        /\ Waits => Waits' \/ Waited'
        /\ Waited => Waited' \/ Begins' \/ R'
        /\ Begins => Begins' \/ R'
  BY NextReconcile
<1>7. /\ K /\ K' /\ MM /\ MM' /\ <<TimerFires>>_vars => (Waits => Waited')
      /\ K /\ K' /\ MM /\ MM' /\ <<ReconcileStep>>_vars =>
           /\ Waited => Begins' \/ R'
           /\ Begins => R'
  BY NextReconcile DEF Next
<1>8. K /\ work = Idle => Waits \/ Waited
  BY OverdueWork DEF Waits, Waited
<1>9. /\ Waits => timer
      /\ Waited \/ Begins => work # Idle \/ queued
  BY DEF Waits, Waited, Begins
<1>10. CachesEnabled => MM \/ ENABLED <<SeeModel>>_vars
  BY DEF CachesEnabled
<1>11. Fair => []<>(work = Idle)
  BY EveryReconcileEnds, PTL DEF FairSpec, StepsAreEnabled
<1> HIDE DEF K, MM, R
<1>12. Never => <>[]K /\ <>[]~R
  BY <1>1, <1>2, <1>3, InvariantHolds, SettledPartsHold, PTL DEF FairSpec
<1>13. Never => <>[]MM
  BY <1>4, <1>5, <1>10, <1>12, PTL DEF FairSpec, Spec, FairCaches, StepsAreEnabled
<1>14. ~Never
  BY <1>6, <1>7, <1>8, <1>9, <1>11, <1>12, <1>13, PTL
     DEF FairSpec, Spec, FairWorker, FairTimer, StepsAreEnabled, WorkerEnabled, TimerEnabled
<1>15. QED
  BY <1>2, <1>14, PTL

(***************************************************************************)
(* Nothing stays behind when the model is gone.                            *)
(***************************************************************************)

\* Every object has an owner: what is rendered has the uid of a model, and uids are not 0.
OwnersAreModels ==
  /\ model.exists => model.uid # Nobody
  /\ modelSeen.exists => modelSeen.uid # Nobody
  /\ work # Idle => work.copy.uid # Nobody
  /\ \A o \in Objects : objects[o].exists => objects[o].owner # Nobody

\* Uids are given by edits, and objects get theirs from a model.
LEMMA OwnersStep ==
  ASSUME TypeOK, BeginsAtFirst, OwnersAreModels, [Next]_vars
  PROVE  OwnersAreModels'
<1>1. model'.exists => model'.uid # Nobody
  BY ModelStep, Numbers DEF OwnersAreModels, Nobody
<1>2. modelSeen'.exists => modelSeen'.uid # Nobody
  BY CachesStep DEF OwnersAreModels
<1>3. work' # Idle => work'.copy.uid # Nobody
  <2>1. CASE work' = Idle \/ work' = work
    BY <2>1 DEF OwnersAreModels
  <2>2. CASE Fetch /\ modelSeen \in Model /\ work' = Start(modelSeen)
    BY <2>2, StartShape DEF OwnersAreModels, Model
  <2>3. CASE MovesOn /\ work'.copy.uid = work.copy.uid
    BY <2>3 DEF MovesOn, OwnersAreModels
  <2>4. QED
    BY <2>1, <2>2, <2>3, CopyStep
<1>4. ASSUME NEW o \in Objects, objects'[o].exists PROVE objects'[o].owner # Nobody
  <2>1. CASE objects'[o] = objects[o]
    BY <1>4, <2>1 DEF OwnersAreModels
  <2>2. CASE Apply /\ objects'[o] # objects[o]
    <3>1. objects'[o] = Rendered(o)
      BY <2>2 DEF Apply, TypeOK
    <3>2. work # Idle
      BY <2>2, AtShape DEF Apply, PCs
    <3>3. QED
      BY <3>1, <3>2 DEF Rendered, OwnersAreModels
  <2>3. CASE Collects
    <3>1. objects'[o] = objects[o] \/ objects'[o] = NoObject
      BY <2>3 DEF Collects, Collect, TypeOK
    <3>2. QED
      BY <1>4, <2>1, <3>1 DEF NoObject
  <2>4. objects' = objects \/ Apply \/ Collects
    <3>1. CASE Fetch \/ Onward
      BY <3>1 DEF Fetch, Onward, AddFinalizer, ReadKeys, ListSecrets, WriteSecret, ApplyFails,
         DeleteSecret, world
    <3>2. CASE WorkEnds \/ WorkStays
      BY <3>2, ObjectsStay
    <3>3. QED
      BY <3>1, <3>2, KindsOfSteps
  <2>5. QED
    BY <2>1, <2>2, <2>3, <2>4
<1>5. QED
  BY <1>1, <1>2, <1>3, <1>4 DEF OwnersAreModels

\* So it is in every state of every behaviour.
LEMMA OwnersHold == Spec => []OwnersAreModels
<1>1. Init => OwnersAreModels
  BY DEF Init, OwnersAreModels, NoModel, NoObject
<1>2. IInv /\ SettledParts /\ OwnersAreModels /\ [Next]_vars => OwnersAreModels'
  BY OwnersStep DEF IInv, SettledParts
<1>3. QED
  BY <1>1, <1>2, InvariantHolds, SettledPartsHold, PTL DEF Spec

\* The model is gone, and no counter moves.
Gone(e, n) == ~model.exists /\ edits = e /\ faults = n

\* Its absence comes to be seen, and then no Reconcile does anything.
LEMMA GoneStep ==
  ASSUME IInv, [Next]_vars, NEW e, NEW n, Gone(e, n), Gone(e, n)'
  PROVE  /\ ~modelSeen.exists => ~modelSeen'.exists
         /\ modelSeen = model => ~modelSeen.exists
         /\ SeeModel => ~modelSeen'.exists
         /\ ~modelSeen.exists /\ work = Idle => work' = Idle
<1>1. /\ modelSeen' = modelSeen \/ (modelSeen' = model /\ model' = model)
      /\ SeeModel => modelSeen' = model
  BY CachesStep DEF SeeModel
<1>2. ~Restart
  BY DEF Restart, Fault, Gone, IInv, TypeOK
<1>3. ~modelSeen.exists /\ Fetch => work' = work
  BY DEF Fetch
<1>4. work = Idle /\ ~modelSeen.exists => work' = Idle
  BY <1>2, <1>3, IdleStep DEF IInv
<1>5. QED
  BY <1>1, <1>4 DEF Gone

\* applyAll goes through all the objects there are.
LEMMA ObjectsAreSteps == ASSUME NEW o \in Objects PROVE \E i \in 1..5 : o = Steps[i]
<1>1. o = Backend \/ \E e \in Endpoints : o = Route(e) \/ o = Policy(e)
  BY DEF Objects, Route, Policy
<1>2. o = Steps[1] \/ o = Steps[2] \/ o = Steps[3] \/ o = Steps[4] \/ o = Steps[5]
  BY <1>1 DEF Steps, Endpoints
<1>3. QED
  BY <1>2

\* The i-th object is there.
Stands(i) == objects[Steps[i]].exists

\* How many objects there are.
One(i) == IF Stands(i) THEN 1 ELSE 0
HowMany == One(1) + One(2) + One(3) + One(4) + One(5)

\* When there are none, none exists.
LEMMA HowManyShape ==
  /\ HowMany \in 0..5
  /\ HowMany = 0 => \A o \in Objects : ~objects[o].exists
  /\ HowMany # 0 => \E i \in 1..5 : Stands(i)
<1>1. \A i \in 1..5 : One(i) \in 0..1 /\ (One(i) = 0 <=> ~Stands(i))
  BY DEF One
<1>2. /\ HowMany \in 0..5
      /\ HowMany = 0 => \A i \in 1..5 : One(i) = 0
      /\ HowMany # 0 => \E i \in 1..5 : One(i) # 0
  <2>1. /\ One(1) \in 0..1 /\ One(2) \in 0..1 /\ One(3) \in 0..1 /\ One(4) \in 0..1
        /\ One(5) \in 0..1
    BY <1>1
  <2>2. \A i \in 1..5 : i = 1 \/ i = 2 \/ i = 3 \/ i = 4 \/ i = 5
    OBVIOUS
  <2>3. HowMany \in 0..5
    BY <2>1 DEF HowMany
  <2>4. HowMany = 0 => One(1) = 0 /\ One(2) = 0 /\ One(3) = 0 /\ One(4) = 0 /\ One(5) = 0
    BY <2>1 DEF HowMany
  <2>5. HowMany # 0 => One(1) # 0 \/ One(2) # 0 \/ One(3) # 0 \/ One(4) # 0 \/ One(5) # 0
    BY DEF HowMany
  <2>6. (\E i \in 1..5 : One(i) # 0) \/ (One(1) = 0 /\ One(2) = 0 /\ One(3) = 0
           /\ One(4) = 0 /\ One(5) = 0)
    OBVIOUS
  <2>7. HowMany = 0 => \A i \in 1..5 : One(i) = 0
    BY <2>2, <2>4
  <2>8. QED
    BY <2>3, <2>5, <2>6, <2>7
<1>3. QED
  BY <1>1, <1>2, ObjectsAreSteps DEF Stands

\* No Reconcile will do anything.
Quiet(e, n) == Gone(e, n) /\ ~modelSeen.exists /\ work = Idle

\* Then the collector takes one object after the other.
LEMMA QuietStep ==
  ASSUME IInv, OwnersAreModels, [Next]_vars, NEW e, NEW n, Quiet(e, n), Quiet(e, n)'
  PROVE  HowMany' <= HowMany /\ (Collects => HowMany' < HowMany)
<1>1. objects' = objects \/ Collects
  <2>1. ~Apply
    BY AtShape DEF Apply, Quiet, IInv, PCs
  <2>2. QED
    BY <2>1, WorldChanges DEF Quiet, Gone, IInv
<1>2. CASE Collects
  <2>1. PICK o \in Objects : /\ objects[o].exists
                             /\ objects' = [objects EXCEPT ![o] = NoObject]
    BY <1>2 DEF Collects, Collect, Orphaned
  <2>2. PICK i \in 1..5 : o = Steps[i]
    BY ObjectsAreSteps
  <2>3. Stands(i) /\ ~Stands(i)'
    BY <2>1, <2>2 DEF IInv, TypeOK, NoObject, Stands, Steps
  <2>4. ASSUME NEW j \in 1..5, j # i PROVE One(j)' = One(j)
    <3>1. Steps[j] \in Objects /\ Steps[j] # o
      BY <2>2, <2>4, StepsShape, StepsDiffer
    <3>2. objects'[Steps[j]] = objects[Steps[j]]
      BY <2>1, <3>1 DEF IInv, TypeOK
    <3>3. QED
      BY <3>2 DEF One, Stands, Steps
  <2>5. One(i) = 1 /\ One(i)' = 0
    BY <2>3 DEF One
  <2>6. \A j \in 1..5 : One(j) \in 0..1 /\ One(j)' \in 0..1
    BY DEF One
  <2>7. i = 1 \/ i = 2 \/ i = 3 \/ i = 4 \/ i = 5
    OBVIOUS
  <2>8. HowMany' < HowMany
    <3> DEFINE f == [j \in 1..5 |-> One(j)]
               g == [j \in 1..5 |-> One(j)']
    <3>1. /\ HowMany = f[1] + f[2] + f[3] + f[4] + f[5]
          /\ HowMany' = g[1] + g[2] + g[3] + g[4] + g[5]
      BY DEF HowMany
    <3>2. f \in [1..5 -> 0..1] /\ g = [f EXCEPT ![i] = 0] /\ f[i] = 1
      BY <2>4, <2>5, <2>6
    <3> HIDE DEF f, g
    <3>3. QED
      BY <2>7, <3>1, <3>2
  <2>9. HowMany \in Nat /\ HowMany' \in Nat
    BY DEF HowMany, One
  <2>10. QED
    BY <2>8, <2>9
<1>3. CASE ~Collects
  <2>1. HowMany' = HowMany
    BY <1>1, <1>3 DEF HowMany, One, Stands
  <2>2. QED
    BY <1>3, <2>1, HowManyShape
<1>4. QED
  BY <1>2, <1>3

\* So that none is left.
LEMMA GoneIsCollected ==
  ASSUME NEW e, NEW n
  PROVE  FairSpec /\ []StepsAreEnabled /\ <>[]Gone(e, n)
           => <>[](\A o \in Objects : ~objects[o].exists)
<1> DEFINE U == IInv /\ OwnersAreModels /\ Gone(e, n)
           Q == IInv /\ OwnersAreModels /\ Quiet(e, n)
           Unseen == ~modelSeen.exists
           MM == modelSeen = model
           I == work = Idle
           L0 == HowMany <= 0
           L1 == HowMany <= 1
           L2 == HowMany <= 2
           L3 == HowMany <= 3
           L4 == HowMany <= 4
           Clear == \A o \in Objects : ~objects[o].exists
           Fair == FairSpec /\ []StepsAreEnabled /\ <>[]Gone(e, n)
<1>1. U /\ U' /\ [Next]_vars =>
        /\ Unseen => Unseen'
        /\ MM => Unseen
        /\ Unseen /\ I => I'
  BY GoneStep
<1>2. U /\ U' /\ <<SeeModel>>_vars => Unseen'
  BY GoneStep DEF Next
<1>3. CachesEnabled => MM \/ ENABLED <<SeeModel>>_vars
  BY DEF CachesEnabled
<1>4. Q /\ Q' /\ [Next]_vars =>
        /\ L0 => L0'
        /\ L1 => L1'
        /\ L2 => L2'
        /\ L3 => L3'
        /\ L4 => L4'
  <2> SUFFICES ASSUME Q, Q', [Next]_vars
               PROVE  /\ L0 => L0'
                      /\ L1 => L1'
                      /\ L2 => L2'
                      /\ L3 => L3'
                      /\ L4 => L4'
    OBVIOUS
  <2>1. HowMany \in Nat /\ HowMany' <= HowMany
    BY QuietStep, HowManyShape
  <2>2. HowMany' \in Nat
    BY DEF HowMany, One
  <2>3. QED
    BY <2>1, <2>2
<1>5. Q /\ Q' /\ <<Collects>>_vars =>
        /\ L4'
        /\ L4 => L3'
        /\ L3 => L2'
        /\ L2 => L1'
        /\ L1 => L0'
  <2> SUFFICES ASSUME Q, Q', Collects
               PROVE  /\ L4'
                      /\ L4 => L3'
                      /\ L3 => L2'
                      /\ L2 => L1'
                      /\ L1 => L0'
    OBVIOUS
  <2>1. HowMany \in 0..5 /\ HowMany' < HowMany
    BY QuietStep, HowManyShape DEF Next
  <2>2. HowMany' \in Nat
    BY DEF HowMany, One
  <2>3. QED
    BY <2>1, <2>2
<1>6. Q /\ CollectorEnabled /\ ~L0 => ENABLED <<Collects>>_vars
  <2>1. ASSUME Q, NEW i \in 1..5, Stands(i) PROVE \E o \in Objects : Orphaned(o)
    BY <2>1, StepsShape DEF Stands, Orphaned, OwnersAreModels, Quiet, Gone
  <2>2. Q /\ ~L0 => \E o \in Objects : Orphaned(o)
    BY <2>1, HowManyShape
  <2>3. QED
    BY <2>2 DEF CollectorEnabled
<1>7. L0 => Clear
  BY HowManyShape
<1>8. U /\ Unseen /\ I => Q
  BY DEF Quiet
<1>9. L0 => L1 /\ L2 /\ L3 /\ L4
  BY HowManyShape
<1>10. Fair => []<>I
  BY EveryReconcileEnds, PTL DEF FairSpec, StepsAreEnabled
<1>11. Fair => <>[]U
  BY InvariantHolds, OwnersHold, PTL DEF FairSpec
<1> HIDE DEF U, Q, Unseen, MM, I, L0, L1, L2, L3, L4, Clear
<1>12. Fair => <>[]Unseen
  BY <1>1, <1>2, <1>3, <1>11, PTL DEF FairSpec, Spec, FairCaches, StepsAreEnabled
<1>13. Fair => <>[]Q
  BY <1>1, <1>8, <1>10, <1>11, <1>12, PTL DEF FairSpec, Spec
<1>14. Fair => <>[]L4
  BY <1>4, <1>5, <1>6, <1>9, <1>13, PTL DEF FairSpec, Spec, FairCollector, StepsAreEnabled
<1>15. Fair => <>[]L2
  BY <1>4, <1>5, <1>6, <1>9, <1>13, <1>14, PTL
     DEF FairSpec, Spec, FairCollector, StepsAreEnabled
<1>16. Fair => <>[]L0
  BY <1>4, <1>5, <1>6, <1>9, <1>13, <1>15, PTL
     DEF FairSpec, Spec, FairCollector, StepsAreEnabled
<1>17. QED
  BY <1>7, <1>16, PTL DEF Clear

\* No counter moves any more.
CountsAre(e, n) == edits = e /\ faults = n

\* Once edits and failures have ceased, a model that stays comes to be provisioned for good,
\* and of one that is gone nothing stays behind.
THEOREM GatewayComesRight ==
  ASSUME NEW e, NEW n
  PROVE  FairSpec /\ []StepsAreEnabled /\ <>[]CountsAre(e, n) => GatewayFollows
<1> DEFINE Absent == ~model.exists
           Clear == \A o \in Objects : ~objects[o].exists
<1>1. Alive /\ CountsAre(e, n) => Lives(e, n)
  BY DEF CountsAre, Lives
<1>2. Absent /\ CountsAre(e, n) => Gone(e, n)
  BY DEF CountsAre, Gone
<1>3. FairSpec /\ []StepsAreEnabled /\ <>[]Lives(e, n) => <>[]Provisioned
  BY LifeIsProvisioned
<1>4. FairSpec /\ []StepsAreEnabled /\ <>[]Gone(e, n) => <>[]Clear
  BY GoneIsCollected
<1> HIDE DEF Absent, Clear
<1>5. FairSpec /\ []StepsAreEnabled /\ <>[]CountsAre(e, n)
        => /\ <>[]Alive => <>[](Alive /\ Provisioned)
           /\ <>[]Absent => <>[]Clear
  BY <1>1, <1>2, <1>3, <1>4, PTL
<1>6. QED
  BY <1>5 DEF GatewayFollows, Absent, Clear

=============================================================================
