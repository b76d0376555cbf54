--------------------------- MODULE ClusterTLSProofs ---------------------------
(***************************************************************************)
(* Proofs about ClusterTLS, for any configurations, Gateways, namespaces   *)
(* and foreign listeners and any bound on the edits.                       *)
(*                                                                         *)
(* Everything rests on MergeHTTPSListener, for any list of listeners, and  *)
(* on the version that guards the update: while it is current, the copy    *)
(* the merge starts from is what is in the Gateway.                        *)
(***************************************************************************)
EXTENDS ClusterTLS, TLAPS

(***************************************************************************)
(* MergeHTTPSListener.                                                     *)
(***************************************************************************)

\* The API server keeps the names of a Gateway's listeners different.
Unique(ls) == \A i, j \in DOMAIN ls : ls[i].name = ls[j].name => i = j

LEMMA EqualListeners ==
  ASSUME NEW l \in Listener, NEW m \in Listener, ListenersEqual(l, m)
  PROVE  l.hostname = m.hostname /\ l.secret = m.secret
<1>1. [l EXCEPT !.extra = FALSE].hostname = [m EXCEPT !.extra = FALSE].hostname
  BY DEF ListenersEqual
<1>2. [l EXCEPT !.extra = FALSE].secret = [m EXCEPT !.extra = FALSE].secret
  BY DEF ListenersEqual
<1>3. QED
  BY <1>1, <1>2 DEF Listener

\* A list without the listener gets it at its end.
LEMMA MergeNew ==
  ASSUME NEW ls \in Seq(Listener), NEW l \in Listener, Positions(ls, l.name) = {}
  PROVE  /\ Merge(ls, l) \in Seq(Listener)
         /\ DOMAIN Merge(ls, l) = DOMAIN ls \cup {Len(ls) + 1}
         /\ Len(ls) + 1 \notin DOMAIN ls
         /\ Merge(ls, l)[Len(ls) + 1] = l
         /\ \A i \in DOMAIN ls : Merge(ls, l)[i] = ls[i] /\ ls[i].name # l.name
<1>1. Merge(ls, l) = Append(ls, l)
  BY DEF Merge
<1>2. \A i \in DOMAIN ls : ls[i].name # l.name
  BY DEF Positions
<1>3. QED
  BY <1>1, <1>2

\* A list with it keeps its length, and is changed only where the listener is.
LEMMA MergeOld ==
  ASSUME NEW ls \in Seq(Listener), NEW l \in Listener, Positions(ls, l.name) # {}
  PROVE  /\ Merge(ls, l) \in Seq(Listener)
         /\ DOMAIN Merge(ls, l) = DOMAIN ls
         /\ \A i \in DOMAIN ls :
              /\ Merge(ls, l)[i].name = ls[i].name
              /\ ls[i].name # l.name => Merge(ls, l)[i] = ls[i]
              /\ ls[i].name = l.name => /\ Merge(ls, l)[i].hostname = l.hostname
                                        /\ Merge(ls, l)[i].secret = l.secret
<1> DEFINE Element(i) ==
      IF i \in Positions(ls, l.name) /\ ~ListenersEqual(ls[i], l) THEN l ELSE ls[i]
<1>1. Merge(ls, l) = [i \in DOMAIN ls |-> Element(i)]
  BY DEF Merge
<1>2. \A i \in DOMAIN ls : Element(i) \in Listener
  OBVIOUS
<1>3. Merge(ls, l) \in Seq(Listener) /\ DOMAIN Merge(ls, l) = DOMAIN ls
  <2>1. DOMAIN ls = 1..Len(ls) /\ Len(ls) \in Nat
    OBVIOUS
  <2>2. [i \in 1..Len(ls) |-> Element(i)] \in Seq(Listener)
    BY <1>2, <2>1
  <2>3. QED
    BY <1>1, <2>1, <2>2
<1>4. ASSUME NEW i \in DOMAIN ls
      PROVE  /\ Element(i).name = ls[i].name
             /\ ls[i].name # l.name => Element(i) = ls[i]
             /\ ls[i].name = l.name => /\ Element(i).hostname = l.hostname
                                       /\ Element(i).secret = l.secret
  BY EqualListeners DEF Positions
<1>5. QED
  BY <1>1, <1>3, <1>4

LEMMA MergeType ==
  ASSUME NEW ls \in Seq(Listener), NEW l \in Listener
  PROVE  Merge(ls, l) \in Seq(Listener)
BY MergeNew, MergeOld

\* What is not the operator's stays where and as it is.
LEMMA MergeKeeps ==
  ASSUME NEW ls \in Seq(Listener), NEW l \in Listener,
         NEW i \in DOMAIN ls, ls[i].name # l.name
  PROVE  i \in DOMAIN Merge(ls, l) /\ Merge(ls, l)[i] = ls[i]
<1>1. CASE Positions(ls, l.name) = {}
  <2>1. /\ DOMAIN Merge(ls, l) = DOMAIN ls \cup {Len(ls) + 1} /\ Len(ls) + 1 \notin DOMAIN ls
        /\ Merge(ls, l)[Len(ls) + 1] = l
        /\ \A j \in DOMAIN ls : Merge(ls, l)[j] = ls[j] /\ ls[j].name # l.name
    BY <1>1, MergeNew
  <2>2. QED
    BY <2>1
<1>2. CASE Positions(ls, l.name) # {}
  <2>1. /\ DOMAIN Merge(ls, l) = DOMAIN ls
        /\ \A j \in DOMAIN ls :
             /\ Merge(ls, l)[j].name = ls[j].name
             /\ ls[j].name # l.name => Merge(ls, l)[j] = ls[j]
    BY <1>2, MergeOld
  <2>2. QED
    BY <2>1
<1>3. QED
  BY <1>1, <1>2

\* Listeners of other names are neither added nor lost.
LEMMA MergePositions ==
  ASSUME NEW ls \in Seq(Listener), NEW l \in Listener, NEW n, n # l.name
  PROVE  Positions(Merge(ls, l), n) = Positions(ls, n)
<1>1. CASE Positions(ls, l.name) = {}
  <2>1. /\ DOMAIN Merge(ls, l) = DOMAIN ls \cup {Len(ls) + 1} /\ Len(ls) + 1 \notin DOMAIN ls
        /\ Merge(ls, l)[Len(ls) + 1] = l
        /\ \A i \in DOMAIN ls : Merge(ls, l)[i] = ls[i] /\ ls[i].name # l.name
    BY <1>1, MergeNew, Zenon
  <2>2. QED
    BY <2>1 DEF Positions
<1>2. CASE Positions(ls, l.name) # {}
  <2>1. /\ DOMAIN Merge(ls, l) = DOMAIN ls
        /\ \A i \in DOMAIN ls :
             /\ Merge(ls, l)[i].name = ls[i].name
             /\ ls[i].name # l.name => Merge(ls, l)[i] = ls[i]
    BY <1>2, MergeOld
  <2>2. QED
    BY <2>1 DEF Positions
<1>3. QED
  BY <1>1, <1>2

LEMMA MergeUnique ==
  ASSUME NEW ls \in Seq(Listener), NEW l \in Listener, Unique(ls)
  PROVE  Unique(Merge(ls, l))
<1>1. CASE Positions(ls, l.name) = {}
  <2>1. /\ DOMAIN Merge(ls, l) = DOMAIN ls \cup {Len(ls) + 1} /\ Len(ls) + 1 \notin DOMAIN ls
        /\ Merge(ls, l)[Len(ls) + 1] = l
        /\ \A i \in DOMAIN ls : Merge(ls, l)[i] = ls[i] /\ ls[i].name # l.name
    BY <1>1, MergeNew
  <2>2. QED
    BY <2>1 DEF Unique
<1>2. CASE Positions(ls, l.name) # {}
  <2>1. /\ DOMAIN Merge(ls, l) = DOMAIN ls
        /\ \A i \in DOMAIN ls :
             /\ Merge(ls, l)[i].name = ls[i].name
             /\ ls[i].name # l.name => Merge(ls, l)[i] = ls[i]
    BY <1>2, MergeOld
  <2>2. QED
    BY <2>1 DEF Unique
<1>3. QED
  BY <1>1, <1>2

\* After the merge there is one listener of the name, and it says what it should.
HasListener(ls, l) ==
  \E i \in DOMAIN ls : /\ Positions(ls, l.name) = {i}
                       /\ ls[i].hostname = l.hostname /\ ls[i].secret = l.secret

LEMMA MergeEstablishes ==
  ASSUME NEW ls \in Seq(Listener), NEW l \in Listener, Unique(ls)
  PROVE  HasListener(Merge(ls, l), l)
<1>1. CASE Positions(ls, l.name) = {}
  <2>1. /\ DOMAIN Merge(ls, l) = DOMAIN ls \cup {Len(ls) + 1} /\ Len(ls) + 1 \notin DOMAIN ls
        /\ Merge(ls, l)[Len(ls) + 1] = l
        /\ \A i \in DOMAIN ls : Merge(ls, l)[i] = ls[i] /\ ls[i].name # l.name
    BY <1>1, MergeNew
  <2>2. Positions(Merge(ls, l), l.name) = {Len(ls) + 1}
    BY <2>1 DEF Positions
  <2>3. QED
    BY <2>1, <2>2 DEF HasListener
<1>2. CASE Positions(ls, l.name) # {}
  <2>1. PICK i \in DOMAIN ls : ls[i].name = l.name
    BY <1>2 DEF Positions
  <2>2. \A j \in DOMAIN ls : ls[j].name = l.name => j = i
    BY <2>1 DEF Unique
  <2>3. Positions(Merge(ls, l), l.name) = {i}
    BY <1>2, <2>1, <2>2, MergeOld DEF Positions
  <2>4. QED
    BY <1>2, <2>1, <2>3, MergeOld DEF HasListener
<1>3. QED
  BY <1>1, <1>2
(***************************************************************************)
(* Shapes.                                                                 *)
(***************************************************************************)
LEMMA ConfigShape ==
  ASSUME NEW o \in Operators
  PROVE  /\ ConfigOf[o] \in Config
         /\ ConfigOf[o].domain \in Domains
         /\ ConfigOf[o].secretName \in Secrets \cup {None}
         /\ ConfigOf[o].manageListeners \in BOOLEAN
         /\ \A e \in Endpoints : ConfigOf[o].gateway[e] \in Gateways
BY ConfigsAreConfigs DEF Config

LEMMA SecretShape ==
  ASSUME NEW o \in Operators
  PROVE  SharedSecret(ConfigOf[o]) \in Secrets \cup {Managed}
BY ConfigShape DEF SharedSecret

LEMMA NameShape ==
  ASSUME NEW e \in Endpoints
  PROVE  /\ ListenerName[e] \in Own /\ ListenerName[e] \notin Foreign
         /\ \A d \in Endpoints : ListenerName[d] = ListenerName[e] => d = e
<1>1. ListenerName[e] \in Own
  BY DEF Own
<1>2. \A d \in Endpoints : ListenerName[d] = ListenerName[e] => d = e
  BY DEF ListenerName, Endpoints
<1>3. QED
  BY <1>1, <1>2, ForeignIsNotOwn

LEMMA DesiredShape ==
  ASSUME NEW o \in Operators, NEW e \in Endpoints
  PROVE  LET d == Desired(ConfigOf[o], e) IN
         /\ d \in Listener /\ d.name = ListenerName[e]
         /\ d.hostname = Hostname(e, ConfigOf[o].domain)
         /\ d.secret = SharedSecret(ConfigOf[o])
BY ConfigShape, SecretShape, NameShape DEF Desired, Listener, Hostname

LEMMA ForeignerShape == ASSUME NEW n \in Foreign PROVE Foreigner(n) \in Listener
BY DEF Foreigner, Listener

LEMMA AsleepShape ==
  /\ Asleep \in Pass /\ Starting \in Pass
  /\ Asleep.step = "asleep" /\ ~Asleep.read /\ ~Asleep.current /\ ~Asleep.complete
  /\ ~Asleep.undisturbed
  /\ Starting.step = "tls" /\ ~Starting.read /\ ~Starting.complete /\ Starting.undisturbed
<1>1. << >> \in Seq(Listener)
  OBVIOUS
<1>2. Starting \in Pass
  BY <1>1 DEF Starting, Pass, Steps
<1>3. Asleep \in Pass
  BY <1>2 DEF Asleep, Pass, Steps
<1>4. QED
  BY <1>2, <1>3 DEF Asleep, Starting

\* The places of a pass by their names.
LEMMA PlaceShape ==
  /\ GrantStep["external"] = "externalGrant" /\ GrantStep["internal"] = "internalGrant"
  /\ Granting = {"externalGrant", "internalGrant"}
  /\ Steps = {"asleep", "tls", "externalGrant", "internalGrant", "external", "internal"}
<1>1. GrantStep["external"] = "externalGrant" /\ GrantStep["internal"] = "internalGrant"
  BY DEF GrantStep, Endpoints
<1>2. Granting = {"externalGrant", "internalGrant"}
  BY <1>1 DEF Granting, Endpoints
<1>3. QED
  BY <1>1, <1>2 DEF Steps, Endpoints

LEMMA ToShape ==
  ASSUME TypeOK, NEW o \in Operators, NEW step \in Steps
  PROVE  /\ To(o, step) \in Pass /\ To(o, step).step = step
         /\ ~To(o, step).read /\ ~To(o, step).current
         /\ To(o, step).complete = pass[o].complete
         /\ To(o, step).undisturbed = pass[o].undisturbed
<1>1. pass[o] \in Pass /\ << >> \in Seq(Listener)
  BY DEF TypeOK
<1>2. QED
  BY <1>1 DEF To, Pass

LEMMA CompletedShape ==
  ASSUME TypeOK, NEW o \in Operators
  PROVE  /\ Completed(o) \in Pass /\ Completed(o).step = "asleep" /\ ~Completed(o).read
         /\ Completed(o).complete
         /\ Completed(o).undisturbed = pass[o].undisturbed
<1>1. /\ To(o, "asleep") \in Pass /\ To(o, "asleep").step = "asleep"
      /\ ~To(o, "asleep").read /\ To(o, "asleep").undisturbed = pass[o].undisturbed
  BY ToShape DEF Steps
<1>2. QED
  BY <1>1 DEF Completed, Pass

LEMMA AfterGrantShape ==
  ASSUME TypeOK, NEW o \in Operators, NEW e \in Endpoints
  PROVE  /\ AfterGrant(o, e) \in Pass /\ ~AfterGrant(o, e).read
         /\ AfterGrant(o, e).undisturbed = pass[o].undisturbed
         /\ e = "external" => /\ AfterGrant(o, e).step = "internalGrant"
                              /\ AfterGrant(o, e).complete = pass[o].complete
         /\ e = "internal" /\ ConfigOf[o].manageListeners =>
              /\ AfterGrant(o, e).step = "external"
              /\ AfterGrant(o, e).complete = pass[o].complete
         /\ e = "internal" /\ ~ConfigOf[o].manageListeners =>
              /\ AfterGrant(o, e).step = "asleep"
              /\ AfterGrant(o, e).complete
BY ToShape, CompletedShape, PlaceShape DEF AfterGrant, Endpoints

LEMMA PatchedShape ==
  ASSUME TypeOK, NEW o \in Operators, NEW e \in Endpoints
  PROVE  /\ Patched(o, e) \in Pass /\ ~Patched(o, e).read
         /\ Patched(o, e).undisturbed = pass[o].undisturbed
         /\ e = "external" => /\ Patched(o, e).step = "internal"
                              /\ Patched(o, e).complete = pass[o].complete
         /\ e = "internal" => Patched(o, e).step = "asleep" /\ Patched(o, e).complete
BY ToShape, CompletedShape, PlaceShape DEF Patched, Endpoints

\* The step of the pass is at one of the Gateways in gs.
At(q, gs) == \E e \in Endpoints : pass[q].step = e /\ ConfigOf[q].gateway[e] \in gs

\* What a step of one makes of the pass of another.
LEMMA OtherRuns ==
  ASSUME TypeOK, NEW o, NEW p, NEW wrote, NEW gs, Runs(o, p, wrote, gs),
         NEW q \in Operators, q # o
  PROVE  /\ pass'[q] \in Pass
         /\ pass'[q].step = pass[q].step /\ pass'[q].read = pass[q].read
         /\ pass'[q].listeners = pass[q].listeners
         /\ pass'[q].complete = pass[q].complete
         /\ pass'[q].undisturbed <=> (pass[q].undisturbed /\ ~wrote)
         /\ pass'[q].current <=> (pass[q].current /\ ~At(q, gs))
<1> DEFINE u == pass[q].undisturbed /\ ~wrote
           c == /\ pass[q].current
                /\ \A e \in Endpoints : pass[q].step = e => ConfigOf[q].gateway[e] \notin gs
<1>1. pass[q] \in Pass
  BY DEF TypeOK
<1>2. pass'[q] = [pass[q] EXCEPT !.undisturbed = u, !.current = c]
  BY <1>1 DEF Runs, Pass
<1>3. u \in BOOLEAN /\ c \in BOOLEAN /\ (c <=> pass[q].current /\ ~At(q, gs))
  BY DEF At
<1> HIDE DEF u, c
<1>4. /\ pass'[q] \in Pass /\ pass'[q].undisturbed = u /\ pass'[q].current = c
      /\ pass'[q].step = pass[q].step /\ pass'[q].read = pass[q].read
      /\ pass'[q].listeners = pass[q].listeners
      /\ pass'[q].complete = pass[q].complete
  BY <1>1, <1>2, <1>3 DEF Pass
<1>5. QED
  BY <1>3, <1>4 DEF u

LEMMA RunsShape ==
  ASSUME TypeOK, NEW o, NEW p \in Pass, NEW wrote, NEW gs, Runs(o, p, wrote, gs)
  PROVE  /\ pass' \in [Operators -> Pass]
         /\ o \in Operators => pass'[o] = p
<1>1. \A q \in Operators : q # o => pass'[q] \in Pass
  BY OtherRuns
<1>2. DOMAIN pass' = Operators /\ (\A q \in Operators : q = o => pass'[q] = p)
      /\ pass' = [q \in Operators |-> pass'[q]]
  BY DEF Runs
<1>3. QED
  BY <1>1, <1>2

(***************************************************************************)
(* Types.                                                                  *)
(***************************************************************************)
LEMMA InitTypeOK == Init => TypeOK
<1> SUFFICES ASSUME Init PROVE TypeOK
  OBVIOUS
<1>1. gateway \in [Gateways -> Seq(Listener)]
  <2>1. Foreigner(First) \in Listener
    BY ForeignIsNotOwn, ForeignerShape
  <2>2. <<Foreigner(First)>> \in Seq(Listener) /\ << >> \in Seq(Listener)
    BY <2>1
  <2>3. QED
    BY <2>2 DEF Init
<1>2. pass \in [Operators -> Pass]
  BY AsleepShape DEF Init
<1>3. running \in (SUBSET Operators) \ {{}} /\ edits \in 0..MaxEdits
  BY EditsAreNat DEF Init, Operators
<1>4. QED
  BY <1>1, <1>2, <1>3 DEF Init, TypeOK

LEMMA EditBound == ASSUME Edit, edits \in 0..MaxEdits PROVE edits' \in 0..MaxEdits
BY EditsAreNat DEF Edit

\* What a step at an endpoint needs of its operator.
LEMMA EndpointShape ==
  ASSUME TypeOK, NEW o \in Operators, NEW e \in Endpoints
  PROVE  /\ pass[o] \in Pass /\ pass[o].listeners \in Seq(Listener)
         /\ ConfigOf[o].gateway[e] \in Gateways
         /\ gateway[ConfigOf[o].gateway[e]] \in Seq(Listener)
         /\ Merged(o, e) \in Seq(Listener)
<1>1. pass[o] \in Pass /\ pass[o].listeners \in Seq(Listener)
  BY DEF TypeOK, Pass
<1>2. ConfigOf[o].gateway[e] \in Gateways
  BY ConfigShape
<1>3. gateway[ConfigOf[o].gateway[e]] \in Seq(Listener)
  BY <1>2 DEF TypeOK
<1>4. Merged(o, e) \in Seq(Listener)
  BY <1>1, DesiredShape, MergeType DEF Merged
<1>5. QED
  BY <1>1, <1>2, <1>3, <1>4

\* The pass that has read a Gateway.
HasRead(o, g) == [pass[o] EXCEPT !.read = TRUE, !.listeners = gateway[g], !.current = TRUE]

LEMMA HasReadShape ==
  ASSUME TypeOK, NEW o \in Operators, NEW g \in Gateways
  PROVE  /\ HasRead(o, g) \in Pass /\ HasRead(o, g).step = pass[o].step
         /\ HasRead(o, g).read /\ HasRead(o, g).current
         /\ HasRead(o, g).listeners = gateway[g]
         /\ HasRead(o, g).complete = pass[o].complete
         /\ HasRead(o, g).undisturbed = pass[o].undisturbed
BY DEF HasRead, TypeOK, Pass

\* Writing a Gateway from outside.
LEMMA SetShape ==
  ASSUME TypeOK, NEW g \in Gateways, NEW ls \in Seq(Listener), SetGateway(g, ls)
  PROVE  /\ gateway' \in [Gateways -> Seq(Listener)] /\ pass' \in [Operators -> Pass]
         /\ gateway'[g] = ls /\ \A h \in Gateways \ {g} : gateway'[h] = gateway[h]
         /\ edits' \in 0..MaxEdits
         /\ certificate' = certificate /\ grant' = grant /\ running' = running
         /\ Runs(None, Asleep, TRUE, {g})
<1>1. Runs(None, Asleep, TRUE, {g}) /\ gateway' = [gateway EXCEPT ![g] = ls]
  BY DEF SetGateway
<1>2. pass' \in [Operators -> Pass]
  BY <1>1, AsleepShape, RunsShape
<1>3. edits' \in 0..MaxEdits
  BY EditBound DEF SetGateway, TypeOK
<1>4. gateway \in [Gateways -> Seq(Listener)]
  BY DEF TypeOK
<1>5. QED
  BY <1>1, <1>2, <1>3, <1>4 DEF SetGateway

\* What the others make of a Gateway is a list of listeners with names of their own.
LEMMA OthersShape ==
  ASSUME TypeOK, Others
  PROVE  \E g \in Gateways : \E ls \in Seq(Listener) :
           /\ SetGateway(g, ls)
           /\ installed' \subseteq Gateways
           /\ \A h \in Gateways \ {g} : h \in installed' <=> h \in installed
           /\ Unique(gateway[g]) => Unique(ls)
<1>1. PICK g \in Gateways :
        \/ Install(g) \/ Uninstall(g)
        \/ \E n \in Foreign : AddForeign(g, n)
        \/ \E i \in DOMAIN gateway[g] : Tamper(g, i)
  BY DEF Others
<1>2. installed \subseteq Gateways /\ gateway[g] \in Seq(Listener)
  BY DEF TypeOK
<1>3. CASE Install(g)
  <2>1. Foreigner(First) \in Listener
    BY ForeignIsNotOwn, ForeignerShape
  <2>2. <<Foreigner(First)>> \in Seq(Listener) /\ Unique(<<Foreigner(First)>>)
    BY <2>1 DEF Unique
  <2>3. QED
    BY <1>2, <1>3, <2>2 DEF Install
<1>4. CASE Uninstall(g)
  <2>1. << >> \in Seq(Listener) /\ Unique(<< >>)
    BY DEF Unique
  <2>2. QED
    BY <1>2, <1>4, <2>1 DEF Uninstall
<1>5. ASSUME NEW n \in Foreign, AddForeign(g, n)
      PROVE  \E ls \in Seq(Listener) :
               /\ SetGateway(g, ls) /\ installed' = installed
               /\ Unique(gateway[g]) => Unique(ls)
  <2> DEFINE ls == Append(gateway[g], Foreigner(n))
  <2>1. Foreigner(n) \in Listener /\ Foreigner(n).name = n
    BY ForeignerShape DEF Foreigner
  <2>2. /\ ls \in Seq(Listener) /\ DOMAIN ls = DOMAIN gateway[g] \cup {Len(gateway[g]) + 1}
        /\ Len(gateway[g]) + 1 \notin DOMAIN gateway[g]
        /\ ls[Len(gateway[g]) + 1] = Foreigner(n)
        /\ \A i \in DOMAIN gateway[g] : ls[i] = gateway[g][i]
    BY <1>2, <2>1
  <2>3. \A i \in DOMAIN gateway[g] : gateway[g][i].name # n
    BY <1>5 DEF AddForeign, Positions
  <2>4. SetGateway(g, ls) /\ installed' = installed
    BY <1>5 DEF AddForeign
  <2> HIDE DEF ls
  <2>5. Unique(gateway[g]) => Unique(ls)
    BY <2>1, <2>2, <2>3 DEF Unique
  <2>6. QED
    BY <2>2, <2>4, <2>5
<1>6. ASSUME NEW i \in DOMAIN gateway[g], Tamper(g, i)
      PROVE  \E ls \in Seq(Listener) :
               /\ SetGateway(g, ls) /\ installed' = installed
               /\ Unique(gateway[g]) => Unique(ls)
  <2>1. PICK l \in Listener : /\ l.name = gateway[g][i].name
                              /\ SetGateway(g, [gateway[g] EXCEPT ![i] = l])
                              /\ installed' = installed
    <3> DEFINE old == gateway[g][i]
    <3>1. old \in Listener
      BY <1>2
    <3>2. /\ [old EXCEPT !.hostname = OtherHostname, !.secret = None] \in Listener
          /\ [old EXCEPT !.hostname = OtherHostname, !.secret = None].name = old.name
          /\ [old EXCEPT !.extra = ~@] \in Listener
          /\ [old EXCEPT !.extra = ~@].name = old.name
      BY <3>1 DEF Listener
    <3>3. /\ [gateway[g] EXCEPT ![i].hostname = OtherHostname, ![i].secret = None]
             = [gateway[g] EXCEPT ![i] = [old EXCEPT !.hostname = OtherHostname, !.secret = None]]
          /\ [gateway[g] EXCEPT ![i].extra = ~@]
             = [gateway[g] EXCEPT ![i] = [old EXCEPT !.extra = ~@]]
      BY <1>2, <3>1 DEF Listener
    <3>4. QED
      BY <1>6, <3>2, <3>3 DEF Tamper
  <2>2. [gateway[g] EXCEPT ![i] = l] \in Seq(Listener)
    BY <1>2
  <2>3. Unique(gateway[g]) => Unique([gateway[g] EXCEPT ![i] = l])
    BY <1>2, <2>1 DEF Unique
  <2>4. QED
    BY <2>1, <2>2, <2>3
<1>7. QED
  BY <1>1, <1>2, <1>3, <1>4, <1>5, <1>6
\* What a pass writes has its type.
LEMMA WorksType ==
  ASSUME TypeOK, NEW o \in Operators, Works(o)
  PROVE  TypeOK'
<1>1. CASE Tick(o)
  BY <1>1, AsleepShape, RunsShape DEF Tick, TypeOK
<1>2. CASE EnsureTLSSource(o)
  <2>1. certificate' \in Domains \cup {None}
    BY <1>2, ConfigShape DEF EnsureTLSSource
  <2>2. To(o, "externalGrant") \in Pass
    BY ToShape, PlaceShape
  <2>3. pass' \in [Operators -> Pass]
    BY <1>2, <2>2, RunsShape DEF EnsureTLSSource
  <2>4. QED
    BY <1>2, <2>1, <2>3 DEF EnsureTLSSource, TypeOK
<1>3. ASSUME NEW e \in Endpoints, EnsureReferenceGrant(o, e) PROVE TypeOK'
  <2>1. grant' \in [Namespaces -> Secrets \cup {Managed, None}]
    BY <1>3, SecretShape DEF EnsureReferenceGrant, TypeOK
  <2>2. pass' \in [Operators -> Pass]
    BY <1>3, AfterGrantShape, RunsShape DEF EnsureReferenceGrant
  <2>3. QED
    BY <1>3, <2>1, <2>2 DEF EnsureReferenceGrant, TypeOK
<1>5. ASSUME NEW e \in Endpoints, GetGateway(o, e) PROVE TypeOK'
  <2>1. Patched(o, e) \in Pass /\ HasRead(o, ConfigOf[o].gateway[e]) \in Pass
    BY PatchedShape, HasReadShape, EndpointShape
  <2>2. pass' \in [Operators -> Pass]
    BY <1>5, <2>1, RunsShape DEF GetGateway, HasRead
  <2>3. QED
    BY <1>5, <2>2 DEF GetGateway, TypeOK
<1>6. ASSUME NEW e \in Endpoints, NothingToPatch(o, e) PROVE TypeOK'
  <2>1. pass' \in [Operators -> Pass]
    BY <1>6, PatchedShape, RunsShape DEF NothingToPatch
  <2>2. QED
    BY <1>6, <2>1 DEF NothingToPatch, TypeOK
<1>7. ASSUME NEW e \in Endpoints, UpdateGateway(o, e) PROVE TypeOK'
  <2>1. pass' \in [Operators -> Pass]
    BY <1>7, PatchedShape, RunsShape DEF UpdateGateway
  <2>2. gateway' \in [Gateways -> Seq(Listener)]
    BY <1>7, EndpointShape DEF UpdateGateway, TypeOK
  <2>3. QED
    BY <1>7, <2>1, <2>2 DEF UpdateGateway, TypeOK
<1>8. ASSUME NEW e \in Endpoints, Conflict(o, e) PROVE TypeOK'
  <2>1. pass' \in [Operators -> Pass]
    BY <1>8, AsleepShape, RunsShape DEF Conflict
  <2>2. QED
    BY <1>8, <2>1 DEF Conflict, TypeOK
<1>9. QED
  BY <1>1, <1>2, <1>3, <1>5, <1>6, <1>7, <1>8 DEF Works, Patch

LEMMA TypeStep == TypeOK /\ [Next]_vars => TypeOK'
<1> SUFFICES ASSUME TypeOK, [Next]_vars PROVE TypeOK'
  OBVIOUS
<1>1. ASSUME NEW o \in Operators, Works(o) PROVE TypeOK'
  BY <1>1, WorksType
<1>2. ASSUME NEW o \in Operators, Fails(o) PROVE TypeOK'
  <2>1. pass' \in [Operators -> Pass]
    BY <1>2, AsleepShape, RunsShape DEF Fails
  <2>2. QED
    BY <1>2, <2>1, EditBound DEF Fails, TypeOK
<1>3. CASE StartNew
  BY <1>3 DEF StartNew, TypeOK, Operators
<1>4. CASE StopOld
  <2>1. running' \in (SUBSET Operators) \ {{}}
    BY <1>4, OperatorsDiffer DEF StopOld, TypeOK
  <2>2. pass' \in [Operators -> Pass]
    BY <1>4, AsleepShape DEF StopOld, TypeOK
  <2>3. QED
    BY <1>4, <2>1, <2>2 DEF StopOld, TypeOK
<1>5. CASE Others
  <2>1. PICK g \in Gateways, ls \in Seq(Listener) :
          SetGateway(g, ls) /\ installed' \subseteq Gateways
    BY <1>5, OthersShape
  <2>2. QED
    BY <2>1, SetShape DEF TypeOK
<1>6. CASE UNCHANGED vars
  BY <1>6 DEF vars, TypeOK
<1>7. QED
  BY <1>1, <1>2, <1>3, <1>4, <1>5, <1>6 DEF Next
(***************************************************************************)
(* The inductive invariant.                                                *)
(***************************************************************************)

\* A copy that is current is what is in the Gateway.
CopyTrue(o) ==
  \A e \in Endpoints :
    pass[o].step = e /\ pass[o].read /\ pass[o].current =>
      /\ ConfigOf[o].gateway[e] \in installed
      /\ pass[o].listeners = gateway[ConfigOf[o].gateway[e]]

\* While nobody disturbs the pass it is current.
CopyCurrent(o) == pass[o].read /\ pass[o].undisturbed => pass[o].current

CompleteRests(o) == pass[o].complete => pass[o].step = "asleep"

\* The Gateway of the endpoint may use the Secret.
Granted(o, e) ==
  LET c == ConfigOf[o] IN
  NamespaceOf[c.gateway[e]] # Home => grant[NamespaceOf[c.gateway[e]]] = SharedSecret(c)

\* What PassesEstablish says of an operator, whether it runs or not, and that the internal
\* Gateway's grant comes after the external one's.
Establishes(o) ==
  pass[o].undisturbed =>
    /\ pass[o].complete \/ pass[o].step \in Granting \cup Endpoints =>
         CertificateRight(ConfigOf[o])
    /\ pass[o].step = "internalGrant" => Granted(o, "external")
    /\ pass[o].complete \/ pass[o].step \in Endpoints => GrantsRight(ConfigOf[o])
    /\ pass[o].complete \/ pass[o].step = "internal" => ListenerRight(ConfigOf[o], "external")
    /\ pass[o].complete => ListenerRight(ConfigOf[o], "internal")

Sound(o) == CopyTrue(o) /\ CopyCurrent(o) /\ CompleteRests(o) /\ Establishes(o)

NamesUnique == \A g \in Gateways : Unique(gateway[g])

Parts == NamesUnique /\ \A o \in Operators : Sound(o)

IInv == TypeOK /\ Parts

\* An operator that sleeps after a failure has nothing to show.
LEMMA AsleepSound ==
  ASSUME NEW o \in Operators, pass[o] = Asleep
  PROVE  Sound(o)
BY AsleepShape DEF Sound, CopyTrue, CopyCurrent, CompleteRests, Establishes, Endpoints

\* The step for an endpoint brings its grant; the internal one takes nothing back.
LEMMA GrantSteps ==
  ASSUME TypeOK, NEW o \in Operators, NEW e \in Endpoints, EnsureReferenceGrant(o, e)
  PROVE  /\ e = "external" => Granted(o, "external")'
         /\ e = "internal" /\ Granted(o, "external") =>
              Granted(o, "external")' /\ Granted(o, "internal")'
         /\ GrantsRight(ConfigOf[o]) => grant' = grant
<1> DEFINE c == ConfigOf[o]
           n(d) == NamespaceOf[c.gateway[d]]
<1>1. \A d \in Endpoints : n(d) \in Namespaces
  BY ConfigShape, NamespacesAreTotal
<1>2. grant \in [Namespaces -> Secrets \cup {Managed, None}]
  BY DEF TypeOK
<1>3. CASE ~NeedsGrant(c, e)
  <2>1. grant' = grant
    BY <1>3 DEF EnsureReferenceGrant
  <2>2. n(e) = Home \/ (e = "internal" /\ n(e) = n("external"))
    BY <1>3 DEF NeedsGrant
  <2>3. QED
    BY <2>1, <2>2 DEF Granted
<1>4. CASE NeedsGrant(c, e)
  <2>1. /\ grant' = [grant EXCEPT ![n(e)] = SharedSecret(c)]
        /\ n(e) # Home /\ (e = "internal" => n(e) # n("external"))
    BY <1>4 DEF EnsureReferenceGrant, NeedsGrant
  <2>2. grant'[n(e)] = SharedSecret(c) /\ \A m \in Namespaces \ {n(e)} : grant'[m] = grant[m]
    BY <1>1, <1>2, <2>1
  <2>3. /\ Granted(o, e)'
        /\ e = "internal" /\ Granted(o, "external") => Granted(o, "external")'
    BY <1>1, <2>1, <2>2 DEF Granted, Endpoints
  <2>4. GrantsRight(c) => grant[n(e)] = SharedSecret(c)
    BY <2>1 DEF GrantsRight, GrantNamespaces
  <2>5. GrantsRight(c) => grant' = grant
    BY <1>2, <2>1, <2>4
  <2>6. QED
    BY <2>3, <2>5
<1>5. QED
  BY <1>3, <1>4

LEMMA InitParts == Init => Parts
<1> SUFFICES ASSUME Init PROVE Parts
  OBVIOUS
<1>1. \A o \in Operators : pass[o] = Asleep
  BY DEF Init
<1>2. \A o \in Operators : Sound(o)
  BY <1>1, AsleepSound
<1>3. NamesUnique
  BY DEF Init, NamesUnique, Unique
<1>4. QED
  BY <1>2, <1>3 DEF Parts

\* What is written of the world decides what is right of it.
LEMMA WorldSame ==
  ASSUME NEW c, NEW e,
         certificate' = certificate, grant' = grant, gateway' = gateway, installed' = installed
  PROVE  /\ CertificateRight(c)' <=> CertificateRight(c)
         /\ GrantsRight(c)' <=> GrantsRight(c)
         /\ ListenerRight(c, e)' <=> ListenerRight(c, e)
BY DEF CertificateRight, GrantsRight, ListenerRight

\* A step of o, or of somebody else, keeps the invariant of the other operators: they are
\* disturbed, if the step writes, and their copies outdated, if it writes a Gateway.
LEMMA Bystanders ==
  ASSUME TypeOK, Parts, NEW o, NEW p \in Pass, NEW wrote \in BOOLEAN, NEW gs,
         Runs(o, p, wrote, gs),
         \/ wrote
         \/ /\ certificate' = certificate /\ grant' = grant
            /\ gateway' = gateway /\ installed' = installed /\ gs = {},
         \A h \in Gateways \ gs :
           gateway'[h] = gateway[h] /\ (h \in installed' <=> h \in installed)
  PROVE  \A q \in Operators \ {o} : Sound(q)'
<1> SUFFICES ASSUME NEW q \in Operators \ {o} PROVE Sound(q)'
  OBVIOUS
<1>1. /\ pass'[q].step = pass[q].step /\ pass'[q].read = pass[q].read
      /\ pass'[q].listeners = pass[q].listeners
      /\ pass'[q].complete = pass[q].complete
      /\ pass'[q].undisturbed <=> (pass[q].undisturbed /\ ~wrote)
      /\ pass'[q].current <=> (pass[q].current /\ ~At(q, gs))
  BY OtherRuns
<1>2. Sound(q)
  BY DEF Parts
<1>3. CopyTrue(q)'
  <2>1. SUFFICES ASSUME NEW e \in Endpoints,
                        pass'[q].step = e, pass'[q].read, pass'[q].current
                 PROVE  /\ ConfigOf[q].gateway[e] \in installed'
                        /\ pass'[q].listeners = gateway'[ConfigOf[q].gateway[e]]
    BY DEF CopyTrue
  <2>2. ConfigOf[q].gateway[e] \in Gateways \ gs
    BY <1>1, <2>1, ConfigShape DEF At
  <2>3. /\ ConfigOf[q].gateway[e] \in installed
        /\ pass[q].listeners = gateway[ConfigOf[q].gateway[e]]
    BY <1>1, <1>2, <2>1 DEF Sound, CopyTrue
  <2>4. QED
    BY <1>1, <2>2, <2>3
<1>4. CopyCurrent(q)'
  BY <1>1, <1>2 DEF CopyCurrent, Sound, At
<1>5. CompleteRests(q)'
  BY <1>1, <1>2 DEF CompleteRests, Sound
<1>6. Establishes(q)'
  <2>1. CASE wrote
    BY <1>1, <2>1 DEF Establishes
  <2>2. CASE ~wrote
    <3>1. /\ CertificateRight(ConfigOf[q])' <=> CertificateRight(ConfigOf[q])
          /\ GrantsRight(ConfigOf[q])' <=> GrantsRight(ConfigOf[q])
          /\ ListenerRight(ConfigOf[q], "external")' <=> ListenerRight(ConfigOf[q], "external")
          /\ ListenerRight(ConfigOf[q], "internal")' <=> ListenerRight(ConfigOf[q], "internal")
          /\ Granted(q, "external")' <=> Granted(q, "external")
      BY <2>2, WorldSame DEF Granted
    <3>2. Establishes(q)
      BY <1>2 DEF Sound
    <3>3. QED
      BY <1>1, <3>1, <3>2 DEF Establishes
  <2>3. QED
    BY <2>1, <2>2
<1>7. QED
  BY <1>3, <1>4, <1>5, <1>6 DEF Sound
(***************************************************************************)
(* What a merge makes of the Gateway.                                      *)
(***************************************************************************)

\* The Gateway is, or becomes, what the operator has merged its listener into.
LEMMA ListenerEstablished ==
  ASSUME TypeOK, NEW o \in Operators, NEW e \in Endpoints, NEW ls \in Seq(Listener), Unique(ls),
         gateway'[ConfigOf[o].gateway[e]] = Merge(ls, Desired(ConfigOf[o], e))
  PROVE  ListenerRight(ConfigOf[o], e)'
<1> DEFINE d == Desired(ConfigOf[o], e)
           g == ConfigOf[o].gateway[e]
<1>1. /\ d \in Listener /\ d.name = ListenerName[e]
      /\ d.hostname = Hostname(e, ConfigOf[o].domain) /\ d.secret = SharedSecret(ConfigOf[o])
  BY DesiredShape
<1> HIDE DEF d
<1>2. HasListener(Merge(ls, d), d)
  BY <1>1, MergeEstablishes
<1>3. gateway'[g] = Merge(ls, d)
  BY DEF d
<1>4. \E i \in DOMAIN gateway'[g] :
        /\ Positions(gateway'[g], ListenerName[e]) = {i}
        /\ gateway'[g][i].hostname = Hostname(e, ConfigOf[o].domain)
        /\ gateway'[g][i].secret = SharedSecret(ConfigOf[o])
  BY <1>1, <1>2, <1>3 DEF HasListener
<1>5. QED
  BY <1>4 DEF ListenerRight

\* Writing the listener of one endpoint leaves that of the other as it is, in one Gateway
\* or in two.
LEMMA OtherEndpointKept ==
  ASSUME TypeOK, NEW o \in Operators, NEW e \in Endpoints, NEW d \in Endpoints, d # e,
         installed' = installed, ListenerRight(ConfigOf[o], d),
         LET g == ConfigOf[o].gateway[e] IN
           gateway' = [gateway EXCEPT ![g] = Merge(gateway[g], Desired(ConfigOf[o], e))]
  PROVE  ListenerRight(ConfigOf[o], d)'
<1> DEFINE g == ConfigOf[o].gateway[d]
           l == Desired(ConfigOf[o], e)
<1>1. g \in Gateways /\ gateway[g] \in Seq(Listener)
  BY EndpointShape
<1>2. l \in Listener /\ l.name # ListenerName[d]
  BY DesiredShape, NameShape
<1>3. SUFFICES ASSUME ConfigOf[o].manageListeners, g \in installed
               PROVE  \E i \in DOMAIN gateway'[g] :
                        /\ Positions(gateway'[g], ListenerName[d]) = {i}
                        /\ gateway'[g][i].hostname = Hostname(d, ConfigOf[o].domain)
                        /\ gateway'[g][i].secret = SharedSecret(ConfigOf[o])
  BY DEF ListenerRight
<1>4. PICK i \in DOMAIN gateway[g] :
        /\ Positions(gateway[g], ListenerName[d]) = {i}
        /\ gateway[g][i].hostname = Hostname(d, ConfigOf[o].domain)
        /\ gateway[g][i].secret = SharedSecret(ConfigOf[o])
  BY <1>3 DEF ListenerRight
<1>5. CASE gateway'[g] = gateway[g]
  BY <1>4, <1>5
<1>6. CASE gateway'[g] = Merge(gateway[g], l)
  <2>1. gateway[g][i].name = ListenerName[d]
    BY <1>4 DEF Positions
  <2>2. i \in DOMAIN gateway'[g] /\ gateway'[g][i] = gateway[g][i]
    BY <1>1, <1>2, <1>6, <2>1, MergeKeeps
  <2>3. Positions(gateway'[g], ListenerName[d]) = {i}
    BY <1>1, <1>2, <1>4, <1>6, MergePositions
  <2>4. QED
    BY <1>4, <2>2, <2>3
<1>7. gateway'[g] = gateway[g] \/ gateway'[g] = Merge(gateway[g], l)
  BY <1>1 DEF TypeOK
<1>8. QED
  BY <1>5, <1>6, <1>7

\* An update under the version that was read starts from what is in the Gateway.
LEMMA UpdateFromCurrent ==
  ASSUME TypeOK, Parts, NEW o \in Operators, NEW e \in Endpoints, UpdateGateway(o, e)
  PROVE  LET g == ConfigOf[o].gateway[e] IN
         /\ g \in installed /\ pass[o].listeners = gateway[g]
         /\ gateway' = [gateway EXCEPT ![g] = Merge(gateway[g], Desired(ConfigOf[o], e))]
         /\ gateway'[g] = Merge(gateway[g], Desired(ConfigOf[o], e))
         /\ \A h \in Gateways \ {g} : gateway'[h] = gateway[h]
         /\ Unique(gateway[g])
<1> DEFINE g == ConfigOf[o].gateway[e]
<1>1. g \in installed /\ pass[o].listeners = gateway[g]
  BY DEF UpdateGateway, Asks, Parts, Sound, CopyTrue
<1>2. gateway' = [gateway EXCEPT ![g] = Merge(gateway[g], Desired(ConfigOf[o], e))]
  BY <1>1 DEF UpdateGateway, Merged
<1>3. g \in Gateways /\ Unique(gateway[g])
  BY EndpointShape DEF Parts, NamesUnique
<1>4. QED
  BY <1>1, <1>2, <1>3 DEF TypeOK

LEMMA NamesStep == TypeOK /\ Parts /\ [Next]_vars => NamesUnique'
<1> SUFFICES ASSUME TypeOK, Parts, [Next]_vars PROVE NamesUnique'
  OBVIOUS
<1>1. ASSUME NEW o \in Operators, NEW e \in Endpoints, UpdateGateway(o, e) PROVE NamesUnique'
  <2> DEFINE g == ConfigOf[o].gateway[e]
             l == Desired(ConfigOf[o], e)
  <2>1. gateway[g] \in Seq(Listener) /\ l \in Listener
    BY EndpointShape, DesiredShape
  <2>2. /\ gateway'[g] = Merge(gateway[g], l) /\ Unique(gateway[g])
        /\ \A h \in Gateways \ {g} : gateway'[h] = gateway[h]
    BY <1>1, UpdateFromCurrent
  <2>3. Unique(gateway'[g])
    BY <2>1, <2>2, MergeUnique
  <2>4. SUFFICES ASSUME NEW h \in Gateways PROVE Unique(gateway'[h])
    BY DEF NamesUnique, Unique
  <2>5. QED
    BY <2>2, <2>3 DEF Parts, NamesUnique
<1>2. CASE Others
  <2>1. PICK g \in Gateways, ls \in Seq(Listener) :
          SetGateway(g, ls) /\ (Unique(gateway[g]) => Unique(ls))
    BY <1>2, OthersShape
  <2>2. gateway'[g] = ls /\ \A h \in Gateways \ {g} : gateway'[h] = gateway[h]
    BY <2>1, SetShape
  <2>3. SUFFICES ASSUME NEW h \in Gateways PROVE Unique(gateway'[h])
    BY DEF NamesUnique, Unique
  <2>4. QED
    BY <2>1, <2>2 DEF Parts, NamesUnique
<1>3. CASE gateway' = gateway
  BY <1>3 DEF Parts, NamesUnique, Unique
<1>4. QED
  BY <1>1, <1>2, <1>3 DEF Next, Works, Patch, vars, Tick, EnsureTLSSource, EnsureReferenceGrant,
     GetGateway, NothingToPatch, Conflict, Fails, StartNew, StopOld
(***************************************************************************)
(* A pass and the others.                                                  *)
(***************************************************************************)
LEMMA WorksBesides ==
  ASSUME TypeOK, Parts, NEW o \in Operators, Works(o)
  PROVE  \A q \in Operators \ {o} : Sound(q)'
<1>1. CASE Tick(o)
  BY <1>1, AsleepShape, Bystanders DEF Tick
<1>2. CASE EnsureTLSSource(o)
  <2>1. To(o, "externalGrant") \in Pass
    BY ToShape, PlaceShape
  <2>2. /\ Runs(o, To(o, "externalGrant"), certificate' # certificate, {})
        /\ grant' = grant /\ gateway' = gateway /\ installed' = installed
    BY <1>2 DEF EnsureTLSSource
  <2>3. CASE certificate' = certificate
    <3>1. Runs(o, To(o, "externalGrant"), FALSE, {})
      BY <2>2, <2>3
    <3>2. QED
      BY <2>1, <2>2, <2>3, <3>1, Bystanders
  <2>4. CASE certificate' # certificate
    <3>1. Runs(o, To(o, "externalGrant"), TRUE, {})
      BY <2>2, <2>4
    <3>2. QED
      BY <2>1, <2>2, <3>1, Bystanders
  <2>5. QED
    BY <2>3, <2>4
<1>3. ASSUME NEW e \in Endpoints, EnsureReferenceGrant(o, e)
      PROVE  \A q \in Operators \ {o} : Sound(q)'
  <2>1. /\ Runs(o, AfterGrant(o, e), grant' # grant, {}) /\ AfterGrant(o, e) \in Pass
        /\ certificate' = certificate /\ gateway' = gateway /\ installed' = installed
    BY <1>3, AfterGrantShape DEF EnsureReferenceGrant
  <2>2. CASE grant' = grant
    <3>1. Runs(o, AfterGrant(o, e), FALSE, {})
      BY <2>1, <2>2
    <3>2. QED
      BY <2>1, <2>2, <3>1, Bystanders
  <2>3. CASE grant' # grant
    <3>1. Runs(o, AfterGrant(o, e), TRUE, {})
      BY <2>1, <2>3
    <3>2. QED
      BY <2>1, <3>1, Bystanders
  <2>4. QED
    BY <2>2, <2>3
<1>5. ASSUME NEW e \in Endpoints, GetGateway(o, e) PROVE \A q \in Operators \ {o} : Sound(q)'
  <2>1. Patched(o, e) \in Pass /\ HasRead(o, ConfigOf[o].gateway[e]) \in Pass
    BY PatchedShape, HasReadShape, EndpointShape
  <2>2. QED
    BY <1>5, <2>1, Bystanders DEF GetGateway, HasRead
<1>6. ASSUME NEW e \in Endpoints, NothingToPatch(o, e)
      PROVE  \A q \in Operators \ {o} : Sound(q)'
  BY <1>6, PatchedShape, Bystanders DEF NothingToPatch
<1>7. ASSUME NEW e \in Endpoints, UpdateGateway(o, e)
      PROVE  \A q \in Operators \ {o} : Sound(q)'
  <2> DEFINE g == ConfigOf[o].gateway[e]
  <2>1. \A h \in Gateways \ {g} : gateway'[h] = gateway[h] /\ installed' = installed
    BY <1>7, UpdateFromCurrent DEF UpdateGateway
  <2>2. Runs(o, Patched(o, e), TRUE, {g})
    BY <1>7 DEF UpdateGateway
  <2>3. QED
    BY <2>1, <2>2, PatchedShape, Bystanders DEF UpdateGateway
<1>8. ASSUME NEW e \in Endpoints, Conflict(o, e) PROVE \A q \in Operators \ {o} : Sound(q)'
  BY <1>8, AsleepShape, Bystanders DEF Conflict
<1>9. QED
  BY <1>1, <1>2, <1>3, <1>5, <1>6, <1>7, <1>8 DEF Works, Patch

\* A pass that is not at an endpoint, and has read nothing, has no copy to be wrong.
LEMMA NoCopy ==
  ASSUME NEW o \in Operators, ~pass[o].read
  PROVE  CopyTrue(o) /\ CopyCurrent(o)
BY DEF CopyTrue, CopyCurrent

\* At an endpoint: what the pass has established so far is kept, and this endpoint's
\* listener is right now.
LEMMA PatchedSound ==
  ASSUME TypeOK, Parts, NEW o \in Operators, NEW e \in Endpoints, Asks(o, e),
         pass'[o] = Patched(o, e), certificate' = certificate, grant' = grant,
         pass[o].undisturbed => ListenerRight(ConfigOf[o], e)',
         pass[o].undisturbed /\ e = "internal" /\ ListenerRight(ConfigOf[o], "external")
           => ListenerRight(ConfigOf[o], "external")'
  PROVE  Sound(o)'
<1>1. pass[o].step = e /\ Sound(o)
  BY DEF Asks, Parts
<1>2. ~pass[o].complete
  BY <1>1 DEF Sound, CompleteRests, Endpoints
<1>3. /\ ~pass'[o].read /\ pass'[o].undisturbed = pass[o].undisturbed
      /\ e = "external" => pass'[o].step = "internal" /\ ~pass'[o].complete
      /\ e = "internal" => pass'[o].step = "asleep" /\ pass'[o].complete
  BY <1>2, PatchedShape
<1>4. CopyTrue(o)' /\ CopyCurrent(o)' /\ CompleteRests(o)'
  BY <1>3 DEF CopyTrue, CopyCurrent, CompleteRests, Endpoints
<1>5. pass[o].undisturbed =>
        /\ CertificateRight(ConfigOf[o])' /\ GrantsRight(ConfigOf[o])'
        /\ e = "internal" => ListenerRight(ConfigOf[o], "external")
  <2>1. pass[o].undisturbed =>
          /\ CertificateRight(ConfigOf[o]) /\ GrantsRight(ConfigOf[o])
          /\ e = "internal" => ListenerRight(ConfigOf[o], "external")
    BY <1>1 DEF Sound, Establishes, Endpoints
  <2>2. QED
    BY <2>1 DEF CertificateRight, GrantsRight
<1>6. Establishes(o)'
  <2>1. CASE e = "external"
    BY <1>3, <1>5, <2>1 DEF Establishes
  <2>2. CASE e = "internal"
    BY <1>3, <1>5, <2>2 DEF Establishes
  <2>3. QED
    BY <2>1, <2>2 DEF Endpoints
<1>7. QED
  BY <1>4, <1>6 DEF Sound

LEMMA WorksSound ==
  ASSUME TypeOK, Parts, NEW o \in Operators, Works(o)
  PROVE  Sound(o)'
<1>1. CASE Tick(o)
  <2>1. pass'[o] = Starting
    BY <1>1, AsleepShape, RunsShape DEF Tick
  <2>2. QED
    BY <2>1, AsleepShape, PlaceShape
       DEF Sound, CopyTrue, CopyCurrent, CompleteRests, Establishes, Endpoints
<1>2. CASE EnsureTLSSource(o)
  <2>1. pass[o].step = "tls" /\ ~pass[o].complete
    BY <1>2 DEF EnsureTLSSource, Asks, Parts, Sound, CompleteRests
  <2>2. pass'[o] = To(o, "externalGrant") /\ "externalGrant" \in Steps
    BY <1>2, ToShape, RunsShape, PlaceShape DEF EnsureTLSSource
  <2>3. pass'[o].step = "externalGrant" /\ ~pass'[o].read /\ ~pass'[o].complete
    BY <2>1, <2>2, ToShape
  <2>4. CertificateRight(ConfigOf[o])'
    BY <1>2 DEF EnsureTLSSource, CertificateRight
  <2>5. QED
    BY <2>3, <2>4
       DEF Sound, CopyTrue, CopyCurrent, CompleteRests, Establishes, Endpoints
<1>3. ASSUME NEW e \in Endpoints, EnsureReferenceGrant(o, e) PROVE Sound(o)'
  <2>1. pass[o].step = GrantStep[e] /\ Sound(o) /\ GrantStep[e] \in Granting
    BY <1>3 DEF EnsureReferenceGrant, Asks, Parts, Granting
  <2>2. ~pass[o].complete
    BY <2>1, PlaceShape DEF Sound, CompleteRests
  <2>3. pass'[o] = AfterGrant(o, e) /\ certificate' = certificate
    BY <1>3, AfterGrantShape, RunsShape DEF EnsureReferenceGrant
  <2>4. pass[o].undisturbed => CertificateRight(ConfigOf[o])'
    BY <2>1, <2>3 DEF Sound, Establishes, CertificateRight
  <2>5. CASE e = "external"
    <3>1. /\ pass'[o].step = "internalGrant" /\ ~pass'[o].read /\ ~pass'[o].complete
          /\ pass'[o].undisturbed = pass[o].undisturbed
      BY <2>2, <2>3, <2>5, AfterGrantShape
    <3>2. Granted(o, "external")'
      BY <1>3, <2>5, GrantSteps
    <3>3. QED
      BY <2>4, <3>1, <3>2
         DEF Sound, CopyTrue, CopyCurrent, CompleteRests, Establishes, Endpoints
  <2>6. CASE e = "internal"
    <3>1. pass[o].undisturbed => GrantsRight(ConfigOf[o])'
      <4>1. pass[o].undisturbed => Granted(o, "external")
        BY <2>1, <2>6, PlaceShape DEF Sound, Establishes
      <4>2. pass[o].undisturbed => Granted(o, "external")' /\ Granted(o, "internal")'
        BY <1>3, <2>6, <4>1, GrantSteps
      <4>3. GrantsRight(ConfigOf[o])' <=> Granted(o, "external")' /\ Granted(o, "internal")'
        BY DEF GrantNamespaces, GrantsRight, Granted, Endpoints
      <4>4. QED
        BY <4>2, <4>3
    <3>2. CASE ConfigOf[o].manageListeners
      <4>1. /\ pass'[o].step = "external" /\ ~pass'[o].read /\ ~pass'[o].complete
            /\ pass'[o].undisturbed = pass[o].undisturbed
        BY <2>2, <2>3, <2>6, <3>2, AfterGrantShape
      <4>2. QED
        BY <2>4, <3>1, <4>1
           DEF Sound, CopyTrue, CopyCurrent, CompleteRests, Establishes
    <3>3. CASE ~ConfigOf[o].manageListeners
      <4>1. /\ pass'[o].step = "asleep" /\ ~pass'[o].read
            /\ pass'[o].undisturbed = pass[o].undisturbed
        BY <2>3, <2>6, <3>3, AfterGrantShape
      <4>2. ListenerRight(ConfigOf[o], "external")' /\ ListenerRight(ConfigOf[o], "internal")'
        BY <3>3 DEF ListenerRight
      <4>3. QED
        BY <2>4, <3>1, <4>1, <4>2
           DEF Sound, CopyTrue, CopyCurrent, CompleteRests, Establishes
    <3>4. QED
      BY <3>2, <3>3
  <2>7. QED
    BY <2>5, <2>6 DEF Endpoints
<1>5. ASSUME NEW e \in Endpoints, GetGateway(o, e) PROVE Sound(o)'
  <2> DEFINE g == ConfigOf[o].gateway[e]
  <2>1. /\ certificate' = certificate /\ grant' = grant
        /\ gateway' = gateway /\ installed' = installed /\ Asks(o, e)
    BY <1>5 DEF GetGateway
  <2>2. \A d \in Endpoints : ListenerRight(ConfigOf[o], d)' <=> ListenerRight(ConfigOf[o], d)
    BY <2>1, WorldSame
  <2>3. CASE g \notin installed
    <3>1. pass'[o] = Patched(o, e)
      BY <1>5, <2>3, PatchedShape, RunsShape DEF GetGateway
    <3>2. ListenerRight(ConfigOf[o], e)'
      BY <2>1, <2>3 DEF ListenerRight
    <3>3. QED
      BY <2>1, <2>2, <3>1, <3>2, PatchedSound DEF Endpoints
  <2>4. CASE g \in installed
    <3>1. g \in Gateways /\ HasRead(o, g) \in Pass
      BY EndpointShape, HasReadShape
    <3>2. pass'[o] = HasRead(o, g)
      BY <1>5, <2>4, <3>1, RunsShape DEF GetGateway, HasRead
    <3>3. /\ pass'[o].step = pass[o].step /\ pass'[o].current
          /\ pass'[o].listeners = gateway[g] /\ pass'[o].complete = pass[o].complete
          /\ pass'[o].undisturbed = pass[o].undisturbed
      BY <3>1, <3>2, HasReadShape
    <3>4. pass[o].step = e /\ Sound(o)
      BY <2>1 DEF Asks, Parts
    <3>5. CopyTrue(o)'
      BY <2>1, <2>4, <3>3, <3>4 DEF CopyTrue
    <3>6. CopyCurrent(o)' /\ CompleteRests(o)'
      BY <3>3, <3>4 DEF CopyCurrent, CompleteRests, Sound
    <3>7. Establishes(o)'
      <4>1. /\ CertificateRight(ConfigOf[o])' <=> CertificateRight(ConfigOf[o])
            /\ GrantsRight(ConfigOf[o])' <=> GrantsRight(ConfigOf[o])
        BY <2>1, WorldSame
      <4>2. QED
        BY <2>2, <3>3, <3>4, <4>1 DEF Establishes, Sound, Endpoints
    <3>8. QED
      BY <3>5, <3>6, <3>7 DEF Sound
  <2>5. QED
    BY <2>3, <2>4
<1>6. ASSUME NEW e \in Endpoints, NothingToPatch(o, e) PROVE Sound(o)'
  <2> DEFINE g == ConfigOf[o].gateway[e]
  <2>1. /\ certificate' = certificate /\ grant' = grant
        /\ gateway' = gateway /\ installed' = installed /\ Asks(o, e)
        /\ Merged(o, e) = pass[o].listeners
    BY <1>6 DEF NothingToPatch
  <2>2. pass'[o] = Patched(o, e)
    BY <1>6, PatchedShape, RunsShape DEF NothingToPatch
  <2>3. pass[o].undisturbed => ListenerRight(ConfigOf[o], e)'
    <3>1. SUFFICES ASSUME pass[o].undisturbed PROVE ListenerRight(ConfigOf[o], e)'
      OBVIOUS
    <3>2. pass[o].listeners = gateway[g]
      BY <1>6, <3>1 DEF NothingToPatch, Asks, Parts, Sound, CopyCurrent, CopyTrue
    <3>3. g \in Gateways /\ gateway[g] \in Seq(Listener) /\ Unique(gateway[g])
      BY EndpointShape DEF Parts, NamesUnique
    <3>4. gateway'[g] = Merge(gateway[g], Desired(ConfigOf[o], e))
      BY <2>1, <3>2 DEF Merged
    <3>5. QED
      BY <3>3, <3>4, ListenerEstablished
  <2>4. ListenerRight(ConfigOf[o], "external")' <=> ListenerRight(ConfigOf[o], "external")
    BY <2>1, WorldSame
  <2>5. QED
    BY <2>1, <2>2, <2>3, <2>4, PatchedSound
<1>7. ASSUME NEW e \in Endpoints, UpdateGateway(o, e) PROVE Sound(o)'
  <2> DEFINE g == ConfigOf[o].gateway[e]
  <2>1. /\ certificate' = certificate /\ grant' = grant /\ installed' = installed /\ Asks(o, e)
    BY <1>7 DEF UpdateGateway
  <2>2. pass'[o] = Patched(o, e)
    BY <1>7, PatchedShape, RunsShape DEF UpdateGateway
  <2>3. /\ gateway' = [gateway EXCEPT ![g] = Merge(gateway[g], Desired(ConfigOf[o], e))]
        /\ gateway'[g] = Merge(gateway[g], Desired(ConfigOf[o], e))
        /\ Unique(gateway[g]) /\ gateway[g] \in Seq(Listener)
    BY <1>7, UpdateFromCurrent, EndpointShape
  <2>4. ListenerRight(ConfigOf[o], e)'
    BY <2>3, ListenerEstablished
  <2>5. e = "internal" /\ ListenerRight(ConfigOf[o], "external")
          => ListenerRight(ConfigOf[o], "external")'
    BY <2>1, <2>3, OtherEndpointKept DEF Endpoints
  <2>6. QED
    BY <2>1, <2>2, <2>4, <2>5, PatchedSound
<1>8. ASSUME NEW e \in Endpoints, Conflict(o, e) PROVE Sound(o)'
  <2>1. pass'[o] = Asleep
    BY <1>8, AsleepShape, RunsShape DEF Conflict
  <2>2. QED
    BY <2>1, AsleepShape DEF Sound, CopyTrue, CopyCurrent, CompleteRests, Establishes, Endpoints
<1>9. QED
  BY <1>1, <1>2, <1>3, <1>5, <1>6, <1>7, <1>8 DEF Works, Patch
LEMMA PartsStep == TypeOK /\ Parts /\ [Next]_vars => Parts'
<1> SUFFICES ASSUME TypeOK, Parts, [Next]_vars PROVE Parts'
  OBVIOUS
<1>1. NamesUnique'
  BY NamesStep
<1>2. SUFFICES \A q \in Operators : Sound(q)'
  BY <1>1 DEF Parts
<1>3. ASSUME NEW o \in Operators, Works(o) PROVE \A q \in Operators : Sound(q)'
  BY <1>3, WorksSound, WorksBesides
<1>4. ASSUME NEW o \in Operators, Fails(o) PROVE \A q \in Operators : Sound(q)'
  <2>1. pass'[o] = Asleep
    BY <1>4, AsleepShape, RunsShape DEF Fails
  <2>2. Sound(o)'
    BY <2>1, AsleepShape DEF Sound, CopyTrue, CopyCurrent, CompleteRests, Establishes, Endpoints
  <2>3. \A q \in Operators \ {o} : Sound(q)'
    BY <1>4, AsleepShape, Bystanders DEF Fails
  <2>4. QED
    BY <2>2, <2>3
<1>5. CASE StartNew \/ UNCHANGED vars
  BY <1>5 DEF StartNew, vars, Parts, Sound, CopyTrue, CopyCurrent, CompleteRests, Establishes,
              CertificateRight, Granted, GrantsRight, ListenerRight
<1>6. CASE StopOld
  <2>1. pass'[Old] = Asleep /\ pass'[New] = pass[New]
    BY <1>6, OperatorsDiffer DEF StopOld, TypeOK, Operators
  <2>2. Sound(Old)'
    BY <2>1, AsleepShape DEF Sound, CopyTrue, CopyCurrent, CompleteRests, Establishes, Endpoints
  <2>3. Sound(New)'
    <3>1. Sound(New)
      BY DEF Parts, Operators
    <3>2. QED
      BY <1>6, <2>1, <3>1 DEF StopOld, Sound, CopyTrue, CopyCurrent, CompleteRests, Establishes,
                              CertificateRight, Granted, GrantsRight, ListenerRight
  <2>4. QED
    BY <2>2, <2>3 DEF Operators
<1>7. CASE Others
  <2>1. PICK g \in Gateways, ls \in Seq(Listener) :
          /\ SetGateway(g, ls)
          /\ \A h \in Gateways \ {g} : h \in installed' <=> h \in installed
    BY <1>7, OthersShape
  <2>2. Runs(None, Asleep, TRUE, {g}) /\ \A h \in Gateways \ {g} : gateway'[h] = gateway[h]
    BY <2>1, SetShape
  <2>3. \A q \in Operators \ {None} : Sound(q)'
    BY <2>1, <2>2, AsleepShape, Bystanders
  <2>4. None \in Operators => Sound(None)'
    <3>1. None \in Operators => pass'[None] = Asleep
      BY <2>2, AsleepShape, RunsShape
    <3>2. QED
      BY <3>1, AsleepShape
         DEF Sound, CopyTrue, CopyCurrent, CompleteRests, Establishes, Endpoints
  <2>5. QED
    BY <2>3, <2>4
<1>8. QED
  BY <1>3, <1>4, <1>5, <1>6, <1>7 DEF Next

(***************************************************************************)
(* The theorems.                                                           *)
(***************************************************************************)

\* A step of a pass keeps every listener that is not the operator's.
LEMMA ForeignKept ==
  ASSUME TypeOK, Parts, NEW o \in Operators, Works(o),
         NEW g \in Gateways, NEW i \in DOMAIN gateway[g], gateway[g][i].name \in Foreign
  PROVE  i \in DOMAIN gateway'[g] /\ gateway'[g][i] = gateway[g][i]
<1>1. CASE gateway' = gateway
  BY <1>1
<1>2. ASSUME NEW e \in Endpoints, UpdateGateway(o, e)
      PROVE  i \in DOMAIN gateway'[g] /\ gateway'[g][i] = gateway[g][i]
  <2> DEFINE h == ConfigOf[o].gateway[e]
             l == Desired(ConfigOf[o], e)
  <2>1. /\ gateway'[h] = Merge(gateway[h], l)
        /\ \A k \in Gateways \ {h} : gateway'[k] = gateway[k]
        /\ gateway[h] \in Seq(Listener)
    BY <1>2, UpdateFromCurrent, EndpointShape
  <2>2. l \in Listener /\ l.name # gateway[g][i].name
    BY DesiredShape, NameShape
  <2>3. CASE g = h
    BY <2>1, <2>2, <2>3, MergeKeeps
  <2>4. CASE g # h
    BY <2>1, <2>4
  <2>5. QED
    BY <2>3, <2>4
<1>3. QED
  BY <1>1, <1>2 DEF Works, Patch, Tick, EnsureTLSSource, EnsureReferenceGrant,
     GetGateway, NothingToPatch, Conflict

\* The invariant holds in every state of every behaviour.
THEOREM InvariantHolds == Spec => []IInv
<1>1. Init => IInv
  BY InitTypeOK, InitParts DEF IInv
<1>2. IInv /\ [Next]_vars => IInv'
  BY TypeStep, PartsStep DEF IInv
<1>3. QED
  BY <1>1, <1>2, PTL DEF Spec

\* Every variable has its type: what MergeHTTPSListener returns is a list of listeners.
THEOREM TypeCorrect == Spec => []TypeOK
<1>1. IInv => TypeOK
  BY DEF IInv
<1>2. QED
  BY <1>1, InvariantHolds, PTL

\* A pass that nobody disturbs establishes certificate, grants and listeners in this order,
\* for any configuration of the two endpoints on one Gateway or on two, and has all of them
\* when it is through (ensureOnce).
THEOREM PassesWork == Spec => []PassesEstablish
<1>1. IInv => PassesEstablish
  BY DEF IInv, TypeOK, Parts, Sound, Establishes, PassesEstablish
<1>2. QED
  BY <1>1, InvariantHolds, PTL

\* Nothing the operators write changes, moves or drops a listener that is not theirs
\* (patchGatewayListener, MergeHTTPSListener).
THEOREM ForeignListenersStay == Spec => OthersKept
<1>1. IInv /\ [Next]_vars =>
        [ (\E o \in Operators : Works(o)) =>
            \A g \in Gateways : \A i \in DOMAIN gateway[g] :
              gateway[g][i].name \in Foreign =>
                i \in DOMAIN gateway'[g] /\ gateway'[g][i] = gateway[g][i] ]_vars
  BY ForeignKept DEF IInv
<1>2. QED
  BY <1>1, InvariantHolds, PTL DEF Spec, OthersKept

(***************************************************************************)
(* What passes come to in the end, under the fairness of FairSpec.  The    *)
(* prover cannot look inside ENABLED: []StepsAreEnabled, which says that a *)
(* running operator has a step to take, is a premise, and TLC finds it     *)
(* invariant.                                                              *)
(***************************************************************************)

\* One operator is left; the others have edited and passes have failed n times, and no more.
Alone(o) == running = {o}
EditsAre(n) == edits = n
Calm(o, n) == Alone(o) /\ EditsAre(n)

\* Where the pass of o is, and whether it has read the Gateway.
IsAt(o, step) == pass[o].step = step
Reads(o, e) == IsAt(o, e) /\ ~pass[o].read
Patches(o, e) == IsAt(o, e) /\ pass[o].read
Undisturbed(o) == pass[o].undisturbed
Done(o) == Established(ConfigOf[o])

\* From then on only this operator's pass writes.
LEMMA OnlyOneWorks ==
  ASSUME IInv, [Next]_vars, NEW o \in Operators, NEW n \in 0..MaxEdits,
         Calm(o, n), Calm(o, n)'
  PROVE  Works(o) \/ UNCHANGED vars
<1>1. edits' # edits + 1 /\ ~Edit
  BY DEF Calm, EditsAre, Edit
<1>2. ~Others
  BY <1>1 DEF Others, Install, Uninstall, AddForeign, Tamper, SetGateway
<1>3. ~StartNew /\ ~StopOld
  BY OperatorsDiffer DEF Calm, Alone, StartNew, StopOld
<1>4. ASSUME NEW q \in Operators, Works(q) \/ Fails(q) PROVE Works(o)
  <2>1. ~Fails(q)
    BY <1>1 DEF Fails
  <2>2. q \in running
    BY <1>4, <2>1 DEF Works, Patch, Tick, EnsureTLSSource, EnsureReferenceGrant,
                      GetGateway, NothingToPatch, UpdateGateway, Conflict, Asks
  <2>3. QED
    BY <1>4, <2>1, <2>2 DEF Calm, Alone
<1>5. QED
  BY <1>2, <1>3, <1>4 DEF Next

\* The steps of a pass, one after the other.
LEMMA WorkMoves ==
  ASSUME IInv, NEW o \in Operators, Works(o)
  PROVE  /\ IsAt(o, "asleep") => IsAt(o, "tls")' /\ Undisturbed(o)'
         /\ IsAt(o, "tls") => IsAt(o, "externalGrant")'
         /\ IsAt(o, "externalGrant") => IsAt(o, "internalGrant")'
         /\ IsAt(o, "internalGrant") => Reads(o, "external")' \/ IsAt(o, "asleep")'
         /\ Reads(o, "external") => Patches(o, "external")' \/ Reads(o, "internal")'
         /\ Patches(o, "external") => Reads(o, "internal")' \/ IsAt(o, "asleep")'
         /\ Reads(o, "internal") => Patches(o, "internal")' \/ IsAt(o, "asleep")'
         /\ Patches(o, "internal") => IsAt(o, "asleep")'
         /\ Undisturbed(o) /\ ~IsAt(o, "asleep") =>
              Undisturbed(o)' /\ (IsAt(o, "asleep")' => pass'[o].complete)
                              /\ ~(Patches(o, "external") /\ IsAt(o, "asleep")')
<1> USE DEF IsAt, Reads, Patches, Undisturbed
<1>0. TypeOK /\ Parts /\ Sound(o)
  BY DEF IInv, Parts
<1>1. CASE Tick(o)
  <2>1. pass'[o] = Starting /\ pass[o].step = "asleep"
    BY <1>0, <1>1, AsleepShape, RunsShape DEF Tick, Asks
  <2>2. QED
    BY <2>1, AsleepShape
<1>2. CASE EnsureTLSSource(o)
  <2>1. pass[o].step = "tls"
    BY <1>2 DEF EnsureTLSSource, Asks
  <2>2. pass'[o] = To(o, "externalGrant") /\ "externalGrant" \in Steps
    BY <1>0, <1>2, ToShape, RunsShape, PlaceShape DEF EnsureTLSSource
  <2>3. pass'[o].step = "externalGrant" /\ pass'[o].undisturbed = pass[o].undisturbed
    BY <1>0, <2>2, ToShape
  <2>4. QED
    BY <2>1, <2>3
<1>3. ASSUME NEW e \in Endpoints, EnsureReferenceGrant(o, e)
      PROVE  /\ pass'[o].undisturbed = pass[o].undisturbed
             /\ \/ IsAt(o, "externalGrant") /\ IsAt(o, "internalGrant")'
                \/ /\ IsAt(o, "internalGrant")
                   /\ \/ Reads(o, "external")'
                      \/ IsAt(o, "asleep")' /\ pass'[o].complete
  <2>1. pass[o].step = GrantStep[e] /\ pass'[o] = AfterGrant(o, e)
    BY <1>0, <1>3, AfterGrantShape, RunsShape DEF EnsureReferenceGrant, Asks
  <2>2. CASE e = "external"
    BY <1>0, <2>1, <2>2, AfterGrantShape, PlaceShape
  <2>3. CASE e = "internal"
    BY <1>0, <2>1, <2>3, AfterGrantShape, PlaceShape
  <2>4. QED
    BY <2>2, <2>3 DEF Endpoints
<1>5. ASSUME NEW e \in Endpoints, Asks(o, e), pass'[o] = Patched(o, e)
      PROVE  /\ pass[o].step = e /\ pass'[o].undisturbed = pass[o].undisturbed
             /\ ~pass'[o].read
             /\ e = "external" => pass'[o].step = "internal"
             /\ e = "internal" => pass'[o].step = "asleep" /\ pass'[o].complete
  BY <1>0, <1>5, PatchedShape DEF Asks
<1>6. ASSUME NEW e \in Endpoints, GetGateway(o, e)
      PROVE  /\ pass[o].step = e /\ ~pass[o].read
             /\ pass'[o].undisturbed = pass[o].undisturbed
             /\ \/ pass'[o].step = e /\ pass'[o].read
                \/ e = "external" /\ pass'[o].step = "internal" /\ ~pass'[o].read
                \/ e = "internal" /\ pass'[o].step = "asleep" /\ pass'[o].complete
  <2> DEFINE g == ConfigOf[o].gateway[e]
  <2>1. Asks(o, e) /\ ~pass[o].read
    BY <1>6 DEF GetGateway
  <2>2. CASE g \notin installed
    <3>1. pass'[o] = Patched(o, e)
      BY <1>0, <1>6, <2>2, PatchedShape, RunsShape DEF GetGateway
    <3>2. QED
      BY <1>5, <2>1, <3>1 DEF Endpoints
  <2>3. CASE g \in installed
    <3>1. g \in Gateways /\ HasRead(o, g) \in Pass
      BY <1>0, EndpointShape, HasReadShape
    <3>2. pass'[o] = HasRead(o, g)
      BY <1>0, <1>6, <2>3, <3>1, RunsShape DEF GetGateway, HasRead
    <3>3. /\ pass'[o].step = pass[o].step /\ pass'[o].read
          /\ pass'[o].undisturbed = pass[o].undisturbed
      BY <1>0, <3>1, <3>2, HasReadShape
    <3>4. QED
      BY <2>1, <3>3 DEF Asks
  <2>4. QED
    BY <2>2, <2>3
<1>7. ASSUME NEW e \in Endpoints, NothingToPatch(o, e) \/ UpdateGateway(o, e)
      PROVE  /\ pass[o].step = e /\ pass[o].read
             /\ pass'[o].undisturbed = pass[o].undisturbed
             /\ e = "external" => pass'[o].step = "internal" /\ ~pass'[o].read
             /\ e = "internal" => pass'[o].step = "asleep" /\ pass'[o].complete
  <2>1. Asks(o, e) /\ pass[o].read /\ pass'[o] = Patched(o, e)
    BY <1>0, <1>7, PatchedShape, RunsShape DEF NothingToPatch, UpdateGateway
  <2>2. QED
    BY <1>5, <2>1
<1>8. ASSUME NEW e \in Endpoints, Conflict(o, e)
      PROVE  /\ pass[o].step = e /\ pass[o].read /\ ~pass[o].undisturbed
             /\ pass'[o].step = "asleep"
  <2>1. pass'[o] = Asleep
    BY <1>0, <1>8, AsleepShape, RunsShape DEF Conflict
  <2>2. ~pass[o].undisturbed
    BY <1>0, <1>8 DEF Conflict, Sound, CopyCurrent
  <2>3. QED
    BY <1>8, <2>1, <2>2, AsleepShape DEF Conflict, Asks
<1>9. ASSUME NEW e \in Endpoints, Patch(o, e)
      PROVE  /\ Reads(o, "external") => Patches(o, "external")' \/ Reads(o, "internal")'
             /\ Patches(o, "external") => Reads(o, "internal")' \/ IsAt(o, "asleep")'
             /\ Reads(o, "internal") => Patches(o, "internal")' \/ IsAt(o, "asleep")'
             /\ Patches(o, "internal") => IsAt(o, "asleep")'
             /\ Undisturbed(o) /\ ~IsAt(o, "asleep") =>
                  Undisturbed(o)' /\ (IsAt(o, "asleep")' => pass'[o].complete)
                                  /\ ~(Patches(o, "external") /\ IsAt(o, "asleep")')
             /\ ~IsAt(o, "asleep") /\ ~IsAt(o, "tls")
             /\ ~IsAt(o, "externalGrant") /\ ~IsAt(o, "internalGrant")
  <2>1. CASE e = "external"
    BY <1>6, <1>7, <1>8, <1>9, <2>1 DEF Patch
  <2>2. CASE e = "internal"
    BY <1>6, <1>7, <1>8, <1>9, <2>2 DEF Patch
  <2>3. QED
    BY <2>1, <2>2 DEF Endpoints
<1>10. QED
  BY <1>1, <1>2, <1>3, <1>9 DEF Works

\* What is established stays: a later pass finds nothing to write.
LEMMA WorkKeeps ==
  ASSUME IInv, NEW o \in Operators, Works(o), Done(o)
  PROVE  Done(o)'
<1>0. TypeOK /\ Parts
  BY DEF IInv
<1>1. CASE UNCHANGED <<certificate, grant, gateway, installed>>
  BY <1>1, WorldSame DEF Done, Established
<1>2. CASE EnsureTLSSource(o)
  BY <1>2 DEF EnsureTLSSource, Done, Established, CertificateRight, GrantsRight, ListenerRight
<1>3. ASSUME NEW e \in Endpoints, EnsureReferenceGrant(o, e) PROVE Done(o)'
  <2>1. UNCHANGED <<certificate, grant, gateway, installed>>
    BY <1>0, <1>3, GrantSteps DEF EnsureReferenceGrant, Done, Established
  <2>2. QED
    BY <1>1, <2>1
<1>4. ASSUME NEW e \in Endpoints, UpdateGateway(o, e) PROVE Done(o)'
  <2> DEFINE g == ConfigOf[o].gateway[e]
  <2>1. /\ certificate' = certificate /\ grant' = grant /\ installed' = installed
    BY <1>4 DEF UpdateGateway
  <2>2. /\ gateway' = [gateway EXCEPT ![g] = Merge(gateway[g], Desired(ConfigOf[o], e))]
        /\ gateway'[g] = Merge(gateway[g], Desired(ConfigOf[o], e))
        /\ Unique(gateway[g]) /\ gateway[g] \in Seq(Listener)
    BY <1>0, <1>4, UpdateFromCurrent, EndpointShape
  <2>3. ListenerRight(ConfigOf[o], e)'
    BY <1>0, <2>2, ListenerEstablished
  <2>4. ASSUME NEW d \in Endpoints, d # e PROVE ListenerRight(ConfigOf[o], d)'
    BY <1>0, <2>1, <2>2, <2>4, OtherEndpointKept DEF Done, Established
  <2>5. CertificateRight(ConfigOf[o])' /\ GrantsRight(ConfigOf[o])'
    BY <2>1 DEF Done, Established, CertificateRight, GrantsRight
  <2>6. QED
    BY <2>3, <2>4, <2>5 DEF Done, Established
<1>5. QED
  BY <1>1, <1>2, <1>3, <1>4 DEF Works, Patch, Tick, GetGateway, NothingToPatch, Conflict

\* The last pass has gone through, and nobody has disturbed it.
Finished(o) == Undisturbed(o) /\ pass[o].complete

\* A pass that has gone through undisturbed has established everything.
LEMMA FinishedIsDone ==
  ASSUME IInv, NEW o \in Operators, Finished(o)
  PROVE  Done(o)
<1>1. Establishes(o)
  BY DEF IInv, Parts, Sound
<1>2. QED
  BY <1>1 DEF Establishes, Finished, Undisturbed, Done, Established, Endpoints

\* A pass is at one of these places.
LEMMA StepShape ==
  ASSUME TypeOK, NEW o \in Operators
  PROVE  \/ IsAt(o, "asleep") \/ IsAt(o, "tls")
         \/ IsAt(o, "externalGrant") \/ IsAt(o, "internalGrant")
         \/ Reads(o, "external") \/ Patches(o, "external")
         \/ Reads(o, "internal") \/ Patches(o, "internal")
BY PlaceShape DEF TypeOK, Pass, IsAt, Reads, Patches

\* The pass under way ends, maybe with a conflict; the next one starts undisturbed and goes
\* through; and what it has established stays.
LEMMA PassesConverge ==
  ASSUME NEW o \in Operators, NEW n \in 0..MaxEdits
  PROVE  Spec /\ FairPass(o) /\ []PassEnabled(o) /\ <>[]Calm(o, n) => <>[]Done(o)
<1> DEFINE S1 == IsAt(o, "asleep")
           S2 == IsAt(o, "tls")
           G1 == IsAt(o, "externalGrant")
           G2 == IsAt(o, "internalGrant")
           S4 == Reads(o, "external")
           S5 == Patches(o, "external")
           S6 == Reads(o, "internal")
           S7 == Patches(o, "internal")
           U == Undisturbed(o)
           Known == IInv /\ Calm(o, n)
<1>1. Known => S1 \/ S2 \/ G1 \/ G2 \/ S4 \/ S5 \/ S6 \/ S7
  BY StepShape DEF IInv
<1>2. Known /\ <<Works(o)>>_vars =>
        /\ S1 => S2' /\ U'
        /\ S2 => G1'
        /\ G1 => G2'
        /\ G2 => S4' \/ S1'
        /\ S4 => S5' \/ S6'
        /\ S5 => S6' \/ S1'
        /\ S6 => S7' \/ S1'
        /\ S7 => S1'
        /\ U /\ ~S1 => U' /\ (S1' => Finished(o)')
        /\ Done(o) => Done(o)'
  BY WorkMoves, WorkKeeps DEF Finished
<1>3. Known /\ Known' /\ [Next]_vars =>
        \/ <<Works(o)>>_vars
        \/ /\ S1 <=> S1'
           /\ S2 <=> S2'
           /\ G1 <=> G1'
           /\ G2 <=> G2'
           /\ S4 <=> S4'
           /\ S5 <=> S5'
           /\ S6 <=> S6'
           /\ S7 <=> S7'
           /\ U <=> U'
           /\ Done(o) <=> Done(o)'
  <2> SUFFICES ASSUME Known, UNCHANGED vars
               PROVE  /\ S1 <=> S1'
                      /\ S2 <=> S2'
                      /\ G1 <=> G1'
                      /\ G2 <=> G2'
                      /\ S4 <=> S4'
                      /\ S5 <=> S5'
                      /\ S6 <=> S6'
                      /\ S7 <=> S7'
                      /\ U <=> U'
                      /\ Done(o) <=> Done(o)'
    BY OnlyOneWorks
  <2>1. QED
    BY DEF vars, IsAt, Reads, Patches, Undisturbed, Done, Established,
         CertificateRight, GrantsRight, ListenerRight
<1>4. IInv /\ Finished(o) => Done(o)
  BY FinishedIsDone
<1>5. Calm(o, n) => o \in running
  BY DEF Calm, Alone
<1>6. S2 => ~S1
  BY DEF IsAt
<1>7. QED
  BY <1>1, <1>2, <1>3, <1>4, <1>5, <1>6, InvariantHolds, PTL DEF Spec, FairPass, PassEnabled

\* Once the edits of others and the failures have ceased, however many there were, and one
\* operator is left, the configuration of this one is established for good: the ticker alone
\* brings it about (clusterTLSSingleton.Start), whatever the other operator has left behind.
THEOREM ClusterConverges ==
  ASSUME NEW n \in 0..MaxEdits
  PROVE  FairSpec /\ []StepsAreEnabled /\ <>[]EditsAre(n) => Converges
<1> SUFFICES ASSUME NEW o \in Operators
             PROVE  FairSpec /\ []StepsAreEnabled /\ <>[]EditsAre(n) =>
                      (<>[](running = {o}) => <>[]Established(ConfigOf[o]))
  BY DEF Converges
<1>1. StepsAreEnabled => PassEnabled(o)
  BY DEF StepsAreEnabled
<1>2. FairSpec => Spec /\ FairPass(o)
  BY DEF FairSpec
<1>3. running = {o} /\ EditsAre(n) => Calm(o, n)
  BY DEF Calm, Alone
<1>4. Done(o) => Established(ConfigOf[o])
  BY DEF Done
<1>5. QED
  BY <1>1, <1>2, <1>3, <1>4, PassesConverge, PTL
=============================================================================
