---------------------------- MODULE ClusterTLS -----------------------------
(***************************************************************************)
(* The singleton that keeps the shared TLS objects of the cluster          *)
(* (operator/internal/controller/clustertls_singleton.go and               *)
(* reconcilers/clustertls.go): one Certificate, one ReferenceGrant for     *)
(* each namespace that has a Gateway, and one HTTPS listener for each of   *)
(* the two endpoints on Gateways that others write as well.                *)
(*                                                                         *)
(* The pass runs at start and on every tick of five minutes, never on an   *)
(* event, and ends at its first error.  It reads live objects.  Chart and  *)
(* flags leave leader election off, so that during a rolling update the    *)
(* old and the new operator make their passes side by side, each with its  *)
(* own configuration.                                                      *)
(*                                                                         *)
(* The Certificate and the grants are objects of the operator alone.  Each *)
(* is read, compared and written under its version: a successful           *)
(* createOrUpdate is therefore one atomic step, at its write or, when      *)
(* nothing differs, at its read; any other outcome is Fails.  The Gateways *)
(* have several writers, so reading and writing them are steps apart.      *)
(***************************************************************************)
EXTENDS Naturals, Sequences

CONSTANTS Old, New,       \* the operator that runs, and the one that takes over
          ConfigOf,       \* the configuration of each
          Gateways,
          Namespaces,     \* namespaces of Gateways
          NamespaceOf,    \* the namespace of each Gateway
          Home,           \* the operator's namespace, where the TLS Secret is
          Foreign,        \* names of other people's listeners
          First,          \* the one that a Gateway is installed with
          Domains,        \* base domains
          Secrets,        \* Secrets users bring
          MaxEdits        \* bound: edits of Gateways, and passes that fail

Operators == {Old, New}
Managed == "nebari-llm-shared-tls"      \* SharedTLSSecretName
None == "none"
Endpoints == {"external", "internal"}

\* secretName is None in the default mode, in which cert-manager issues the certificate.
Config == [domain : Domains, secretName : Secrets \cup {None},
           manageListeners : BOOLEAN, gateway : [Endpoints -> Gateways]]

ASSUME OperatorsDiffer == Old # New
ASSUME NamespacesAreTotal == NamespaceOf \in [Gateways -> Namespaces]
ASSUME ConfigsAreConfigs == ConfigOf \in [Operators -> Config]
ASSUME EditsAreNat == MaxEdits \in Nat
ASSUME OwnSecretsAreNamed == None \notin Secrets /\ Managed \notin Secrets

\* ExternalHTTPSListenerName, InternalHTTPSListenerName.
ListenerName == [e \in Endpoints |-> IF e = "external" THEN "llm-https" ELSE "llm-internal-https"]
Own == {ListenerName[e] : e \in Endpoints}

ASSUME ForeignIsNotOwn == Foreign \cap Own = {} /\ First \in Foreign

\* SharedExternalHostname, SharedInternalHostname.
Hostname(e, domain) == <<e, domain>>
OtherHostname == <<None, None>>

\* What a listener says: its hostname is OtherHostname when others have set it, and "extra"
\* is a field that the operator does not set.
Listener == [name : Foreign \cup Own,
             hostname : (Endpoints \X Domains) \cup {OtherHostname},
             secret : Secrets \cup {Managed, None},
             extra : BOOLEAN]

VARIABLES certificate,  \* the domain the managed Certificate is for
          grant,        \* for each namespace, the Secret its Gateways may use
          installed,    \* the Gateways that exist
          gateway,      \* the listeners of each Gateway
          pass,         \* the pass of each operator
          running,      \* the operators whose process runs
          edits
vars == <<certificate, grant, installed, gateway, pass, running, edits>>

\* A pass comes to the grant for each endpoint's Gateway, then to its listener.
GrantStep == [e \in Endpoints |-> IF e = "external" THEN "externalGrant" ELSE "internalGrant"]
Granting == {GrantStep[e] : e \in Endpoints}

Steps == {"asleep", "tls"} \cup Granting \cup Endpoints

\* "listeners" is the copy of the Gateway the step has read, and "current" that the Gateway
\* is still of that version.  "complete": the last pass went through to its end;
\* "undisturbed": nobody else has written since the pass began.
Pass == [step : Steps, read : BOOLEAN, listeners : Seq(Listener), current : BOOLEAN,
         complete : BOOLEAN, undisturbed : BOOLEAN]

Starting == [step |-> "tls", read |-> FALSE, listeners |-> << >>, current |-> FALSE,
             complete |-> FALSE, undisturbed |-> TRUE]
Asleep == [Starting EXCEPT !.step = "asleep", !.undisturbed = FALSE]

\* sharedSecretName.
SharedSecret(c) == IF c.secretName = None THEN Managed ELSE c.secretName

\* distinctGatewayNamespaces, less the operator's own.
GrantNamespaces(c) == {NamespaceOf[c.gateway[e]] : e \in Endpoints} \ {Home}

\* Both endpoints in one namespace need one grant between them.
NeedsGrant(c, e) ==
  LET n == NamespaceOf[c.gateway[e]] IN
  n # Home /\ (e = "internal" => n # NamespaceOf[c.gateway["external"]])

\* buildHTTPSListener.
Desired(c, e) == [name |-> ListenerName[e], hostname |-> Hostname(e, c.domain),
                  secret |-> SharedSecret(c), extra |-> FALSE]

\* Mutant of ListenersEqual: the Secret is not compared.
SameHostname(l, m) == l.name = m.name /\ l.hostname = m.hostname

\* listenersEqual looks only at the fields the operator sets.
ListenersEqual(l, m) == [l EXCEPT !.extra = FALSE] = [m EXCEPT !.extra = FALSE]

(***************************************************************************)
(* MergeHTTPSListener.                                                     *)
(***************************************************************************)
Positions(ls, name) == {i \in DOMAIN ls : ls[i].name = name}

\* Mutant of Merge: a listener that is there is left as it is.
MergeMissing(ls, l) == IF Positions(ls, l.name) = {} THEN Append(ls, l) ELSE ls

Merge(ls, l) ==
  IF Positions(ls, l.name) = {} THEN Append(ls, l)
  ELSE [i \in DOMAIN ls |->
          IF i \in Positions(ls, l.name) /\ ~ListenersEqual(ls[i], l) THEN l ELSE ls[i]]

(***************************************************************************)
(* A pass of operator o.                                                   *)
(***************************************************************************)

\* The passes after a step of operator o, whose own pass it leaves as p, or of someone
\* else (o = None): it disturbs the passes under way, and outdates the copies of the
\* Gateways in gs, if it writes at all.
Runs(o, p, wrote, gs) ==
  pass' = [q \in Operators |->
             IF q = o THEN p
             ELSE [pass[q] EXCEPT
                     !.undisturbed = @ /\ ~wrote,
                     !.current = @ /\ \A e \in Endpoints :
                                         pass[q].step = e => ConfigOf[q].gateway[e] \notin gs]]

Asks(o, step) == o \in running /\ pass[o].step = step
To(o, step) == [pass[o] EXCEPT !.step = step, !.read = FALSE, !.listeners = << >>,
                               !.current = FALSE]
Completed(o) == [To(o, "asleep") EXCEPT !.complete = TRUE]

\* Start, and every tick.
Tick(o) ==
  /\ Asks(o, "asleep")
  /\ Runs(o, Starting, FALSE, {})
  /\ UNCHANGED <<certificate, grant, installed, gateway, running, edits>>

\* ensureCertificate, or deleteManagedCertificate for a Secret the user brings.
EnsureTLSSource(o) ==
  LET c == ConfigOf[o] IN
  /\ Asks(o, "tls")
  /\ certificate' = IF c.secretName = None THEN c.domain ELSE None
  /\ Runs(o, To(o, "externalGrant"), certificate' # certificate, {})
  /\ UNCHANGED <<grant, installed, gateway, running, edits>>

\* Each grant is written once, the external Gateway's first, and not looked at again.
AfterGrant(o, e) ==
  IF e = "external" THEN To(o, "internalGrant")
  ELSE IF ConfigOf[o].manageListeners THEN To(o, "external")
  ELSE Completed(o)

EnsureReferenceGrant(o, e) ==
  LET c == ConfigOf[o] IN
  /\ Asks(o, GrantStep[e])
  /\ grant' = IF NeedsGrant(c, e)
              THEN [grant EXCEPT ![NamespaceOf[c.gateway[e]]] = SharedSecret(c)]
              ELSE grant
  /\ Runs(o, AfterGrant(o, e), grant' # grant, {})
  /\ UNCHANGED <<certificate, installed, gateway, running, edits>>

\* patchGatewayListener: get the Gateway, and skip the patch when there is none.
Patched(o, e) == IF e = "external" THEN To(o, "internal") ELSE Completed(o)

GetGateway(o, e) ==
  LET g == ConfigOf[o].gateway[e] IN
  /\ Asks(o, e) /\ ~pass[o].read
  /\ Runs(o, IF g \notin installed THEN Patched(o, e)
             ELSE [pass[o] EXCEPT !.read = TRUE, !.listeners = gateway[g], !.current = TRUE],
          FALSE, {})
  /\ UNCHANGED <<certificate, grant, installed, gateway, running, edits>>

Merged(o, e) == Merge(pass[o].listeners, Desired(ConfigOf[o], e))

NothingToPatch(o, e) ==
  /\ Asks(o, e) /\ pass[o].read
  /\ Merged(o, e) = pass[o].listeners
  /\ Runs(o, Patched(o, e), FALSE, {})
  /\ UNCHANGED <<certificate, grant, installed, gateway, running, edits>>

\* Mutant of UpdateGateway: without the version that was read.
UpdateGatewayBlindly(o, e) ==
  LET g == ConfigOf[o].gateway[e] IN
  /\ Asks(o, e) /\ pass[o].read
  /\ g \in installed
  /\ Merged(o, e) # pass[o].listeners
  /\ gateway' = [gateway EXCEPT ![g] = Merged(o, e)]
  /\ Runs(o, Patched(o, e), TRUE, {g})
  /\ UNCHANGED <<certificate, grant, installed, running, edits>>

UpdateGateway(o, e) ==
  LET g == ConfigOf[o].gateway[e] IN
  /\ Asks(o, e) /\ pass[o].read /\ pass[o].current
  /\ Merged(o, e) # pass[o].listeners
  /\ gateway' = [gateway EXCEPT ![g] = Merged(o, e)]
  /\ Runs(o, Patched(o, e), TRUE, {g})
  /\ UNCHANGED <<certificate, grant, installed, running, edits>>

\* The Gateway has changed since it was read: the update is refused.
Conflict(o, e) ==
  /\ Asks(o, e) /\ pass[o].read /\ ~pass[o].current
  /\ Merged(o, e) # pass[o].listeners
  /\ Runs(o, Asleep, FALSE, {})
  /\ UNCHANGED <<certificate, grant, installed, gateway, running, edits>>

Edit == edits < MaxEdits /\ edits' = edits + 1

\* Any other error ends the pass as well, and so does a restart of the process.
Fails(o) ==
  /\ o \in running
  /\ pass[o].step # "asleep"
  /\ Edit
  /\ Runs(o, Asleep, FALSE, {})
  /\ UNCHANGED <<certificate, grant, installed, gateway, running>>

(***************************************************************************)
(* The rolling update, and the others who write Gateways.                  *)
(***************************************************************************)
StartNew ==
  /\ New \notin running
  /\ Old \in running
  /\ running' = running \cup {New}
  /\ UNCHANGED <<certificate, grant, installed, gateway, pass, edits>>

StopOld ==
  /\ New \in running
  /\ Old \in running
  /\ running' = running \ {Old}
  /\ pass' = [pass EXCEPT ![Old] = Asleep]
  /\ UNCHANGED <<certificate, grant, installed, gateway, edits>>

Foreigner(n) == [name |-> n, hostname |-> OtherHostname, secret |-> None, extra |-> FALSE]

\* Another controller writes the Gateway.
SetGateway(g, ls) ==
  /\ Edit
  /\ gateway' = [gateway EXCEPT ![g] = ls]
  /\ Runs(None, Asleep, TRUE, {g})
  /\ UNCHANGED <<certificate, grant, running>>

Install(g) ==
  /\ g \notin installed
  /\ SetGateway(g, <<Foreigner(First)>>)
  /\ installed' = installed \cup {g}

Uninstall(g) ==
  /\ g \in installed
  /\ SetGateway(g, << >>)
  /\ installed' = installed \ {g}

\* The API server refuses a second listener of one name.
AddForeign(g, n) ==
  /\ g \in installed
  /\ Positions(gateway[g], n) = {}
  /\ SetGateway(g, Append(gateway[g], Foreigner(n)))
  /\ UNCHANGED installed

\* Somebody edits a listener, maybe the operator's.
Tamper(g, i) ==
  /\ g \in installed
  /\ \/ SetGateway(g, [gateway[g] EXCEPT ![i].hostname = OtherHostname, ![i].secret = None])
     \/ SetGateway(g, [gateway[g] EXCEPT ![i].extra = ~@])
  /\ UNCHANGED installed

(***************************************************************************)
(* The specification.                                                      *)
(***************************************************************************)
Init ==
  /\ certificate = None
  /\ grant = [n \in Namespaces |-> None]
  /\ installed \in SUBSET Gateways
  /\ gateway = [g \in Gateways |-> IF g \in installed THEN <<Foreigner(First)>> ELSE << >>]
  /\ pass = [o \in Operators |-> Asleep]
  /\ running = {Old}
  /\ edits = 0

Patch(o, e) == GetGateway(o, e) \/ NothingToPatch(o, e) \/ UpdateGateway(o, e) \/ Conflict(o, e)
Works(o) ==
  \/ Tick(o) \/ EnsureTLSSource(o)
  \/ \E e \in Endpoints : EnsureReferenceGrant(o, e) \/ Patch(o, e)

Others ==
  \E g \in Gateways :
    \/ Install(g) \/ Uninstall(g)
    \/ \E n \in Foreign : AddForeign(g, n)
    \/ \E i \in DOMAIN gateway[g] : Tamper(g, i)

Next ==
  \/ \E o \in Operators : Works(o) \/ Fails(o)
  \/ StartNew \/ StopOld \/ Others

Spec == Init /\ [][Next]_vars

\* The process of a running operator goes on, and the Deployment ends its rolling update.
FairPass(o) == WF_vars(Works(o))
FairUpdate == WF_vars(StopOld)

FairSpec == Spec /\ (\A o \in Operators : FairPass(o)) /\ FairUpdate

\* A running operator always has a step to take.  The proofs about FairSpec take from here
\* what ENABLED means.
PassEnabled(o) == o \in running => ENABLED <<Works(o)>>_vars
StepsAreEnabled == \A o \in Operators : PassEnabled(o)

(***************************************************************************)
(* Properties.                                                             *)
(***************************************************************************)
TypeOK ==
  /\ certificate \in Domains \cup {None}
  /\ grant \in [Namespaces -> Secrets \cup {Managed, None}]
  /\ installed \subseteq Gateways
  /\ gateway \in [Gateways -> Seq(Listener)]
  /\ pass \in [Operators -> Pass]
  /\ running \in (SUBSET Operators) \ {{}}
  /\ edits \in 0..MaxEdits

\* What a configuration asks for.
CertificateRight(c) == certificate = IF c.secretName = None THEN c.domain ELSE None
GrantsRight(c) == \A n \in GrantNamespaces(c) : grant[n] = SharedSecret(c)
ListenerRight(c, e) ==
  LET g == c.gateway[e] IN
  c.manageListeners /\ g \in installed =>
    \E i \in DOMAIN gateway[g] : /\ Positions(gateway[g], ListenerName[e]) = {i}
                               /\ gateway[g][i].hostname = Hostname(e, c.domain)
                               /\ gateway[g][i].secret = SharedSecret(c)

Established(c) ==
  CertificateRight(c) /\ GrantsRight(c) /\ \A e \in Endpoints : ListenerRight(c, e)

\* Nothing the operators write changes, moves or drops a listener that is not theirs, and
\* what they add comes after them, whatever others write between the read and the update.
OthersKept ==
  [][ (\E o \in Operators : Works(o)) =>
        \A g \in Gateways : \A i \in DOMAIN gateway[g] :
          gateway[g][i].name \in Foreign =>
            i \in DOMAIN gateway'[g] /\ gateway'[g][i] = gateway[g][i] ]_vars

\* A pass that nobody disturbs establishes its part step by step, in an order that never
\* points a listener at a Secret its Gateway may not read: the certificate, the grants,
\* the external listener, the internal one; and has all of them when it is through.
PassesEstablish ==
  \A o \in running :
    LET c == ConfigOf[o]  p == pass[o] IN
    p.undisturbed =>
      /\ p.complete \/ p.step \in Granting \cup Endpoints => CertificateRight(c)
      /\ p.complete \/ p.step \in Endpoints => GrantsRight(c)
      /\ p.complete \/ p.step = "internal" => ListenerRight(c, "external")
      /\ p.complete => ListenerRight(c, "internal")

\* Whatever the old and the new operator and the others have written over each other, when
\* one operator is left and the others are done, its configuration is established for good,
\* without any event that would wake it.
Converges ==
  \A o \in Operators : <>[](running = {o}) => <>[]Established(ConfigOf[o])
=============================================================================
