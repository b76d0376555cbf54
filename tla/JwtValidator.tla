---------------------------- MODULE JwtValidator ----------------------------
(***************************************************************************)
(* api.JWTValidator (key-manager/internal/api/jwt_validator.go): one       *)
(* background goroutine fetches the realm's key set (JWKS), first with     *)
(* bounded retries, then with a slow poll, then on a ticker; requests look *)
(* their token's kid up in the cached set and, when it is not there, ask   *)
(* for a refresh.  Refreshes go through a singleflight group, and those    *)
(* asked for by requests through a cooldown.                               *)
(*                                                                         *)
(* Keycloak answers a fetch with the set it publishes at that moment; the  *)
(* answer arrives later, or never.  Time is left out: a ticker, a timeout, *)
(* the end of a cooldown or of a backoff happens at any moment after it    *)
(* was set.  A token whose kid is found is taken to be well-formed.        *)
(***************************************************************************)
EXTENDS Naturals, FiniteSets

CONSTANTS Requests,     \* requests that can be in flight together
          Kids,         \* key IDs tokens may name, forged ones included
          KeySets,      \* KeySets[n]: the kids of the n-th set Keycloak publishes
          LastSet,      \* bound: number of sets ever published
          MaxAttempts,  \* retryMaxAttempts
          Outages       \* bound: may a fetch fail before Stop?

ASSUME KeySetsAreKids  == KeySets \in [1..LastSet -> SUBSET Kids]
ASSUME FlightsAreApart == Kids \cap {"initial", "certs"} = {}
ASSUME RequestsAreApart == "background" \notin Requests
ASSUME LastSetIsNat    == LastSet \in Nat \ {0}
ASSUME AttemptsIsNat   == MaxAttempts \in Nat \ {0}
ASSUME OutagesIsBoolean == Outages \in BOOLEAN

VARIABLES realm,     \* number of the set Keycloak publishes now
          cache,     \* publicKeys: number of the set installed last, 0: none
          ready,     \* ready
          cooling,   \* is lastKIDRefresh less than unknownKIDCooldown old?
          stopping,  \* is stopCh closed and baseCtx cancelled?
          loop,      \* the background goroutine (initLoop)
          flight,    \* flight[k]: the call of fetchPublicKeys under key k
          request,   \* what each request is doing
          kidFetches \* history: unknown-kid fetches of the present cooldown

vars == <<realm, cache, ready, cooling, stopping, loop, flight, request, kidFetches>>

KidsIn(n) == IF n = 0 THEN {} ELSE KeySets[n]

(***************************************************************************)
(* A flight is one call of fetchPublicKeys, or of the callback around it:  *)
(* "gate" reads lastKIDRefresh, "stamp" stores it, "ask" waits for         *)
(* Keycloak's answer and "answer" holds it.  "initial" is initialFetch's   *)
(* own call; "certs" is the one key of refreshGroup.                       *)
(***************************************************************************)
Background == "background"
Waiters == Requests \cup {Background}
Flights == {"initial", "certs"} \cup Kids
NoFlight == [stage |-> "none", set |-> 0, waiters |-> {}]
Flight == [stage : {"none", "gate", "stamp", "ask", "answer"},
           set : 0..LastSet, waiters : SUBSET Waiters]

\* The singleflight key of a refresh.  Mutant: a key for every kid.
KeyPerKid(kid) == kid
FlightKey(kid) == "certs"

\* singleflight: w waits for the flight under way, or starts one at a stage.
DoChan(k, stage, w) ==
  IF flight[k].stage = "none"
  THEN [stage |-> stage, set |-> 0, waiters |-> {w}]
  ELSE [flight[k] EXCEPT !.waiters = @ \cup {w}]

Idle == [pc |-> "idle"]
Request == {Idle} \cup
  [pc : {"lookup", "missed", "waiting", "recheck", "accepted", "refused", "notReady"},
   kid : Kids,
   since : 1..LastSet,     \* history: the set published when the request came
   cancelled : BOOLEAN,    \* did its context end while it waited?
   during : SUBSET Flights]   \* history: fetches under way when it missed and
                              \* not over since

Loop ==
  {l \in [pc : {"initial", "fetching", "backoff", "slowPoll", "select", "waiting", "done"},
          attempt : 1..MaxAttempts] : l.pc = "backoff" => l.attempt < MaxAttempts}

At(c, pc) == request[c].pc = pc
Fetching(k) == flight[k].stage \in {"ask", "answer"}

\* Mutant of Landed: the waiters share one channel, and another took the result.
LandedToOne(k) ==
  [c \in Requests |->
     IF At(c, "idle") THEN request[c]
     ELSE [request[c] EXCEPT
             !.pc = IF flight[k].waiters = {c} THEN "recheck" ELSE @,
             !.during = @ \ {k}]]

\* Requests when flight k is over: those that wait on it go on.
Landed(k) ==
  [c \in Requests |->
     IF At(c, "idle") THEN request[c]
     ELSE [request[c] EXCEPT
             !.pc = IF c \in flight[k].waiters THEN "recheck" ELSE @,
             !.during = @ \ {k}]]

\* refreshLoop: it counts no attempts.
Refreshing == [pc |-> "select", attempt |-> 1]

\* Mutants of AfterFetch: one attempt too many; a failed refresh ends the loop.
AfterFetchOneMore(k, installed) ==
  IF Background \notin flight[k].waiters THEN loop
  ELSE IF k # "initial" \/ installed THEN Refreshing
  ELSE IF loop.attempt <= MaxAttempts THEN [loop EXCEPT !.pc = "backoff"]
  ELSE [loop EXCEPT !.pc = "slowPoll"]
AfterFetchGivesUp(k, installed) ==
  IF Background \notin flight[k].waiters THEN loop
  ELSE IF installed THEN Refreshing
  ELSE IF k # "initial" THEN [loop EXCEPT !.pc = "done"]
  ELSE IF loop.attempt < MaxAttempts THEN [loop EXCEPT !.pc = "backoff"]
  ELSE [loop EXCEPT !.pc = "slowPoll"]

\* The background goroutine when its fetch of k is over, with or without a set.
AfterFetch(k, installed) ==
  IF Background \notin flight[k].waiters THEN loop
  ELSE IF k # "initial" \/ installed THEN Refreshing
  ELSE IF loop.attempt < MaxAttempts THEN [loop EXCEPT !.pc = "backoff"]
  ELSE [loop EXCEPT !.pc = "slowPoll"]

Land(k, installed) ==
  /\ flight' = [flight EXCEPT ![k] = NoFlight]
  /\ request' = Landed(k)
  /\ loop' = AfterFetch(k, installed)

(***************************************************************************)
(* fetchPublicKeys.                                                        *)
(***************************************************************************)
\* The whole answer has arrived.
Answer(k) ==
  /\ flight[k].stage = "ask" /\ ~ stopping
  /\ flight' = [flight EXCEPT ![k].stage = "answer", ![k].set = realm]
  /\ UNCHANGED <<realm, cache, ready, cooling, stopping, loop, request, kidFetches>>

\* Mutant of Install: a set without an RSA key is taken.
InstallAnything(k) ==
  /\ flight[k].stage = "answer"
  /\ cache' = flight[k].set
  /\ ready' = (ready \/ k = "initial")
  /\ Land(k, TRUE)
  /\ UNCHANGED <<realm, cooling, stopping, kidFetches>>

\* The set replaces the cached one as a whole.
Install(k) ==
  /\ flight[k].stage = "answer" /\ KidsIn(flight[k].set) # {}
  /\ cache' = flight[k].set
  /\ ready' = (ready \/ k = "initial")
  /\ Land(k, TRUE)
  /\ UNCHANGED <<realm, cooling, stopping, kidFetches>>

\* A timeout, a status other than 200, a body that does not parse, a cancelled
\* baseCtx, a set without an RSA key.
FetchFails(k) ==
  /\ \/ flight[k].stage = "ask" /\ (Outages \/ stopping)
     \/ flight[k].stage = "answer" /\ KidsIn(flight[k].set) = {}
  /\ Land(k, FALSE)
  /\ UNCHANGED <<realm, cache, ready, cooling, stopping, kidFetches>>

(***************************************************************************)
(* refreshForUnknownKID's callback.                                        *)
(***************************************************************************)
GateSuppresses(k) ==
  /\ flight[k].stage = "gate" /\ cooling
  /\ Land(k, FALSE)
  /\ UNCHANGED <<realm, cache, ready, cooling, stopping, kidFetches>>

GateOpens(k) ==
  /\ flight[k].stage = "gate" /\ ~ cooling
  /\ flight' = [flight EXCEPT ![k].stage = "stamp"]
  /\ UNCHANGED <<realm, cache, ready, cooling, stopping, loop, request, kidFetches>>

\* Mutant of Stamp: the time of the refresh is never stored.
StampNothing(k) ==
  /\ flight[k].stage = "stamp"
  /\ kidFetches' = kidFetches + 1
  /\ flight' = [flight EXCEPT ![k].stage = "ask"]
  /\ UNCHANGED <<realm, cache, ready, cooling, stopping, loop, request>>

Stamp(k) ==
  /\ flight[k].stage = "stamp"
  /\ cooling' = TRUE
  /\ kidFetches' = kidFetches + 1
  /\ flight' = [flight EXCEPT ![k].stage = "ask"]
  /\ UNCHANGED <<realm, cache, ready, stopping, loop, request>>

CooldownEnds ==
  /\ cooling
  /\ cooling' = FALSE
  /\ kidFetches' = 0
  /\ UNCHANGED <<realm, cache, ready, stopping, loop, flight, request>>

(***************************************************************************)
(* initLoop.                                                               *)
(***************************************************************************)
LoopTo(pc) == loop' = [loop EXCEPT !.pc = pc]

FetchInitially ==
  /\ flight' = [flight EXCEPT !["initial"] =
                  [stage |-> "ask", set |-> 0, waiters |-> {Background}]]
  /\ LoopTo("fetching")
  /\ UNCHANGED <<realm, cache, ready, cooling, stopping, request, kidFetches>>

InitialAttempt ==
  /\ loop.pc = "initial" /\ ~ stopping
  /\ FetchInitially

\* retryDelay does not watch stopCh; the next attempt does.
BackoffEnds ==
  /\ loop.pc = "backoff"
  /\ loop' = [pc |-> "initial", attempt |-> loop.attempt + 1]
  /\ UNCHANGED <<realm, cache, ready, cooling, stopping, flight, request, kidFetches>>

SlowPoll ==
  /\ loop.pc = "slowPoll"
  /\ FetchInitially

\* refreshLoop's ticker: refreshKeys joins the flight under way or starts one
\* that has no cooldown.
Tick ==
  /\ loop.pc = "select"
  /\ flight' = [flight EXCEPT !["certs"] = DoChan("certs", "ask", Background)]
  /\ LoopTo("waiting")
  /\ UNCHANGED <<realm, cache, ready, cooling, stopping, request, kidFetches>>

\* refreshKeys gives up its wait when baseCtx is cancelled.
LoopAbandonsWait ==
  /\ loop.pc = "waiting" /\ stopping
  /\ flight' = [flight EXCEPT !["certs"].waiters = @ \ {Background}]
  /\ LoopTo("select")
  /\ UNCHANGED <<realm, cache, ready, cooling, stopping, request, kidFetches>>

\* Mutant of LoopEnds: refreshLoop watches its ticker only.
LoopEndsBeforeReady ==
  /\ loop.pc \in {"initial", "slowPoll"} /\ stopping
  /\ LoopTo("done")
  /\ UNCHANGED <<realm, cache, ready, cooling, stopping, flight, request, kidFetches>>

\* stopCh is closed: Stop, which waits for doneCh, returns.
LoopEnds ==
  /\ loop.pc \in {"initial", "slowPoll", "select"} /\ stopping
  /\ LoopTo("done")
  /\ UNCHANGED <<realm, cache, ready, cooling, stopping, flight, request, kidFetches>>

Stop ==
  /\ ~ stopping
  /\ stopping' = TRUE
  /\ UNCHANGED <<realm, cache, ready, cooling, loop, flight, request, kidFetches>>

(***************************************************************************)
(* ValidateToken, called by AuthMiddleware for every request under /api/.  *)
(***************************************************************************)
SetRequest(c, r) ==
  /\ request' = [request EXCEPT ![c] = r]
  /\ UNCHANGED <<realm, cache, ready, cooling, stopping, loop, flight, kidFetches>>

Arrive(c, kid) ==
  /\ At(c, "idle")
  /\ SetRequest(c, [pc |-> IF ready THEN "lookup" ELSE "notReady",
                    kid |-> kid, since |-> realm, cancelled |-> FALSE, during |-> {}])

Lookup(c) ==
  /\ At(c, "lookup")
  /\ IF request[c].kid \in KidsIn(cache)
     THEN SetRequest(c, [request[c] EXCEPT !.pc = "accepted"])
     ELSE SetRequest(c, [request[c] EXCEPT !.pc = "missed",
                                           !.during = {k \in Flights : Fetching(k)}])

\* Mutant of Join: the cooldown is checked before singleflight.
JoinUnlessCooling(c) ==
  LET k == FlightKey(request[c].kid)
  IN  /\ At(c, "missed")
      /\ IF cooling
         THEN /\ request' = [request EXCEPT ![c].pc = "recheck"]
              /\ UNCHANGED flight
         ELSE /\ request' = [request EXCEPT ![c].pc = "waiting"]
              /\ flight' = [flight EXCEPT ![k] = DoChan(k, "gate", c)]
      /\ UNCHANGED <<realm, cache, ready, cooling, stopping, loop, kidFetches>>

\* refreshForUnknownKID: join the flight under way or start one at the gate.
Join(c) ==
  LET k == FlightKey(request[c].kid)
  IN  /\ At(c, "missed")
      /\ request' = [request EXCEPT ![c].pc = "waiting"]
      /\ flight' = [flight EXCEPT ![k] = DoChan(k, "gate", c)]
      /\ UNCHANGED <<realm, cache, ready, cooling, stopping, loop, kidFetches>>

\* The request's context ends; the fetch goes on for the others.
Cancel(c) ==
  /\ At(c, "waiting")
  /\ request' = [request EXCEPT ![c].pc = "recheck", ![c].cancelled = TRUE]
  /\ flight' = [k \in Flights |-> [flight[k] EXCEPT !.waiters = @ \ {c}]]
  /\ UNCHANGED <<realm, cache, ready, cooling, stopping, loop, kidFetches>>

Recheck(c) ==
  /\ At(c, "recheck")
  /\ SetRequest(c, [request[c] EXCEPT
                      !.pc = IF request[c].kid \in KidsIn(cache) THEN "accepted" ELSE "refused"])

\* 200, 401 or 503.
Return(c) ==
  /\ request[c].pc \in {"accepted", "refused", "notReady"}
  /\ SetRequest(c, Idle)

\* Keycloak rotates its keys.
Rotate ==
  /\ realm < LastSet
  /\ realm' = realm + 1
  /\ UNCHANGED <<cache, ready, cooling, stopping, loop, flight, request, kidFetches>>

\* ---------------------------------------------------------------- behaviour

Init ==
  /\ realm = 1
  /\ cache = 0
  /\ ready = FALSE
  /\ cooling = FALSE
  /\ stopping = FALSE
  /\ loop = [pc |-> "initial", attempt |-> 1]
  /\ flight = [k \in Flights |-> NoFlight]
  /\ request = [c \in Requests |-> Idle]
  /\ kidFetches = 0

FlightStep(k) == Answer(k) \/ Install(k) \/ FetchFails(k)
                 \/ GateSuppresses(k) \/ GateOpens(k) \/ Stamp(k)
LoopStep == InitialAttempt \/ BackoffEnds \/ SlowPoll \/ Tick
            \/ LoopAbandonsWait \/ LoopEnds
RequestStep(c) == Lookup(c) \/ Join(c) \/ Recheck(c) \/ Return(c)

Next ==
  \/ \E k \in Flights : FlightStep(k)
  \/ LoopStep
  \/ \E c \in Requests : RequestStep(c) \/ Cancel(c)
  \/ \E c \in Requests, kid \in Kids : Arrive(c, kid)
  \/ CooldownEnds \/ Stop \/ Rotate

Spec == Init /\ [][Next]_vars

(***************************************************************************)
(* Goroutines run, timers fire.  A select with two ready cases takes       *)
(* either at random, so LoopEnds is taken in the end.  Keycloak answers    *)
(* again and again: an outage ends.                                        *)
(***************************************************************************)
FairFlight(k) == WF_vars(FlightStep(k)) /\ SF_vars(Answer(k))
FairRequest(c) == WF_vars(RequestStep(c))
FairLoop == WF_vars(LoopStep) /\ SF_vars(LoopEnds)
FairTime == WF_vars(CooldownEnds)

FairSpec ==
  /\ Spec
  /\ FairLoop
  /\ FairTime
  /\ \A k \in {"initial", "certs"} : FairFlight(k)
  /\ \A c \in Requests : FairRequest(c)

(***************************************************************************)
(* When these steps can be taken: their guards.  The proofs about          *)
(* FairSpec take from here what ENABLED means.                             *)
(***************************************************************************)
RequestReady(c) ==
  request[c].pc \in {"lookup", "missed", "recheck", "accepted", "refused", "notReady"}
LoopReady ==
  \/ loop.pc \in {"initial", "backoff", "slowPoll", "select"}
  \/ loop.pc = "waiting" /\ stopping
LoopMayEnd == loop.pc \in {"initial", "slowPoll", "select"} /\ stopping
FlightReady(k) == flight[k].stage # "none"
AnswerReady(k) == flight[k].stage = "ask" /\ ~ stopping

RequestEnabled(c) == RequestReady(c) => ENABLED <<RequestStep(c)>>_vars
LoopEnabled ==
  /\ LoopReady => ENABLED <<LoopStep>>_vars
  /\ LoopMayEnd => ENABLED <<LoopEnds>>_vars
TimeEnabled == cooling => ENABLED <<CooldownEnds>>_vars
FlightEnabled(k) ==
  /\ FlightReady(k) => ENABLED <<FlightStep(k)>>_vars
  /\ AnswerReady(k) => ENABLED <<Answer(k)>>_vars

StepsAreEnabled ==
  /\ \A c \in Requests : RequestEnabled(c)
  /\ LoopEnabled
  /\ TimeEnabled
  /\ \A k \in {"initial", "certs"} : FlightEnabled(k)

\* ---------------------------------------------------------------- properties

\* Every variable has its shape.
TypeOK ==
  /\ realm \in 1..LastSet
  /\ cache \in 0..LastSet
  /\ ready \in BOOLEAN
  /\ cooling \in BOOLEAN
  /\ stopping \in BOOLEAN
  /\ loop \in Loop
  /\ flight \in [Flights -> Flight]
  /\ request \in [Requests -> Request]
  /\ kidFetches \in Nat

\* No fetch installs a set older than the one in use: answers cannot overtake
\* each other, because one fetch is in flight at a time (refreshGroup).
CacheNeverRegresses == [][cache' >= cache]_cache

\* Requests with unknown kids, however many, cause one fetch per cooldown (the
\* comment on refreshForUnknownKID).
OneFetchPerCooldown == kidFetches <= 1

\* No request is refused while the fetch that was under way when it missed is
\* still under way: it shares that fetch's result (the comment on the gate being
\* inside the singleflight callback), unless its own context ended.
RefusedAfterSharing ==
  \A c \in Requests :
    At(c, "refused") /\ ~ request[c].cancelled => request[c].during = {}

\* Once the validator is ready a set is cached, and it stays one with keys: a
\* failed refresh keeps the old keys (the comment on refreshLoop).
ReadyHasKeys == ready => KidsIn(cache) # {}

(***************************************************************************)
(* Why the safety properties hold: the inductive invariant.  There is one  *)
(* fetch at a time: initialFetch's until the validator is ready, then the  *)
(* flight under the key "certs", and no other key is ever used.            *)
(***************************************************************************)
OneFlight ==
  /\ \A k \in Kids : flight[k] = NoFlight
  /\ \A k \in Flights : flight[k].stage = "none" => flight[k] = NoFlight
  /\ ready => flight["initial"].stage = "none"
  /\ ~ ready => flight["certs"] = NoFlight
  /\ flight["initial"].stage \notin {"gate", "stamp"}

\* Before the validator is ready the loop is in initialFetch and no request gets
\* past the readiness check.
ReadyFirst ==
  /\ loop.pc \in {"select", "waiting"} => ready
  /\ loop.pc \in {"initial", "fetching", "backoff", "slowPoll"} => ~ ready
  /\ flight["initial"].stage # "none"
       => loop.pc = "fetching" /\ flight["initial"].waiters = {Background}
  /\ \A c \in Requests : request[c].pc \in {"lookup", "missed", "waiting", "recheck"} => ready

\* Sets are installed in the order they were published.
SetsInOrder ==
  /\ cache <= realm
  /\ \A k \in Flights : flight[k].stage = "answer"
       => cache <= flight[k].set /\ flight[k].set <= realm

CooldownCounts ==
  /\ ~ cooling => kidFetches = 0
  /\ flight["certs"].stage = "stamp" => ~ cooling

\* A request that missed during a fetch that is still under way has not given up.
SharesFlight ==
  \A c \in Requests : ~ At(c, "idle") =>
    /\ request[c].during \subseteq {"certs"}
    /\ request[c].during # {} => Fetching("certs")
    /\ At(c, "waiting") => c \in flight["certs"].waiters
    /\ At(c, "recheck") /\ ~ request[c].cancelled => request[c].during = {}

IInv ==
  /\ TypeOK
  /\ OneFlight
  /\ ReadyFirst
  /\ SetsInOrder
  /\ CooldownCounts
  /\ SharesFlight
  /\ OneFetchPerCooldown
  /\ RefusedAfterSharing
  /\ ReadyHasKeys

\* The cached set catches up with Keycloak (unless it publishes no RSA key),
\* whatever kids requests ask for and whatever refreshes the cooldown suppressed.
CatchesUp == <>[](cache = realm \/ KidsIn(realm) = {} \/ stopping)

\* Every request gets its answer.
RequestsReturn == \A c \in Requests : ~ At(c, "idle") ~> At(c, "idle")

\* Stop returns: the background goroutine ends from wherever it is.
StopEnds == stopping ~> loop.pc = "done"

\* What the comment in ValidateToken says: only a genuinely absent kid (forged,
\* or a bad token) is refused after the refresh.
OnlyAbsentRefused ==
  \A c \in Requests :
    At(c, "refused") /\ ~ request[c].cancelled /\ ~ stopping
      => request[c].kid \notin KidsIn(request[c].since) \cap KidsIn(realm)
=============================================================================
