------------------------- MODULE JwtValidatorProofs -------------------------
(***************************************************************************)
(* Proofs about JwtValidator, for any number of requests, kids, sets and   *)
(* attempts.                                                               *)
(***************************************************************************)
EXTENDS JwtValidator, TLAPS

LEMMA NoFlightShape == NoFlight \in Flight /\ NoFlight.stage = "none"
BY LastSetIsNat DEF NoFlight, Flight, Waiters

\* A request that is not idle is a record.
LEMMA ActiveRequest ==
  ASSUME TypeOK, NEW c \in Requests, ~ At(c, "idle")
  PROVE  /\ request[c] \in Request \ {Idle}
         /\ request[c].kid \in Kids
         /\ request[c].during \subseteq Flights
BY DEF TypeOK, Request, At, Idle

\* The end of a flight leaves well-formed requests and a well-formed loop.
LEMMA LandedShape ==
  ASSUME TypeOK, NEW k \in Flights
  PROVE  Landed(k) \in [Requests -> Request]
<1> SUFFICES ASSUME NEW c \in Requests, ~ At(c, "idle")
             PROVE  [request[c] EXCEPT
                       !.pc = IF c \in flight[k].waiters THEN "recheck" ELSE @,
                       !.during = @ \ {k}] \in Request
  BY DEF Landed, TypeOK
<1>1. request[c] \in Request \ {Idle}
  BY ActiveRequest
<1>2. QED
  BY <1>1 DEF Request

LEMMA AfterFetchShape ==
  ASSUME TypeOK, NEW k \in Flights, NEW b \in BOOLEAN
  PROVE  AfterFetch(k, b) \in Loop
BY AttemptsIsNat DEF AfterFetch, Refreshing, TypeOK, Loop

LEMMA LandShape ==
  ASSUME TypeOK, NEW k \in Flights, NEW b \in BOOLEAN, Land(k, b)
  PROVE  /\ flight' \in [Flights -> Flight]
         /\ request' \in [Requests -> Request]
         /\ loop' \in Loop
BY NoFlightShape, LandedShape, AfterFetchShape DEF Land, TypeOK

\* A request that moves keeps its shape.
LEMMA MovedShape ==
  ASSUME TypeOK, NEW c \in Requests, ~ At(c, "idle"),
         NEW pc \in {"missed", "waiting", "recheck", "accepted", "refused"},
         NEW b \in BOOLEAN, NEW d \in SUBSET Flights
  PROVE  /\ [request[c] EXCEPT !.pc = pc] \in Request
         /\ [request[c] EXCEPT !.pc = pc, !.cancelled = b] \in Request
         /\ [request[c] EXCEPT !.pc = pc, !.during = d] \in Request
<1>1. request[c] \in Request \ {Idle}
  BY ActiveRequest
<1>2. QED
  BY <1>1 DEF Request

\* A flight that somebody starts or joins is well-formed.
LEMMA StartedShape ==
  ASSUME TypeOK, NEW k \in Flights, NEW w \in Waiters, NEW stage \in {"gate", "ask"}
  PROVE  DoChan(k, stage, w) \in Flight
<1>1. [stage |-> stage, set |-> 0, waiters |-> {w}] \in Flight
  BY LastSetIsNat DEF Flight
<1>2. [flight[k] EXCEPT !.waiters = @ \cup {w}] \in Flight
  BY DEF TypeOK, Flight
<1>3. QED
  BY <1>1, <1>2 DEF DoChan

LEMMA TypeStep == TypeOK /\ [Next]_vars => TypeOK'
<1> SUFFICES ASSUME TypeOK, [Next]_vars PROVE TypeOK'
  OBVIOUS
<1>1. ASSUME NEW k \in Flights, FlightStep(k) PROVE TypeOK'
  <2>1. CASE Answer(k)
    <3>1. flight[k] \in Flight /\ realm \in 0..LastSet
      BY LastSetIsNat DEF TypeOK
    <3>3. [flight[k] EXCEPT !.stage = "answer", !.set = realm] \in Flight
      BY <3>1 DEF Flight
    <3>2. QED
      BY <2>1, <3>3 DEF Answer, TypeOK
  <2>2. CASE Install(k)
    BY <2>2, LandShape DEF Install, TypeOK, Flight
  <2>3. CASE FetchFails(k)
    BY <2>3, LandShape DEF FetchFails, TypeOK
  <2>4. CASE GateSuppresses(k)
    BY <2>4, LandShape DEF GateSuppresses, TypeOK
  <2>5. CASE GateOpens(k)
    BY <2>5 DEF GateOpens, TypeOK, Flight
  <2>6. CASE Stamp(k)
    BY <2>6 DEF Stamp, TypeOK, Flight
  <2>7. QED
    BY <1>1, <2>1, <2>2, <2>3, <2>4, <2>5, <2>6 DEF FlightStep
<1>2. CASE LoopStep
  <2>0. Background \in Waiters /\ "initial" \in Flights /\ "certs" \in Flights
    BY DEF Waiters, Flights
  <2>1. ASSUME FetchInitially PROVE TypeOK'
    <3>1. [stage |-> "ask", set |-> 0, waiters |-> {Background}] \in Flight
      BY <2>0, LastSetIsNat DEF Flight
    <3>2. QED
      BY <2>0, <2>1, <3>1 DEF FetchInitially, LoopTo, TypeOK, Loop
  <2>2. CASE InitialAttempt
    BY <2>1, <2>2 DEF InitialAttempt
  <2>3. CASE BackoffEnds
    BY <2>3, AttemptsIsNat DEF BackoffEnds, TypeOK, Loop
  <2>4. CASE SlowPoll
    BY <2>1, <2>4 DEF SlowPoll
  <2>5. CASE Tick
    <3>1. loop' \in Loop
      BY <2>5 DEF Tick, LoopTo, TypeOK, Loop
    <3>2. DoChan("certs", "ask", Background) \in Flight
      BY <2>0, StartedShape
    <3>3. QED
      BY <2>0, <2>5, <3>1, <3>2 DEF Tick, TypeOK
  <2>6. CASE LoopAbandonsWait
    BY <2>0, <2>6 DEF LoopAbandonsWait, LoopTo, TypeOK, Loop, Flight
  <2>7. CASE LoopEnds
    BY <2>7 DEF LoopEnds, LoopTo, TypeOK, Loop
  <2>8. QED
    BY <1>2, <2>2, <2>3, <2>4, <2>5, <2>6, <2>7 DEF LoopStep
<1>3. ASSUME NEW c \in Requests, RequestStep(c) \/ Cancel(c) PROVE TypeOK'
  <2>1. CASE Lookup(c)
    <3>1. {k \in Flights : Fetching(k)} \in SUBSET Flights
      OBVIOUS
    <3>2. ~ At(c, "idle")
      BY <2>1 DEF Lookup, At
    <3>3. QED
      BY <2>1, <3>1, <3>2, MovedShape DEF Lookup, SetRequest, TypeOK
  <2>2. CASE Join(c)
    <3>1. ~ At(c, "idle") /\ "certs" \in Flights /\ c \in Waiters
      BY <2>2 DEF Join, At, Flights, Waiters
    <3>2. request' \in [Requests -> Request]
      BY <2>2, <3>1, MovedShape DEF Join, TypeOK
    <3>3. DoChan("certs", "gate", c) \in Flight
      BY <3>1, StartedShape
    <3>4. QED
      BY <2>2, <3>1, <3>2, <3>3 DEF Join, FlightKey, TypeOK
  <2>3. CASE Recheck(c)
    BY <2>3, MovedShape DEF Recheck, SetRequest, TypeOK, At
  <2>4. CASE Return(c)
    BY <2>4 DEF Return, SetRequest, TypeOK, Request
  <2>5. CASE Cancel(c)
    <3>1. request' \in [Requests -> Request]
      BY <2>5, MovedShape DEF Cancel, TypeOK, At
    <3>2. flight' \in [Flights -> Flight]
      BY <2>5 DEF Cancel, TypeOK, Flight
    <3>3. QED
      BY <2>5, <3>1, <3>2 DEF Cancel, TypeOK
  <2>6. QED
    BY <1>3, <2>1, <2>2, <2>3, <2>4, <2>5 DEF RequestStep
<1>4. ASSUME NEW c \in Requests, NEW kid \in Kids, Arrive(c, kid) PROVE TypeOK'
  <2>1. \A pc \in {"lookup", "notReady"} :
          [pc |-> pc, kid |-> kid, since |-> realm, cancelled |-> FALSE, during |-> {}]
            \in Request
    BY DEF TypeOK, Request
  <2>2. QED
    BY <1>4, <2>1 DEF Arrive, SetRequest, TypeOK
<1>5. CASE CooldownEnds \/ Stop \/ Rotate
  <2>1. CASE Rotate
    <3>1. realm + 1 \in 1..LastSet
      BY <2>1, LastSetIsNat DEF Rotate, TypeOK
    <3>2. QED
      BY <2>1, <3>1 DEF Rotate, TypeOK
  <2>2. CASE CooldownEnds
    BY <2>2 DEF CooldownEnds, TypeOK
  <2>3. CASE Stop
    BY <2>3 DEF Stop, TypeOK
  <2>4. QED
    BY <1>5, <2>1, <2>2, <2>3
<1>6. CASE UNCHANGED vars
  BY <1>6 DEF vars, TypeOK
<1>7. QED
  BY <1>1, <1>2, <1>3, <1>4, <1>5, <1>6 DEF Next

LEMMA TypeInit == Init => TypeOK
<1> SUFFICES ASSUME Init PROVE TypeOK
  OBVIOUS
<1>1. realm \in 1..LastSet /\ cache \in 0..LastSet
  BY LastSetIsNat DEF Init
<1>2. loop \in Loop
  BY AttemptsIsNat DEF Init, Loop
<1>3. flight \in [Flights -> Flight]
  BY NoFlightShape DEF Init
<1>4. request \in [Requests -> Request]
  BY DEF Init, Request
<1>5. QED
  BY <1>1, <1>2, <1>3, <1>4 DEF Init, TypeOK

\* Every reachable state has the shape TypeOK states.
THEOREM TypeCorrect == Spec => []TypeOK
BY TypeInit, TypeStep, PTL DEF Spec

(***************************************************************************)
(* The inductive invariant.                                                *)
(***************************************************************************)

\* Whatever is in flight is the only thing in flight.
LEMMA OnlyOne ==
  ASSUME IInv, NEW k \in Flights, flight[k].stage # "none"
  PROVE  /\ k \in {"initial", "certs"}
         /\ k = "initial" => ~ ready /\ loop.pc = "fetching"
                             /\ flight[k].waiters = {Background}
         /\ k = "certs" => ready
         /\ \A j \in Flights \ {k} : flight[j].stage = "none"
<1>1. k \in {"initial", "certs"}
  BY DEF IInv, OneFlight, Flights, NoFlight
<1>2. /\ k = "initial" => ~ ready /\ loop.pc = "fetching" /\ flight[k].waiters = {Background}
      /\ k = "certs" => ready
  BY DEF IInv, OneFlight, ReadyFirst, NoFlight
<1>3. QED
  BY <1>1, <1>2 DEF IInv, OneFlight, Flights, NoFlight

\* A flight that ends keeps the invariant, if what it installs is newer.
LEMMA LandStep ==
  ASSUME IInv, TypeOK', NEW k \in Flights, flight[k].stage # "none",
         NEW b \in BOOLEAN, Land(k, b), UNCHANGED <<realm, cooling, kidFetches>>,
         cache' <= realm, KidsIn(cache) # {} => KidsIn(cache') # {},
         ready' = (ready \/ (b /\ k = "initial")),
         b => KidsIn(cache') # {}
  PROVE  IInv'
<1>1. /\ k \in {"initial", "certs"}
      /\ k = "initial" => ~ ready /\ loop.pc = "fetching" /\ flight[k].waiters = {Background}
      /\ k = "certs" => ready
      /\ \A j \in Flights \ {k} : flight[j].stage = "none"
  BY OnlyOne
<1>2. /\ flight' = [flight EXCEPT ![k] = NoFlight]
      /\ \A j \in Flights : flight'[j].stage = "none"
  BY <1>1, NoFlightShape DEF Land, IInv, TypeOK
<1>3. OneFlight'
  <2>1. \A j \in Kids : flight'[j] = NoFlight
    BY <1>1, <1>2, FlightsAreApart DEF IInv, OneFlight, TypeOK, Flights
  <2>2. ~ ready' => flight'["certs"] = NoFlight
    BY <1>2 DEF IInv, OneFlight, TypeOK, Flights
  <2>3. \A j \in Flights : flight'[j].stage = "none" => flight'[j] = NoFlight
    BY <1>1, <1>2 DEF IInv, OneFlight, TypeOK
  <2>4. QED
    BY <1>2, <2>1, <2>2, <2>3 DEF OneFlight, Flights
<1>4. \A c \in Requests :
        request'[c] = IF At(c, "idle") THEN request[c]
                      ELSE [request[c] EXCEPT
                              !.pc = IF c \in flight[k].waiters THEN "recheck" ELSE @,
                              !.during = @ \ {k}]
  BY DEF Land, Landed
<1>5. ReadyFirst'
  <2>1. loop' = AfterFetch(k, b)
    BY DEF Land
  <2>2. /\ loop'.pc \in {"select", "waiting"} => ready'
        /\ loop'.pc \in {"initial", "fetching", "backoff", "slowPoll"} => ~ ready'
    <3>1. CASE k = "initial"
      BY <1>1, <2>1, <3>1 DEF AfterFetch, Refreshing, IInv, TypeOK, Loop
    <3>2. CASE k = "certs"
      BY <1>1, <2>1, <3>2 DEF AfterFetch, Refreshing, IInv, TypeOK, Loop, ReadyFirst
    <3>3. QED
      BY <1>1, <3>1, <3>2
  <2>3. ASSUME NEW c \in Requests,
               request'[c].pc \in {"lookup", "missed", "waiting", "recheck"}
        PROVE  ready'
    <3>1. ~ At(c, "idle")
      BY <1>4, <2>3 DEF At
    <3>2. request[c] \in Request \ {Idle}
      BY <3>1, ActiveRequest DEF IInv
    <3>3. CASE c \in flight[k].waiters
      BY <1>1, <3>3, RequestsAreApart DEF Background
    <3>4. CASE c \notin flight[k].waiters
      BY <1>4, <2>3, <3>1, <3>2, <3>4 DEF Request, IInv, ReadyFirst
    <3>5. QED
      BY <3>3, <3>4
  <2>4. QED
    BY <1>2, <2>2, <2>3 DEF ReadyFirst, Flights
<1>6. SetsInOrder'
  BY <1>2 DEF SetsInOrder
<1>7. CooldownCounts' /\ OneFetchPerCooldown'
  BY <1>2 DEF IInv, CooldownCounts, OneFetchPerCooldown, Flights
<1>8. ASSUME NEW c \in Requests, ~ At(c, "idle")'
      PROVE  /\ request'[c].during = {}
             /\ request'[c].pc # "waiting"
  <2>1. ~ At(c, "idle")
    BY <1>4, <1>8 DEF At
  <2>2. request[c] \in Request \ {Idle}
    BY <2>1, ActiveRequest DEF IInv
  <2>3. /\ request[c].during \subseteq {"certs"}
        /\ request[c].during # {} => Fetching("certs")
        /\ At(c, "waiting") => c \in flight["certs"].waiters
    BY <2>1 DEF IInv, SharesFlight
  <2>4. /\ request'[c].pc = IF c \in flight[k].waiters THEN "recheck" ELSE request[c].pc
        /\ request'[c].during = request[c].during \ {k}
    BY <1>4, <2>1, <2>2 DEF Request
  <2>5. CASE k = "certs"
    BY <2>3, <2>4, <2>5 DEF At
  <2>6. CASE k = "initial"
    <3>1. flight["certs"].stage = "none" /\ ~ ready
      BY <1>1, <2>6 DEF Flights
    <3>2. request[c].during = {}
      BY <2>3, <3>1 DEF Fetching
    <3>3. request[c].pc # "waiting"
      BY <3>1 DEF IInv, ReadyFirst
    <3>4. QED
      BY <2>4, <3>2, <3>3
  <2>7. QED
    BY <1>1, <2>5, <2>6
<1>9. SharesFlight' /\ RefusedAfterSharing'
  BY <1>8 DEF SharesFlight, RefusedAfterSharing, At
<1>10. ReadyHasKeys'
  BY DEF IInv, ReadyHasKeys
<1>11. QED
  BY <1>3, <1>5, <1>6, <1>7, <1>9, <1>10 DEF IInv

\* The steps of a flight.
LEMMA FlightInv ==
  ASSUME IInv, TypeOK', NEW k \in Flights, FlightStep(k)
  PROVE  IInv'
<1>1. CASE Install(k)
  <2>1. cache <= flight[k].set /\ flight[k].set <= realm
    BY <1>1 DEF Install, IInv, SetsInOrder
  <2>2. ready' = (ready \/ (TRUE /\ k = "initial"))
    BY <1>1 DEF Install
  <2>3. QED
    BY <1>1, <2>1, <2>2, LandStep DEF Install
<1>2. CASE FetchFails(k) \/ GateSuppresses(k)
  <2>1. Land(k, FALSE) /\ flight[k].stage # "none"
        /\ UNCHANGED <<realm, cache, ready, cooling, kidFetches>>
    BY <1>2 DEF FetchFails, GateSuppresses
  <2>2. cache' <= realm /\ ready' = (ready \/ (FALSE /\ k = "initial"))
    BY <2>1 DEF IInv, SetsInOrder, TypeOK
  <2>3. QED
    BY <2>1, <2>2, LandStep
<1>3. CASE Answer(k) \/ GateOpens(k) \/ Stamp(k)
  <2>1. /\ flight[k].stage # "none"
        /\ UNCHANGED <<realm, cache, ready, loop, request>>
    BY <1>3 DEF Answer, GateOpens, Stamp
  <2>2. /\ k \in {"initial", "certs"}
        /\ k = "initial" => ~ ready
        /\ k = "certs" => ready
        /\ \A j \in Flights \ {k} : flight[j].stage = "none"
    BY <2>1, OnlyOne
  <2>3. /\ \A j \in Flights \ {k} : flight'[j] = flight[j]
        /\ flight'[k].waiters = flight[k].waiters
        /\ flight'[k].stage \in {"answer", "stamp", "ask"}
        /\ flight'[k].stage = "stamp" => flight[k].stage = "gate" /\ ~ cooling /\ cooling' = cooling
        /\ flight'[k].stage = "answer" => flight'[k].set = realm
        /\ Fetching(k) => flight'[k].stage \in {"ask", "answer"}
    BY <1>3 DEF Answer, GateOpens, Stamp, Fetching, IInv, TypeOK, Flight
  <2>4. OneFlight'
    BY <2>1, <2>2, <2>3, FlightsAreApart DEF IInv, OneFlight, Flights
  <2>5. ReadyFirst'
    BY <2>1, <2>2, <2>3 DEF IInv, ReadyFirst, Flights
  <2>6. SetsInOrder'
    BY <2>1, <2>2, <2>3 DEF IInv, SetsInOrder, TypeOK
  <2>7. CooldownCounts' /\ OneFetchPerCooldown'
    <3>1. CASE Stamp(k)
      <4>1. k = "certs"
        BY <2>2, <3>1 DEF Stamp, IInv, OneFlight
      <4>2. ~ cooling /\ kidFetches = 0
        BY <3>1, <4>1 DEF Stamp, IInv, CooldownCounts
      <4>3. cooling' /\ kidFetches' = 1
        BY <3>1, <4>2 DEF Stamp
      <4>4. flight'["certs"].stage = "ask"
        BY <3>1, <4>1 DEF Stamp, IInv, TypeOK, Flights, Flight
      <4>5. QED
        BY <4>3, <4>4 DEF CooldownCounts, OneFetchPerCooldown
    <3>2. CASE ~ Stamp(k)
      BY <1>3, <2>2, <2>3, <3>2 DEF Answer, GateOpens, IInv, CooldownCounts,
                                    OneFetchPerCooldown, Flights
    <3>3. QED
      BY <3>1, <3>2
  <2>8. Fetching("certs") => Fetching("certs")'
    BY <2>2, <2>3 DEF Fetching, Flights
  <2>9. flight'["certs"].waiters = flight["certs"].waiters
    BY <2>2, <2>3 DEF Flights
  <2>10. SharesFlight' /\ RefusedAfterSharing' /\ ReadyHasKeys'
    BY <2>1, <2>8, <2>9 DEF IInv, SharesFlight, RefusedAfterSharing, ReadyHasKeys, At
  <2>11. QED
    BY <2>4, <2>5, <2>6, <2>7, <2>10 DEF IInv
<1>4. QED
  BY <1>1, <1>2, <1>3 DEF FlightStep


\* The steps of the background goroutine.
LEMMA LoopInv ==
  ASSUME IInv, TypeOK', LoopStep
  PROVE  IInv'
<1>0. UNCHANGED <<realm, cache, ready, cooling, request, kidFetches>>
  BY DEF LoopStep, InitialAttempt, SlowPoll, FetchInitially, BackoffEnds, Tick,
         LoopAbandonsWait, LoopEnds
<1>1. ASSUME FetchInitially, loop.pc \in {"initial", "slowPoll"}
      PROVE  IInv'
  <2>1. ~ ready
    BY <1>1 DEF IInv, ReadyFirst
  <2>2. /\ \A j \in Flights \ {"initial"} : flight'[j] = flight[j]
        /\ flight'["initial"].stage = "ask"
        /\ flight'["initial"].waiters = {Background}
        /\ loop'.pc = "fetching"
    BY <1>1 DEF FetchInitially, LoopTo, IInv, TypeOK, Flights, Loop
  <2>3. OneFlight' /\ ReadyFirst'
    BY <1>0, <2>1, <2>2, FlightsAreApart DEF IInv, OneFlight, ReadyFirst, Flights
  <2>4. SetsInOrder' /\ CooldownCounts'
    BY <1>0, <2>2 DEF IInv, SetsInOrder, CooldownCounts, Flights
  <2>5. flight'["certs"] = flight["certs"]
    BY <2>2 DEF Flights
  <2>6. SharesFlight'
    BY <1>0, <2>5 DEF IInv, SharesFlight, Fetching, At
  <2>7. QED
    BY <1>0, <2>3, <2>4, <2>6 DEF IInv, OneFetchPerCooldown, RefusedAfterSharing,
                                 ReadyHasKeys, At
<1>2. CASE InitialAttempt \/ SlowPoll
  BY <1>1, <1>2 DEF InitialAttempt, SlowPoll
<1>3. ASSUME UNCHANGED flight, loop'.pc \in {"initial", "done"},
             loop'.pc = "initial" => loop.pc = "backoff",
             flight["initial"].stage = "none"
      PROVE  IInv'
  BY <1>0, <1>3 DEF IInv, OneFlight, ReadyFirst, SetsInOrder, CooldownCounts, SharesFlight,
                    OneFetchPerCooldown, RefusedAfterSharing, ReadyHasKeys, Fetching, At
<1>4. CASE BackoffEnds
  <2>1. flight["initial"].stage = "none"
    BY <1>4 DEF BackoffEnds, IInv, ReadyFirst
  <2>2. QED
    BY <1>3, <1>4, <2>1 DEF BackoffEnds
<1>5. CASE LoopEnds
  <2>1. flight["initial"].stage = "none"
    BY <1>5 DEF LoopEnds, IInv, ReadyFirst
  <2>2. loop'.pc = "done"
    BY <1>5 DEF LoopEnds, LoopTo, IInv, TypeOK, Loop
  <2>3. QED
    BY <1>3, <1>5, <2>1, <2>2 DEF LoopEnds
<1>6. CASE Tick \/ LoopAbandonsWait
  <2>1. ready
    BY <1>6 DEF Tick, LoopAbandonsWait, IInv, ReadyFirst
  <2>2. /\ \A j \in Flights \ {"certs"} : flight'[j] = flight[j]
        /\ flight["certs"].waiters \cap Requests \subseteq flight'["certs"].waiters
        /\ flight["certs"].stage # "none" => flight'["certs"].stage = flight["certs"].stage
        /\ flight["certs"].stage = "none" => flight'["certs"].stage \in {"none", "ask"}
        /\ flight'["certs"].stage = "answer" => flight'["certs"].set = flight["certs"].set
        /\ loop'.pc \in {"waiting", "select"}
    <3>1. "certs" \in Flights /\ flight["certs"] \in Flight
      BY DEF Flights, IInv, TypeOK
    <3>2. loop'.pc \in {"waiting", "select"}
      BY <1>6 DEF Tick, LoopAbandonsWait, LoopTo, IInv, TypeOK, Loop
    <3>3. CASE Tick
      <4>1. /\ \A j \in Flights \ {"certs"} : flight'[j] = flight[j]
            /\ flight'["certs"] = DoChan("certs", "ask", Background)
        BY <3>1, <3>3 DEF Tick, IInv, TypeOK
      <4>2. CASE flight["certs"].stage = "none"
        <5>1. flight["certs"].waiters = {}
          BY <3>1, <4>2 DEF IInv, OneFlight, NoFlight
        <5>2. flight'["certs"] = [stage |-> "ask", set |-> 0, waiters |-> {Background}]
          BY <4>1, <4>2 DEF DoChan
        <5>3. QED
          BY <3>2, <4>1, <4>2, <5>1, <5>2
      <4>3. CASE flight["certs"].stage # "none"
        <5>1. flight'["certs"] = [flight["certs"] EXCEPT !.waiters = @ \cup {Background}]
          BY <4>1, <4>3 DEF DoChan
        <5>2. QED
          BY <3>1, <3>2, <4>1, <4>3, <5>1 DEF Flight
      <4>4. QED
        BY <4>2, <4>3
    <3>4. CASE LoopAbandonsWait
      <4>1. /\ \A j \in Flights \ {"certs"} : flight'[j] = flight[j]
            /\ flight'["certs"] = [flight["certs"] EXCEPT !.waiters = @ \ {Background}]
        BY <3>1, <3>4 DEF LoopAbandonsWait, IInv, TypeOK
      <4>2. QED
        BY <3>1, <3>2, <4>1, RequestsAreApart DEF Flight, Background
    <3>5. QED
      BY <1>6, <3>3, <3>4
  <2>3. flight'["certs"].stage = "none" => flight'["certs"] = NoFlight
    <3>1. "certs" \in Flights
      BY DEF Flights
    <3>2. CASE Tick
      BY <3>1, <3>2 DEF Tick, DoChan, IInv, TypeOK, Flight
    <3>3. CASE LoopAbandonsWait
      <4>1. flight'["certs"] = [flight["certs"] EXCEPT !.waiters = @ \ {Background}]
        BY <3>1, <3>3 DEF LoopAbandonsWait, IInv, TypeOK
      <4>2. flight'["certs"].stage = flight["certs"].stage
        BY <3>1, <4>1 DEF IInv, TypeOK, Flight
      <4>3. flight["certs"].stage = "none" => flight["certs"] = NoFlight
        BY <3>1 DEF IInv, OneFlight
      <4>4. QED
        BY <4>1, <4>2, <4>3 DEF NoFlight
    <3>4. QED
      BY <1>6, <3>2, <3>3
  <2>4. OneFlight' /\ ReadyFirst'
    BY <1>0, <2>1, <2>2, <2>3, FlightsAreApart DEF IInv, OneFlight, ReadyFirst, Flights
  <2>5. SetsInOrder' /\ CooldownCounts'
    BY <1>0, <2>2 DEF IInv, SetsInOrder, CooldownCounts, Flights
  <2>6. SharesFlight'
    BY <1>0, <2>2 DEF IInv, SharesFlight, Fetching, At
  <2>7. QED
    BY <1>0, <2>4, <2>5, <2>6 DEF IInv, OneFetchPerCooldown, RefusedAfterSharing,
                                 ReadyHasKeys, At
<1>7. QED
  BY <1>2, <1>4, <1>5, <1>6 DEF LoopStep

\* The steps of a request.
LEMMA RequestInv ==
  ASSUME IInv, TypeOK', NEW c \in Requests,
         RequestStep(c) \/ Cancel(c) \/ \E kid \in Kids : Arrive(c, kid)
  PROVE  IInv'
<1>0. UNCHANGED <<realm, cache, ready, cooling, loop, kidFetches>>
  BY DEF RequestStep, Lookup, Join, Recheck, Return, Cancel, Arrive, SetRequest
<1>1. \A d \in Requests \ {c} : request'[d] = request[d]
  BY DEF RequestStep, Lookup, Join, Recheck, Return, Cancel, Arrive, SetRequest, IInv, TypeOK
<1>2. /\ \A j \in Flights \ {"certs"} : j \in Kids => flight'[j] = NoFlight
      /\ flight'["initial"].stage = flight["initial"].stage
      /\ flight["initial"].stage # "none" => flight'["initial"].waiters = {Background}
      /\ \/ flight'["certs"].stage = flight["certs"].stage
         \/ /\ flight["certs"].stage = "none"
            /\ flight'["certs"].stage = "gate"
            /\ ready
      /\ ~ ready => flight'["certs"] = NoFlight
      /\ \A j \in Flights : flight'[j].stage = "answer" => flight'[j].set = flight[j].set
      /\ (flight["certs"].waiters \cap Requests) \ {c} \subseteq flight'["certs"].waiters
      /\ \A j \in Flights : flight'[j].stage = "none" => flight'[j] = NoFlight
  <2>1. CASE UNCHANGED flight
    <3>1. /\ \A j \in Kids : flight[j] = NoFlight
          /\ ~ ready => flight["certs"] = NoFlight
          /\ flight["initial"].stage # "none" => flight["initial"].waiters = {Background}
      BY DEF IInv, OneFlight, ReadyFirst
    <3>2. \A j \in Flights : flight[j].stage = "none" => flight[j] = NoFlight
      BY DEF IInv, OneFlight
    <3>3. QED
      BY <2>1, <3>1, <3>2
  <2>2. CASE Join(c)
    <3>1. ready
      BY <2>2 DEF Join, IInv, ReadyFirst, At
    <3>2. flight' = [flight EXCEPT !["certs"] = DoChan("certs", "gate", c)]
      BY <2>2 DEF Join, FlightKey
    <3>3. "certs" \in Flights /\ "certs" \notin Kids /\ "initial" \in Flights
      BY FlightsAreApart DEF Flights
    <3>4. /\ \A j \in Flights \ {"certs"} : flight'[j] = flight[j]
          /\ flight'["certs"] = DoChan("certs", "gate", c)
      BY <3>2, <3>3 DEF IInv, TypeOK
    <3>5. /\ \A j \in Kids : flight[j] = NoFlight
          /\ \A j \in Flights : flight[j].stage = "none" => flight[j] = NoFlight
          /\ flight["initial"].stage # "none" => flight["initial"].waiters = {Background}
      BY DEF IInv, OneFlight, ReadyFirst
    <3>6. CASE flight["certs"].stage = "none"
      <4>1. flight'["certs"] = [stage |-> "gate", set |-> 0, waiters |-> {c}]
        BY <3>4, <3>6 DEF DoChan
      <4>2. flight["certs"].waiters = {}
        BY <3>3, <3>5, <3>6 DEF NoFlight
      <4>3. QED
        BY <3>1, <3>3, <3>4, <3>5, <3>6, <4>1, <4>2
    <3>7. CASE flight["certs"].stage # "none"
      <4>1. flight'["certs"] = [flight["certs"] EXCEPT !.waiters = @ \cup {c}]
        BY <3>4, <3>7 DEF DoChan
      <4>2. /\ flight'["certs"].stage = flight["certs"].stage
            /\ flight'["certs"].set = flight["certs"].set
            /\ flight'["certs"].waiters = flight["certs"].waiters \cup {c}
        BY <3>3, <4>1 DEF IInv, TypeOK, Flight
      <4>3. QED
        BY <3>1, <3>3, <3>4, <3>5, <3>7, <4>2
    <3>8. QED
      BY <3>6, <3>7
  <2>3. CASE Cancel(c)
    <3>1. \A j \in Flights : flight'[j] = [flight[j] EXCEPT !.waiters = @ \ {c}]
      BY <2>3 DEF Cancel
    <3>2. \A j \in Flights : /\ flight'[j].stage = flight[j].stage
                             /\ flight'[j].set = flight[j].set
                             /\ flight'[j].waiters = flight[j].waiters \ {c}
      BY <3>1 DEF IInv, TypeOK, Flight
    <3>3. [NoFlight EXCEPT !.waiters = @ \ {c}] = NoFlight
      BY DEF NoFlight
    <3>4. c # Background
      BY RequestsAreApart DEF Background
    <3>5. \A j \in Flights : flight[j] = NoFlight => flight'[j] = NoFlight
      BY <3>1, <3>3
    <3>6. /\ \A j \in Kids : flight[j] = NoFlight
          /\ \A j \in Flights : flight[j].stage = "none" => flight[j] = NoFlight
          /\ ~ ready => flight["certs"] = NoFlight
          /\ flight["initial"].stage # "none" => flight["initial"].waiters = {Background}
      BY DEF IInv, OneFlight, ReadyFirst
    <3>7. "certs" \in Flights /\ "initial" \in Flights
      BY DEF Flights
    <3>8. QED
      BY <3>2, <3>4, <3>5, <3>6, <3>7
  <2>4. QED
    BY <2>1, <2>2, <2>3 DEF RequestStep, Lookup, Recheck, Return, Arrive, SetRequest
<1>3. OneFlight'
  BY <1>0, <1>2, FlightsAreApart DEF IInv, OneFlight, Flights
<1>4. SetsInOrder' /\ CooldownCounts'
  <2>1. \A j \in Flights : flight'[j].stage = "answer" => flight[j].stage = "answer"
    BY <1>2, FlightsAreApart DEF Flights, NoFlight
  <2>2. QED
    BY <1>0, <1>2, <2>1 DEF IInv, SetsInOrder, CooldownCounts
<1>5. Fetching("certs") => Fetching("certs")'
  BY <1>2 DEF Fetching
<1>6. ASSUME ~ At(c, "idle")'
      PROVE  /\ request'[c].pc \in {"lookup", "missed", "waiting", "recheck"} => ready
             /\ request'[c].during \subseteq {"certs"}
             /\ request'[c].during # {} => Fetching("certs")'
             /\ request'[c].pc = "waiting" => c \in flight'["certs"].waiters
             /\ request'[c].pc \in {"recheck", "refused"} /\ ~ request'[c].cancelled
                  => request'[c].during = {}
  <2>1. CASE \E kid \in Kids : Arrive(c, kid)
    BY <2>1 DEF Arrive, SetRequest, IInv, TypeOK
  <2>2. CASE Return(c)
    BY <1>6, <2>2 DEF Return, SetRequest, Idle, At, IInv, TypeOK
  <2>3. CASE Lookup(c)
    <3>1. ready /\ request[c] \in Request \ {Idle}
      BY <2>3, ActiveRequest DEF Lookup, IInv, ReadyFirst, At
    <3>2. {k \in Flights : Fetching(k)} \subseteq {"certs"}
      BY <3>1 DEF Fetching, IInv, OneFlight, Flights, NoFlight
    <3>3. {k \in Flights : Fetching(k)} # {} => Fetching("certs")
      BY <3>2
    <3>4. /\ request'[c].pc \in {"accepted", "missed"}
          /\ request'[c].during = request[c].during
             \/ request'[c].during = {k \in Flights : Fetching(k)}
      <4>1. CASE request' = [request EXCEPT ![c] = [request[c] EXCEPT !.pc = "accepted"]]
        BY <3>1, <4>1 DEF Request, IInv, TypeOK
      <4>2. CASE request' = [request EXCEPT ![c] = [request[c] EXCEPT
                   !.pc = "missed", !.during = {k \in Flights : Fetching(k)}]]
        <5> DEFINE D == {k \in Flights : Fetching(k)}
        <5>1. request'[c] = [request[c] EXCEPT !.pc = "missed", !.during = D]
          BY <4>2 DEF IInv, TypeOK
        <5> HIDE DEF D
        <5>2. request'[c].pc = "missed" /\ request'[c].during = D
          BY <3>1, <5>1 DEF Request
        <5>3. QED
          BY <5>2 DEF D
      <4>3. QED
        BY <2>3, <4>1, <4>2 DEF Lookup, SetRequest
    <3>5. /\ request[c].during \subseteq {"certs"}
          /\ request[c].during # {} => Fetching("certs")
      BY <2>3 DEF Lookup, At, IInv, SharesFlight
    <3>6. QED
      BY <1>5, <3>1, <3>2, <3>3, <3>4, <3>5
  <2>4. CASE Join(c)
    <3>1. ready /\ request[c] \in Request \ {Idle}
      BY <2>4, ActiveRequest DEF Join, IInv, ReadyFirst, At
    <3>2. request'[c].pc = "waiting" /\ request'[c].during = request[c].during
      BY <2>4, <3>1 DEF Join, Request, IInv, TypeOK
    <3>3. c \in flight'["certs"].waiters
      BY <2>4 DEF Join, FlightKey, DoChan, IInv, TypeOK, Flights, Flight
    <3>4. QED
      BY <1>5, <2>4, <3>1, <3>2, <3>3 DEF Join, IInv, SharesFlight, At
  <2>5. CASE Cancel(c)
    <3>1. ready /\ request[c] \in Request \ {Idle}
      BY <2>5, ActiveRequest DEF Cancel, IInv, ReadyFirst, At
    <3>2. /\ request'[c].pc = "recheck" /\ request'[c].cancelled
          /\ request'[c].during = request[c].during
      BY <2>5, <3>1 DEF Cancel, Request, IInv, TypeOK
    <3>3. QED
      BY <1>5, <2>5, <3>1, <3>2 DEF Cancel, IInv, SharesFlight, At
  <2>6. CASE Recheck(c)
    <3>1. ready /\ request[c] \in Request \ {Idle}
      BY <2>6, ActiveRequest DEF Recheck, IInv, ReadyFirst, At
    <3>2. /\ request'[c].pc \in {"accepted", "refused"}
          /\ request'[c].cancelled = request[c].cancelled
          /\ request'[c].during = request[c].during
      BY <2>6, <3>1 DEF Recheck, SetRequest, Request, IInv, TypeOK
    <3>3. QED
      BY <1>5, <2>6, <3>1, <3>2 DEF Recheck, IInv, SharesFlight, At
  <2>7. QED
    BY <2>1, <2>2, <2>3, <2>4, <2>5, <2>6 DEF RequestStep
<1>7. ReadyFirst'
  <2>1. ASSUME NEW d \in Requests,
               request'[d].pc \in {"lookup", "missed", "waiting", "recheck"}
        PROVE  ready
    <3>1. CASE d = c
      BY <1>6, <2>1, <3>1 DEF At
    <3>2. CASE d # c
      BY <1>1, <2>1, <3>2 DEF IInv, ReadyFirst
    <3>3. QED
      BY <3>1, <3>2
  <2>2. QED
    BY <1>0, <1>2, <2>1 DEF IInv, ReadyFirst
<1>8. ASSUME NEW d \in Requests, ~ At(d, "idle")'
      PROVE  /\ request'[d].during \subseteq {"certs"}
             /\ request'[d].during # {} => Fetching("certs")'
             /\ request'[d].pc = "waiting" => d \in flight'["certs"].waiters
             /\ request'[d].pc \in {"recheck", "refused"} /\ ~ request'[d].cancelled
                  => request'[d].during = {}
  <2>1. CASE d = c
    BY <1>6, <1>8, <2>1
  <2>2. CASE d # c
    BY <1>1, <1>2, <1>5, <1>8, <2>2 DEF IInv, SharesFlight, RefusedAfterSharing, At
  <2>3. QED
    BY <2>1, <2>2
<1>9. SharesFlight' /\ RefusedAfterSharing'
  BY <1>8 DEF SharesFlight, RefusedAfterSharing, At
<1>10. QED
  BY <1>0, <1>3, <1>4, <1>7, <1>9 DEF IInv, OneFetchPerCooldown, ReadyHasKeys

LEMMA InvStep == IInv /\ [Next]_vars => IInv'
<1> SUFFICES ASSUME IInv, [Next]_vars PROVE IInv'
  OBVIOUS
<1>0. TypeOK'
  BY TypeStep DEF IInv
<1>1. ASSUME NEW k \in Flights, FlightStep(k) PROVE IInv'
  BY <1>0, <1>1, FlightInv
<1>2. CASE LoopStep
  BY <1>0, <1>2, LoopInv
<1>3. ASSUME NEW c \in Requests,
             RequestStep(c) \/ Cancel(c) \/ \E kid \in Kids : Arrive(c, kid)
      PROVE  IInv'
  BY <1>0, <1>3, RequestInv
<1>4. CASE CooldownEnds \/ Stop \/ Rotate \/ UNCHANGED vars
  <2>1. UNCHANGED <<cache, ready, loop, flight, request>>
    BY <1>4 DEF CooldownEnds, Stop, Rotate, vars
  <2>2. OneFlight' /\ ReadyFirst' /\ SharesFlight' /\ RefusedAfterSharing' /\ ReadyHasKeys'
    BY <2>1 DEF IInv, OneFlight, ReadyFirst, SharesFlight, RefusedAfterSharing,
                ReadyHasKeys, Fetching, At
  <2>3. SetsInOrder'
    <3>1. realm' \in Nat /\ realm \in Nat /\ realm <= realm' /\ cache \in Nat
      BY <1>4, LastSetIsNat DEF CooldownEnds, Stop, Rotate, vars, IInv, TypeOK
    <3>2. \A k \in Flights : flight[k].set \in Nat
      BY LastSetIsNat DEF IInv, TypeOK, Flight
    <3>3. QED
      BY <2>1, <3>1, <3>2 DEF IInv, SetsInOrder
  <2>4. CooldownCounts' /\ OneFetchPerCooldown'
    BY <1>4, <2>1 DEF CooldownEnds, Stop, Rotate, vars, IInv, CooldownCounts,
                      OneFetchPerCooldown
  <2>5. QED
    BY <1>0, <2>2, <2>3, <2>4 DEF IInv
<1>5. QED
  BY <1>1, <1>2, <1>3, <1>4 DEF Next

LEMMA InvInit == Init => IInv
<1> SUFFICES ASSUME Init PROVE IInv
  OBVIOUS
<1>1. TypeOK
  BY TypeInit
<1>2. \A k \in Flights : flight[k] = NoFlight /\ flight[k].stage = "none"
  BY NoFlightShape DEF Init
<1>3. \A c \in Requests : request[c].pc = "idle"
  BY DEF Init, Idle
<1>4. OneFlight /\ ReadyFirst /\ SetsInOrder /\ CooldownCounts
  BY <1>2, <1>3 DEF Init, OneFlight, ReadyFirst, SetsInOrder, CooldownCounts, Flights
<1>5. SharesFlight /\ OneFetchPerCooldown /\ RefusedAfterSharing /\ ReadyHasKeys
  BY <1>3 DEF Init, SharesFlight, OneFetchPerCooldown, RefusedAfterSharing, ReadyHasKeys, At
<1>6. QED
  BY <1>1, <1>4, <1>5 DEF IInv

\* The inductive invariant holds in every reachable state.
THEOREM InvariantHolds == Spec => []IInv
BY InvInit, InvStep, PTL DEF Spec

\* No step installs a set older than the one in use.
LEMMA CacheStep ==
  ASSUME IInv, [Next]_vars
  PROVE  cache' >= cache
<1>1. cache \in Nat
  BY LastSetIsNat DEF IInv, TypeOK
<1>2. CASE \E k \in Flights : Install(k)
  <2>1. PICK k \in Flights : Install(k)
    BY <1>2
  <2>2. cache <= flight[k].set /\ cache' = flight[k].set
    BY <2>1 DEF Install, IInv, SetsInOrder
  <2>3. flight[k].set \in Nat
    BY LastSetIsNat DEF IInv, TypeOK, Flight
  <2>4. QED
    BY <1>1, <2>2, <2>3
<1>3. CASE ~ \E k \in Flights : Install(k)
  <2>1. UNCHANGED cache
    BY <1>3 DEF Next, vars, FlightStep, Answer, FetchFails, GateSuppresses, GateOpens, Stamp,
           LoopStep, InitialAttempt, SlowPoll, FetchInitially, BackoffEnds, Tick,
           LoopAbandonsWait, LoopEnds, RequestStep, Lookup, Join, Recheck, Return, Cancel,
           Arrive, SetRequest, CooldownEnds, Stop, Rotate
  <2>2. QED
    BY <1>1, <2>1
<1>4. QED
  BY <1>2, <1>3

\* No fetch installs a set older than the one in use.
THEOREM CacheMovesForward == Spec => CacheNeverRegresses
<1>1. IInv /\ [Next]_vars => [cache' >= cache]_cache
  BY CacheStep
<1>2. QED
  BY <1>1, InvariantHolds, PTL DEF Spec, CacheNeverRegresses

\* Unknown kids cause at most one fetch per cooldown.
THEOREM FetchesAreLimited == Spec => []OneFetchPerCooldown
<1>1. IInv => OneFetchPerCooldown
  BY DEF IInv
<1>2. QED
  BY <1>1, InvariantHolds, PTL

\* No request is refused while the fetch it could share is still under way.
THEOREM RefusalsShare == Spec => []RefusedAfterSharing
<1>1. IInv => RefusedAfterSharing
  BY DEF IInv
<1>2. QED
  BY <1>1, InvariantHolds, PTL

\* A ready validator has keys.
THEOREM ReadyValidates == Spec => []ReadyHasKeys
<1>1. IInv => ReadyHasKeys
  BY DEF IInv
<1>2. QED
  BY <1>1, InvariantHolds, PTL


(***************************************************************************)
(* How requests, flights and the loop move.                                *)
(***************************************************************************)
RequestMoves ==
  {<<"idle", "lookup">>, <<"idle", "notReady">>, <<"lookup", "accepted">>,
   <<"lookup", "missed">>, <<"missed", "waiting">>, <<"waiting", "recheck">>,
   <<"recheck", "accepted">>, <<"recheck", "refused">>,
   <<"accepted", "idle">>, <<"refused", "idle">>, <<"notReady", "idle">>}

LEMMA RequestStepMoves ==
  ASSUME IInv, NEW c \in Requests,
         RequestStep(c) \/ Cancel(c) \/ \E kid \in Kids : Arrive(c, kid)
  PROVE  <<request[c].pc, request'[c].pc>> \in RequestMoves
<1>1. CASE Return(c) \/ \E kid \in Kids : Arrive(c, kid)
  BY <1>1 DEF Return, Arrive, SetRequest, Idle, At, RequestMoves, IInv, TypeOK
<1>2. CASE Lookup(c) \/ Join(c) \/ Recheck(c) \/ Cancel(c)
  <2>1. request[c] \in Request \ {Idle}
    BY <1>2, ActiveRequest DEF Lookup, Join, Recheck, Cancel, IInv, At
  <2>2. \A p, b, d : /\ [request[c] EXCEPT !.pc = p].pc = p
                     /\ [request[c] EXCEPT !.pc = p, !.during = d].pc = p
                     /\ [request[c] EXCEPT !.pc = p, !.cancelled = b].pc = p
    BY <2>1 DEF Request
  <2>3. CASE Lookup(c)
    <3>1. \/ request'[c] = [request[c] EXCEPT !.pc = "accepted"]
          \/ \E d : request'[c] = [request[c] EXCEPT !.pc = "missed", !.during = d]
      BY <2>3 DEF Lookup, SetRequest, IInv, TypeOK
    <3>2. CASE \E d : request'[c] = [request[c] EXCEPT !.pc = "missed", !.during = d]
      <4>1. PICK d : request'[c] = [request[c] EXCEPT !.pc = "missed", !.during = d]
        BY <3>2
      <4>2. request'[c].pc = "missed"
        BY <2>1, <4>1 DEF Request
      <4>3. QED
        BY <2>3, <4>2 DEF Lookup, At, RequestMoves
    <3>3. CASE request'[c] = [request[c] EXCEPT !.pc = "accepted"]
      <4>1. request'[c].pc = "accepted"
        BY <2>1, <3>3 DEF Request
      <4>2. QED
        BY <2>3, <4>1 DEF Lookup, At, RequestMoves
    <3>4. QED
      BY <3>1, <3>2, <3>3
  <2>4. CASE Join(c)
    <3>1. request'[c] = [request[c] EXCEPT !.pc = "waiting"]
      BY <2>4 DEF Join, IInv, TypeOK
    <3>2. request'[c].pc = "waiting"
      BY <2>2, <3>1
    <3>3. QED
      BY <2>4, <3>2 DEF Join, At, RequestMoves
  <2>5. CASE Recheck(c)
    <3>1. \/ request'[c] = [request[c] EXCEPT !.pc = "accepted"]
          \/ request'[c] = [request[c] EXCEPT !.pc = "refused"]
      BY <2>5 DEF Recheck, SetRequest, IInv, TypeOK
    <3>2. request'[c].pc \in {"accepted", "refused"}
      BY <2>2, <3>1
    <3>3. QED
      BY <2>5, <3>2 DEF Recheck, At, RequestMoves
  <2>6. CASE Cancel(c)
    <3>1. request'[c] = [request[c] EXCEPT !.pc = "recheck", !.cancelled = TRUE]
      BY <2>6 DEF Cancel, IInv, TypeOK
    <3>2. request'[c].pc = "recheck"
      BY <2>2, <3>1
    <3>3. QED
      BY <2>6, <3>2 DEF Cancel, At, RequestMoves
  <2>7. QED
    BY <1>2, <2>3, <2>4, <2>5, <2>6
<1>3. QED
  BY <1>1, <1>2 DEF RequestStep

\* Who waits is waited for.
WaitsAreHeard ==
  /\ \A c \in Requests : c \in flight["certs"].waiters <=> At(c, "waiting")
  /\ Background \in flight["certs"].waiters <=> loop.pc = "waiting"
  /\ flight["initial"].stage # "none" <=> loop.pc = "fetching"

LEMMA HeardInit == Init => WaitsAreHeard
BY FlightsAreApart DEF Init, WaitsAreHeard, NoFlight, Flights, At, Idle

\* What the steps do to those who wait.
LEMMA HeardFlight ==
  ASSUME IInv, WaitsAreHeard, NEW k \in Flights, FlightStep(k)
  PROVE  WaitsAreHeard'
<1>0. /\ "certs" \in Flights /\ "initial" \in Flights
      /\ NoFlight.stage = "none" /\ NoFlight.waiters = {}
  BY DEF Flights, NoFlight
<1>1. CASE Answer(k) \/ GateOpens(k) \/ Stamp(k)
  <2>1. UNCHANGED <<loop, request>>
    BY <1>1 DEF Answer, GateOpens, Stamp
  <2>2. \A j \in Flights : /\ flight'[j].waiters = flight[j].waiters
                           /\ flight'[j].stage = "none" <=> flight[j].stage = "none"
    BY <1>1 DEF Answer, GateOpens, Stamp, IInv, TypeOK, Flight
  <2>3. QED
    BY <1>0, <2>1, <2>2 DEF WaitsAreHeard, At
<1>2. ASSUME NEW b \in BOOLEAN, Land(k, b), flight[k].stage # "none"
      PROVE  WaitsAreHeard'
  <2>1. /\ k \in {"initial", "certs"}
        /\ k = "initial" => loop.pc = "fetching" /\ flight[k].waiters = {Background}
        /\ \A j \in Flights \ {k} : flight[j].stage = "none"
    BY <1>2, OnlyOne
  <2>2. /\ flight' = [flight EXCEPT ![k] = NoFlight]
        /\ \A c \in Requests :
             request'[c].pc = IF c \in flight[k].waiters /\ ~ At(c, "idle")
                              THEN "recheck" ELSE request[c].pc
    <3>1. ASSUME NEW c \in Requests, ~ At(c, "idle")
          PROVE  request'[c].pc = IF c \in flight[k].waiters THEN "recheck" ELSE request[c].pc
      <4>1. request[c] \in Request \ {Idle}
        BY <3>1, ActiveRequest DEF IInv
      <4>2. request'[c] = [request[c] EXCEPT
                              !.pc = IF c \in flight[k].waiters THEN "recheck" ELSE @,
                              !.during = @ \ {k}]
        BY <1>2, <3>1 DEF Land, Landed
      <4>3. QED
        BY <4>1, <4>2 DEF Request
    <3>2. ASSUME NEW c \in Requests, At(c, "idle")
          PROVE  request'[c].pc = request[c].pc
      BY <1>2, <3>2 DEF Land, Landed
    <3>3. QED
      BY <1>2, <3>1, <3>2 DEF Land
  <2>3. \A j \in Flights : flight'[j].stage = "none" /\ flight'[j].waiters = {}
    BY <1>0, <2>1, <2>2 DEF IInv, TypeOK, OneFlight
  <2>4. \A c \in Requests : ~ At(c, "waiting")'
    <3>1. CASE k = "certs"
      BY <2>2, <3>1 DEF WaitsAreHeard, At
    <3>2. CASE k = "initial"
      BY <1>0, <2>1, <2>2, <3>2 DEF WaitsAreHeard, At, IInv, OneFlight, NoFlight
    <3>3. QED
      BY <2>1, <3>1, <3>2
  <2>5. loop'.pc # "waiting" /\ loop'.pc # "fetching"
    <3>1. loop' = AfterFetch(k, b)
      BY <1>2 DEF Land
    <3>2. CASE Background \in flight[k].waiters
      BY <3>1, <3>2 DEF AfterFetch, Refreshing, IInv, TypeOK, Loop
    <3>3. CASE Background \notin flight[k].waiters
      <4>1. k = "certs" /\ loop' = loop
        BY <2>1, <3>1, <3>3 DEF AfterFetch
      <4>2. QED
        BY <1>0, <2>1, <3>3, <4>1 DEF WaitsAreHeard
    <3>4. QED
      BY <3>2, <3>3
  <2>6. QED
    BY <1>0, <2>3, <2>4, <2>5 DEF WaitsAreHeard
<1>3. QED
  BY <1>1, <1>2 DEF FlightStep, Install, FetchFails, GateSuppresses

LEMMA HeardLoop ==
  ASSUME IInv, WaitsAreHeard, LoopStep
  PROVE  WaitsAreHeard'
<1>0. "certs" \in Flights /\ "initial" \in Flights
  BY DEF Flights
<1>1. UNCHANGED request
  BY DEF LoopStep, InitialAttempt, SlowPoll, FetchInitially, BackoffEnds, Tick,
         LoopAbandonsWait, LoopEnds
<1>2. CASE InitialAttempt \/ SlowPoll
  <2>1. /\ loop'.pc = "fetching"
        /\ flight'["certs"] = flight["certs"]
        /\ flight'["initial"].stage = "ask"
    BY <1>0, <1>2 DEF InitialAttempt, SlowPoll, FetchInitially, LoopTo, IInv, TypeOK, Loop
  <2>2. loop.pc # "waiting"
    BY <1>2 DEF InitialAttempt, SlowPoll
  <2>3. QED
    BY <1>1, <2>1, <2>2 DEF WaitsAreHeard, At
<1>3. CASE BackoffEnds \/ LoopEnds
  BY <1>1, <1>3 DEF BackoffEnds, LoopEnds, LoopTo, WaitsAreHeard, At, IInv, TypeOK, Loop
<1>4. CASE Tick
  <2>1. /\ loop'.pc = "waiting" /\ loop.pc = "select"
        /\ flight'["initial"] = flight["initial"]
        /\ flight'["certs"] = DoChan("certs", "ask", Background)
    BY <1>0, <1>4 DEF Tick, LoopTo, IInv, TypeOK, Loop
  <2>2. flight'["certs"].waiters = flight["certs"].waiters \cup {Background}
    BY <1>0, <2>1 DEF DoChan, IInv, TypeOK, Flight, OneFlight, NoFlight
  <2>3. QED
    BY <1>1, <2>1, <2>2, RequestsAreApart DEF WaitsAreHeard, At, Background
<1>5. CASE LoopAbandonsWait
  <2>1. /\ loop'.pc = "select"
        /\ flight'["initial"] = flight["initial"]
        /\ flight'["certs"].waiters = flight["certs"].waiters \ {Background}
    BY <1>0, <1>5 DEF LoopAbandonsWait, LoopTo, IInv, TypeOK, Loop, Flight
  <2>2. QED
    BY <1>1, <1>5, <2>1, RequestsAreApart DEF LoopAbandonsWait, WaitsAreHeard, At, Background
<1>6. QED
  BY <1>2, <1>3, <1>4, <1>5 DEF LoopStep

LEMMA HeardRequest ==
  ASSUME IInv, WaitsAreHeard, NEW c \in Requests,
         RequestStep(c) \/ Cancel(c) \/ \E kid \in Kids : Arrive(c, kid)
  PROVE  WaitsAreHeard'
<1>0. /\ "certs" \in Flights /\ "initial" \in Flights /\ UNCHANGED loop
      /\ \A d \in Requests \ {c} : request'[d] = request[d]
      /\ Background # c
  BY RequestsAreApart
     DEF RequestStep, Lookup, Join, Recheck, Return, Cancel, Arrive, SetRequest, IInv, TypeOK,
         Flights, Background
<1>1. CASE Join(c)
  <2>1. /\ flight'["initial"] = flight["initial"]
        /\ flight'["certs"] = DoChan("certs", "gate", c)
    BY <1>0, <1>1 DEF Join, FlightKey, IInv, TypeOK
  <2>2. flight'["certs"].waiters = flight["certs"].waiters \cup {c}
    BY <1>0, <2>1 DEF DoChan, IInv, TypeOK, Flight, OneFlight, NoFlight
  <2>3. request'[c].pc = "waiting"
    BY <1>1, RequestStepMoves DEF Join, At, RequestMoves
  <2>4. QED
    BY <1>0, <2>1, <2>2, <2>3 DEF WaitsAreHeard, At
<1>2. CASE Cancel(c)
  <2>1. request'[c].pc = "recheck"
    BY <1>2, RequestStepMoves DEF Cancel, At, RequestMoves
  <2>2. \A j \in Flights : /\ flight'[j].waiters = flight[j].waiters \ {c}
                           /\ flight'[j].stage = flight[j].stage
    BY <1>2 DEF Cancel, IInv, TypeOK, Flight
  <2>3. QED
    BY <1>0, <2>1, <2>2 DEF WaitsAreHeard, At
<1>3. CASE Lookup(c) \/ Recheck(c) \/ Return(c) \/ \E kid \in Kids : Arrive(c, kid)
  <2>1. UNCHANGED flight /\ request[c].pc \notin {"waiting", "missed"}
    BY <1>3 DEF Lookup, Recheck, Return, Arrive, SetRequest, At
  <2>2. request'[c].pc # "waiting"
    BY <2>1, RequestStepMoves DEF RequestMoves
  <2>3. QED
    BY <1>0, <2>1, <2>2 DEF WaitsAreHeard, At
<1>4. QED
  BY <1>1, <1>2, <1>3 DEF RequestStep

LEMMA HeardStep == IInv /\ WaitsAreHeard /\ [Next]_vars => WaitsAreHeard'
<1> SUFFICES ASSUME IInv, WaitsAreHeard, [Next]_vars PROVE WaitsAreHeard'
  OBVIOUS
<1>1. CASE CooldownEnds \/ Stop \/ Rotate \/ UNCHANGED vars
  BY <1>1 DEF CooldownEnds, Stop, Rotate, vars, WaitsAreHeard, At
<1>2. QED
  BY <1>1, HeardFlight, HeardLoop, HeardRequest DEF Next

\* The shared fetch of refreshGroup knows every request that waits in refreshOnKidMiss, and
\* the background loop when it waits; and the loop waits for initialFetch while it is under
\* way: nobody waits for an answer that nobody will send.
THEOREM WhoWaitsIsHeard == Spec => []WaitsAreHeard
BY InvariantHolds, HeardInit, HeardStep, PTL DEF Spec

\* How the place of a request can change in any step.
LEMMA RequestNext ==
  ASSUME IInv, WaitsAreHeard, [Next]_vars, NEW c \in Requests
  PROVE  \/ request'[c].pc = request[c].pc
         \/ <<request[c].pc, request'[c].pc>> \in RequestMoves
<1>1. ASSUME NEW k \in Flights, NEW b \in BOOLEAN, Land(k, b), flight[k].stage # "none"
      PROVE  \/ request'[c].pc = request[c].pc
             \/ <<request[c].pc, request'[c].pc>> \in RequestMoves
  <2>1. CASE At(c, "idle")
    BY <1>1, <2>1 DEF Land, Landed
  <2>2. CASE ~ At(c, "idle")
    <3>1. request[c] \in Request \ {Idle}
      BY <2>2, ActiveRequest DEF IInv
    <3>2. request'[c] = [request[c] EXCEPT
                            !.pc = IF c \in flight[k].waiters THEN "recheck" ELSE @,
                            !.during = @ \ {k}]
      BY <1>1, <2>2 DEF Land, Landed
    <3>3. request'[c].pc = IF c \in flight[k].waiters THEN "recheck" ELSE request[c].pc
      BY <3>1, <3>2 DEF Request
    <3>4. c \in flight[k].waiters => request[c].pc = "waiting"
      <4>1. /\ k \in {"initial", "certs"}
            /\ k = "initial" => flight[k].waiters = {Background}
        BY <1>1, OnlyOne
      <4>2. QED
        BY <4>1, RequestsAreApart DEF WaitsAreHeard, At, Background
    <3>5. QED
      BY <3>3, <3>4 DEF RequestMoves
  <2>3. QED
    BY <2>1, <2>2
<1>2. ASSUME NEW k \in Flights, FlightStep(k)
      PROVE  \/ request'[c].pc = request[c].pc
             \/ <<request[c].pc, request'[c].pc>> \in RequestMoves
  BY <1>1, <1>2 DEF FlightStep, Answer, GateOpens, Stamp, Install, FetchFails, GateSuppresses
<1>3. CASE LoopStep \/ CooldownEnds \/ Stop \/ Rotate \/ UNCHANGED vars
  BY <1>3 DEF LoopStep, InitialAttempt, SlowPoll, FetchInitially, BackoffEnds, Tick,
              LoopAbandonsWait, LoopEnds, CooldownEnds, Stop, Rotate, vars
<1>4. ASSUME NEW d \in Requests,
             RequestStep(d) \/ Cancel(d) \/ \E kid \in Kids : Arrive(d, kid)
      PROVE  \/ request'[c].pc = request[c].pc
             \/ <<request[c].pc, request'[c].pc>> \in RequestMoves
  <2>1. CASE d = c
    BY <1>4, <2>1, RequestStepMoves
  <2>2. CASE d # c
    BY <1>4, <2>2 DEF RequestStep, Lookup, Join, Recheck, Return, Cancel, Arrive, SetRequest,
                      IInv, TypeOK
  <2>3. QED
    BY <2>1, <2>2
<1>5. QED
  BY <1>2, <1>3, <1>4 DEF Next

StageMoves ==
  {<<"none", "gate">>, <<"none", "ask">>, <<"gate", "stamp">>, <<"gate", "none">>,
   <<"stamp", "ask">>, <<"ask", "answer">>, <<"ask", "none">>, <<"answer", "none">>}

\* How the stage of a flight can change, in a step of its own and in any step.
LEMMA FlightStepMoves ==
  ASSUME IInv, NEW k \in Flights, FlightStep(k)
  PROVE  /\ <<flight[k].stage, flight'[k].stage>> \in StageMoves
         /\ \A j \in Flights \ {k} : flight'[j] = flight[j]
<1>1. CASE Answer(k) \/ GateOpens(k) \/ Stamp(k)
  BY <1>1 DEF Answer, GateOpens, Stamp, StageMoves, IInv, TypeOK, Flight
<1>2. CASE Install(k) \/ FetchFails(k) \/ GateSuppresses(k)
  <2>1. flight' = [flight EXCEPT ![k] = NoFlight]
    BY <1>2 DEF Install, FetchFails, GateSuppresses, Land
  <2>2. flight[k].stage \in {"gate", "ask", "answer"}
    BY <1>2 DEF Install, FetchFails, GateSuppresses
  <2>3. QED
    BY <2>1, <2>2, NoFlightShape DEF StageMoves, IInv, TypeOK
<1>3. QED
  BY <1>1, <1>2 DEF FlightStep

LEMMA FlightNext ==
  ASSUME IInv, [Next]_vars, NEW k \in Flights
  PROVE  \/ flight'[k].stage = flight[k].stage
         \/ <<flight[k].stage, flight'[k].stage>> \in StageMoves
<1>1. ASSUME NEW j \in Flights, FlightStep(j)
      PROVE  \/ flight'[k].stage = flight[k].stage
             \/ <<flight[k].stage, flight'[k].stage>> \in StageMoves
  BY <1>1, FlightStepMoves
<1>2. CASE LoopStep
  <2>1. CASE InitialAttempt \/ SlowPoll
    <3>1. flight["initial"].stage = "none"
      BY <2>1 DEF InitialAttempt, SlowPoll, IInv, ReadyFirst
    <3>2. QED
      BY <2>1, <3>1 DEF InitialAttempt, SlowPoll, FetchInitially, StageMoves, IInv, TypeOK
  <2>2. CASE Tick \/ LoopAbandonsWait
    BY <2>2 DEF Tick, LoopAbandonsWait, DoChan, StageMoves, IInv, TypeOK, Flight
  <2>3. CASE BackoffEnds \/ LoopEnds
    BY <2>3 DEF BackoffEnds, LoopEnds
  <2>4. QED
    BY <1>2, <2>1, <2>2, <2>3 DEF LoopStep
<1>3. ASSUME NEW c \in Requests,
             RequestStep(c) \/ Cancel(c) \/ \E kid \in Kids : Arrive(c, kid)
      PROVE  \/ flight'[k].stage = flight[k].stage
             \/ <<flight[k].stage, flight'[k].stage>> \in StageMoves
  BY <1>3 DEF StageMoves, RequestStep, Lookup, Join, Recheck, Return, Cancel, Arrive, SetRequest,
              FlightKey, DoChan, IInv, TypeOK, Flight
<1>4. CASE CooldownEnds \/ Stop \/ Rotate \/ UNCHANGED vars
  BY <1>4 DEF CooldownEnds, Stop, Rotate, vars
<1>5. QED
  BY <1>1, <1>2, <1>3, <1>4 DEF Next

LoopMoves ==
  {<<"initial", "fetching">>, <<"initial", "done">>, <<"fetching", "select">>,
   <<"fetching", "backoff">>, <<"fetching", "slowPoll">>, <<"backoff", "initial">>,
   <<"slowPoll", "fetching">>, <<"slowPoll", "done">>, <<"select", "waiting">>,
   <<"select", "done">>, <<"waiting", "select">>}

\* How the place of the background loop can change.
LEMMA LoopStepMoves ==
  ASSUME IInv, LoopStep
  PROVE  <<loop.pc, loop'.pc>> \in LoopMoves
BY DEF LoopStep, InitialAttempt, SlowPoll, FetchInitially, BackoffEnds, Tick,
       LoopAbandonsWait, LoopEnds, LoopTo, LoopMoves, IInv, TypeOK, Loop

LEMMA LoopNext ==
  ASSUME IInv, WaitsAreHeard, [Next]_vars
  PROVE  loop'.pc = loop.pc \/ <<loop.pc, loop'.pc>> \in LoopMoves
<1>1. ASSUME NEW k \in Flights, NEW b \in BOOLEAN, Land(k, b), flight[k].stage # "none"
      PROVE  loop'.pc = loop.pc \/ <<loop.pc, loop'.pc>> \in LoopMoves
  <2>1. /\ k \in {"initial", "certs"}
        /\ k = "initial" => loop.pc = "fetching" /\ flight[k].waiters = {Background}
    BY <1>1, OnlyOne
  <2>2. loop' = AfterFetch(k, b)
    BY <1>1 DEF Land
  <2>3. CASE Background \in flight[k].waiters
    <3>1. loop.pc = IF k = "initial" THEN "fetching" ELSE "waiting"
      BY <2>1, <2>3 DEF WaitsAreHeard
    <3>2. /\ loop'.pc \in {"select", "backoff", "slowPoll"}
          /\ k = "certs" => loop'.pc = "select"
      BY <2>2, <2>3 DEF AfterFetch, Refreshing, IInv, TypeOK, Loop
    <3>3. QED
      BY <2>1, <3>1, <3>2 DEF LoopMoves
  <2>4. CASE Background \notin flight[k].waiters
    BY <2>2, <2>4 DEF AfterFetch
  <2>5. QED
    BY <2>3, <2>4
<1>2. ASSUME NEW k \in Flights, FlightStep(k)
      PROVE  loop'.pc = loop.pc \/ <<loop.pc, loop'.pc>> \in LoopMoves
  BY <1>1, <1>2 DEF FlightStep, Answer, GateOpens, Stamp, Install, FetchFails, GateSuppresses
<1>3. ASSUME \/ \E c \in Requests : RequestStep(c) \/ Cancel(c)
             \/ \E c \in Requests, kid \in Kids : Arrive(c, kid)
             \/ CooldownEnds \/ Stop \/ Rotate \/ UNCHANGED vars
      PROVE  loop' = loop
  BY <1>3 DEF RequestStep, Lookup, Join, Recheck, Return, Cancel, Arrive, SetRequest,
              CooldownEnds, Stop, Rotate, vars
<1>4. QED
  BY <1>2, <1>3, LoopStepMoves DEF Next

(***************************************************************************)
(* What must happen in the end, under the fairness of FairSpec.  The       *)
(* prover cannot look inside ENABLED: []StepsAreEnabled, which says that   *)
(* the guards of the fair steps are what enables them, is a premise, and   *)
(* TLC finds it invariant.                                                 *)
(***************************************************************************)

\* A request goes from one place to the next; when it waits, the flight it has joined goes
\* from one stage to the next, and wakes it when it lands.
LEMMA OneReturns ==
  ASSUME NEW c \in Requests
  PROVE  /\ Spec /\ FairRequest(c) /\ FairFlight("certs")
         /\ []RequestEnabled(c) /\ []FlightEnabled("certs")
         => (~ At(c, "idle") ~> At(c, "idle"))
<1> DEFINE Answered == request[c].pc \in {"accepted", "refused", "notReady"}
           Waits(stage) == At(c, "waiting") /\ flight["certs"].stage = stage
<1>1. IInv /\ WaitsAreHeard =>
        \/ At(c, "idle") \/ Answered \/ At(c, "lookup") \/ At(c, "missed") \/ At(c, "recheck")
        \/ Waits("gate") \/ Waits("stamp") \/ Waits("ask") \/ Waits("answer")
  BY DEF IInv, TypeOK, Request, Idle, At, WaitsAreHeard, OneFlight, NoFlight, Flights, Flight
<1>2. /\ Answered \/ At(c, "lookup") \/ At(c, "missed") \/ At(c, "recheck") => RequestReady(c)
      /\ Waits("gate") \/ Waits("stamp") \/ Waits("ask") \/ Waits("answer")
           => FlightReady("certs")
  BY DEF RequestReady, FlightReady, At
<1>3. IInv /\ WaitsAreHeard /\ [Next]_vars =>
        /\ Answered => Answered' \/ At(c, "idle")'
        /\ At(c, "lookup") => At(c, "lookup")' \/ At(c, "missed")' \/ Answered'
        /\ At(c, "missed") => At(c, "missed")' \/ At(c, "waiting")'
        /\ At(c, "recheck") => At(c, "recheck")' \/ Answered'
  BY RequestNext DEF RequestMoves, At
<1>4. IInv /\ <<RequestStep(c)>>_vars =>
        /\ Answered => At(c, "idle")'
        /\ At(c, "lookup") => At(c, "missed")' \/ Answered'
        /\ At(c, "missed") => At(c, "waiting")'
        /\ At(c, "recheck") => Answered'
  BY RequestStepMoves DEF RequestMoves, At
<1>5. IInv /\ WaitsAreHeard /\ IInv' /\ WaitsAreHeard' /\ [Next]_vars =>
        /\ Waits("gate") => Waits("gate")' \/ Waits("stamp")' \/ At(c, "recheck")'
        /\ Waits("stamp") => Waits("stamp")' \/ Waits("ask")' \/ At(c, "recheck")'
        /\ Waits("ask") => Waits("ask")' \/ Waits("answer")' \/ At(c, "recheck")'
        /\ Waits("answer") => Waits("answer")' \/ At(c, "recheck")'
  <2> SUFFICES ASSUME IInv, WaitsAreHeard, IInv', WaitsAreHeard', [Next]_vars, At(c, "waiting"),
                      ~ At(c, "recheck")'
               PROVE  /\ Waits("gate") => Waits("gate")' \/ Waits("stamp")'
                      /\ Waits("stamp") => Waits("stamp")' \/ Waits("ask")'
                      /\ Waits("ask") => Waits("ask")' \/ Waits("answer")'
                      /\ Waits("answer") => Waits("answer")'
    OBVIOUS
  <2>1. At(c, "waiting")'
    BY RequestNext DEF RequestMoves, At
  <2>2. "certs" \in Flights /\ NoFlight.waiters = {}
    BY DEF Flights, NoFlight
  <2>3. flight'["certs"].stage # "none"
    BY <2>1, <2>2 DEF WaitsAreHeard, IInv, OneFlight
  <2>4. \/ flight'["certs"].stage = flight["certs"].stage
        \/ <<flight["certs"].stage, flight'["certs"].stage>> \in StageMoves
    BY <2>2, FlightNext
  <2>5. QED
    BY <2>1, <2>3, <2>4 DEF StageMoves
<1>6. IInv /\ <<FlightStep("certs")>>_vars =>
        /\ ~ Waits("gate") \/ ~ Waits("gate")'
        /\ ~ Waits("stamp") \/ ~ Waits("stamp")'
        /\ ~ Waits("ask") \/ ~ Waits("ask")'
        /\ ~ Waits("answer") \/ ~ Waits("answer")'
  BY FlightStepMoves DEF StageMoves, Flights
<1>7. At(c, "waiting")' /\ IInv' /\ WaitsAreHeard' =>
        Waits("gate")' \/ Waits("stamp")' \/ Waits("ask")' \/ Waits("answer")'
  BY DEF IInv, TypeOK, At, WaitsAreHeard, OneFlight, NoFlight, Flights, Flight
<1>8. QED
  BY <1>1, <1>2, <1>3, <1>4, <1>5, <1>6, <1>7, InvariantHolds, WhoWaitsIsHeard, PTL
     DEF Spec, FairRequest, FairFlight, RequestEnabled, FlightEnabled

\* Every call of Validate returns, whatever Keycloak answers, whoever cancels and whether or
\* not the validator is stopped: no request waits for ever in refreshOnKidMiss.
THEOREM RequestsAnswered == FairSpec /\ []StepsAreEnabled => RequestsReturn
<1>1. SUFFICES ASSUME NEW c \in Requests
               PROVE  FairSpec /\ []StepsAreEnabled => (~ At(c, "idle") ~> At(c, "idle"))
  BY DEF RequestsReturn
<1>2. StepsAreEnabled => RequestEnabled(c) /\ FlightEnabled("certs")
  BY DEF StepsAreEnabled
<1>3. FairSpec => Spec /\ FairRequest(c) /\ FairFlight("certs")
  BY DEF FairSpec
<1>4. QED
  BY <1>2, <1>3, OneReturns, PTL

\* A validator that was told to stop stays so.
LEMMA StoppingStays == stopping /\ [Next]_vars => stopping'
BY DEF Next, vars, FlightStep, Answer, Install, FetchFails, GateSuppresses, GateOpens, Stamp,
       LoopStep, InitialAttempt, SlowPoll, FetchInitially, BackoffEnds, Tick,
       LoopAbandonsWait, LoopEnds, RequestStep, Lookup, Join, Recheck, Return, Cancel,
       Arrive, SetRequest, CooldownEnds, Stop, Rotate

\* When the context is cancelled the background loop returns (Stop waits for it): from a
\* fetch, a backoff, a poll or the wait for a refresh it comes to a select that sees the
\* cancelled context.
THEOREM StopReturns == FairSpec /\ []StepsAreEnabled => StopEnds
<1> DEFINE Loops(pc) == stopping /\ loop.pc = pc
           Fetches(stage) == Loops("fetching") /\ flight["initial"].stage = stage
<1>1. IInv /\ WaitsAreHeard /\ stopping =>
        \/ loop.pc = "done" \/ LoopMayEnd \/ Loops("backoff") \/ Loops("waiting")
        \/ Fetches("ask") \/ Fetches("answer")
  BY DEF IInv, TypeOK, Loop, LoopMayEnd, WaitsAreHeard, OneFlight, Flights, Flight
<1>2. /\ Loops("backoff") \/ Loops("waiting") => LoopReady
      /\ Fetches("ask") \/ Fetches("answer") => FlightReady("initial")
  BY DEF LoopReady, FlightReady
<1>3. IInv /\ WaitsAreHeard /\ stopping /\ [Next]_vars =>
        /\ Loops("backoff") => Loops("backoff")' \/ LoopMayEnd'
        /\ Loops("waiting") => Loops("waiting")' \/ LoopMayEnd'
        /\ loop.pc = "done" => (loop.pc = "done")'
  BY LoopNext, StoppingStays DEF LoopMoves, LoopMayEnd
<1>4. IInv /\ stopping /\ <<LoopStep>>_vars =>
        /\ ~ Loops("backoff") \/ ~ Loops("backoff")'
        /\ ~ Loops("waiting") \/ ~ Loops("waiting")'
  BY LoopStepMoves DEF LoopMoves
<1>5. IInv /\ WaitsAreHeard /\ IInv' /\ WaitsAreHeard' /\ [Next]_vars =>
        /\ Fetches("ask") => Fetches("ask")' \/ Fetches("answer")' \/ Loops("backoff")'
                             \/ LoopMayEnd'
        /\ Fetches("answer") => Fetches("answer")' \/ Loops("backoff")' \/ LoopMayEnd'
  <2> SUFFICES ASSUME IInv, WaitsAreHeard, IInv', WaitsAreHeard', [Next]_vars,
                      Loops("fetching")
               PROVE  /\ Fetches("ask") => Fetches("ask")' \/ Fetches("answer")'
                                           \/ Loops("backoff")' \/ LoopMayEnd'
                      /\ Fetches("answer") => Fetches("answer")' \/ Loops("backoff")'
                                              \/ LoopMayEnd'
    OBVIOUS
  <2>1. stopping' /\ loop'.pc \in {"fetching", "backoff", "select", "slowPoll"}
    BY LoopNext, StoppingStays DEF LoopMoves
  <2>2. loop'.pc = "fetching" => flight'["initial"].stage # "none"
    BY DEF WaitsAreHeard
  <2>3. \/ flight'["initial"].stage = flight["initial"].stage
        \/ <<flight["initial"].stage, flight'["initial"].stage>> \in StageMoves
    BY FlightNext DEF Flights
  <2>4. QED
    BY <2>1, <2>2, <2>3 DEF StageMoves, LoopMayEnd
<1>6. IInv /\ <<FlightStep("initial")>>_vars =>
        /\ ~ Fetches("ask") \/ ~ Fetches("ask")'
        /\ ~ Fetches("answer") \/ ~ Fetches("answer")'
  BY FlightStepMoves DEF StageMoves, Flights
<1>7. IInv /\ <<LoopEnds>>_vars => (loop.pc = "done")'
  BY DEF LoopEnds, LoopTo, IInv, TypeOK, Loop
<1>8. StepsAreEnabled => LoopEnabled /\ FlightEnabled("initial")
  BY DEF StepsAreEnabled
<1>9. FairSpec => Spec /\ FairLoop /\ FairFlight("initial")
  BY DEF FairSpec
<1>10. QED
  BY <1>1, <1>2, <1>3, <1>4, <1>5, <1>6, <1>7, <1>8, <1>9, StoppingStays, InvariantHolds,
     WhoWaitsIsHeard, PTL
     DEF Spec, FairLoop, FairFlight, LoopEnabled, FlightEnabled, StopEnds

\* The loop ends when it is told to.
EndsWhenStopped == loop.pc = "done" => stopping

LEMMA EndsStopped == Spec => []EndsWhenStopped
<1>1. Init => EndsWhenStopped
  BY DEF Init, EndsWhenStopped
<1>2. IInv /\ WaitsAreHeard /\ EndsWhenStopped /\ [Next]_vars => EndsWhenStopped'
  <2> SUFFICES ASSUME IInv, WaitsAreHeard, EndsWhenStopped, [Next]_vars,
                      (loop.pc = "done")', loop.pc # "done"
               PROVE  stopping'
    BY StoppingStays DEF EndsWhenStopped
  <2>1. loop.pc \in {"initial", "slowPoll", "select"}
    BY LoopNext DEF LoopMoves
  <2>2. ASSUME NEW k \in Flights, FlightStep(k) PROVE FALSE
    <3>1. CASE Background \in flight[k].waiters /\ Land(k, TRUE)
      BY <3>1 DEF Land, AfterFetch, Refreshing
    <3>2. CASE Background \in flight[k].waiters /\ Land(k, FALSE)
      BY <3>2 DEF Land, AfterFetch, Refreshing, IInv, TypeOK, Loop
    <3>3. CASE Background \notin flight[k].waiters \/ UNCHANGED loop
      BY <2>2, <3>3 DEF FlightStep, Answer, Install, FetchFails, GateSuppresses, GateOpens,
                        Stamp, Land, AfterFetch
    <3>4. QED
      BY <2>2, <3>1, <3>2, <3>3 DEF FlightStep, Answer, Install, FetchFails, GateSuppresses,
                                    GateOpens, Stamp
  <2>3. LoopStep
    BY <2>2 DEF Next, vars, RequestStep, Lookup, Join, Recheck, Return, Cancel, Arrive,
                SetRequest, CooldownEnds, Stop, Rotate
  <2>4. QED
    BY <2>3 DEF LoopStep, InitialAttempt, SlowPoll, FetchInitially, BackoffEnds, Tick,
                LoopAbandonsWait, LoopEnds, LoopTo, IInv, TypeOK, Loop
<1>3. QED
  BY <1>1, <1>2, InvariantHolds, WhoWaitsIsHeard, PTL DEF Spec

\* Keycloak is asked again and again: at first by initialFetch ...
LEMMA AskedFirst ==
  Spec /\ FairLoop /\ FairFlight("initial") /\ []LoopEnabled /\ []FlightEnabled("initial")
    => (<>[](~ ready /\ ~ stopping) => []<>AnswerReady("initial"))
<1> DEFINE Fetches(stage) == loop.pc = "fetching" /\ flight["initial"].stage = stage
           Quiet == ~ ready /\ ~ stopping
           Known == IInv /\ WaitsAreHeard /\ EndsWhenStopped
<1>0. "initial" \in Flights
  BY DEF Flights
<1>1. Known /\ Quiet =>
        \/ loop.pc \in {"initial", "backoff", "slowPoll"} \/ Fetches("answer")
        \/ AnswerReady("initial")
  <2> SUFFICES ASSUME Known, Quiet, loop.pc = "fetching"
               PROVE  flight["initial"].stage \in {"ask", "answer"}
    BY DEF IInv, TypeOK, Loop, ReadyFirst, EndsWhenStopped, AnswerReady
  <2>1. flight["initial"].stage \in {"none", "gate", "stamp", "ask", "answer"}
    BY <1>0 DEF IInv, TypeOK, Flight
  <2>2. QED
    BY <2>1 DEF IInv, OneFlight, WaitsAreHeard
<1>2. /\ loop.pc = "initial" \/ loop.pc = "backoff" \/ loop.pc = "slowPoll" => LoopReady
      /\ Fetches("answer") => FlightReady("initial")
      /\ Fetches("ask") /\ Quiet => AnswerReady("initial")
  BY DEF LoopReady, FlightReady, AnswerReady
<1>3. Known /\ Known' /\ Quiet' /\ [Next]_vars =>
        /\ loop.pc = "initial" => (loop.pc = "initial")' \/ Fetches("ask")'
        /\ loop.pc = "backoff" => (loop.pc = "backoff")' \/ (loop.pc = "initial")'
        /\ loop.pc = "slowPoll" => (loop.pc = "slowPoll")' \/ Fetches("ask")'
        /\ Fetches("answer") => Fetches("answer")' \/ (loop.pc = "backoff")'
                                \/ (loop.pc = "slowPoll")'
  <2> SUFFICES ASSUME Known, Known', Quiet', [Next]_vars
               PROVE  /\ loop.pc = "initial" => loop'.pc = "initial" \/ Fetches("ask")'
                      /\ loop.pc = "backoff" => loop'.pc = "backoff" \/ loop'.pc = "initial"
                      /\ loop.pc = "slowPoll" => loop'.pc = "slowPoll" \/ Fetches("ask")'
                      /\ Fetches("answer") => Fetches("answer")' \/ loop'.pc = "backoff"
                                              \/ loop'.pc = "slowPoll"
    OBVIOUS
  <2>1. /\ loop'.pc = loop.pc \/ <<loop.pc, loop'.pc>> \in LoopMoves
        /\ loop'.pc # "done" /\ loop'.pc # "select"
    BY LoopNext DEF EndsWhenStopped, IInv, ReadyFirst
  <2>2. /\ flight'["initial"].stage # "none" <=> loop'.pc = "fetching"
        /\ flight["initial"].stage # "none" <=> loop.pc = "fetching"
        /\ flight'["initial"].stage \notin {"gate", "stamp"}
    BY DEF WaitsAreHeard, IInv, OneFlight
  <2>3. \/ flight'["initial"].stage = flight["initial"].stage
        \/ <<flight["initial"].stage, flight'["initial"].stage>> \in StageMoves
    BY <1>0, FlightNext
  <2>4. QED
    BY <2>1, <2>2, <2>3 DEF LoopMoves, StageMoves
<1>4. IInv /\ <<LoopStep>>_vars =>
        /\ ~ (loop.pc = "initial") \/ ~ (loop.pc = "initial")'
        /\ ~ (loop.pc = "backoff") \/ ~ (loop.pc = "backoff")'
        /\ ~ (loop.pc = "slowPoll") \/ ~ (loop.pc = "slowPoll")'
  BY LoopStepMoves DEF LoopMoves
<1>5. IInv /\ <<FlightStep("initial")>>_vars => ~ Fetches("answer") \/ ~ Fetches("answer")'
  BY <1>0, FlightStepMoves DEF StageMoves
<1>6. loop.pc \in {"initial", "backoff", "slowPoll"} =>
        loop.pc = "initial" \/ loop.pc = "backoff" \/ loop.pc = "slowPoll"
  OBVIOUS
<1>7. QED
  BY <1>1, <1>2, <1>3, <1>4, <1>5, <1>6, InvariantHolds, WhoWaitsIsHeard, EndsStopped, PTL
     DEF Spec, FairLoop, FairFlight, LoopEnabled, FlightEnabled

\* A flight is held up at the gate only while the cooldown lasts, which a fetch starts.
LEMMA GateMoves ==
  ASSUME IInv, [Next]_vars, ~ cooling
  PROVE  /\ flight["certs"].stage = "gate" => flight'["certs"].stage \in {"gate", "stamp"}
         /\ cooling' => flight'["certs"].stage = "ask"
<1>0. "certs" \in Flights
  BY DEF Flights
<1>1. ASSUME NEW k \in Flights, FlightStep(k)
      PROVE  /\ flight["certs"].stage = "gate" => flight'["certs"].stage \in {"gate", "stamp"}
             /\ cooling' => flight'["certs"].stage = "ask"
  <2>1. CASE k # "certs"
    <3>1. flight'["certs"] = flight["certs"]
      BY <1>0, <1>1, <2>1, FlightStepMoves
    <3>2. flight[k].stage # "stamp"
      BY <2>1 DEF IInv, OneFlight, Flights, NoFlight
    <3>3. cooling' = cooling
      BY <1>1, <3>2 DEF FlightStep, Answer, Install, FetchFails, GateSuppresses, GateOpens, Stamp
    <3>4. QED
      BY <3>1, <3>3
  <2>2. CASE k = "certs"
    <3>1. CASE GateOpens(k) \/ Stamp(k)
      BY <1>0, <2>2, <3>1 DEF GateOpens, Stamp, IInv, TypeOK, Flight
    <3>2. CASE Answer(k) \/ Install(k) \/ FetchFails(k) \/ GateSuppresses(k)
      <4>1. flight["certs"].stage # "gate"
        BY <2>2, <3>2 DEF Answer, Install, FetchFails, GateSuppresses
      <4>2. cooling' = cooling
        BY <3>2 DEF Answer, Install, FetchFails, GateSuppresses
      <4>3. QED
        BY <4>1, <4>2
    <3>3. QED
      BY <1>1, <3>1, <3>2 DEF FlightStep
  <2>3. QED
    BY <2>1, <2>2
<1>2. CASE ~ \E k \in Flights : FlightStep(k)
  <2>1. cooling' = cooling \/ CooldownEnds
    BY <1>2 DEF Next, vars, LoopStep, InitialAttempt, SlowPoll, FetchInitially, BackoffEnds, Tick,
                LoopAbandonsWait, LoopEnds, RequestStep, Lookup, Join, Recheck, Return,
                Cancel, Arrive, SetRequest, Stop, Rotate
  <2>2. ~ cooling'
    BY <2>1 DEF CooldownEnds
  <2>3. ASSUME flight["certs"].stage = "gate" PROVE flight'["certs"].stage = "gate"
    <3>1. CASE LoopStep
      <4>1. ready
        BY <1>0, <2>3 DEF IInv, OneFlight, NoFlight
      <4>2. ~ InitialAttempt /\ ~ SlowPoll
        BY <4>1 DEF InitialAttempt, SlowPoll, IInv, ReadyFirst
      <4>3. QED
        BY <1>0, <2>3, <3>1, <4>2 DEF LoopStep, Tick, LoopAbandonsWait, BackoffEnds, LoopEnds,
                                      DoChan, IInv, TypeOK, Flight
    <3>2. ASSUME NEW c \in Requests,
                 RequestStep(c) \/ Cancel(c) \/ \E kid \in Kids : Arrive(c, kid)
          PROVE  flight'["certs"].stage = "gate"
      BY <1>0, <2>3, <3>2
         DEF RequestStep, Lookup, Join, Recheck, Return, FlightKey, Cancel, Arrive, SetRequest,
             DoChan, IInv, TypeOK, Flight
    <3>3. CASE CooldownEnds \/ Stop \/ Rotate \/ UNCHANGED vars
      BY <2>3, <3>3 DEF CooldownEnds, Stop, Rotate, vars
    <3>4. QED
      BY <1>2, <3>1, <3>2, <3>3 DEF Next
  <2>4. QED
    BY <2>2, <2>3
<1>3. QED
  BY <1>1, <1>2

\* ... and then by the refreshes, those the cooldown has suppressed notwithstanding.
LEMMA AskedLater ==
  Spec /\ FairLoop /\ FairTime /\ FairFlight("certs")
  /\ []LoopEnabled /\ []FlightEnabled("certs") /\ []TimeEnabled
    => (<>[](ready /\ ~ stopping) => []<>AnswerReady("certs"))
<1> DEFINE Certs(stage) == flight["certs"].stage = stage
           Quiet == ready /\ ~ stopping
           Known == IInv /\ WaitsAreHeard /\ EndsWhenStopped
<1>0. "certs" \in Flights
  BY DEF Flights
<1>1. Known =>
        \/ Certs("none") \/ Certs("gate") \/ Certs("stamp") \/ Certs("ask") \/ Certs("answer")
  BY <1>0 DEF IInv, TypeOK, Flight
<1>2. /\ Certs("gate") \/ Certs("stamp") \/ Certs("answer") => FlightReady("certs")
      /\ Certs("ask") /\ Quiet => AnswerReady("certs")
      /\ Known /\ Quiet /\ Certs("none") => LoopReady
  <2>1. Known /\ Quiet /\ Certs("none") => loop.pc = "select"
    BY DEF IInv, TypeOK, Loop, ReadyFirst, EndsWhenStopped, WaitsAreHeard, OneFlight, NoFlight,
           Flights
  <2>2. QED
    BY <2>1 DEF FlightReady, AnswerReady, LoopReady
<1>3. Known /\ [Next]_vars =>
        /\ Certs("none") => Certs("none")' \/ Certs("gate")' \/ Certs("ask")'
        /\ ~ cooling => ~ cooling' \/ Certs("ask")'
        /\ Certs("gate") /\ ~ cooling => Certs("gate")' \/ Certs("stamp")'
        /\ Certs("stamp") => Certs("stamp")' \/ Certs("ask")'
        /\ Certs("answer") => Certs("answer")' \/ Certs("none")'
  BY <1>0, FlightNext, GateMoves DEF StageMoves
<1>4. Known /\ Known' /\ Quiet /\ Quiet' /\ <<LoopStep>>_vars => ~ Certs("none") \/ ~ Certs("none")'
  <2> SUFFICES ASSUME Known, Known', Quiet, Quiet', LoopStep, Certs("none") PROVE ~ Certs("none")'
    OBVIOUS
  <2>1. loop.pc = "select"
    BY DEF IInv, TypeOK, Loop, ReadyFirst, EndsWhenStopped, WaitsAreHeard, OneFlight, NoFlight,
           Flights
  <2>2. loop'.pc = "waiting"
    BY <2>1, LoopStepMoves DEF LoopMoves, EndsWhenStopped
  <2>3. QED
    BY <2>2 DEF WaitsAreHeard, IInv, OneFlight, NoFlight, Flights
<1>5. IInv /\ <<FlightStep("certs")>>_vars =>
        /\ ~ Certs("gate") \/ ~ Certs("gate")'
        /\ ~ Certs("stamp") \/ ~ Certs("stamp")'
        /\ ~ Certs("answer") \/ ~ Certs("answer")'
  BY <1>0, FlightStepMoves DEF StageMoves
<1>6. <<CooldownEnds>>_vars => ~ cooling'
  BY DEF CooldownEnds
<1>7. QED
  BY <1>1, <1>2, <1>3, <1>4, <1>5, <1>6, InvariantHolds, WhoWaitsIsHeard, EndsStopped, PTL
     DEF Spec, FairLoop, FairTime, FairFlight, LoopEnabled, TimeEnabled, FlightEnabled

\* The validator never goes back to not being ready.
LEMMA ReadyStays == ready /\ [Next]_vars => ready'
BY DEF Next, vars, FlightStep, Answer, Install, FetchFails, GateSuppresses, GateOpens, Stamp,
       LoopStep, InitialAttempt, SlowPoll, FetchInitially, BackoffEnds, Tick,
       LoopAbandonsWait, LoopEnds, RequestStep, Lookup, Join, Recheck, Return, Cancel,
       Arrive, SetRequest, CooldownEnds, Stop, Rotate

\* Keycloak publishes set r; set r is in use; the flight brings set r.
RealmIs(r) == realm = r
CacheIs(r) == cache = r

Holds(k, r) == flight[k].stage = "answer" /\ flight[k].set = r

\* The answer to a fetch that is made when the realm's keys have settled is installed.
LEMMA AnswerSteps ==
  ASSUME NEW r \in 1..LastSet, KidsIn(r) # {}, NEW k \in {"initial", "certs"}
  PROVE  /\ IInv /\ RealmIs(r) /\ <<Answer(k)>>_vars => Holds(k, r)'
         /\ IInv /\ [Next]_vars /\ Holds(k, r) => Holds(k, r)' \/ CacheIs(r)'
         /\ IInv /\ <<FlightStep(k)>>_vars /\ Holds(k, r) => ~ Holds(k, r)'
         /\ Holds(k, r) => FlightReady(k)
<1> USE DEF Holds
<1>0. k \in Flights /\ r \in Nat
  BY DEF Flights
<1>1. IInv /\ RealmIs(r) /\ <<Answer(k)>>_vars => Holds(k, r)'
  BY <1>0 DEF Answer, RealmIs, IInv, TypeOK, Flight
<1>2. IInv /\ [Next]_vars /\ Holds(k, r) => Holds(k, r)' \/ CacheIs(r)'
  <2> SUFFICES ASSUME IInv, [Next]_vars, Holds(k, r), ~ Holds(k, r)' PROVE cache' = r
    BY DEF CacheIs
  <2>1. FlightStep(k)
    <3>1. ASSUME NEW j \in Flights, j # k, FlightStep(j) PROVE flight'[k] = flight[k]
      BY <1>0, <3>1, FlightStepMoves
    <3>2. ASSUME LoopStep PROVE flight'[k].stage = "answer" /\ flight'[k].set = flight[k].set
      <4>1. CASE InitialAttempt \/ SlowPoll
        <5>1. flight["initial"].stage = "none"
          BY <4>1 DEF InitialAttempt, SlowPoll, IInv, ReadyFirst
        <5>2. QED
          BY <1>0, <4>1, <5>1 DEF InitialAttempt, SlowPoll, FetchInitially, IInv, TypeOK
      <4>2. CASE Tick \/ LoopAbandonsWait
        BY <1>0, <4>2 DEF Tick, LoopAbandonsWait, DoChan, IInv, TypeOK, Flight
      <4>3. CASE BackoffEnds \/ LoopEnds
        BY <4>3 DEF BackoffEnds, LoopEnds
      <4>4. QED
        BY <3>2, <4>1, <4>2, <4>3 DEF LoopStep
    <3>3. ASSUME NEW c \in Requests,
                 RequestStep(c) \/ Cancel(c) \/ \E kid \in Kids : Arrive(c, kid)
          PROVE  flight'[k].stage = "answer" /\ flight'[k].set = flight[k].set
      BY <1>0, <3>3 DEF RequestStep, Lookup, Join, Recheck, Return, FlightKey, Cancel, Arrive,
                        SetRequest, DoChan, IInv, TypeOK, Flight
    <3>4. CASE CooldownEnds \/ Stop \/ Rotate \/ UNCHANGED vars
      BY <3>4 DEF CooldownEnds, Stop, Rotate, vars
    <3>5. QED
      BY <3>1, <3>2, <3>3, <3>4 DEF Next
  <2>2. Install(k)
    BY <2>1 DEF FlightStep, Answer, FetchFails, GateSuppresses, GateOpens, Stamp
  <2>3. QED
    BY <2>2 DEF Install
<1>3. IInv /\ <<FlightStep(k)>>_vars /\ Holds(k, r) => ~ Holds(k, r)'
  BY <1>0, FlightStepMoves DEF StageMoves
<1>4. Holds(k, r) => FlightReady(k)
  BY DEF FlightReady
<1>5. QED
  BY <1>1, <1>2, <1>3, <1>4

\* The newest set stays in use: nothing older is installed over it.
LEMMA CachedStays ==
  ASSUME NEW r \in 1..LastSet
  PROVE  IInv /\ IInv' /\ [Next]_vars /\ RealmIs(r)' /\ CacheIs(r) => CacheIs(r)'
<1> SUFFICES ASSUME IInv, IInv', [Next]_vars, realm' = r, cache = r, cache' # r PROVE FALSE
  BY DEF RealmIs, CacheIs
<1>1. cache' >= cache /\ cache' \in Nat
  BY CacheStep, LastSetIsNat DEF IInv, TypeOK
<1>2. cache' <= r
  BY DEF IInv, SetsInOrder
<1>3. QED
  BY <1>1, <1>2

\* One answer after the last rotation is enough, be it initialFetch that asks ...
LEMMA InitialInstalls ==
  ASSUME NEW r \in 1..LastSet, KidsIn(r) # {}
  PROVE  Spec /\ FairFlight("initial") /\ []FlightEnabled("initial") /\ <>[]RealmIs(r)
         /\ []<>AnswerReady("initial") => <>[]CacheIs(r)
<1>1. /\ IInv /\ RealmIs(r) /\ <<Answer("initial")>>_vars => Holds("initial", r)'
      /\ IInv /\ [Next]_vars /\ Holds("initial", r) => Holds("initial", r)' \/ CacheIs(r)'
      /\ IInv /\ <<FlightStep("initial")>>_vars /\ Holds("initial", r) => ~ Holds("initial", r)'
      /\ Holds("initial", r) => FlightReady("initial")
  BY AnswerSteps
<1>2. QED
  BY <1>1, CachedStays, InvariantHolds, PTL DEF Spec, FairFlight, FlightEnabled

\* ... or a refresh.
LEMMA RefreshInstalls ==
  ASSUME NEW r \in 1..LastSet, KidsIn(r) # {}
  PROVE  Spec /\ FairFlight("certs") /\ []FlightEnabled("certs") /\ <>[]RealmIs(r)
         /\ []<>AnswerReady("certs") => <>[]CacheIs(r)
<1>1. /\ IInv /\ RealmIs(r) /\ <<Answer("certs")>>_vars => Holds("certs", r)'
      /\ IInv /\ [Next]_vars /\ Holds("certs", r) => Holds("certs", r)' \/ CacheIs(r)'
      /\ IInv /\ <<FlightStep("certs")>>_vars /\ Holds("certs", r) => ~ Holds("certs", r)'
      /\ Holds("certs", r) => FlightReady("certs")
  BY AnswerSteps
<1>2. QED
  BY <1>1, CachedStays, InvariantHolds, PTL DEF Spec, FairFlight, FlightEnabled

\* Once Keycloak has made its last rotation, to any set r, the validator comes to have that
\* set and keeps it, unless r has no key it can use or it is stopped: however many fetches
\* fail, and although the cooldown suppresses refreshes.  That there is a last rotation is a
\* premise: in the model LastSet bounds them.
THEOREM KeysCatchUp ==
  ASSUME NEW r \in 1..LastSet
  PROVE  FairSpec /\ []StepsAreEnabled /\ <>[]RealmIs(r) => CatchesUp
<1> DEFINE Good == cache = realm \/ KidsIn(realm) = {} \/ stopping
<1>1. CASE KidsIn(r) = {}
  <2>1. RealmIs(r) => Good
    BY <1>1 DEF RealmIs
  <2>2. QED
    BY <2>1, PTL DEF CatchesUp
<1>2. CASE KidsIn(r) # {}
  <2>1. StepsAreEnabled => /\ LoopEnabled /\ FlightEnabled("initial") /\ FlightEnabled("certs")
                           /\ TimeEnabled
    BY DEF StepsAreEnabled
  <2>2. FairSpec => Spec /\ FairLoop /\ FairTime /\ FairFlight("initial") /\ FairFlight("certs")
    BY DEF FairSpec
  <2>3. /\ RealmIs(r) /\ CacheIs(r) => Good
        /\ stopping => Good
    BY DEF RealmIs, CacheIs
  <2>4. QED
    BY <1>2, <2>1, <2>2, <2>3, InitialInstalls, RefreshInstalls, AskedFirst, AskedLater,
       ReadyStays, StoppingStays, PTL
       DEF Spec, CatchesUp
<1>3. QED
  BY <1>1, <1>2
=============================================================================
