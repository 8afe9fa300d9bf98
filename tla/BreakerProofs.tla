--------------------------- MODULE BreakerProofs ---------------------------
(***************************************************************************)
(* Safety of Breaker for every number of clients and every pair of times   *)
(* of which the call's timeout is the shorter.                             *)
(*                                                                         *)
(* What makes a half-open breaker's probe the only call under way is a     *)
(* race between two timers: as long as the breaker is open, every call     *)
(* still pending has less time left than the breaker.                      *)
(***************************************************************************)
EXTENDS Breaker, TLAPS

Pending(q) == call[q].leg # "none"

\* The time the calls before this one may have taken.
Before(leg) ==
  IF leg = "subscribe" THEN Timeout + Timeout ELSE IF leg = "list" THEN Timeout ELSE 0

Ages ==
  \A q \in Requests :
    /\ call[q].age <= Timeout
    /\ ~Pending(q) => waited[q] = 0
    /\ waited[q] <= Before(call[q].leg) + call[q].age

TimersRace ==
  /\ pendingClose => state = "halfOpen"
  /\ state = "open" => \A q \in Requests : Pending(q) => call[q].age + rest > Timeout

\* The call a half-open breaker lets through is the only one.
Probe ==
  state = "halfOpen" =>
    IF pendingClose THEN \A q \in Requests : ~Pending(q)
    ELSE \E q \in Requests : Pending(q) /\ \A r \in Requests : Pending(r) => r = q

Healthy ==
  healthy => /\ up /\ state = "closed"
             /\ \A q \in Requests :
                  ~call[q].lost /\ call[q].sound /\ status[q] \in {0, 201}

IInv == TypeOK /\ Ages /\ TimersRace /\ Probe /\ Healthy
-----------------------------------------------------------------------------
LEMMA InitIInv == Init => IInv
<1> SUFFICES ASSUME Init PROVE IInv
  OBVIOUS
<1>1. TypeOK
  <2>1. NoCall \in [leg : Legs \cup {"none"}, age : Nat, lost : BOOLEAN,
                    sound : BOOLEAN]
    BY DEF NoCall
  <2> QED
    BY <2>1 DEF Init, TypeOK
<1>2. \A q \in Requests : /\ call[q].leg = "none" /\ call[q].age = 0
                          /\ call[q].lost = FALSE /\ call[q].sound = TRUE
  BY DEF Init, NoCall
<1>3. Ages
  BY <1>2, BreakerAssumption DEF Init, Ages, Pending, Before
<1>4. TimersRace /\ Probe /\ Healthy
  BY <1>2 DEF Init, TimersRace, Probe, Healthy
<1> QED
  BY <1>1, <1>3, <1>4 DEF IInv

LEMMA StutterKeeps == ASSUME IInv, UNCHANGED vars PROVE IInv'
  BY DEF IInv, TypeOK, Ages, TimersRace, Probe, Healthy, Pending, Before, vars,
         breaker, answers, gateway
-----------------------------------------------------------------------------
(* What a step of one request does: it sends its next call, or is answered. *)
Call == [leg : Legs \cup {"none"}, age : Nat, lost : BOOLEAN, sound : BOOLEAN]

Typed ==
  /\ call' \in [Requests -> Call]
  /\ status' \in [Requests -> {0, 201, 500, 503}]
  /\ waited' \in [Requests -> Nat]

Others(q) ==
  \A r \in Requests : r # q =>
    call'[r] = call[r] /\ status'[r] = status[r] /\ waited'[r] = waited[r]

SentBy(q, leg, sound) ==
  /\ Typed /\ Others(q)
  /\ call'[q].leg = leg /\ call'[q].age = 0 /\ (call'[q].lost => ~up)
  /\ call'[q].sound = sound
  /\ status'[q] = 0 /\ waited'[q] = waited[q]

AnsweredWith(q, code) ==
  /\ Typed /\ Others(q)
  /\ call'[q] = NoCall /\ status'[q] = code /\ waited'[q] = 0

LEMMA TypeKept ==
  ASSUME TypeOK, Typed, state' \in {"closed", "open", "halfOpen"},
         pendingClose' \in BOOLEAN, rest' \in Nat, product' \in BOOLEAN,
         healthy' \in BOOLEAN, UNCHANGED up
  PROVE  TypeOK'
  BY DEF TypeOK, Typed, Call

LEMMA SendEffect ==
  ASSUME TypeOK, NEW q \in Requests, NEW leg \in Legs, NEW sound \in BOOLEAN,
         Send(q, leg, sound)
  PROVE  SentBy(q, leg, sound)
<1>1. PICK lost \in (IF up THEN {FALSE} ELSE BOOLEAN) :
        call' = [call EXCEPT ![q] = [leg |-> leg, age |-> 0, lost |-> lost,
                                     sound |-> sound]]
  BY DEF Send
<1> DEFINE k == [leg |-> leg, age |-> 0, lost |-> lost, sound |-> sound]
<1>2. k \in Call /\ k.leg = leg /\ k.age = 0 /\ k.sound = sound
  BY DEF Call, TypeOK
<1>3. k.lost => ~up
  OBVIOUS
<1>4. call' = [call EXCEPT ![q] = k]
  BY <1>1
<1> HIDE DEF k
<1>5. call' \in [Requests -> Call] /\ call'[q] = k
      /\ \A r \in Requests : r # q => call'[r] = call[r]
  BY <1>2, <1>4 DEF TypeOK, Call
<1>6. /\ status' \in [Requests -> {0, 201, 500, 503}] /\ status'[q] = 0
      /\ \A r \in Requests : r # q => status'[r] = status[r]
      /\ waited' = waited
  BY DEF TypeOK, Send
<1> QED
  BY <1>2, <1>3, <1>5, <1>6 DEF SentBy, Typed, Others, TypeOK

LEMMA AnswerEffect ==
  ASSUME TypeOK, NEW q \in Requests, NEW code \in {201, 500, 503}, Answer(q, code)
  PROVE  AnsweredWith(q, code)
  BY DEF TypeOK, Answer, AnsweredWith, Typed, Others, Call, NoCall

LEMMA UnavailableStatus ==
  ASSUME NEW leg PROVE Unavailable(leg) \in {500, 503}
<1>1. Http(503).kind = "http" /\ Http(503).status = 503 /\ TypeError.kind = "other"
  BY DEF Http, TypeError
<1>2. StatusOf(Http(503)) = 503
  BY <1>1 DEF StatusOf
<1>3. StatusOf(TypeError) = 500
  BY <1>1 DEF StatusOf
<1> QED
  BY <1>2, <1>3 DEF Unavailable

LEMMA RefuseEffect ==
  ASSUME TypeOK, NEW q \in Requests, NEW leg, Refuse(q, leg)
  PROVE  \E code \in {500, 503} : AnsweredWith(q, code)
  BY UnavailableStatus, AnswerEffect DEF Refuse

\* No request waits longer than its calls and the ones before took.
LEMMA AgesKept ==
  ASSUME IInv, NEW q \in Requests, NEW leg \in Legs, NEW sound \in BOOLEAN,
         \/ SentBy(q, leg, sound) /\ waited[q] <= Before(leg)
         \/ \E code : AnsweredWith(q, code)
  PROVE  Ages'
<1>1. \A r \in Requests : r # q =>
        /\ call'[r].age <= Timeout
        /\ call'[r].leg = "none" => waited'[r] = 0
        /\ waited'[r] <= Before(call'[r].leg) + call'[r].age
  BY DEF IInv, Ages, Pending, SentBy, AnsweredWith, Others
<1>2. /\ call'[q].age <= Timeout
      /\ call'[q].leg = "none" => waited'[q] = 0
      /\ waited'[q] <= Before(call'[q].leg) + call'[q].age
  <2>1. CASE SentBy(q, leg, sound) /\ waited[q] <= Before(leg)
    BY <2>1, BreakerAssumption DEF SentBy, Before, Legs
  <2>2. CASE \E code : AnsweredWith(q, code)
    BY <2>2, BreakerAssumption DEF AnsweredWith, NoCall, Before
  <2> QED
    BY <2>1, <2>2
<1> QED
  BY <1>1, <1>2 DEF Ages, Pending, Before
-----------------------------------------------------------------------------
LEMMA StartKeeps ==
  ASSUME IInv, NEW q \in Requests, NEW sound \in BOOLEAN, Start(q, sound)
  PROVE  IInv'
<1>1. /\ ~Pending(q) /\ pendingClose' = FALSE /\ waited[q] = 0
      /\ UNCHANGED <<state, rest, product, up>>
      /\ healthy' = (healthy /\ sound)
  BY DEF IInv, Ages, Start, Pending
<1>2. \/ SentBy(q, "create", sound) /\ (state = "closed" \/ pendingClose)
      \/ /\ \E code \in {500, 503} : AnsweredWith(q, code)
         /\ state # "closed" /\ ~pendingClose
  BY SendEffect, RefuseEffect DEF IInv, Start, Legs
<1>3. TypeOK'
  <2>1. Typed
    BY <1>2 DEF SentBy, AnsweredWith
  <2>2. state' \in {"closed", "open", "halfOpen"} /\ rest' \in Nat /\ product' \in BOOLEAN
        /\ healthy' \in BOOLEAN
    BY <1>1 DEF IInv, TypeOK
  <2> QED
    BY <1>1, <2>1, <2>2, TypeKept DEF IInv
<1>4. Ages'
  <2>1. waited[q] <= Before("create")
    BY <1>1 DEF Before
  <2> QED
    BY <1>2, <2>1, AgesKept DEF Legs
<1>5. TimersRace'
  BY <1>1, <1>2 DEF IInv, TimersRace, Pending, SentBy, AnsweredWith, Others, NoCall
<1>6. Probe'
  <2>1. CASE SentBy(q, "create", sound) /\ (state = "closed" \/ pendingClose)
    BY <1>1, <2>1 DEF IInv, Probe, Pending, SentBy, Others
  <2>2. CASE /\ \E code \in {500, 503} : AnsweredWith(q, code)
             /\ state # "closed" /\ ~pendingClose
    BY <1>1, <2>2 DEF IInv, Probe, Pending, AnsweredWith, Others, NoCall
  <2> QED
    BY <1>2, <2>1, <2>2
<1>7. Healthy'
  BY <1>1, <1>2 DEF IInv, Healthy, SentBy, Others
<1> QED
  BY <1>3, <1>4, <1>5, <1>6, <1>7 DEF IInv

\* A call that succeeded, or whose failure the filter takes for a success.
LEMMA SuccessKeeps ==
  ASSUME IInv, NEW q \in Requests, Success,
         \/ \E leg \in Legs : Continue(q, leg) /\ waited[q] <= Before(leg)
         \/ Answer(q, 201),
         product' \in BOOLEAN, UNCHANGED <<up, healthy>>
  PROVE  IInv'
<1>1. /\ state' = IF state = "halfOpen" THEN "closed" ELSE state
      /\ pendingClose' = FALSE /\ rest' = rest
  BY DEF Success
<1>0. call[q].sound \in BOOLEAN /\ healthy' \in BOOLEAN
  BY DEF IInv, TypeOK
<1>2. \/ /\ state' = "closed"
         /\ \E leg \in Legs :
              SentBy(q, leg, call[q].sound) /\ waited[q] <= Before(leg)
      \/ state' # "closed" /\ \E code \in {500, 503} : AnsweredWith(q, code)
      \/ AnsweredWith(q, 201)
  BY <1>0, SendEffect, RefuseEffect, AnswerEffect DEF IInv, Continue
<1>3. TypeOK'
  <2>1. Typed
    BY <1>2 DEF SentBy, AnsweredWith
  <2>2. state' \in {"closed", "open", "halfOpen"} /\ rest' \in Nat /\ product' \in BOOLEAN
    BY <1>1 DEF IInv, TypeOK
  <2> QED
    BY <1>0, <1>1, <2>1, <2>2, TypeKept DEF IInv
<1>4. Ages'
  BY <1>0, <1>2, AgesKept DEF Legs
<1>5. TimersRace'
  BY <1>1, <1>2 DEF IInv, TimersRace, Pending, AnsweredWith, Others, NoCall
<1>6. Probe'
  BY <1>1 DEF Probe
<1>7. Healthy'
  BY <1>1, <1>2 DEF IInv, Healthy, SentBy, AnsweredWith, Others, NoCall
<1> QED
  BY <1>3, <1>4, <1>5, <1>6, <1>7 DEF IInv

\* A call that failed; the gateway has not always worked.
LEMMA FailsKeeps ==
  ASSUME IInv, NEW q \in Requests, Fails(q), ~healthy,
         product' \in BOOLEAN, UNCHANGED <<up, healthy>>
  PROVE  IInv'
<1>1. /\ pendingClose' = FALSE
      /\ \/ state' = "open" /\ rest' = ResetTimeout
         \/ state # "halfOpen" /\ state' = state /\ rest' = rest
  BY DEF Fails, Failure, options
<1>2. \E code \in {500, 503} : AnsweredWith(q, code)
  BY RefuseEffect DEF IInv, Fails
<1>3. TypeOK'
  <2>1. Typed
    BY <1>2 DEF AnsweredWith
  <2>2. /\ state' \in {"closed", "open", "halfOpen"} /\ rest' \in Nat
        /\ healthy' \in BOOLEAN
    BY <1>1, BreakerAssumption DEF IInv, TypeOK
  <2> QED
    BY <1>1, <2>1, <2>2, TypeKept DEF IInv
<1>4. Ages'
  BY <1>2, AgesKept DEF Legs
<1>5. TimersRace'
  <2>1. CASE state' = "open" /\ rest' = ResetTimeout
    <3>1. ASSUME NEW r \in Requests PROVE call'[r].age \in Nat
      BY <1>3 DEF TypeOK
    <3> QED
      BY <1>1, <2>1, <3>1, BreakerAssumption DEF TimersRace
  <2>2. CASE state # "halfOpen" /\ state' = state /\ rest' = rest
    BY <1>1, <1>2, <2>2 DEF IInv, TimersRace, Pending, AnsweredWith, Others, NoCall
  <2> QED
    BY <1>1, <2>1, <2>2
<1>6. Probe' /\ Healthy'
  BY <1>1 DEF Probe, Healthy
<1> QED
  BY <1>3, <1>4, <1>5, <1>6 DEF IInv

\* A failure: the gateway does not work, or the request's data are faulty.
LEMMA FailureKeeps ==
  ASSUME IInv, NEW q \in Requests, BadRequest(q) \/ GatewayError(q) \/ TimeOut(q)
  PROVE  IInv'
<1>1. product' \in BOOLEAN /\ UNCHANGED <<up, healthy>>
  BY DEF IInv, TypeOK, BadRequest, GatewayError, TimeOut, Unanswered, gateway
<1>2. Fails(q)
  BY DEF BadRequest, GatewayError, TimeOut, Rejected, errorFilter
<1>3. ~healthy
  BY DEF IInv, Healthy, BadRequest, GatewayError, TimeOut
<1> QED
  BY <1>1, <1>2, <1>3, FailsKeeps

LEMMA AnsweredKeeps ==
  ASSUME IInv, NEW q \in Requests, Answered(q) PROVE IInv'
<1>1. /\ call[q].age \in Nat /\ call[q].age <= Timeout
      /\ waited[q] <= Before(call[q].leg) + call[q].age /\ waited[q] \in Nat
  BY DEF IInv, TypeOK, Ages
<1>p. product \in BOOLEAN
  BY DEF IInv, TypeOK
<1>2. CASE Created(q)
  <2>0. call[q].leg = "create"
    BY <1>2 DEF Created, Waiting
  <2>1. waited[q] <= Before("subscribe")
    BY <1>1, <2>0, BreakerAssumption DEF Before
  <2> QED
    BY <1>2, <2>1, SuccessKeeps DEF Created, Legs
<1>3. CASE Exists(q)
  <2>0. call[q].leg = "create"
    BY <1>3 DEF Exists, Waiting
  <2>1. waited[q] <= Before("list")
    BY <1>1, <2>0, BreakerAssumption DEF Before
  <2> QED
    BY <1>p, <1>3, <2>1, SuccessKeeps DEF Exists, Rejected, errorFilter, Legs, gateway
<1>4. CASE Found(q)
  <2>0. call[q].leg = "list"
    BY <1>4 DEF Found, Waiting
  <2>1. waited[q] <= Before("subscribe")
    BY <1>1, <2>0, BreakerAssumption DEF Before
  <2> QED
    BY <1>p, <1>4, <2>1, SuccessKeeps DEF Found, Legs, gateway
<1>5. CASE Subscribed(q)
  BY <1>p, <1>5, SuccessKeeps DEF Subscribed, gateway
<1> QED
  BY <1>2, <1>3, <1>4, <1>5, FailureKeeps DEF Answered
-----------------------------------------------------------------------------
LEMMA HalfOpenKeeps == ASSUME IInv, HalfOpen PROVE IInv'
<1>1. /\ state = "open" /\ rest = 0 /\ state' = "halfOpen" /\ pendingClose' = TRUE
      /\ UNCHANGED <<rest, call, status, waited, product, up, healthy>>
  BY DEF HalfOpen, answers, gateway
<1>2. ASSUME NEW q \in Requests PROVE ~Pending(q)
  BY <1>1, BreakerAssumption DEF IInv, TypeOK, Ages, TimersRace
<1>3. TypeOK' /\ Ages' /\ TimersRace'
  BY <1>1 DEF IInv, TypeOK, Ages, TimersRace, Pending, Before
<1>4. Probe'
  BY <1>1, <1>2 DEF Probe, Pending
<1>5. Healthy'
  BY <1>1 DEF IInv, Healthy
<1> QED
  BY <1>3, <1>4, <1>5 DEF IInv

LEMMA TickKeeps == ASSUME IInv, Tick PROVE IInv'
<1>1. /\ ~Due /\ rest' = (IF rest > 0 THEN rest - 1 ELSE 0)
      /\ UNCHANGED <<state, pendingClose, status, product, up, healthy>>
  BY DEF Tick, gateway
<1>2. ASSUME NEW q \in Requests, Pending(q)
      PROVE  /\ call[q].age < Timeout
             /\ call'[q] = [call[q] EXCEPT !.age = call[q].age + 1]
             /\ waited'[q] = waited[q] + 1
  <2>1. call[q].age # Timeout
    BY <1>1, <1>2 DEF Pending, Due, options
  <2>2. call[q].age \in Nat /\ call[q].age <= Timeout
    BY DEF IInv, TypeOK, Ages
  <2>3. call'[q] = [call[q] EXCEPT !.age = call[q].age + 1] /\ waited'[q] = waited[q] + 1
    BY <1>2 DEF Pending, Tick
  <2> QED
    BY <2>1, <2>2, <2>3, BreakerAssumption
<1>3. ASSUME NEW q \in Requests, ~Pending(q)
      PROVE  call'[q] = call[q] /\ waited'[q] = waited[q]
  BY <1>3 DEF IInv, TypeOK, Pending, Tick
<1>4. ASSUME NEW q \in Requests
      PROVE  /\ call'[q] \in Call
             /\ call'[q].leg = call[q].leg /\ call'[q].lost = call[q].lost
             /\ call'[q].sound = call[q].sound
             /\ call'[q].age = IF Pending(q) THEN call[q].age + 1 ELSE call[q].age
  <2>1. call[q] \in Call
    BY DEF IInv, TypeOK, Call
  <2>2. CASE Pending(q)
    <3>1. call'[q] = [call[q] EXCEPT !.age = call[q].age + 1]
      BY <1>2, <2>2
    <3> QED
      BY <2>1, <2>2, <3>1 DEF Call
  <2>3. CASE ~Pending(q)
    BY <1>3, <2>1, <2>3
  <2> QED
    BY <2>2, <2>3
<1>5. TypeOK'
  <2>1. call' \in [Requests -> Call] /\ waited' \in [Requests -> Nat]
    <3>1. /\ call' = [q \in Requests |-> call'[q]]
          /\ waited' = [q \in Requests |-> waited'[q]]
      BY DEF Tick
    <3>2. \A q \in Requests : waited'[q] \in Nat
      <4> SUFFICES ASSUME NEW q \in Requests PROVE waited'[q] \in Nat
        OBVIOUS
      <4>1. waited[q] \in Nat
        BY DEF IInv, TypeOK
      <4>2. waited'[q] = waited[q] + 1 \/ waited'[q] = waited[q]
        BY <1>2, <1>3
      <4> QED
        BY <4>1, <4>2
    <3> QED
      BY <1>4, <3>1, <3>2
  <2>2. rest' \in Nat
    BY <1>1 DEF IInv, TypeOK
  <2> QED
    BY <1>1, <2>1, <2>2 DEF IInv, TypeOK, Call
<1>6. Ages'
  <2> SUFFICES ASSUME NEW q \in Requests
               PROVE  /\ call'[q].age <= Timeout
                      /\ call'[q].leg = "none" => waited'[q] = 0
                      /\ waited'[q] <= Before(call'[q].leg) + call'[q].age
    BY DEF Ages, Pending, Before
  <2>1. call[q].age \in Nat /\ waited[q] \in Nat /\ Before(call[q].leg) \in Nat
    BY BreakerAssumption DEF IInv, TypeOK, Before
  <2>2. /\ call[q].age <= Timeout /\ (~Pending(q) => waited[q] = 0)
        /\ waited[q] <= Before(call[q].leg) + call[q].age
    BY DEF IInv, Ages
  <2>3. CASE Pending(q)
    <3>1. call'[q].age = call[q].age + 1 /\ waited'[q] = waited[q] + 1
          /\ call[q].age < Timeout /\ call'[q].leg = call[q].leg
      BY <1>2, <1>4, <2>3
    <3> QED
      BY <2>1, <2>2, <2>3, <3>1, BreakerAssumption DEF Pending
  <2>4. CASE ~Pending(q)
    BY <1>3, <1>4, <2>1, <2>2, <2>4
  <2> QED
    BY <2>3, <2>4
<1>7. TimersRace'
  <2>1. ASSUME state = "open", NEW q \in Requests, Pending(q)
        PROVE  call'[q].age + rest' > Timeout
    <3>1. call[q].age \in Nat /\ rest \in Nat /\ rest # 0
      BY <1>1, <2>1 DEF IInv, TypeOK, Due
    <3>2. call[q].age + rest > Timeout
      BY <2>1 DEF IInv, TimersRace
    <3>3. call'[q].age = call[q].age + 1 /\ rest' = rest - 1
      BY <1>1, <1>4, <2>1, <3>1
    <3> QED
      BY <3>1, <3>2, <3>3, BreakerAssumption
  <2> QED
    BY <1>1, <1>4, <2>1 DEF IInv, TimersRace, Pending
<1>8. Probe' /\ Healthy'
  BY <1>1, <1>4 DEF IInv, Probe, Healthy, Pending
<1> QED
  BY <1>5, <1>6, <1>7, <1>8 DEF IInv

LEMMA FlipKeeps == ASSUME IInv, Flip PROVE IInv'
  BY DEF IInv, TypeOK, Ages, TimersRace, Probe, Healthy, Pending, Before, Flip,
         breaker, answers

LEMMA NextKeeps == ASSUME IInv, [Next]_vars PROVE IInv'
  BY StartKeeps, AnsweredKeeps, FailureKeeps, HalfOpenKeeps, TickKeeps, FlipKeeps,
     StutterKeeps DEF Next
-----------------------------------------------------------------------------
\* The inductive invariant holds of every behaviour.
LEMMA Inductive == Spec => []IInv
  BY InitIInv, NextKeeps, PTL DEF Spec

\* Every variable keeps its type.
THEOREM TypeCorrect == Spec => []TypeOK
<1>1. IInv => TypeOK
  BY DEF IInv
<1> QED
  BY <1>1, Inductive, PTL

\* As long as the gateway works, and no checkout's data are faulty, no checkout
\* is refused and the breaker stays closed (abacatepay.gateway.ts:35-36,70-77).
THEOREM HealthyGatewayServes == Spec => []NoFalseAlarm
<1>1. IInv => NoFalseAlarm
  BY DEF IInv, Healthy, NoFalseAlarm
<1> QED
  BY <1>1, Inductive, PTL

\* When the breaker is half-open, nothing sent before it opened is still under
\* way (abacatepay.gateway.ts:28-32).
THEOREM OnlyTheProbe == Spec => []ProbeDecides
<1>1. IInv => ProbeDecides
  <2> SUFFICES ASSUME IInv, state = "halfOpen"
               PROVE  LET pending == {q \in Requests : call[q].leg # "none"}
                      IN  IF pendingClose THEN pending = {}
                          ELSE \E q \in Requests : pending = {q}
    BY DEF ProbeDecides
  <2>1. CASE pendingClose
    BY <2>1 DEF IInv, Probe, Pending
  <2>2. CASE ~pendingClose
    <3>1. PICK q \in Requests : Pending(q) /\ \A r \in Requests : Pending(r) => r = q
      BY <2>2 DEF IInv, Probe
    <3>2. {r \in Requests : call[r].leg # "none"} = {q}
      BY <3>1 DEF Pending
    <3> QED
      BY <2>2, <3>2
  <2> QED
    BY <2>1, <2>2
<1> QED
  BY <1>1, Inductive, PTL

\* No checkout keeps its client waiting for longer than three timeouts
\* (abacatepay.gateway.ts:57-115, payment.service.ts:38-61).
THEOREM ClientsAnsweredInTime == Spec => []AnsweredInTime
<1>1. IInv => AnsweredInTime
  BY BreakerAssumption DEF IInv, TypeOK, Ages, Before, AnsweredInTime
<1> QED
  BY <1>1, Inductive, PTL
=============================================================================
