------------------------------- MODULE Breaker -------------------------------
(***************************************************************************)
(* The circuit breaker AbacatePayGateway puts before its calls, and what   *)
(* createProduct, findProductByExternalId and createSubscription make of   *)
(* what it answers.                                                        *)
(*                                                                         *)
(* The breaker is the library opossum: closed, open, or half-open, where   *)
(* it lets one call through to see.  Every checkout is three calls at most *)
(* and all of them share the breaker.  A call that is not answered in time *)
(* has failed, whatever the gateway does with it; its late answer is not   *)
(* looked at.  Whether a failure opens a closed breaker depends on the     *)
(* calls of the last ten seconds: here it may.                             *)
(*                                                                         *)
(* A checkout's body is not validated: the gateway may reject a taxId, a   *)
(* name or a url it is sent, and a plan PLAN_PRICES does not list is sent  *)
(* without a price.  To the breaker such a rejection is a failure like any *)
(* other.                                                                  *)
(*                                                                         *)
(* Timers are counted down by Tick, which waits for one that is due.  The  *)
(* continuation of an answered call, up to its next call, is one step.     *)
(***************************************************************************)
EXTENDS Errors

CONSTANTS
  Requests,        \* clients of POST /payment/checkout, one request at a time
  Timeout,         \* 5000 ms
  ResetTimeout     \* 30000 ms

ASSUME BreakerAssumption ==
  Timeout \in Nat /\ ResetTimeout \in Nat /\ 0 < Timeout /\ Timeout < ResetTimeout

VARIABLES
  state, pendingClose,   \* of the breaker; half-open and nothing sent yet
  rest,                  \* time left until an open breaker is half-open
  call,                  \* the call each request waits for
  status, waited,        \* its last answer (0: none yet), and the time it took
  product,               \* gateway: the plan's product exists
  up,                    \* gateway: it works
  healthy                \* history: it always has, on sound data alone

breaker == <<state, pendingClose, rest>>
answers == <<status, waited>>
gateway == <<product, up, healthy>>
vars == <<breaker, call, answers, gateway>>

Legs == {"create", "list", "subscribe"}
NoCall == [leg |-> "none", age |-> 0, lost |-> FALSE, sound |-> TRUE]

\* Mutant of options: the two times swapped.
optionsSwapped == [timeout |-> ResetTimeout, resetTimeout |-> Timeout]

options == [timeout |-> Timeout, resetTimeout |-> ResetTimeout]

\* Mutant of errorFilter: there is none.
noFilter(error) == FALSE

errorFilter(error) == error = "already exists"

Init ==
  /\ state = "closed" /\ pendingClose = FALSE /\ rest = 0
  /\ call = [q \in Requests |-> NoCall]
  /\ status = [q \in Requests |-> 0] /\ waited = [q \in Requests |-> 0]
  /\ product = FALSE /\ up = TRUE /\ healthy = TRUE
-----------------------------------------------------------------------------
(* breaker.fire and the events of the breaker.                              *)

\* A call that is sent while the gateway is down may be lost.
Send(q, leg, sound) ==
  /\ \E lost \in IF up THEN {FALSE} ELSE BOOLEAN :
       call' = [call EXCEPT ![q] = [leg |-> leg, age |-> 0, lost |-> lost,
                                    sound |-> sound]]
  /\ status' = [status EXCEPT ![q] = 0]
  /\ UNCHANGED waited

Answer(q, code) ==
  /\ call' = [call EXCEPT ![q] = NoCall]
  /\ status' = [status EXCEPT ![q] = code]
  /\ waited' = [waited EXCEPT ![q] = 0]

\* Mutant of Unavailable: the gateway's own status is passed on.
UnavailableAsIs(leg) ==
  StatusOf(IF leg = "list" THEN TypeError ELSE Http(502))

\* A refused or failed call is answered by the fallback, which throws 503; the
\* list's catch makes it a null, whose id createCheckout then asks for.
Unavailable(leg) ==
  StatusOf(IF leg = "list" THEN TypeError ELSE Http(503))

Refuse(q, leg) == Answer(q, Unavailable(leg))

\* 'success'
Success ==
  /\ state' = IF state = "halfOpen" THEN "closed" ELSE state
  /\ pendingClose' = FALSE
  /\ UNCHANGED rest

\* The continuation's next call meets the breaker as the answer left it.
Continue(q, leg) ==
  \/ state' = "closed" /\ Send(q, leg, call[q].sound)
  \/ state' # "closed" /\ Refuse(q, leg)

\* 'failure': the only call of a half-open breaker opens it; when it is open
\* already, the timer may be set again.
Failure ==
  /\ pendingClose' = FALSE
  /\ \/ state' = "open" /\ rest' = options.resetTimeout
     \/ state # "halfOpen" /\ UNCHANGED <<state, rest>>

\* Mutant of Fails: a failed list is asked for again.
FailsAndRetries(q) ==
  /\ Failure
  /\ IF call[q].leg = "list" /\ state' = "closed" THEN Send(q, "list", call[q].sound)
     ELSE Refuse(q, call[q].leg)

Fails(q) == Failure /\ Refuse(q, call[q].leg)

\* The action rejected: an error the filter takes counts as a success, and is
\* handed to the catch of createProduct.
Rejected(q, error) ==
  IF errorFilter(error) THEN Success /\ Continue(q, "list") ELSE Fails(q)

HalfOpen ==
  /\ state = "open" /\ rest = 0
  /\ state' = "halfOpen" /\ pendingClose' = TRUE
  /\ UNCHANGED <<rest, call, answers, gateway>>
-----------------------------------------------------------------------------
(* createCheckout                                                           *)

\* sound: the gateway has no fault to find with the body's data.
Start(q, sound) ==
  /\ call[q].leg = "none"
  /\ \/ (state = "closed" \/ pendingClose) /\ Send(q, "create", sound)
     \/ ~(state = "closed" \/ pendingClose) /\ Refuse(q, "create")
  /\ pendingClose' = FALSE
  /\ healthy' = (healthy /\ sound)
  /\ UNCHANGED <<state, rest, product, up>>

Waiting(q, leg) == call[q].leg = leg /\ ~call[q].lost

Created(q) ==
  /\ Waiting(q, "create") /\ ~product
  /\ product' = TRUE
  /\ Success /\ Continue(q, "subscribe")
  /\ UNCHANGED <<up, healthy>>

Exists(q) ==
  /\ Waiting(q, "create") /\ product
  /\ Rejected(q, "already exists")
  /\ UNCHANGED gateway

Found(q) ==
  /\ Waiting(q, "list")
  /\ Success /\ Continue(q, "subscribe")
  /\ UNCHANGED gateway

Subscribed(q) ==
  /\ Waiting(q, "subscribe")
  /\ Success /\ Answer(q, 201)
  /\ UNCHANGED gateway

\* The gateway may have created the product all the same.
Unanswered(q) ==
  product' \in IF call[q].leg = "create" THEN {product, TRUE} ELSE {product}

\* A gateway that works rejects the product or the subscription, not the list.
BadRequest(q) ==
  /\ Waiting(q, "create") \/ Waiting(q, "subscribe")
  /\ ~call[q].sound
  /\ Rejected(q, "invalid data")
  /\ UNCHANGED gateway

GatewayError(q) ==
  /\ \E leg \in Legs : Waiting(q, leg)
  /\ ~up
  /\ Rejected(q, "internal error") /\ Unanswered(q)
  /\ UNCHANGED <<up, healthy>>

TimeOut(q) ==
  /\ call[q].lost /\ call[q].age = options.timeout
  /\ Rejected(q, "timed out") /\ Unanswered(q)
  /\ UNCHANGED <<up, healthy>>
-----------------------------------------------------------------------------
\* The gateway goes down, or comes back.
Flip ==
  /\ up' = ~up /\ healthy' = FALSE
  /\ UNCHANGED <<product, breaker, call, answers>>

Due ==
  \/ state = "open" /\ rest = 0
  \/ \E q \in Requests : call[q].leg # "none" /\ call[q].age = options.timeout

Tick ==
  LET pending == {q \in Requests : call[q].leg # "none"}
  IN  /\ ~Due
      /\ rest' = IF rest > 0 THEN rest - 1 ELSE 0
      /\ call' = [q \in Requests |-> IF q \in pending THEN [call[q] EXCEPT !.age = @ + 1]
                                     ELSE call[q]]
      /\ waited' = [q \in Requests |-> waited[q] + IF q \in pending THEN 1 ELSE 0]
      /\ UNCHANGED <<state, pendingClose, status, gateway>>

Answered(q) ==
  \/ Created(q) \/ Exists(q) \/ Found(q) \/ Subscribed(q)
  \/ BadRequest(q) \/ GatewayError(q)

Next ==
  \/ \E q \in Requests, sound \in BOOLEAN : Start(q, sound)
  \/ \E q \in Requests : Answered(q) \/ TimeOut(q)
  \/ HalfOpen \/ Tick \/ Flip

\* Timers fire, and the gateway answers what it has not lost; nobody has to buy.
Fairness ==
  /\ WF_vars(Tick) /\ WF_vars(HalfOpen)
  /\ \A q \in Requests : WF_vars(TimeOut(q)) /\ WF_vars(Answered(q))

Spec == Init /\ [][Next]_vars
FairSpec == Spec /\ Fairness
-----------------------------------------------------------------------------
TypeOK ==
  /\ state \in {"closed", "open", "halfOpen"} /\ pendingClose \in BOOLEAN
  /\ rest \in Nat
  /\ call \in [Requests -> [leg : Legs \cup {"none"}, age : Nat, lost : BOOLEAN,
                            sound : BOOLEAN]]
  /\ status \in [Requests -> {0, 201, 500, 503}]
  /\ waited \in [Requests -> Nat]
  /\ product \in BOOLEAN /\ up \in BOOLEAN /\ healthy \in BOOLEAN

(* As long as the gateway works and finds no fault with what clients send,  *)
(* no checkout is refused and the breaker stays closed, although every      *)
(* checkout of a plan but the first begins with a call the gateway rejects  *)
(* (abacatepay.gateway.ts:35-36,70-77).  Faulty data of one client do count *)
(* as failures, and may have other clients refused.                         *)
NoFalseAlarm ==
  healthy => state = "closed" /\ \A q \in Requests : status[q] \in {0, 201}

(* When a breaker is half-open, the call it lets through is the only one    *)
(* under way, so that no answer to a call sent before it opened decides:    *)
(* every such call has timed out by then (abacatepay.gateway.ts:28-32).     *)
ProbeDecides ==
  state = "halfOpen" =>
    LET pending == {q \in Requests : call[q].leg # "none"}
    IN  IF pendingClose THEN pending = {} ELSE \E q \in Requests : pending = {q}

(* No checkout keeps its client waiting for longer than three timeouts,     *)
(* whatever the gateway does not answer                                     *)
(* (abacatepay.gateway.ts:57-115, payment.service.ts:38-61).                *)
AnsweredInTime == \A q \in Requests : waited[q] <= 3 * Timeout

(* When the gateway is back for good, no checkout sends it faulty data any  *)
(* more, and clients go on buying (the WF), the breaker ends up closed: the *)
(* call that is let through is one the gateway rejects once the product     *)
(* exists, and must count as a success even so                              *)
(* (abacatepay.gateway.ts:33-37).                                           *)
Recovers ==
  /\ <>[](up /\ \A q \in Requests : call[q].sound)
  /\ \A q \in Requests : WF_vars(Start(q, TRUE))
  => <>[](state = "closed")
-----------------------------------------------------------------------------
(* "Payment gateway is currently unavailable", 503                          *)
(* (abacatepay.gateway.ts:40-42): that is what a checkout is answered that  *)
(* the gateway or the breaker did not let through.                          *)
UnavailableIs503 == \A q \in Requests : status[q] \in {0, 201, 503}
=============================================================================
