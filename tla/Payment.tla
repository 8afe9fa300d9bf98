------------------------------ MODULE Payment ------------------------------
(***************************************************************************)
(* Buying a plan: PaymentService, PaymentCalculatorService, the calls the  *)
(* AbacatePay gateway object makes, PaymentTestController.forceConfirm and *)
(* the webhook by which the gateway reports a payment.                     *)
(*                                                                         *)
(* A checkout talks to the gateway twice or three times before it stores   *)
(* anything, and every call may fail before or after the gateway acted.    *)
(* The gateway is external: it delivers a notification again and again     *)
(* until it is answered 2xx, possibly several times at once.               *)
(*                                                                         *)
(* The users have registered before the first step.  Registration spreads  *)
(* the body it is sent into the row, so a client may have named its plan.  *)
(***************************************************************************)
EXTENDS Integers, FiniteSets

CONSTANTS
  Users,
  Checkouts,   \* ids the gateway gives to subscriptions
  Requests,    \* POST /payment/checkout requests, each used once
  Handlers,    \* webhook requests being handled, at most this many at once
  None,
  MaxFaults    \* bound on handlers that fail and on repeated notifications

ASSUME PaymentAssumption ==
  None \notin Users \cup Checkouts /\ MaxFaults \in Nat

VARIABLES
  products,   \* gateway: plans that have a product
  charge,     \* gateway: what it knows of each checkout id
  notices,    \* gateway: paid checkouts whose notification has no 2xx yet
  txs,        \* the rows of table Transaction
  plan,       \* column User.plan
  given,      \* history: the plan each user's registration wrote
  urls,       \* checkouts whose url a client has been answered
  req, hook,  \* progress and local variables of the two kinds of request
  faults

gateway == <<products, charge, notices>>
tables == <<txs, plan, given>>
vars == <<gateway, tables, urls, req, hook, faults>>

Plans == {"GRATIS", "PRO"}

\* The body is not validated (the DTO is imported as a type): a plan may be
\* one that PLAN_PRICES does not list, and has no amount.
PlanNames == Plans \cup {"OTHER"}

Tx == [externalId : Checkouts, userId : Users, plan : Plans,
       status : {"PENDING", "PAID"}]

Pcs == {"new", "priced", "listing", "product", "opened", "stored", "ok", "failed"}

Request == [pc : Pcs, user : Users \cup {None}, plan : PlanNames,
            id : Checkouts \cup {None}]

Hook == [pc : {"idle", "apply", "reply"}, id : Checkouts \cup {None},
         user : Users \cup {None}, plan : Plans, notified : BOOLEAN]

Idle == [pc |-> "idle", id |-> None, user |-> None, plan |-> "GRATIS",
         notified |-> FALSE]

Init ==
  /\ products = {} /\ charge = [c \in Checkouts |-> "none"] /\ notices = {}
  /\ txs = {} /\ given \in [Users -> Plans] /\ plan = given
  /\ urls = {}
  /\ req = [q \in Requests |->
              [pc |-> "new", user |-> None, plan |-> "GRATIS", id |-> None]]
  /\ hook = [h \in Handlers |-> Idle]
  /\ faults = 0
-----------------------------------------------------------------------------
(* createCheckout.                                                          *)
Go(q, from, to) ==
  req[q].pc = from /\ req' = [req EXCEPT ![q] = [@ EXCEPT !.pc = to]]

\* The user is found and the price looked up; a missing plan or another type
\* of purchase is refused.
Start(q, u, p) ==
  /\ req[q].pc = "new"
  /\ req' = [req EXCEPT ![q] = [@ EXCEPT !.pc = "priced", !.user = u, !.plan = p]]
  /\ UNCHANGED <<gateway, tables, urls, hook, faults>>

Refuse(q) == Go(q, "new", "failed") /\ UNCHANGED <<gateway, tables, urls, hook, faults>>

\* gateway.createProduct: a product of that name is created, ...
ProductCreated(q) ==
  /\ req[q].plan \notin products
  /\ products' = products \cup {req[q].plan}
  /\ \/ Go(q, "priced", "product")
     \/ Go(q, "priced", "failed")     \* the answer is lost
  /\ UNCHANGED <<charge, notices, tables, urls, hook, faults>>

\* ... or exists, and is then looked for in the list of products.
ProductExists(q) ==
  /\ req[q].plan \in products
  /\ Go(q, "priced", "listing")
  /\ UNCHANGED <<gateway, tables, urls, hook, faults>>

ProductFound(q) ==
  /\ req[q].plan \in products
  /\ Go(q, "listing", "product")
  /\ UNCHANGED <<gateway, tables, urls, hook, faults>>

\* gateway.createSubscription
CheckoutOpened(q, c) ==
  /\ charge[c] = "none"
  /\ charge' = [charge EXCEPT ![c] = "open"]
  /\ req[q].pc = "product"
  /\ \/ req' = [req EXCEPT ![q] = [@ EXCEPT !.pc = "opened", !.id = c]]
     \/ Go(q, "product", "failed")    \* the answer is lost
  /\ UNCHANGED <<products, notices, tables, urls, hook, faults>>

\* A call the gateway did not act on: refused, or the breaker is open (503);
\* a failed list yields null, on which product.id throws.
CallFails(q) ==
  /\ req[q].pc \in {"priced", "listing", "product"}
  /\ Go(q, req[q].pc, "failed")
  /\ UNCHANGED <<gateway, tables, urls, hook, faults>>

\* Mutant of Store: a plan without a price is stored.
StoreUnpriced(q) ==
  /\ Go(q, "opened", "stored")
  /\ txs' = txs \cup {[externalId |-> req[q].id, userId |-> req[q].user,
                       plan |-> req[q].plan, status |-> "PENDING"]}
  /\ UNCHANGED <<gateway, plan, given, urls, hook, faults>>

\* The row; an amount that is undefined violates its not-null column.
Store(q) ==
  /\ req[q].plan \in Plans
  /\ Go(q, "opened", "stored")
  /\ txs' = txs \cup {[externalId |-> req[q].id, userId |-> req[q].user,
                       plan |-> req[q].plan, status |-> "PENDING"]}
  /\ UNCHANGED <<gateway, plan, given, urls, hook, faults>>

StoreFails(q) ==
  Go(q, "opened", "failed") /\ UNCHANGED <<gateway, tables, urls, hook, faults>>

\* Mutant of Answer: the url is answered without waiting for the insert.
AnswerEarly(q) ==
  /\ req[q].pc \in {"opened", "stored"}
  /\ Go(q, req[q].pc, "ok")
  /\ urls' = urls \cup {req[q].id}
  /\ UNCHANGED <<gateway, tables, hook, faults>>

Answer(q) ==
  /\ Go(q, "stored", "ok")
  /\ urls' = urls \cup {req[q].id}
  /\ UNCHANGED <<gateway, tables, hook, faults>>

AnswerLost(q) ==
  Go(q, "stored", "failed") /\ UNCHANGED <<gateway, tables, urls, hook, faults>>
-----------------------------------------------------------------------------
(* The gateway.                                                             *)

\* A client pays on the checkout's page (or has simulatePayment do it).
Pay(c) ==
  /\ c \in urls /\ charge[c] = "open"
  /\ charge' = [charge EXCEPT ![c] = "paid"]
  /\ notices' = notices \cup {c}
  /\ UNCHANGED <<products, tables, urls, req, hook, faults>>

\* It may notify again what was acknowledged.
NotifyAgain(c) ==
  /\ charge[c] = "paid" /\ c \notin notices
  /\ faults < MaxFaults /\ faults' = faults + 1
  /\ notices' = notices \cup {c}
  /\ UNCHANGED <<products, charge, tables, urls, req, hook>>
-----------------------------------------------------------------------------
(* handleWebhook.  A bad signature (400) or another event changes nothing.  *)

\* Mutant of Take: the status is not looked at.
TakeAnyway(h, row, isNotice) ==
  /\ hook[h].pc = "idle"
  /\ hook' = [hook EXCEPT ![h] =
       [pc |-> "apply", id |-> row.externalId, user |-> row.userId,
        plan |-> row.plan, notified |-> isNotice]]
  /\ UNCHANGED <<gateway, tables, urls, req, faults>>

\* processSuccessfulPayment reads the transaction ...
Take(h, row, isNotice) ==
  /\ hook[h].pc = "idle"
  /\ row.status # "PAID"
  /\ hook' = [hook EXCEPT ![h] =
       [pc |-> "apply", id |-> row.externalId, user |-> row.userId,
        plan |-> row.plan, notified |-> isNotice]]
  /\ UNCHANGED <<gateway, tables, urls, req, faults>>

HookTake(h, c) ==
  c \in notices /\ \E row \in txs : row.externalId = c /\ Take(h, row, TRUE)

\* ... and answers 2xx at once when it is PAID, or not in the table.
HookNothing(h, c) ==
  /\ hook[h].pc = "idle" /\ c \in notices
  /\ ~\E row \in txs : row.externalId = c /\ row.status # "PAID"
  /\ notices' = notices \ {c}
  /\ UNCHANGED <<products, charge, tables, urls, req, hook, faults>>

\* forceConfirm: the test controller signs a notification of its own for any
\* transaction of the table.
ForceConfirm(h, c) ==
  \E row \in txs : row.externalId = c /\ Take(h, row, FALSE)

Paid(c) == {IF row.externalId = c THEN [row EXCEPT !.status = "PAID"] ELSE row :
              row \in txs}

\* Mutant of HookCommit: the plan is set, the transaction is not marked.
CommitPlanOnly(h) ==
  /\ hook[h].pc = "apply"
  /\ plan' = [plan EXCEPT ![hook[h].user] = hook[h].plan]
  /\ hook' = [hook EXCEPT ![h].pc = "reply"]
  /\ UNCHANGED <<gateway, txs, given, urls, req, faults>>

\* One database transaction marks the row and sets the plan the handler read.
HookCommit(h) ==
  /\ hook[h].pc = "apply"
  /\ txs' = Paid(hook[h].id)
  /\ plan' = [plan EXCEPT ![hook[h].user] = hook[h].plan]
  /\ hook' = [hook EXCEPT ![h].pc = "reply"]
  /\ UNCHANGED <<gateway, given, urls, req, faults>>

HookReply(h) ==
  /\ hook[h].pc = "reply"
  /\ notices' = IF hook[h].notified THEN notices \ {hook[h].id} ELSE notices
  /\ hook' = [hook EXCEPT ![h] = Idle]
  /\ UNCHANGED <<products, charge, tables, urls, req, faults>>

\* Mutant of HookDies: the failure is swallowed and answered 2xx.
HookDiesQuietly(h) ==
  /\ hook[h].pc # "idle"
  /\ faults < MaxFaults /\ faults' = faults + 1
  /\ hook' = [hook EXCEPT ![h] = Idle]
  /\ notices' = notices \ {hook[h].id}
  /\ UNCHANGED <<products, charge, tables, urls, req>>

\* The handler fails: its database transaction rolls back, or its answer is
\* lost after the commit.
HookDies(h) ==
  /\ hook[h].pc # "idle"
  /\ faults < MaxFaults /\ faults' = faults + 1
  /\ hook' = [hook EXCEPT ![h] = Idle]
  /\ UNCHANGED <<gateway, tables, urls, req>>
-----------------------------------------------------------------------------
Buying(q) ==
  \/ \E u \in Users, p \in PlanNames : Start(q, u, p)
  \/ Refuse(q) \/ ProductCreated(q) \/ ProductExists(q) \/ ProductFound(q)
  \/ \E c \in Checkouts : CheckoutOpened(q, c)
  \/ CallFails(q) \/ Store(q) \/ StoreFails(q) \/ Answer(q) \/ AnswerLost(q)

Confirming(h) ==
  \/ \E c \in Checkouts : HookTake(h, c) \/ HookNothing(h, c) \/ ForceConfirm(h, c)
  \/ HookCommit(h) \/ HookReply(h) \/ HookDies(h)

Next ==
  \/ \E q \in Requests : Buying(q)
  \/ \E c \in Checkouts : Pay(c) \/ NotifyAgain(c)
  \/ \E h \in Handlers : Confirming(h)

\* The gateway goes on notifying and Node goes on running what it has begun;
\* nobody has to buy, to pay or to fail.
Fairness ==
  /\ \A c \in Checkouts :
       WF_vars(\E h \in Handlers : HookTake(h, c) \/ HookNothing(h, c))
  /\ \A h \in Handlers : WF_vars(HookCommit(h)) /\ WF_vars(HookReply(h))

Spec == Init /\ [][Next]_vars
FairSpec == Spec /\ Fairness
-----------------------------------------------------------------------------
TypeOK ==
  /\ products \subseteq PlanNames
  /\ charge \in [Checkouts -> {"none", "open", "paid"}]
  /\ notices \subseteq Checkouts /\ urls \subseteq Checkouts
  /\ txs \subseteq Tx
  /\ plan \in [Users -> Plans] /\ given \in [Users -> Plans]
  /\ req \in [Requests -> Request]
  /\ hook \in [Handlers -> Hook]
  /\ faults \in Nat

Confirmed(c) == \E row \in txs : row.externalId = c /\ row.status = "PAID"

(* After registration a plan comes only from a purchase: it is that of a    *)
(* purchase of the user's that is marked as paid, or, when there is none,   *)
(* still the one their registration wrote, whichever handlers overlap or    *)
(* die (payment.service.ts:105-130).  That one is GRATIS unless the body    *)
(* named another, which nothing prevents (register-user.use-case.ts:23-27). *)
PlanIsBought ==
  \A u \in Users :
    LET bought == {row \in txs : row.userId = u /\ row.status = "PAID"}
    IN  IF bought = {} THEN plan[u] = given[u]
        ELSE plan[u] \in {row.plan : row \in bought}

(* A payment is recorded or still being notified: no handler acknowledges a *)
(* payment it has not recorded, and a client can pay only for a checkout    *)
(* whose row is in the table (payment.service.ts:63-73,108-127).            *)
NoPaymentForgotten ==
  \A c \in Checkouts : charge[c] = "paid" => Confirmed(c) \/ c \in notices

(* The ledger's state, in the tables and in the handlers' local variables.  *)
Bill(row) == [id |-> row.externalId, user |-> row.userId, plan |-> row.plan]

bills == {Bill(row) : row \in txs}
settled == {c \in Checkouts : Confirmed(c)}
inHand == {c \in Checkouts : \E h \in Handlers : hook[h].pc = "apply" /\ hook[h].id = c}

(* The tables implement the ledger: a row is written once per checkout, its *)
(* payment and its user's plan are recorded together, and a payment that is *)
(* recorded and in no handler's hands never changes a plan again, so that a *)
(* repeated notification of an older purchase cannot undo a later one       *)
(* (payment.service.ts:105-127).                                            *)
Ledger == INSTANCE PaymentLedger WITH Ids <- Checkouts

LedgerSpec == Ledger!Spec

(* Every payment ends up confirmed, though handlers may die between reading *)
(* and committing and notifications repeat (payment.service.ts:91-130).     *)
PaymentsConfirmed ==
  \A c \in Checkouts : charge[c] = "paid" ~> Confirmed(c)
=============================================================================
