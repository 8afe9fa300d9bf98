--------------------------- MODULE PaymentProofs ---------------------------
(***************************************************************************)
(* Safety of Payment for every set of users, checkouts, requests and       *)
(* handlers, and that the tables implement PaymentLedger.                  *)
(*                                                                         *)
(* The inductive invariant follows a checkout's id: the gateway gives it   *)
(* to one request, that request writes its only row, its url is answered   *)
(* after that, it is paid for after that, and whatever a handler holds is  *)
(* a copy of the row.                                                      *)
(***************************************************************************)
EXTENDS Payment, TLAPS

Shape ==
  \A q \in Requests :
    /\ req[q].pc = "new" => req[q].id = None
    /\ req[q].pc \in {"priced", "listing", "product"} =>
         req[q].user \in Users /\ req[q].id = None
    /\ req[q].pc \in {"opened", "stored"} =>
         req[q].user \in Users /\ req[q].id \in Checkouts

\* The gateway gives no id twice.
DistinctIds ==
  /\ \A q, r \in Requests : req[q].id = req[r].id /\ req[q].id # None => q = r
  /\ \A q \in Requests : req[q].id # None => charge[req[q].id] # "none"

\* A row was written by the request that was given its id, and is the only one.
RowOrigin ==
  \A row \in txs : \E q \in Requests :
    req[q].id = row.externalId /\ req[q].pc # "opened"

UniqueRows ==
  \A r1, r2 \in txs : r1.externalId = r2.externalId => r1 = r2

HasRow(c) == \E row \in txs : row.externalId = c

RowFirst ==
  /\ \A q \in Requests : req[q].pc = "stored" => HasRow(req[q].id)
  /\ \A c \in urls : HasRow(c)
  /\ \A c \in Checkouts : charge[c] = "paid" => c \in urls
  /\ \A c \in notices : charge[c] = "paid"

HandlersCopy ==
  \A h \in Handlers : hook[h].pc # "idle" =>
    \E row \in txs : /\ row.externalId = hook[h].id /\ row.userId = hook[h].user
                     /\ row.plan = hook[h].plan
                     /\ hook[h].pc = "reply" => row.status = "PAID"

IInv ==
  /\ TypeOK /\ Shape /\ DistinctIds /\ RowOrigin /\ UniqueRows /\ RowFirst
  /\ HandlersCopy /\ PlanIsBought /\ NoPaymentForgotten
-----------------------------------------------------------------------------
LEMMA InitIInv == Init => IInv
  BY PaymentAssumption
     DEF Init, IInv, TypeOK, Shape, DistinctIds, RowOrigin, UniqueRows, HasRow,
         RowFirst, HandlersCopy, PlanIsBought, NoPaymentForgotten, Confirmed,
         Idle, Pcs, Request, Hook, Plans, PlanNames, Tx

LEMMA StutterKeeps == ASSUME IInv, UNCHANGED vars PROVE IInv'
  BY DEF IInv, TypeOK, Shape, DistinctIds, RowOrigin, UniqueRows, HasRow,
         RowFirst, HandlersCopy, PlanIsBought, NoPaymentForgotten, Confirmed,
         vars, gateway, tables
-----------------------------------------------------------------------------
(* Requests.                                                                *)

\* A request that neither is given an id nor writes nor answers, whatever it
\* does to its own record.
LEMMA QuietKeeps ==
  ASSUME IInv,
         NEW q \in Requests, NEW r \in Request,
         r.pc \in {"priced", "listing", "product", "failed"},
         r.id = req[q].id,
         r.pc # "failed" => r.user \in Users /\ r.id = None,
         req' = [req EXCEPT ![q] = r],
         products' \subseteq PlanNames,
         UNCHANGED <<charge, notices, tables, urls, hook, faults>>
  PROVE  IInv'
<1>0. req' \in [Requests -> Request] /\ req'[q] = r
      /\ \A p \in Requests : p # q => req'[p] = req[p]
  BY DEF IInv, TypeOK
<1>1. TypeOK'
  BY <1>0 DEF IInv, TypeOK, tables
<1>2. Shape'
  BY <1>0 DEF IInv, Shape
<1>3. DistinctIds'
  BY <1>0 DEF IInv, DistinctIds
<1>4. RowOrigin'
  BY <1>0 DEF IInv, RowOrigin, tables
<1>5. UniqueRows' /\ RowFirst'
  BY <1>0 DEF IInv, UniqueRows, RowFirst, HasRow, tables
<1>6. HandlersCopy' /\ PlanIsBought' /\ NoPaymentForgotten'
  BY DEF IInv, HandlersCopy, PlanIsBought, NoPaymentForgotten, Confirmed, tables
<1> QED
  BY <1>1, <1>2, <1>3, <1>4, <1>5, <1>6 DEF IInv

LEMMA StartKeeps ==
  ASSUME IInv, NEW q \in Requests, NEW u \in Users, NEW p \in PlanNames,
         Start(q, u, p)
  PROVE  IInv'
<1> DEFINE r == [req[q] EXCEPT !.pc = "priced", !.user = u, !.plan = p]
<1>1. r \in Request /\ r.pc = "priced" /\ r.user = u /\ r.id = req[q].id
      /\ req[q].id = None
  BY DEF IInv, TypeOK, Shape, Start, Request, Pcs
<1>2. req' = [req EXCEPT ![q] = r]
  BY DEF Start
<1>3. products' \subseteq PlanNames
      /\ UNCHANGED <<charge, notices, tables, urls, hook, faults>>
  BY DEF IInv, TypeOK, Start, gateway
<1> HIDE DEF r
<1> QED
  BY <1>1, <1>2, <1>3, QuietKeeps

\* The next step of a request, or its failure.
LEMMA GoKeeps ==
  ASSUME IInv, NEW q \in Requests, NEW from \in Pcs, NEW to, Go(q, from, to),
         \/ to = "failed"
         \/ to \in {"listing", "product"} /\ from \in {"priced", "listing"},
         products' \subseteq PlanNames,
         UNCHANGED <<charge, notices, tables, urls, hook, faults>>
  PROVE  IInv'
<1> DEFINE r == [req[q] EXCEPT !.pc = to]
<1>1. r \in Request /\ r.pc = to /\ r.user = req[q].user /\ r.id = req[q].id
  BY DEF IInv, TypeOK, Request, Pcs
<1>2. to # "failed" => r.user \in Users /\ r.id = None
  BY <1>1 DEF IInv, Shape, Go
<1>3. req' = [req EXCEPT ![q] = r]
  BY DEF Go
<1> HIDE DEF r
<1> QED
  BY <1>1, <1>2, <1>3, QuietKeeps

LEMMA QuietRequestKeeps ==
  ASSUME IInv, NEW q \in Requests,
         \/ Refuse(q) \/ ProductCreated(q) \/ ProductExists(q) \/ ProductFound(q)
         \/ CallFails(q) \/ StoreFails(q) \/ AnswerLost(q)
  PROVE  IInv'
<1>1. products \subseteq PlanNames /\ req[q].plan \in PlanNames /\ req[q].pc \in Pcs
  BY DEF IInv, TypeOK, Request
<1>2. CASE Refuse(q)
  BY <1>1, <1>2, GoKeeps DEF Refuse, gateway, Pcs
<1>3. CASE ProductCreated(q)
  BY <1>1, <1>3, GoKeeps DEF ProductCreated, Pcs
<1>4. CASE ProductExists(q)
  BY <1>1, <1>4, GoKeeps DEF ProductExists, gateway, Pcs
<1>5. CASE ProductFound(q)
  BY <1>1, <1>5, GoKeeps DEF ProductFound, gateway, Pcs
<1>6. CASE CallFails(q)
  BY <1>1, <1>6, GoKeeps DEF CallFails, gateway, Pcs
<1>7. CASE StoreFails(q)
  BY <1>1, <1>7, GoKeeps DEF StoreFails, gateway, Pcs
<1>8. CASE AnswerLost(q)
  BY <1>1, <1>8, GoKeeps DEF AnswerLost, gateway, Pcs
<1> QED
  BY <1>2, <1>3, <1>4, <1>5, <1>6, <1>7, <1>8

LEMMA CheckoutOpenedKeeps ==
  ASSUME IInv, NEW q \in Requests, NEW c \in Checkouts, CheckoutOpened(q, c)
  PROVE  IInv'
<1>0. /\ charge[c] = "none" /\ req[q].pc = "product"
      /\ req[q].user \in Users /\ req[q].id = None
      /\ charge' \in [Checkouts -> {"none", "open", "paid"}]
      /\ charge'[c] = "open"
      /\ \A d \in Checkouts : d # c => charge'[d] = charge[d]
      /\ UNCHANGED <<products, notices, txs, plan, given, urls, hook, faults>>
  BY DEF IInv, TypeOK, Shape, CheckoutOpened, tables
<1>1. /\ req' \in [Requests -> Request]
      /\ \A p \in Requests : p # q => req'[p] = req[p]
      /\ req'[q].user = req[q].user
      /\ \/ req'[q].pc = "opened" /\ req'[q].id = c
         \/ req'[q].pc = "failed" /\ req'[q].id = None
  <2> DEFINE r == [req[q] EXCEPT !.pc = "opened", !.id = c]
             s == [req[q] EXCEPT !.pc = "failed"]
  <2>1. /\ r \in Request /\ r.user = req[q].user /\ r.pc = "opened" /\ r.id = c
        /\ s \in Request /\ s.user = req[q].user /\ s.pc = "failed" /\ s.id = None
    BY <1>0 DEF IInv, TypeOK, Request, Pcs
  <2>2. req' = [req EXCEPT ![q] = r] \/ req' = [req EXCEPT ![q] = s]
    BY DEF CheckoutOpened, Go
  <2> HIDE DEF r, s
  <2> QED
    BY <2>1, <2>2 DEF IInv, TypeOK
<1>n. None \notin Checkouts
  BY PaymentAssumption
<1>2. TypeOK'
  BY <1>0, <1>1 DEF IInv, TypeOK
<1>3. Shape'
  BY <1>0, <1>1 DEF IInv, Shape
<1>4. DistinctIds'
  <2>1. ASSUME NEW p \in Requests, p # q PROVE req[p].id # c /\ req'[p].id = req[p].id
    BY <2>1, <1>0, <1>1, <1>n DEF IInv, DistinctIds
  <2>2. ASSUME NEW p \in Requests, req'[p].id # None
        PROVE  req'[p].id \in Checkouts /\ charge'[req'[p].id] # "none"
    BY <2>2, <2>1, <1>0, <1>1 DEF IInv, DistinctIds, Request
  <2> QED
    BY <2>1, <2>2, <1>1 DEF IInv, DistinctIds
<1>5. RowOrigin'
  BY <1>0, <1>1, <1>n DEF IInv, TypeOK, Tx, RowOrigin
<1>6. UniqueRows' /\ RowFirst'
  BY <1>0, <1>1 DEF IInv, TypeOK, UniqueRows, RowFirst, HasRow
<1>7. HandlersCopy' /\ PlanIsBought'
  BY <1>0 DEF IInv, HandlersCopy, PlanIsBought
<1>8. NoPaymentForgotten'
  BY <1>0 DEF IInv, NoPaymentForgotten, Confirmed
<1> QED
  BY <1>2, <1>3, <1>4, <1>5, <1>6, <1>7, <1>8 DEF IInv

\* What a Go does to the request and to the others.
LEMMA GoEffect ==
  ASSUME TypeOK, NEW q \in Requests, NEW from, NEW to \in Pcs, Go(q, from, to)
  PROVE  /\ req[q].pc = from
         /\ req' \in [Requests -> Request]
         /\ req'[q].pc = to /\ req'[q].id = req[q].id /\ req'[q].user = req[q].user
         /\ \A p \in Requests : p # q => req'[p] = req[p]
<1> DEFINE r == [req[q] EXCEPT !.pc = to]
<1>1. r \in Request /\ r.pc = to /\ r.id = req[q].id /\ r.user = req[q].user
  BY DEF TypeOK, Request
<1>2. req' = [req EXCEPT ![q] = r] /\ req[q].pc = from
  BY DEF Go
<1> HIDE DEF r
<1> QED
  BY <1>1, <1>2 DEF TypeOK

\* No row has the id of a request that has not stored yet.
LEMMA NotStoredYet ==
  ASSUME IInv, NEW q \in Requests, req[q].pc = "opened"
  PROVE  ~HasRow(req[q].id)
<1> SUFFICES ASSUME NEW row \in txs, row.externalId = req[q].id PROVE FALSE
  BY DEF HasRow
<1>1. PICK r \in Requests : req[r].id = row.externalId /\ req[r].pc # "opened"
  BY DEF IInv, RowOrigin
<1>2. req[q].id # None
  BY PaymentAssumption DEF IInv, Shape
<1> QED
  BY <1>1, <1>2 DEF IInv, DistinctIds

LEMMA StoreKeeps ==
  ASSUME IInv, NEW q \in Requests, Store(q) PROVE IInv'
<1> DEFINE new == [externalId |-> req[q].id, userId |-> req[q].user,
                   plan |-> req[q].plan, status |-> "PENDING"]
<1>0. /\ req[q].pc = "opened" /\ req[q].id \in Checkouts /\ req[q].user \in Users
      /\ req' \in [Requests -> Request]
      /\ req'[q].pc = "stored" /\ req'[q].id = req[q].id /\ req'[q].user = req[q].user
      /\ \A p \in Requests : p # q => req'[p] = req[p]
  BY GoEffect DEF IInv, Shape, Store, Pcs
<1>1. /\ txs' = txs \cup {new} /\ new \in Tx /\ new.status = "PENDING"
      /\ new.externalId = req[q].id
      /\ UNCHANGED <<products, charge, notices, plan, given, urls, hook, faults>>
  BY <1>0 DEF Store, Tx, gateway
<1>2. \A row \in txs : row.externalId # req[q].id
  BY <1>0, NotStoredYet DEF HasRow
<1> HIDE DEF new
<1>3. TypeOK'
  BY <1>0, <1>1 DEF IInv, TypeOK
<1>4. Shape' /\ DistinctIds'
  BY <1>0, <1>1 DEF IInv, Shape, DistinctIds
<1>5. RowOrigin'
  BY <1>0, <1>1 DEF IInv, RowOrigin
<1>6. UniqueRows'
  BY <1>1, <1>2 DEF IInv, UniqueRows
<1>7. RowFirst'
  BY <1>0, <1>1 DEF IInv, RowFirst, HasRow
<1>8. HandlersCopy'
  BY <1>1 DEF IInv, HandlersCopy
<1>9. PlanIsBought'
  <2>1. ASSUME NEW u \in Users
        PROVE  {row \in txs' : row.userId = u /\ row.status = "PAID"}
               = {row \in txs : row.userId = u /\ row.status = "PAID"}
    BY <1>1
  <2> QED
    BY <2>1, <1>1 DEF IInv, PlanIsBought
<1>10. NoPaymentForgotten'
  BY <1>1 DEF IInv, NoPaymentForgotten, Confirmed
<1> QED
  BY <1>3, <1>4, <1>5, <1>6, <1>7, <1>8, <1>9, <1>10 DEF IInv

LEMMA AnswerKeeps ==
  ASSUME IInv, NEW q \in Requests, Answer(q) PROVE IInv'
<1>0. /\ req[q].pc = "stored" /\ req[q].id \in Checkouts
      /\ req' \in [Requests -> Request]
      /\ req'[q].pc = "ok" /\ req'[q].id = req[q].id
      /\ \A p \in Requests : p # q => req'[p] = req[p]
  BY GoEffect DEF IInv, Shape, Answer, Pcs
<1>1. /\ urls' = urls \cup {req[q].id}
      /\ UNCHANGED <<products, charge, notices, txs, plan, given, hook, faults>>
  BY DEF Answer, gateway, tables
<1>2. TypeOK'
  BY <1>0, <1>1 DEF IInv, TypeOK
<1>3. Shape' /\ DistinctIds'
  BY <1>0, <1>1 DEF IInv, Shape, DistinctIds
<1>4. RowOrigin' /\ UniqueRows'
  BY <1>0, <1>1 DEF IInv, RowOrigin, UniqueRows
<1>5. RowFirst'
  BY <1>0, <1>1 DEF IInv, RowFirst, HasRow
<1>6. HandlersCopy' /\ PlanIsBought' /\ NoPaymentForgotten'
  BY <1>1 DEF IInv, HandlersCopy, PlanIsBought, NoPaymentForgotten, Confirmed
<1> QED
  BY <1>2, <1>3, <1>4, <1>5, <1>6 DEF IInv
-----------------------------------------------------------------------------
(* The gateway and the webhook.                                             *)
LEMMA PayKeeps ==
  ASSUME IInv, NEW c \in Checkouts, Pay(c) PROVE IInv'
<1>1. /\ charge' \in [Checkouts -> {"none", "open", "paid"}] /\ charge'[c] = "paid"
      /\ \A d \in Checkouts : d # c => charge'[d] = charge[d]
      /\ c \in urls /\ notices' = notices \cup {c}
      /\ UNCHANGED <<products, txs, plan, given, urls, req, hook, faults>>
  BY DEF IInv, TypeOK, Pay, tables
<1>2. TypeOK'
  BY <1>1 DEF IInv, TypeOK
<1>3. DistinctIds'
  BY <1>1 DEF IInv, TypeOK, DistinctIds, Request
<1>4. Shape' /\ RowOrigin' /\ UniqueRows'
  BY <1>1 DEF IInv, Shape, RowOrigin, UniqueRows
<1>5. RowFirst'
  BY <1>1 DEF IInv, TypeOK, RowFirst, HasRow
<1>6. HandlersCopy' /\ PlanIsBought' /\ NoPaymentForgotten'
  BY <1>1 DEF IInv, HandlersCopy, PlanIsBought, NoPaymentForgotten, Confirmed
<1> QED
  BY <1>2, <1>3, <1>4, <1>5, <1>6 DEF IInv

LEMMA NotifyAgainKeeps ==
  ASSUME IInv, NEW c \in Checkouts, NotifyAgain(c) PROVE IInv'
<1>1. /\ charge[c] = "paid" /\ notices' = notices \cup {c} /\ faults' \in Nat
      /\ UNCHANGED <<products, charge, txs, plan, given, urls, req, hook>>
  BY DEF IInv, TypeOK, NotifyAgain, tables
<1>2. TypeOK' /\ Shape' /\ DistinctIds' /\ RowOrigin' /\ UniqueRows'
  BY <1>1 DEF IInv, TypeOK, Shape, DistinctIds, RowOrigin, UniqueRows
<1>3. RowFirst'
  BY <1>1 DEF IInv, RowFirst, HasRow
<1>4. HandlersCopy' /\ PlanIsBought' /\ NoPaymentForgotten'
  BY <1>1 DEF IInv, HandlersCopy, PlanIsBought, NoPaymentForgotten, Confirmed
<1> QED
  BY <1>1, <1>2, <1>3, <1>4 DEF IInv

\* A handler that begins, goes on or ends without touching the tables.
LEMMA HandlerKeeps ==
  ASSUME IInv, NEW h \in Handlers, NEW k \in Hook,
         hook' = [hook EXCEPT ![h] = k],
         k.pc # "idle" =>
           \E row \in txs : /\ row.externalId = k.id /\ row.userId = k.user
                            /\ row.plan = k.plan
                            /\ k.pc = "reply" => row.status = "PAID",
         notices' \subseteq notices,
         \A c \in notices : c \in notices' \/ Confirmed(c),
         faults' \in Nat,
         UNCHANGED <<products, charge, txs, plan, given, urls, req>>
  PROVE  IInv'
<1>1. TypeOK'
  BY DEF IInv, TypeOK
<1>2. Shape' /\ DistinctIds' /\ RowOrigin' /\ UniqueRows' /\ RowFirst' /\ PlanIsBought'
  BY DEF IInv, Shape, DistinctIds, RowOrigin, UniqueRows, RowFirst, HasRow, PlanIsBought
<1>3. HandlersCopy'
  BY DEF IInv, TypeOK, HandlersCopy
<1>4. NoPaymentForgotten'
  BY DEF IInv, NoPaymentForgotten, Confirmed
<1> QED
  BY <1>1, <1>2, <1>3, <1>4 DEF IInv

LEMMA TakeKeeps ==
  ASSUME IInv, NEW h \in Handlers, NEW row \in txs, NEW isNotice \in BOOLEAN,
         Take(h, row, isNotice)
  PROVE  IInv'
<1> DEFINE k == [pc |-> "apply", id |-> row.externalId, user |-> row.userId,
                 plan |-> row.plan, notified |-> isNotice]
<1>1. /\ k \in Hook /\ k.pc = "apply" /\ k.id = row.externalId
      /\ k.user = row.userId /\ k.plan = row.plan
  BY DEF IInv, TypeOK, Tx, Hook
<1>2. /\ hook' = [hook EXCEPT ![h] = k] /\ faults' \in Nat
      /\ UNCHANGED <<products, charge, notices, txs, plan, given, urls, req>>
  BY DEF IInv, TypeOK, Take, gateway, tables
<1> HIDE DEF k
<1> QED
  BY <1>1, <1>2, HandlerKeeps

LEMMA IdleHook == Idle \in Hook /\ Idle.pc = "idle"
  BY DEF Idle, Hook, Plans

LEMMA HookNothingKeeps ==
  ASSUME IInv, NEW h \in Handlers, NEW c \in Checkouts, HookNothing(h, c)
  PROVE  IInv'
<1>1. c \in notices /\ HasRow(c)
  BY DEF IInv, RowFirst, HookNothing
<1>2. Confirmed(c)
  BY <1>1 DEF HookNothing, HasRow, Confirmed
<1>3. /\ notices' = notices \ {c}
      /\ UNCHANGED <<products, charge, txs, plan, given, urls, req, hook, faults>>
  BY DEF HookNothing, tables
<1>4. hook[h] \in Hook /\ hook' = [hook EXCEPT ![h] = hook[h]] /\ hook[h].pc = "idle"
      /\ faults' \in Nat
  BY <1>3 DEF IInv, TypeOK, HookNothing
<1> QED
  BY <1>2, <1>3, <1>4, HandlerKeeps

LEMMA HookReplyKeeps ==
  ASSUME IInv, NEW h \in Handlers, HookReply(h) PROVE IInv'
<1>1. Confirmed(hook[h].id)
  BY DEF IInv, HandlersCopy, HookReply, Confirmed
<1>2. /\ notices' \subseteq notices /\ \A c \in notices : c \in notices' \/ c = hook[h].id
      /\ hook' = [hook EXCEPT ![h] = Idle] /\ faults' \in Nat
      /\ UNCHANGED <<products, charge, txs, plan, given, urls, req>>
  BY DEF IInv, TypeOK, HookReply, tables
<1> QED
  BY <1>1, <1>2, IdleHook, HandlerKeeps

LEMMA HookDiesKeeps ==
  ASSUME IInv, NEW h \in Handlers, HookDies(h) PROVE IInv'
<1>1. /\ hook' = [hook EXCEPT ![h] = Idle] /\ faults' \in Nat
      /\ UNCHANGED <<products, charge, notices, txs, plan, given, urls, req>>
  BY DEF IInv, TypeOK, HookDies, gateway, tables
<1> QED
  BY <1>1, IdleHook, HandlerKeeps

\* Marking a checkout as paid touches its row and no other.
LEMMA PaidEffect ==
  ASSUME TypeOK, NEW c \in Checkouts
  PROVE  /\ Paid(c) \subseteq Tx
         /\ \A row \in Paid(c) : row.externalId = c => row.status = "PAID"
         /\ \A row \in Paid(c) : row.externalId # c => row \in txs
         /\ \A row \in Paid(c) : \E old \in txs :
              /\ old.externalId = row.externalId /\ old.userId = row.userId
              /\ old.plan = row.plan /\ (old.status = "PAID" => old = row)
         /\ \A old \in txs : \E row \in Paid(c) :
              /\ row.externalId = old.externalId /\ row.userId = old.userId
              /\ row.plan = old.plan
              /\ (old.externalId = c \/ old.status = "PAID" => row.status = "PAID")
         /\ \A old \in txs : old.externalId # c => old \in Paid(c)
<1> DEFINE f(row) == IF row.externalId = c THEN [row EXCEPT !.status = "PAID"] ELSE row
<1>1. ASSUME NEW row \in txs
      PROVE  /\ f(row) \in Tx /\ f(row).externalId = row.externalId
             /\ f(row).userId = row.userId /\ f(row).plan = row.plan
             /\ (row.externalId = c \/ row.status = "PAID") => f(row).status = "PAID"
             /\ row.externalId # c \/ row.status = "PAID" => f(row) = row
  BY DEF TypeOK, Tx
<1>2. Paid(c) = {f(row) : row \in txs}
  BY DEF Paid
<1> HIDE DEF f
<1> QED
  BY <1>1, <1>2

LEMMA HookCommitKeeps ==
  ASSUME IInv, NEW h \in Handlers, HookCommit(h) PROVE IInv'
<1> DEFINE c == hook[h].id
           k == [hook[h] EXCEPT !.pc = "reply"]
<1>1. PICK mine \in txs : /\ mine.externalId = c /\ mine.userId = hook[h].user
                          /\ mine.plan = hook[h].plan
  BY DEF IInv, HandlersCopy, HookCommit
<1>2. /\ c \in Checkouts /\ hook[h].user \in Users /\ hook[h].plan \in Plans
      /\ k \in Hook /\ k.pc = "reply" /\ k.id = c /\ k.user = hook[h].user
      /\ k.plan = hook[h].plan
  BY <1>1 DEF IInv, TypeOK, Tx, Hook
<1>3. /\ txs' = Paid(c) /\ hook' = [hook EXCEPT ![h] = k]
      /\ plan' = [plan EXCEPT ![hook[h].user] = hook[h].plan]
      /\ UNCHANGED <<products, charge, notices, given, urls, req, faults>>
  BY DEF HookCommit, gateway
<1> HIDE DEF c, k
<1>4. /\ txs' \subseteq Tx
      /\ \A row \in txs' : row.externalId = c => row.status = "PAID"
      /\ \A row \in txs' : row.externalId # c => row \in txs
      /\ \A row \in txs' : \E old \in txs :
           /\ old.externalId = row.externalId /\ old.userId = row.userId
           /\ old.plan = row.plan /\ (old.status = "PAID" => old = row)
      /\ \A old \in txs : \E row \in txs' :
           /\ row.externalId = old.externalId /\ row.userId = old.userId
           /\ row.plan = old.plan
           /\ (old.externalId = c \/ old.status = "PAID" => row.status = "PAID")
      /\ \A old \in txs : old.externalId # c => old \in txs'
  BY <1>2, <1>3, PaidEffect DEF IInv
<1>5. TypeOK'
  BY <1>2, <1>3, <1>4 DEF IInv, TypeOK
<1>6. Shape' /\ DistinctIds'
  BY <1>3 DEF IInv, Shape, DistinctIds
<1>7. RowOrigin'
  BY <1>3, <1>4 DEF IInv, RowOrigin
<1>8. UniqueRows'
  <2> SUFFICES ASSUME NEW r1 \in txs', NEW r2 \in txs', r1.externalId = r2.externalId
               PROVE  r1 = r2
    BY DEF UniqueRows
  <2>1. PICK o1 \in txs, o2 \in txs :
          /\ o1.externalId = r1.externalId /\ o1.userId = r1.userId /\ o1.plan = r1.plan
          /\ o2.externalId = r2.externalId /\ o2.userId = r2.userId /\ o2.plan = r2.plan
    BY <1>4
  <2>2. o1 = o2
    BY <2>1 DEF IInv, UniqueRows
  <2>3. CASE r1.externalId = c
    <3>1. r1 \in Tx /\ r2 \in Tx /\ r1.status = "PAID" /\ r2.status = "PAID"
      BY <2>3, <1>4
    <3>2. r1.userId = r2.userId /\ r1.plan = r2.plan
      BY <2>1, <2>2
    <3> QED
      BY <3>1, <3>2 DEF Tx
  <2>4. CASE r1.externalId # c
    BY <2>4, <1>4 DEF IInv, UniqueRows
  <2> QED
    BY <2>3, <2>4
<1>9. RowFirst'
  <2>1. \A d : HasRow(d) => HasRow(d)'
    BY <1>4 DEF HasRow
  <2> QED
    BY <2>1, <1>3 DEF IInv, RowFirst
<1>10. HandlersCopy'
  <2> SUFFICES ASSUME NEW g \in Handlers, hook'[g].pc # "idle"
               PROVE  \E row \in txs' :
                        /\ row.externalId = hook'[g].id /\ row.userId = hook'[g].user
                        /\ row.plan = hook'[g].plan
                        /\ hook'[g].pc = "reply" => row.status = "PAID"
    BY DEF HandlersCopy
  <2>1. CASE g = h
    BY <2>1, <1>1, <1>2, <1>3, <1>4 DEF IInv, TypeOK
  <2>2. CASE g # h
    BY <2>2, <1>3, <1>4 DEF IInv, TypeOK, HandlersCopy
  <2> QED
    BY <2>1, <2>2
<1>11. PlanIsBought'
  <2> SUFFICES ASSUME NEW u \in Users
               PROVE  LET bought == {row \in txs' : row.userId = u /\ row.status = "PAID"}
                      IN  IF bought = {} THEN plan'[u] = given'[u]
                          ELSE plan'[u] \in {row.plan : row \in bought}
    BY DEF PlanIsBought
  <2>1. CASE u = hook[h].user
    <3>1. PICK row \in txs' : /\ row.externalId = c /\ row.userId = u
                              /\ row.plan = hook[h].plan /\ row.status = "PAID"
      BY <2>1, <1>1, <1>4
    <3>2. plan'[u] = hook[h].plan
      BY <2>1, <1>3 DEF IInv, TypeOK
    <3> QED
      BY <3>1, <3>2
  <2>2. CASE u # hook[h].user
    <3>1. \A row \in txs : row.userId = u => row.externalId # c
      BY <2>2, <1>1 DEF IInv, UniqueRows
    <3>2. \A row \in txs' : row.userId = u => row.externalId # c
      BY <3>1, <1>4
    <3>3. {row \in txs' : row.userId = u /\ row.status = "PAID"}
          = {row \in txs : row.userId = u /\ row.status = "PAID"}
      BY <3>1, <3>2, <1>4
    <3>4. plan'[u] = plan[u] /\ given' = given
      BY <2>2, <1>3 DEF IInv, TypeOK
    <3> QED
      BY <3>3, <3>4 DEF IInv, PlanIsBought
  <2> QED
    BY <2>1, <2>2
<1>12. NoPaymentForgotten'
  <2>1. \A d : Confirmed(d) => Confirmed(d)'
    BY <1>4 DEF Confirmed
  <2> QED
    BY <2>1, <1>3 DEF IInv, NoPaymentForgotten
<1> QED
  BY <1>5, <1>6, <1>7, <1>8, <1>9, <1>10, <1>11, <1>12 DEF IInv
-----------------------------------------------------------------------------
LEMMA NextKeeps == ASSUME IInv, [Next]_vars PROVE IInv'
<1>1. ASSUME NEW q \in Requests, Buying(q) PROVE IInv'
  BY <1>1, StartKeeps, QuietRequestKeeps, CheckoutOpenedKeeps, StoreKeeps, AnswerKeeps
     DEF Buying
<1>2. ASSUME NEW c \in Checkouts, Pay(c) \/ NotifyAgain(c) PROVE IInv'
  BY <1>2, PayKeeps, NotifyAgainKeeps
<1>3. ASSUME NEW h \in Handlers, Confirming(h) PROVE IInv'
  <2>1. ASSUME NEW c \in Checkouts, HookTake(h, c) \/ ForceConfirm(h, c) PROVE IInv'
    BY <2>1, TakeKeeps DEF HookTake, ForceConfirm
  <2> QED
    BY <1>3, <2>1, HookNothingKeeps, HookCommitKeeps, HookReplyKeeps, HookDiesKeeps
       DEF Confirming
<1> QED
  BY <1>1, <1>2, <1>3, StutterKeeps DEF Next

\* The inductive invariant holds of every behaviour.
LEMMA Inductive == Spec => []IInv
  BY InitIInv, NextKeeps, PTL DEF Spec

\* Every variable keeps its type, whatever requests and handlers do.
THEOREM TypeCorrect == Spec => []TypeOK
<1>1. IInv => TypeOK
  BY DEF IInv
<1> QED
  BY <1>1, Inductive, PTL

\* After registration a user's plan changes only to that of a paid purchase
\* of theirs (payment.service.ts:105-130).
THEOREM PlansAreBought == Spec => []PlanIsBought
<1>1. IInv => PlanIsBought
  BY DEF IInv
<1> QED
  BY <1>1, Inductive, PTL

\* A payment is recorded or its notification is still unanswered
\* (payment.service.ts:63-73,108-127).
THEOREM PaymentsKept == Spec => []NoPaymentForgotten
<1>1. IInv => NoPaymentForgotten
  BY DEF IInv
<1> QED
  BY <1>1, Inductive, PTL
-----------------------------------------------------------------------------
(* The tables implement the ledger.  A row's bill is offered when the row   *)
(* is stored, in hand while some handler is between reading and committing, *)
(* and settled when the row is marked.                                      *)
LEMMA BillOfRow ==
  ASSUME IInv, NEW row \in txs
  PROVE  /\ Bill(row) \in bills /\ Bill(row).id = row.externalId
         /\ Bill(row).user = row.userId /\ Bill(row).plan = row.plan
  BY DEF Bill, bills

LEMMA InitLedger == Init => Ledger!Init
  BY DEF Init, Ledger!Init, bills, settled, inHand, Confirmed, Idle

\* What a step that leaves the tables alone shows the ledger: the hands.
LEMMA QuietTables ==
  ASSUME UNCHANGED <<txs, plan>>
  PROVE  UNCHANGED <<bills, settled, plan>>
  BY DEF bills, settled, Confirmed, Bill

LEMMA StoreOffers ==
  ASSUME IInv, NEW q \in Requests, Store(q) PROVE Ledger!Next
<1> DEFINE new == [externalId |-> req[q].id, userId |-> req[q].user,
                   plan |-> req[q].plan, status |-> "PENDING"]
<1>1. /\ txs' = txs \cup {new} /\ new.status = "PENDING" /\ new.externalId = req[q].id
      /\ UNCHANGED <<plan, hook>>
  BY DEF Store
<1>2. /\ req[q].pc = "opened" /\ req[q].id \in Checkouts /\ req[q].user \in Users
      /\ req[q].plan \in Plans
  BY DEF IInv, Shape, Store, Go
<1>3. Bill(new) \in Ledger!Bill /\ Bill(new).id = req[q].id
  BY <1>2 DEF Bill, Ledger!Bill
<1> HIDE DEF new
<1>4. \A other \in bills : other.id # req[q].id
  BY <1>2, NotStoredYet DEF HasRow, bills, Bill
<1>5. bills' = bills \cup {Bill(new)}
  BY <1>1 DEF bills, Bill
<1>6. UNCHANGED <<settled, inHand>>
  BY <1>1 DEF settled, inHand, Confirmed
<1>7. Ledger!Offer(Bill(new))
  BY <1>1, <1>3, <1>4, <1>5, <1>6 DEF Ledger!Offer
<1> QED
  BY <1>3, <1>7 DEF Ledger!Next

\* What a handler holds in hand after its step, when the other handlers rest.
LEMMA TakeTakesUp ==
  ASSUME IInv, NEW h \in Handlers, NEW row \in txs, NEW isNotice \in BOOLEAN,
         Take(h, row, isNotice)
  PROVE  Ledger!Next
<1> DEFINE b == Bill(row)
<1>1. b \in bills /\ b.id = row.externalId
  BY BillOfRow
<1>2. row.externalId \notin settled
  BY DEF IInv, UniqueRows, settled, Confirmed, Take
<1>3. UNCHANGED <<bills, settled, plan>>
  BY QuietTables DEF Take, tables
<1>4. /\ hook' \in [Handlers -> Hook] /\ hook[h].pc = "idle"
      /\ hook'[h].pc = "apply" /\ hook'[h].id = row.externalId
      /\ \A g \in Handlers : g # h => hook'[g] = hook[g]
      /\ row.externalId \in Checkouts
  BY TakeKeeps DEF IInv, TypeOK, Take, Tx
<1>5. inHand' = inHand \cup {row.externalId}
  BY <1>4 DEF inHand
<1> HIDE DEF b
<1>6. Ledger!TakeUp(b)
  BY <1>1, <1>2, <1>3, <1>5 DEF Ledger!TakeUp
<1> QED
  BY <1>1, <1>6 DEF Ledger!Next

\* A handler that leaves "apply" lets its checkout go, unless another has it.
LEMMA LeavesHand ==
  ASSUME IInv, NEW h \in Handlers, NEW k \in Hook, k.pc # "apply",
         hook' = [hook EXCEPT ![h] = k]
  PROVE  /\ inHand' \in {inHand, inHand \ {hook[h].id}}
         /\ hook[h].pc # "apply" => inHand' = inHand
<1>1. \A g \in Handlers : hook'[g] = IF g = h THEN k ELSE hook[g]
  BY DEF IInv, TypeOK
<1>2. CASE \E g \in Handlers : g # h /\ hook[g].pc = "apply" /\ hook[g].id = hook[h].id
  <2>1. inHand' = inHand
    BY <1>1, <1>2 DEF inHand
  <2> QED
    BY <2>1
<1>3. CASE ~\E g \in Handlers : g # h /\ hook[g].pc = "apply" /\ hook[g].id = hook[h].id
  <2>1. CASE hook[h].pc = "apply"
    <3>1. inHand' = inHand \ {hook[h].id}
      BY <1>1, <1>3, <2>1 DEF inHand
    <3> QED
      BY <3>1, <2>1
  <2>2. CASE hook[h].pc # "apply"
    <3>1. inHand' = inHand
      BY <1>1, <2>2 DEF inHand
    <3> QED
      BY <3>1
  <2> QED
    BY <2>1, <2>2
<1> QED
  BY <1>2, <1>3

LEMMA CommitSettles ==
  ASSUME IInv, NEW h \in Handlers, HookCommit(h) PROVE Ledger!Next
<1> DEFINE c == hook[h].id
           k == [hook[h] EXCEPT !.pc = "reply"]
<1>1. PICK row \in txs : /\ row.externalId = c /\ row.userId = hook[h].user
                         /\ row.plan = hook[h].plan
  BY DEF IInv, HandlersCopy, HookCommit
<1>2. c \in Checkouts /\ k \in Hook /\ k.pc = "reply" /\ hook[h].pc = "apply"
  BY <1>1 DEF IInv, TypeOK, Tx, Hook, HookCommit
<1>3. /\ txs' = Paid(c) /\ hook' = [hook EXCEPT ![h] = k]
      /\ plan' = [plan EXCEPT ![hook[h].user] = hook[h].plan]
  BY DEF HookCommit
<1> HIDE DEF k, c
<1>4. inHand' \in {inHand, inHand \ {hook[h].id}} /\ c \in inHand
  BY <1>2, <1>3, LeavesHand DEF inHand, c
<1>5. /\ \A r \in txs' : r.externalId = c => r.status = "PAID"
      /\ \A r \in txs' : r.externalId # c => r \in txs
      /\ \A r \in txs' : \E old \in txs :
           /\ old.externalId = r.externalId /\ old.userId = r.userId
           /\ old.plan = r.plan /\ (old.status = "PAID" => old = r)
      /\ \A old \in txs : \E r \in txs' :
           /\ r.externalId = old.externalId /\ r.userId = old.userId
           /\ r.plan = old.plan
           /\ (old.externalId = c \/ old.status = "PAID" => r.status = "PAID")
  BY <1>2, <1>3, PaidEffect DEF IInv
<1>6. bills' = bills
  BY <1>5 DEF bills, Bill
<1>7. settled' = settled \cup {c}
  BY <1>1, <1>2, <1>5 DEF settled, Confirmed
<1>8. /\ Bill(row) \in bills /\ Bill(row).id = c
      /\ Bill(row).user = hook[h].user /\ Bill(row).plan = hook[h].plan
  BY <1>1, BillOfRow
<1>9. Ledger!Settle(Bill(row))
  BY <1>3, <1>4, <1>6, <1>7, <1>8 DEF Ledger!Settle, Ledger!LetGo, c
<1> QED
  BY <1>8, <1>9 DEF Ledger!Next

LEMMA DeathGivesUp ==
  ASSUME IInv, NEW h \in Handlers, HookDies(h) PROVE Ledger!Next
<1>1. PICK row \in txs : row.externalId = hook[h].id
  BY DEF IInv, HandlersCopy, HookDies
<1>2. Bill(row) \in bills /\ Bill(row).id = hook[h].id
  BY <1>1, BillOfRow
<1>3. UNCHANGED <<bills, settled, plan>>
  BY QuietTables DEF HookDies, tables
<1>4. inHand' \in {inHand, inHand \ {hook[h].id}}
  BY IdleHook, LeavesHand DEF HookDies
<1>5. Ledger!GiveUp(Bill(row))
  BY <1>2, <1>3, <1>4 DEF Ledger!GiveUp, Ledger!LetGo
<1> QED
  BY <1>2, <1>5 DEF Ledger!Next

\* Every other step stutters.
LEMMA OthersStutter ==
  ASSUME IInv,
         \/ \E q \in Requests :
              \/ \E u \in Users, p \in PlanNames : Start(q, u, p)
              \/ Refuse(q) \/ ProductCreated(q) \/ ProductExists(q) \/ ProductFound(q)
              \/ \E c \in Checkouts : CheckoutOpened(q, c)
              \/ CallFails(q) \/ StoreFails(q) \/ Answer(q) \/ AnswerLost(q)
         \/ \E c \in Checkouts : Pay(c) \/ NotifyAgain(c)
         \/ \E h \in Handlers, c \in Checkouts : HookNothing(h, c)
         \/ UNCHANGED vars
  PROVE  UNCHANGED Ledger!vars
<1>1. UNCHANGED <<txs, plan, hook>>
  BY DEF Start, Refuse, ProductCreated, ProductExists, ProductFound, CheckoutOpened,
         CallFails, StoreFails, Answer, AnswerLost, Pay, NotifyAgain, HookNothing,
         tables, vars
<1>2. UNCHANGED <<bills, settled, inHand, plan>>
  BY <1>1, QuietTables DEF inHand
<1> QED
  BY <1>2 DEF Ledger!vars

LEMMA ReplyStutters ==
  ASSUME IInv, NEW h \in Handlers, HookReply(h) PROVE UNCHANGED Ledger!vars
<1>1. UNCHANGED <<bills, settled, plan>>
  BY QuietTables DEF HookReply, tables
<1>2. inHand' = inHand
  BY IdleHook, LeavesHand DEF HookReply
<1> QED
  BY <1>1, <1>2 DEF Ledger!vars

LEMMA LedgerStep ==
  ASSUME IInv, [Next]_vars PROVE [Ledger!Next]_(Ledger!vars)
<1>1. ASSUME NEW q \in Requests, Buying(q) PROVE [Ledger!Next]_(Ledger!vars)
  <2>1. CASE Store(q)
    BY <2>1, StoreOffers
  <2> QED
    BY <1>1, <2>1, OthersStutter DEF Buying
<1>2. ASSUME NEW h \in Handlers, Confirming(h) PROVE [Ledger!Next]_(Ledger!vars)
  <2>1. ASSUME NEW c \in Checkouts, HookTake(h, c) \/ ForceConfirm(h, c) PROVE Ledger!Next
    BY <2>1, TakeTakesUp DEF HookTake, ForceConfirm
  <2>2. CASE HookCommit(h)
    BY <2>2, CommitSettles
  <2>3. CASE HookReply(h)
    BY <2>3, ReplyStutters
  <2>4. CASE HookDies(h)
    BY <2>4, DeathGivesUp
  <2>5. ASSUME NEW c \in Checkouts, HookNothing(h, c) PROVE UNCHANGED Ledger!vars
    BY <2>5, OthersStutter
  <2> QED
    BY <1>2, <2>1, <2>2, <2>3, <2>4, <2>5 DEF Confirming
<1> QED
  BY <1>1, <1>2, OthersStutter DEF Next

\* The tables implement the ledger: a recorded payment that no handler has in
\* hand never changes a plan again (payment.service.ts:105-127).
THEOREM TablesImplementLedger == Spec => LedgerSpec
<1>1. IInv /\ [Next]_vars => [Ledger!Next]_(Ledger!vars)
  BY LedgerStep
<1> QED
  BY <1>1, InitLedger, Inductive, PTL DEF Spec, LedgerSpec, Ledger!Spec
=============================================================================
