--------------------------- MODULE AccountsProofs ---------------------------
(***************************************************************************)
(* Safety of Accounts for every set of names, spellings, ids, columns,     *)
(* values and requests.                                                    *)
(*                                                                         *)
(* The table User has unique columns over text, so that one account per    *)
(* address is a matter of every stored address, and every address waiting  *)
(* to be stored, being in one spelling.  A profile is compared with the    *)
(* log of its patches column by column; the answer to a patch is compared  *)
(* with a log that goes on growing.                                        *)
(***************************************************************************)
EXTENDS Accounts, TLAPS

Normal(r) == r.email \in Address /\ r.email.typed = Lower

OwnRow(r) ==
  \E row \in users : row.id = r.user /\ row.alias = r.alias /\ row.email = r.email

\* What a request's record says of the tables, by how far it has come.
Local(r) ==
  /\ r.pc = "new" => r = Idle
  /\ r.pc = "hashing" => r.op = "register" /\ r.user = None /\ r.body = None /\ Normal(r)
  /\ r.pc = "written" => r.op \in {"register", "verify", "patch"} /\ r.body = None
  /\ r.pc = "written" /\ r.op = "patch" => r.user \in Ids
  /\ r.pc = "written" /\ r.op = "register" => OwnRow(r)
  /\ r.pc = "written" /\ r.op = "patch" => r.nth \in 1..Len(log[r.user])
  /\ r.body # None => r.user \in Ids /\ r.nth \in 1..Len(log[r.user])

UniqueColumns ==
  /\ \A row \in users : Normal(row)
  /\ \A r1, r2 \in users :
       r1.id = r2.id \/ r1.email = r2.email \/ r1.alias = r2.alias => r1 = r2

\* Every account was inserted by a request, with what the request held; only its
\* token may be gone since.
Inserted(r, row) ==
  /\ r.op = "register" /\ r.user = row.id /\ r.email = row.email /\ r.alias = row.alias
  /\ row.verificationToken \in {None, r.spread.token}

Owners == \A row \in users : \E q \in Requests : Inserted(req[q], row)

OneProfileEach == \A r1, r2 \in profiles : r1.userId = r2.userId => r1 = r2

\* RegistrationDecided and AnswerShowsPatch, of one request.
Decided(q) ==
  req[q].pc \in {"done", "cut"} /\ req[q].op = "register" /\ req[q].email # None =>
    \/ req[q].status = 201 /\ OwnRow(req[q])
    \/ /\ req[q].status = 409 /\ req[q].user = None
       /\ \E p \in Requests \ {q} : InTheWay(p, q)
    \/ req[q].status = 400 /\ req[q].user = None /\ req[q].alias = None
    \/ req[q].status = 500 /\ req[q].user = None /\ ~req[q].spread.fits
    \/ req[q].status = 500 /\ req[q].pc = "cut"

Shows(r) == r.body # None => ShowsHideout(r) /\ \A c \in Columns : ShowsColumn(r, c)

\* ProfileIsMerge, of one user's row.
MergedColumn(u, c) ==
  \/ Giving(u, c) = {} /\ ProfileOf(u).plain[c] = None
  \/ \E i \in DOMAIN log[u] :
       IsLast(i, Giving(u, c)) /\ ProfileOf(u).plain[c] = log[u][i].plain[c]

MergedHideout(u) ==
  \/ Hiding(u) = {} /\ ProfileOf(u).point = None /\ ProfileOf(u).radius = None
  \/ \E i \in DOMAIN log[u] :
       /\ IsLast(i, Hiding(u))
       /\ ProfileOf(u).point = log[u][i].hideout.point
       /\ ProfileOf(u).radius = log[u][i].hideout.radius

Merged == \A u \in Ids : MergedHideout(u) /\ \A c \in Columns : MergedColumn(u, c)

IInv ==
  /\ TypeOK /\ UniqueColumns /\ Owners /\ OneProfileEach /\ Merged
  /\ \A q \in Requests : Local(req[q]) /\ Decided(q) /\ Shows(req[q])
-----------------------------------------------------------------------------
(* The records of requests.                                                 *)
LEMMA IdleShape ==
  /\ Idle \in Request /\ Idle.pc = "new" /\ Idle.op = "none" /\ Idle.email = None
  /\ Idle.alias = None /\ Idle.user = None /\ Idle.nth = 0 /\ Idle.body = None
  BY DEF Idle, NoSpread, Spread, Request, Pcs

LEMMA AnsweredShape ==
  ASSUME NEW r \in Request, NEW n \in Nat
  PROVE  LET a == Answered(r, n)
         IN  /\ a \in Request /\ a.pc = "done" /\ a.status = n /\ a.op = r.op
             /\ a.email = r.email /\ a.alias = r.alias /\ a.user = r.user
             /\ a.spread = r.spread /\ a.nth = r.nth /\ a.body = r.body
  BY DEF Answered, Request, Pcs

LEMMA WithOpShape ==
  ASSUME NEW r \in Request, NEW op \in {"register", "verify", "patch"}
  PROVE  LET w == [r EXCEPT !.op = op]
         IN  /\ w \in Request /\ w.op = op /\ w.pc = r.pc /\ w.status = r.status
             /\ w.email = r.email /\ w.alias = r.alias /\ w.user = r.user
             /\ w.spread = r.spread /\ w.nth = r.nth /\ w.body = r.body
  BY DEF Request

LEMMA Statuses ==
  /\ \A n \in Nat : StatusOf(Http(n)) = n
  /\ StatusOf(TypeError) = 500 /\ StatusOf(Sql(InvalidText)) = 500
  /\ StatusOf(ConnectionLost) = 500 /\ \A error \in Unfit : StatusOf(error) = 500
  /\ StatusOf(Sql(UniqueViolation)) = 409 /\ StatusOf(Sql(NotNullViolation)) = 400
<1>1. \A n \in Nat : Http(n).kind = "http" /\ Http(n).status = n
  BY DEF Http
<1>2. TypeError.kind = "other"
  BY DEF TypeError
<1>3. \A state : Sql(state).kind = "sql" /\ Sql(state).code = state
  BY DEF Sql
<1>4. \A n \in Nat : StatusOf(Http(n)) = n
  BY <1>1 DEF StatusOf
<1>5. StatusOf(TypeError) = 500
  BY <1>2 DEF StatusOf
<1>6. StatusOf(Sql(InvalidText)) = 500
  BY <1>3 DEF StatusOf, InvalidText, Class23, UniqueViolation, NotNullViolation
<1>7. StatusOf(Sql(UniqueViolation)) = 409
  BY <1>3 DEF StatusOf, UniqueViolation
<1>8. StatusOf(Sql(NotNullViolation)) = 400
  BY <1>3 DEF StatusOf, Class23, UniqueViolation, NotNullViolation
<1>9. StatusOf(ConnectionLost) = 500
  BY DEF StatusOf, ConnectionLost
<1>10. StatusOf(Sql("22021")) = 500 /\ StatusOf(Sql("54000")) = 500
  BY <1>3 DEF StatusOf, Class23, UniqueViolation, NotNullViolation
<1>11. \A error \in Unfit : StatusOf(error) = 500
  BY <1>5, <1>6, <1>10 DEF Unfit
<1> QED
  BY <1>4, <1>5, <1>6, <1>7, <1>8, <1>9, <1>11

\* The log grows, accounts keep what identifies them, and a request that has
\* stored or patched one keeps what it held: what a record says stays true.
LogGrows ==
  \A u \in Ids : /\ Len(log[u]) <= Len(log'[u])
                 /\ \A i \in 1..Len(log[u]) : log'[u][i] = log[u][i]

RowsKept ==
  \A row \in users : \E now \in users' :
    now.id = row.id /\ now.email = row.email /\ now.alias = row.alias

RequestsKept ==
  \A q \in Requests :
    req[q].user # None =>
      /\ req'[q].user = req[q].user /\ req'[q].op = req[q].op
      /\ req'[q].email = req[q].email /\ req'[q].alias = req[q].alias
      /\ req'[q].spread = req[q].spread

LEMMA LocalStays ==
  ASSUME TypeOK, NEW r, Local(r), RowsKept, LogGrows, TypeOK'
  PROVE  Local(r)'
<1>1. OwnRow(r) => OwnRow(r)'
  BY DEF OwnRow, RowsKept
<1>2. r.user \in Ids /\ r.nth \in 1..Len(log[r.user]) => r.nth \in 1..Len(log'[r.user])
  <2>1. ASSUME r.user \in Ids PROVE Len(log[r.user]) \in Nat /\ Len(log'[r.user]) \in Nat
    BY <2>1 DEF TypeOK
  <2> QED
    BY <2>1 DEF LogGrows
<1> QED
  BY <1>1, <1>2 DEF Local, Normal

LEMMA ShowsStays ==
  ASSUME TypeOK, TypeOK', NEW r, Local(r), Shows(r), LogGrows
  PROVE  Shows(r)'
<1> SUFFICES ASSUME r.body # None
             PROVE  ShowsHideout(r)' /\ \A c \in Columns : ShowsColumn(r, c)'
  BY DEF Shows
<1>1. r.user \in Ids /\ r.nth \in 1..Len(log[r.user])
  BY DEF Local
<1>2. Len(log[r.user]) \in Nat /\ Len(log'[r.user]) \in Nat
  BY <1>1 DEF TypeOK
<1>3. 0..Len(log[r.user]) \subseteq 0..Len(log'[r.user])
  BY <1>1, <1>2 DEF LogGrows
<1>4. ASSUME NEW i \in 0..Len(log[r.user]) PROVE i > 0 => log'[r.user][i] = log[r.user][i]
  BY <1>1, <1>2 DEF LogGrows
<1>5. ASSUME NEW i \in 0..Len(log[r.user]), NEW j \in i + 1..r.nth
      PROVE  log'[r.user][j] = log[r.user][j]
  BY <1>1, <1>2 DEF LogGrows
<1>6. ASSUME NEW j \in 1..r.nth PROVE log'[r.user][j] = log[r.user][j]
  BY <1>1, <1>2 DEF LogGrows
<1>7. ShowsHideout(r)'
  <2>1. PICK i \in 0..Len(log[r.user]) :
          \/ /\ i > 0 /\ log[r.user][i].hideout # None
             /\ r.body.point = log[r.user][i].hideout.point
             /\ r.body.radius = log[r.user][i].hideout.radius
             /\ \A j \in i + 1..r.nth : log[r.user][j].hideout = None
          \/ /\ i = 0 /\ r.body.point = None /\ r.body.radius = None
             /\ \A j \in 1..r.nth : log[r.user][j].hideout = None
    BY DEF Shows, ShowsHideout
  <2>2. CASE i > 0
    <3>1. log'[r.user][i] = log[r.user][i] /\ i \in 0..Len(log'[r.user])
      BY <1>3, <1>4, <2>2
    <3>2. \A j \in i + 1..r.nth : log'[r.user][j].hideout = None
      BY <1>5, <2>1, <2>2
    <3> QED
      BY <2>1, <2>2, <3>1, <3>2 DEF ShowsHideout
  <2>3. CASE i = 0
    <3>1. \A j \in 1..r.nth : log'[r.user][j].hideout = None
      BY <1>6, <2>1, <2>3
    <3>2. i \in 0..Len(log'[r.user])
      BY <1>3
    <3> QED
      BY <2>1, <2>3, <3>1, <3>2 DEF ShowsHideout
  <2>4. i > 0 \/ i = 0
    OBVIOUS
  <2> QED
    BY <2>2, <2>3, <2>4
<1>8. ASSUME NEW c \in Columns PROVE ShowsColumn(r, c)'
  <2>1. PICK i \in 0..Len(log[r.user]) :
          \/ /\ i > 0 /\ log[r.user][i].plain[c] = r.body.plain[c]
             /\ \A j \in i + 1..r.nth : log[r.user][j].plain[c] = Omitted
          \/ /\ i = 0 /\ r.body.plain[c] = None
             /\ \A j \in 1..r.nth : log[r.user][j].plain[c] = Omitted
    BY DEF Shows, ShowsColumn
  <2>2. CASE i > 0
    <3>1. log'[r.user][i] = log[r.user][i] /\ i \in 0..Len(log'[r.user])
      BY <1>3, <1>4, <2>2
    <3>2. \A j \in i + 1..r.nth : log'[r.user][j].plain[c] = Omitted
      BY <1>5, <2>1, <2>2
    <3> QED
      BY <2>1, <2>2, <3>1, <3>2 DEF ShowsColumn
  <2>3. CASE i = 0
    <3>1. \A j \in 1..r.nth : log'[r.user][j].plain[c] = Omitted
      BY <1>6, <2>1, <2>3
    <3>2. i \in 0..Len(log'[r.user])
      BY <1>3
    <3> QED
      BY <2>1, <2>3, <3>1, <3>2 DEF ShowsColumn
  <2>4. i > 0 \/ i = 0
    OBVIOUS
  <2> QED
    BY <2>2, <2>3, <2>4
<1> QED
  BY <1>7, <1>8

LEMMA LogSame == ASSUME TypeOK, UNCHANGED log PROVE LogGrows
<1>1. \A u \in Ids : Len(log[u]) \in Nat
  BY DEF TypeOK
<1> QED
  BY <1>1 DEF LogGrows

LEMMA MergedSame == ASSUME Merged, UNCHANGED <<profiles, log>> PROVE Merged'
<1>1. \A u : ProfileOf(u)' = ProfileOf(u)
  BY DEF ProfileOf
<1>2. \A u, c : Giving(u, c)' = Giving(u, c)
  BY DEF Giving
<1>3. \A u : Hiding(u)' = Hiding(u)
  BY DEF Hiding
<1>4. \A u, c : MergedColumn(u, c) => MergedColumn(u, c)'
  BY <1>1, <1>2 DEF MergedColumn
<1>5. \A u : MergedHideout(u) => MergedHideout(u)'
  BY <1>1, <1>3 DEF MergedHideout
<1> QED
  BY <1>4, <1>5 DEF Merged

LEMMA RowsSame == ASSUME UNCHANGED users PROVE RowsKept
  BY DEF RowsKept

\* Nobody's answer to a registration becomes wrong when others go on.
LEMMA DecidedStays ==
  ASSUME TypeOK, NEW p \in Requests, Decided(p), req'[p] = req[p], RowsKept, RequestsKept
  PROVE  Decided(p)'
<1>1. OwnRow(req[p]) => OwnRow(req[p])'
  BY DEF OwnRow, RowsKept
<1>2. ASSUME NEW o \in Requests, InTheWay(o, p) PROVE InTheWay(o, p)'
  <2>1. PICK row \in users : row.id = req[o].user
    BY <1>2 DEF InTheWay
  <2>2. req[o].user # None
    BY <2>1, AccountsAssumption DEF TypeOK, User
  <2>3. PICK now \in users' : now.id = row.id
    BY DEF RowsKept
  <2> QED
    BY <1>2, <2>1, <2>2, <2>3 DEF RequestsKept, InTheWay
<1> QED
  BY <1>1, <1>2 DEF Decided

LEMMA OwnersStay == ASSUME TypeOK, Owners, UNCHANGED users, RequestsKept PROVE Owners'
<1> SUFFICES ASSUME NEW row \in users PROVE \E q \in Requests : Inserted(req[q], row)'
  BY DEF Owners
<1>1. PICK q \in Requests : Inserted(req[q], row)
  BY DEF Owners
<1>2. req[q].user # None
  BY <1>1, AccountsAssumption DEF TypeOK, User, Inserted
<1> QED
  BY <1>1, <1>2 DEF RequestsKept, Inserted
-----------------------------------------------------------------------------
LEMMA InitIInv == Init => IInv
<1> SUFFICES ASSUME Init PROVE IInv
  OBVIOUS
<1>1. TypeOK
  BY IdleShape DEF Init, TypeOK
<1>2. UniqueColumns /\ Owners /\ OneProfileEach
  BY DEF Init, UniqueColumns, Owners, OneProfileEach
<1>3. Merged
  <2>1. ASSUME NEW u \in Ids PROVE log[u] = <<>> /\ DOMAIN log[u] = {}
    BY DEF Init
  <2>2. \A u \in Ids : ProfileOf(u) = NoProfile(u)
    BY DEF Init, ProfileOf
  <2> QED
    BY <2>1, <2>2 DEF Merged, MergedColumn, MergedHideout, Giving, Hiding, NoProfile
<1>4. ASSUME NEW q \in Requests PROVE Local(req[q]) /\ Decided(q) /\ Shows(req[q])
  BY IdleShape DEF Init, Local, Decided, Shows
<1> QED
  BY <1>1, <1>2, <1>3, <1>4 DEF IInv

LEMMA StutterKeeps == ASSUME IInv, UNCHANGED vars PROVE IInv'
<1>1. UNCHANGED <<users, profiles, req, log>>
  BY DEF vars
<1>2. TypeOK' /\ UniqueColumns' /\ Owners' /\ OneProfileEach' /\ RowsKept /\ RequestsKept
  BY <1>1, RowsSame
     DEF IInv, TypeOK, UniqueColumns, Normal, Owners, Inserted, OneProfileEach, RequestsKept
<1>3. Merged'
  BY <1>1, MergedSame DEF IInv
<1>4. ASSUME NEW q \in Requests PROVE Local(req[q])' /\ Decided(q)' /\ Shows(req[q])'
  BY <1>1, <1>2, LogSame, LocalStays, ShowsStays, DecidedStays DEF IInv
<1> QED
  BY <1>2, <1>3, <1>4 DEF IInv

\* A step of one request that leaves the tables alone.
LEMMA RequestKeeps ==
  ASSUME IInv, NEW q \in Requests, NEW r \in Request,
         req' = [req EXCEPT ![q] = r],
         UNCHANGED <<users, profiles, log>>,
         req[q].user # None =>
           /\ r.user = req[q].user /\ r.op = req[q].op /\ r.email = req[q].email
           /\ r.alias = req[q].alias /\ r.spread = req[q].spread,
         Local(r), Shows(r), Decided(q)'
  PROVE  IInv'
<1>1. /\ req' \in [Requests -> Request] /\ req'[q] = r
      /\ \A p \in Requests : p # q => req'[p] = req[p]
  BY DEF IInv, TypeOK
<1>2. TypeOK'
  BY <1>1 DEF IInv, TypeOK
<1>3. UniqueColumns' /\ OneProfileEach'
  BY DEF IInv, UniqueColumns, Normal, OneProfileEach
<1>9. RequestsKept /\ RowsKept
  BY <1>1, RowsSame DEF RequestsKept
<1>4. Owners'
  BY <1>9, OwnersStay DEF IInv
<1>5. Merged'
  BY MergedSame DEF IInv
<1>6. LogGrows
  BY LogSame DEF IInv
<1>7. ASSUME NEW p \in Requests, p # q PROVE Local(req[p])' /\ Decided(p)' /\ Shows(req[p])'
  <2>1. req'[p] = req[p]
    BY <1>1, <1>7
  <2>2. Local(req[p])' /\ Shows(req[p])'
    BY <1>2, <1>6, <1>9, <2>1, LocalStays, ShowsStays DEF IInv
  <2>3. Decided(p)'
    BY <1>9, <2>1, DecidedStays DEF IInv
  <2> QED
    BY <2>2, <2>3
<1>8. Local(req[q])' /\ Shows(req[q])'
  BY <1>1, <1>2, <1>6, <1>9, LocalStays, ShowsStays DEF IInv
<1> QED
  BY <1>2, <1>3, <1>4, <1>5, <1>7, <1>8 DEF IInv

\* A request that is answered before it has accepted any data.
LEMMA RefuseKeeps ==
  ASSUME IInv, NEW q \in Requests, NEW op \in {"register", "verify", "patch"},
         NEW n \in Nat, Begin(q, op, Answered(Idle, n)),
         UNCHANGED <<users, profiles, log>>
  PROVE  IInv'
<1> DEFINE a == Answered(Idle, n)
           r == [a EXCEPT !.op = op]
<1>1. a \in Request /\ a.pc = "done" /\ a.email = None /\ a.user = None /\ a.body = None
  BY IdleShape, AnsweredShape
<1>2. req' = [req EXCEPT ![q] = r] /\ req[q].pc = "new"
  BY DEF Begin
<1> HIDE DEF a
<1>3. r \in Request /\ r.pc = "done" /\ r.email = None /\ r.user = None /\ r.body = None
  BY <1>1, WithOpShape
<1> HIDE DEF r
<1>4. req[q].user = None
  BY <1>2, IdleShape DEF IInv, Local
<1>5. Local(r) /\ Shows(r)
  BY <1>3 DEF Local, Shows
<1>6. Decided(q)'
  BY <1>2, <1>3 DEF IInv, TypeOK, Decided
<1> QED
  BY <1>2, <1>3, <1>4, <1>5, <1>6, RequestKeeps

LEMMA RefusalsKeep ==
  ASSUME IInv, NEW q \in Requests,
         RegisterRefused(q) \/ PatchRefused(q) \/ \E t \in Tokens : VerifyRefused(q, t)
  PROVE  IInv'
<1>1. CASE RegisterRefused(q)
  BY <1>1, RefuseKeeps, Statuses DEF RegisterRefused, Refuse
<1>2. CASE PatchRefused(q)
  BY <1>2, RefuseKeeps, Statuses DEF PatchRefused, Refuse
<1>3. CASE \E t \in Tokens : VerifyRefused(q, t)
  BY <1>3, RefuseKeeps, Statuses DEF VerifyRefused, Refuse
<1> QED
  BY <1>1, <1>2, <1>3

\* A verified account loses its token and keeps what identifies it.
LEMMA VerifiedRows ==
  ASSUME TypeOK, NEW q \in Requests, NEW t \in Tokens, VerifyEmail(q, t)
  PROVE  LET Now(row) == IF row.verificationToken = t
                         THEN [row EXCEPT !.isVerified = TRUE, !.verificationToken = None]
                         ELSE row
         IN  /\ users' = {Now(row) : row \in users}
             /\ \A row \in users :
                  /\ Now(row) \in User /\ Now(row).id = row.id
                  /\ Now(row).email = row.email /\ Now(row).alias = row.alias
                  /\ Now(row).verificationToken \in {None, row.verificationToken}
<1> DEFINE Now(row) == IF row.verificationToken = t
                       THEN [row EXCEPT !.isVerified = TRUE, !.verificationToken = None]
                       ELSE row
           matching == {row \in users : row.verificationToken = t}
           verified == {[row EXCEPT !.isVerified = TRUE, !.verificationToken = None] :
                          row \in matching}
<1>1. users' = (users \ matching) \cup verified
  BY DEF VerifyEmail
<1>2. users' = {Now(row) : row \in users}
  BY <1>1
<1>3. ASSUME NEW row \in users
      PROVE  /\ Now(row) \in User /\ Now(row).id = row.id
             /\ Now(row).email = row.email /\ Now(row).alias = row.alias
             /\ Now(row).verificationToken \in {None, row.verificationToken}
  <2>1. row \in User
    BY DEF TypeOK
  <2>2. CASE row.verificationToken = t
    BY <2>1, <2>2 DEF User
  <2>3. CASE row.verificationToken # t
    BY <2>1, <2>3
  <2> QED
    BY <2>2, <2>3
<1> QED
  BY <1>2, <1>3

LEMMA VerifyKeeps ==
  ASSUME IInv, NEW q \in Requests, NEW t \in Tokens, VerifyEmail(q, t)
  PROVE  IInv'
<1> DEFINE Now(row) == IF row.verificationToken = t
                       THEN [row EXCEPT !.isVerified = TRUE, !.verificationToken = None]
                       ELSE row
           b == [Idle EXCEPT !.pc = "written"]
           r == [b EXCEPT !.op = "verify"]
<1>1. /\ users' = {Now(row) : row \in users}
      /\ \A row \in users :
           /\ Now(row) \in User /\ Now(row).id = row.id
           /\ Now(row).email = row.email /\ Now(row).alias = row.alias
           /\ Now(row).verificationToken \in {None, row.verificationToken}
  BY VerifiedRows DEF IInv
<1> HIDE DEF Now
<1>2. /\ req[q].pc = "new" /\ req' = [req EXCEPT ![q] = r]
      /\ UNCHANGED <<profiles, log>>
  BY DEF VerifyEmail, Begin
<1>3. /\ b \in Request /\ b.pc = "written" /\ b.email = None /\ b.body = None
  BY IdleShape DEF Request, Pcs
<1> HIDE DEF b
<1>4. /\ r \in Request /\ r.pc = "written" /\ r.op = "verify" /\ r.email = None
      /\ r.body = None
  BY <1>3, WithOpShape
<1> HIDE DEF r
<1>5. /\ req' \in [Requests -> Request] /\ req'[q] = r
      /\ \A p \in Requests : p # q => req'[p] = req[p]
  BY <1>2, <1>4 DEF IInv, TypeOK
<1>6. TypeOK'
  BY <1>1, <1>2, <1>5 DEF IInv, TypeOK
<1>7. req[q].user = None
  BY <1>2, IdleShape DEF IInv, Local
<1>8. RowsKept /\ RequestsKept
  BY <1>1, <1>5, <1>7 DEF RowsKept, RequestsKept
<1>9. UniqueColumns'
  <2>1. ASSUME NEW row \in users' PROVE Normal(row)
    BY <1>1 DEF IInv, UniqueColumns, Normal
  <2>2. ASSUME NEW r1 \in users', NEW r2 \in users',
               r1.id = r2.id \/ r1.email = r2.email \/ r1.alias = r2.alias
        PROVE  r1 = r2
    <3>1. PICK o1 \in users : r1 = Now(o1)
      BY <1>1
    <3>2. PICK o2 \in users : r2 = Now(o2)
      BY <1>1
    <3>3. o1.id = o2.id \/ o1.email = o2.email \/ o1.alias = o2.alias
      BY <1>1, <2>2, <3>1, <3>2
    <3> QED
      BY <3>1, <3>2, <3>3 DEF IInv, UniqueColumns
  <2> QED
    BY <2>1, <2>2 DEF UniqueColumns, Normal
<1>10. Owners'
  <2> SUFFICES ASSUME NEW row \in users' PROVE \E p \in Requests : Inserted(req'[p], row)
    BY DEF Owners, Inserted
  <2>1. PICK o \in users : row = Now(o)
    BY <1>1
  <2>2. PICK p \in Requests : Inserted(req[p], o)
    BY DEF IInv, Owners
  <2>3. Inserted(req[p], row)
    BY <1>1, <2>1, <2>2 DEF Inserted
  <2>4. p # q
    BY <1>7, <2>2, AccountsAssumption DEF IInv, TypeOK, User, Inserted
  <2> QED
    BY <1>5, <2>3, <2>4
<1>11. OneProfileEach' /\ Merged'
  BY <1>2, MergedSame DEF IInv, OneProfileEach
<1>12. LogGrows
  BY <1>2, LogSame DEF IInv
<1>13. ASSUME NEW p \in Requests, p # q
       PROVE  Local(req[p])' /\ Decided(p)' /\ Shows(req[p])'
  <2>1. req'[p] = req[p]
    BY <1>5, <1>13
  <2>2. Local(req[p])' /\ Shows(req[p])'
    BY <1>6, <1>8, <1>12, <2>1, LocalStays, ShowsStays DEF IInv
  <2>3. Decided(p)'
    BY <1>8, <2>1, DecidedStays DEF IInv
  <2> QED
    BY <2>2, <2>3
<1>14. Local(req[q])' /\ Decided(q)' /\ Shows(req[q])'
  BY <1>4, <1>5 DEF Local, Decided, Shows
<1> QED
  BY <1>6, <1>9, <1>10, <1>11, <1>13, <1>14 DEF IInv

LEMMA RegisterKeeps ==
  ASSUME IInv, NEW q \in Requests, NEW address \in Address,
         NEW alias \in Aliases \cup {None}, NEW spread \in Spread,
         Register(q, address, alias, spread)
  PROVE  IInv'
<1> DEFINE e == Normalise(address)
           b == [Idle EXCEPT !.pc = "hashing", !.alias = alias, !.email = e,
                             !.spread = spread]
           r == [b EXCEPT !.op = "register"]
<1>1. e \in Address /\ e.typed = Lower
  BY AccountsAssumption DEF Normalise, Address
<1>2. req' = [req EXCEPT ![q] = r] /\ req[q].pc = "new"
      /\ UNCHANGED <<users, profiles, log>>
  BY DEF Register, Begin
<1> HIDE DEF e
<1>3. /\ b \in Request /\ b.pc = "hashing" /\ b.email = e /\ b.user = None /\ b.body = None
  BY <1>1 DEF Idle, Request, Pcs
<1> HIDE DEF b
<1>4. /\ r \in Request /\ r.pc = "hashing" /\ r.op = "register" /\ r.email = e
      /\ r.user = None /\ r.body = None
  BY <1>3, WithOpShape
<1> HIDE DEF r
<1>5. req[q].user = None
  BY <1>2, IdleShape DEF IInv, Local
<1>6. Local(r) /\ Shows(r)
  BY <1>1, <1>4 DEF Local, Shows, Normal
<1>7. Decided(q)'
  BY <1>2, <1>4 DEF IInv, TypeOK, Decided
<1> QED
  BY <1>2, <1>4, <1>5, <1>6, <1>7, RequestKeeps

\* Whoever inserted the row that clashes is another request.
LEMMA ClashIsInTheWay ==
  ASSUME IInv, NEW q \in Requests, req[q].user = None,
         NEW row \in users, Clashes(row, q)
  PROVE  \E p \in Requests \ {q} : InTheWay(p, q)
<1>1. PICK p \in Requests : Inserted(req[p], row)
  BY DEF IInv, Owners
<1>2. p # q
  BY <1>1, AccountsAssumption DEF IInv, TypeOK, User, Inserted
<1>3. req[p].op = "register" /\ row.id = req[p].user
  BY <1>1 DEF Inserted
<1>4. \/ req[p].user = req[q].spread.id
      \/ req[p].email = req[q].email
      \/ req[p].alias = req[q].alias
      \/ req[p].spread.token # None /\ req[p].spread.token = req[q].spread.token
  BY <1>1 DEF Inserted, Clashes
<1> QED
  BY <1>2, <1>3, <1>4 DEF InTheWay

LEMMA InsertRefusedKeeps ==
  ASSUME IInv, NEW q \in Requests, InsertRefused(q) PROVE IInv'
<1>1. PICK error \in Unfit \cup {Sql(UniqueViolation), Sql(NotNullViolation)} :
        /\ error \in Unfit => ~req[q].spread.fits
        /\ error = Sql(NotNullViolation) => req[q].alias = None
        /\ error = Sql(UniqueViolation) =>
             req[q].alias # None /\ \E row \in users : Clashes(row, q)
        /\ req' = [req EXCEPT ![q] = Answered(req[q], StatusOf(error))]
  BY DEF InsertRefused
<1> DEFINE n == StatusOf(error)
           r == Answered(req[q], n)
<1>2. \/ n = 409 /\ \E row \in users : Clashes(row, q)
      \/ n = 400 /\ req[q].alias = None
      \/ n = 500 /\ ~req[q].spread.fits
  <2>1. CASE error \in Unfit
    BY <1>1, <2>1, Statuses
  <2>2. CASE error = Sql(UniqueViolation)
    BY <1>1, <2>2, Statuses
  <2>3. CASE error = Sql(NotNullViolation)
    BY <1>1, <2>3, Statuses
  <2> QED
    BY <2>1, <2>2, <2>3
<1>3. /\ req[q] \in Request /\ req[q].pc = "hashing" /\ req[q].op = "register"
      /\ req[q].user = None /\ req[q].body = None
      /\ UNCHANGED <<users, profiles, log>>
  BY DEF IInv, TypeOK, Local, InsertRefused
<1>4. req' = [req EXCEPT ![q] = r]
  BY <1>1
<1> HIDE DEF n
<1>5. /\ r \in Request /\ r.pc = "done" /\ r.status = n /\ r.op = "register"
      /\ r.email = req[q].email /\ r.alias = req[q].alias /\ r.user = None
      /\ r.spread = req[q].spread /\ r.body = None
  <2>1. n \in Nat
    BY <1>2
  <2> QED
    BY <1>3, <2>1, AnsweredShape
<1> HIDE DEF r
<1>6. Local(r) /\ Shows(r)
  BY <1>5 DEF Local, Shows
<1>7. /\ req'[q] = r /\ \A p \in Requests : p # q => req'[p] = req[p]
  BY <1>4 DEF IInv, TypeOK
<1>8. Decided(q)'
  <2>1. CASE n = 409 /\ \E row \in users : Clashes(row, q)
    <3>1. PICK p \in Requests \ {q} : InTheWay(p, q)
      BY <1>3, <2>1, ClashIsInTheWay
    <3>2. InTheWay(p, q)'
      BY <1>3, <1>5, <1>7, <3>1 DEF InTheWay
    <3> QED
      BY <1>5, <1>7, <2>1, <3>2 DEF Decided
  <2>2. CASE n = 400 /\ req[q].alias = None
    BY <1>5, <1>7, <2>2 DEF Decided
  <2>3. CASE n = 500 /\ ~req[q].spread.fits
    BY <1>5, <1>7, <2>3 DEF Decided
  <2> QED
    BY <1>2, <2>1, <2>2, <2>3
<1> QED
  BY <1>3, <1>4, <1>5, <1>6, <1>8, RequestKeeps

LEMMA CreatedKeeps == ASSUME IInv, NEW q \in Requests, Created(q) PROVE IInv'
<1> DEFINE r == Answered(req[q], 201)
<1>1. /\ req[q] \in Request /\ req[q].op \in {"register", "verify"}
      /\ req[q].body = None
      /\ req[q].op = "register" => OwnRow(req[q])
      /\ UNCHANGED <<users, profiles, log>>
  BY DEF IInv, TypeOK, Local, Created
<1>2. req' = [req EXCEPT ![q] = r]
  BY DEF Created
<1>3. /\ r \in Request /\ r.pc = "done" /\ r.status = 201 /\ r.op = req[q].op
      /\ r.email = req[q].email /\ r.alias = req[q].alias /\ r.user = req[q].user
      /\ r.spread = req[q].spread /\ r.body = None
  BY <1>1, AnsweredShape
<1> HIDE DEF r
<1>4. Local(r) /\ Shows(r)
  BY <1>3 DEF Local, Shows
<1>5. Decided(q)'
  <2>1. req'[q] = r
    BY <1>2, <1>3 DEF IInv, TypeOK
  <2>2. CASE r.op # "register"
    BY <2>1, <2>2 DEF Decided
  <2>3. CASE r.op = "register"
    <3>1. OwnRow(req[q])'
      BY <1>1, <1>3, <2>1, <2>3 DEF OwnRow
    <3> QED
      BY <1>3, <2>1, <3>1 DEF Decided
  <2> QED
    BY <2>2, <2>3
<1> QED
  BY <1>1, <1>2, <1>3, <1>4, <1>5, RequestKeeps

CutOff(r, n) == [r EXCEPT !.pc = "cut", !.status = n]

LEMMA CutShape ==
  ASSUME NEW r \in Request, NEW n \in Nat
  PROVE  LET a == CutOff(r, n)
         IN  /\ a \in Request /\ a.pc = "cut" /\ a.status = n /\ a.op = r.op
             /\ a.email = r.email /\ a.alias = r.alias /\ a.user = r.user
             /\ a.spread = r.spread /\ a.nth = r.nth /\ a.body = r.body
  BY DEF CutOff, Request, Pcs

LEMMA CutKeeps == ASSUME IInv, NEW q \in Requests, Cut(q) PROVE IInv'
<1> DEFINE r == CutOff(req[q], 500)
<1>1. /\ req[q] \in Request /\ req[q].body = None
      /\ UNCHANGED <<users, profiles, log>>
  BY DEF IInv, TypeOK, Local, Cut
<1>2. req' = [req EXCEPT ![q] = r]
  BY Statuses DEF Cut, CutOff
<1>3. /\ r \in Request /\ r.pc = "cut" /\ r.status = 500 /\ r.op = req[q].op
      /\ r.email = req[q].email /\ r.alias = req[q].alias /\ r.user = req[q].user
      /\ r.spread = req[q].spread /\ r.body = None
  BY <1>1, CutShape
<1> HIDE DEF r
<1>4. Local(r) /\ Shows(r)
  BY <1>3 DEF Local, Shows
<1>5. Decided(q)'
  BY <1>2, <1>3 DEF IInv, TypeOK, Decided
<1> QED
  BY <1>1, <1>2, <1>3, <1>4, <1>5, RequestKeeps

LEMMA LoseKeeps == ASSUME IInv, NEW q \in Requests, Lose(q) PROVE IInv'
<1> DEFINE r == [req[q] EXCEPT !.pc = "lost"]
<1>1. /\ req[q] \in Request /\ req[q].body = None
      /\ UNCHANGED <<users, profiles, log>>
  BY DEF IInv, TypeOK, Local, Lose
<1>2. req' = [req EXCEPT ![q] = r]
  BY DEF Lose
<1>3. /\ r \in Request /\ r.pc = "lost" /\ r.op = req[q].op
      /\ r.email = req[q].email /\ r.alias = req[q].alias /\ r.user = req[q].user
      /\ r.spread = req[q].spread /\ r.body = None
  BY <1>1 DEF Request, Pcs
<1> HIDE DEF r
<1>4. Local(r) /\ Shows(r)
  BY <1>3 DEF Local, Shows
<1>5. Decided(q)'
  BY <1>2, <1>3 DEF IInv, TypeOK, Decided
<1> QED
  BY <1>1, <1>2, <1>3, <1>4, <1>5, RequestKeeps

LEMMA InsertKeeps ==
  ASSUME IInv, NEW q \in Requests, NEW u \in Ids, NEW verified \in BOOLEAN,
         Insert(q, u, verified)
  PROVE  IInv'
<1> DEFINE new == [id |-> u, email |-> req[q].email, alias |-> req[q].alias,
                   isVerified |-> verified, verificationToken |-> req[q].spread.token]
           r == [req[q] EXCEPT !.pc = "written", !.user = u]
<1>1. /\ req[q] \in Request /\ req[q].pc = "hashing" /\ req[q].op = "register"
      /\ req[q].user = None /\ req[q].body = None
      /\ req[q].email \in Address /\ req[q].email.typed = Lower
      /\ req[q].alias \in Aliases /\ req[q].spread.token \in Tokens \cup {None}
      /\ ~\E row \in users : Clashes(row, q) \/ row.id = u
      /\ UNCHANGED <<profiles, log>>
  BY DEF IInv, TypeOK, Local, Normal, Insert, Store, Request, Spread
<1>2. users' = users \cup {new} /\ req' = [req EXCEPT ![q] = r]
  BY DEF Insert, Store
<1>3. /\ new \in User /\ new.id = u /\ new.email = req[q].email
      /\ new.alias = req[q].alias /\ new.verificationToken = req[q].spread.token
  BY <1>1 DEF User
<1> HIDE DEF new
<1>4. /\ r \in Request /\ r.pc = "written" /\ r.op = "register" /\ r.user = u
      /\ r.email = req[q].email /\ r.alias = req[q].alias
      /\ r.spread = req[q].spread /\ r.body = None
  BY <1>1 DEF Request, Pcs
<1> HIDE DEF r
<1>5. /\ req' \in [Requests -> Request] /\ req'[q] = r
      /\ \A p \in Requests : p # q => req'[p] = req[p]
  BY <1>2, <1>4 DEF IInv, TypeOK
<1>6. TypeOK'
  BY <1>1, <1>2, <1>3, <1>5 DEF IInv, TypeOK
<1>7. UniqueColumns'
  BY <1>1, <1>2, <1>3 DEF IInv, UniqueColumns, Normal, Clashes
<1>8. RowsKept /\ RequestsKept
  BY <1>1, <1>2, <1>5 DEF RowsKept, RequestsKept
<1>9. Owners'
  <2>1. Inserted(r, new)
    BY <1>3, <1>4 DEF Inserted
  <2>2. ASSUME NEW row \in users PROVE \E p \in Requests : Inserted(req'[p], row)
    <3>1. PICK p \in Requests : Inserted(req[p], row)
      BY DEF IInv, Owners
    <3>2. p # q
      BY <1>1, <3>1, AccountsAssumption DEF IInv, TypeOK, User, Inserted
    <3> QED
      BY <1>5, <3>1, <3>2
  <2>3. \A row \in users' : \E p \in Requests : Inserted(req'[p], row)
    BY <1>2, <1>5, <2>1, <2>2
  <2> QED
    BY <2>3 DEF Owners, Inserted
<1>10. OneProfileEach' /\ Merged'
  BY <1>1, MergedSame DEF IInv, OneProfileEach
<1>11. LogGrows
  BY <1>1, LogSame DEF IInv
<1>12. ASSUME NEW p \in Requests, p # q
       PROVE  Local(req[p])' /\ Decided(p)' /\ Shows(req[p])'
  <2>1. req'[p] = req[p]
    BY <1>5, <1>12
  <2>2. Local(req[p])' /\ Shows(req[p])'
    BY <1>6, <1>8, <1>11, <2>1, LocalStays, ShowsStays DEF IInv
  <2>3. Decided(p)'
    BY <1>8, <2>1, DecidedStays DEF IInv
  <2> QED
    BY <2>2, <2>3
<1>13. Local(req[q])' /\ Decided(q)' /\ Shows(req[q])'
  <2>1. OwnRow(req[q])'
    BY <1>2, <1>3, <1>4, <1>5 DEF OwnRow
  <2> QED
    BY <1>4, <1>5, <2>1 DEF Local, Decided, Shows
<1> QED
  BY <1>6, <1>7, <1>9, <1>10, <1>12, <1>13 DEF IInv
-----------------------------------------------------------------------------
(* Profiles.                                                                *)
LEMMA ProfileShape ==
  ASSUME TypeOK, NEW u \in Ids
  PROVE  ProfileOf(u) \in Profile /\ ProfileOf(u).userId = u
<1>1. CASE \E row \in profiles : row.userId = u
  BY <1>1 DEF TypeOK, ProfileOf
<1>2. CASE ~\E row \in profiles : row.userId = u
  BY <1>2 DEF ProfileOf, NoProfile, Profile
<1> QED
  BY <1>1, <1>2

\* The set clause, column by column.
LEMMA MergeShape ==
  ASSUME NEW row \in Profile, NEW patch \in Patch
  PROVE  LET m == Merge(row, patch)
         IN  /\ m \in Profile /\ m.userId = row.userId
             /\ \A c \in Columns :
                  m.plain[c] = IF patch.plain[c] = Omitted THEN row.plain[c]
                               ELSE patch.plain[c]
             /\ patch.hideout = None => m.point = row.point /\ m.radius = row.radius
             /\ patch.hideout # None => /\ m.point = patch.hideout.point
                                        /\ m.radius = patch.hideout.radius
<1> DEFINE plain == [c \in Columns |-> IF patch.plain[c] = Omitted THEN row.plain[c]
                                       ELSE patch.plain[c]]
           point == IF patch.hideout = None THEN row.point ELSE patch.hideout.point
           radius == IF patch.hideout = None THEN row.radius ELSE patch.hideout.radius
<1>1. plain \in [Columns -> Values \cup {None}]
  <2>1. ASSUME NEW c \in Columns
        PROVE  (IF patch.plain[c] = Omitted THEN row.plain[c] ELSE patch.plain[c])
                 \in Values \cup {None}
    BY DEF Profile, Patch
  <2> QED
    BY <2>1
<1>2. point \in Points \cup {None} /\ radius \in Radii \cup {None}
  BY DEF Profile, Patch, Hideout
<1>3. Merge(row, patch) = [row EXCEPT !.plain = plain, !.point = point, !.radius = radius]
  BY DEF Merge
<1>4. \A c \in Columns :
        plain[c] = IF patch.plain[c] = Omitted THEN row.plain[c] ELSE patch.plain[c]
  OBVIOUS
<1>5. /\ patch.hideout = None => point = row.point /\ radius = row.radius
      /\ patch.hideout # None => point = patch.hideout.point /\ radius = patch.hideout.radius
  OBVIOUS
<1> HIDE DEF plain, point, radius
<1>6. LET m == [row EXCEPT !.plain = plain, !.point = point, !.radius = radius]
      IN  /\ m \in Profile /\ m.userId = row.userId /\ m.plain = plain
          /\ m.point = point /\ m.radius = radius
  BY <1>1, <1>2 DEF Profile
<1> QED
  BY <1>3, <1>4, <1>5, <1>6

\* What an upsert does to the rows that are found, and to the log.
LEMMA UpsertEffect ==
  ASSUME IInv, NEW q \in Requests, NEW u \in Ids, NEW patch \in Patch,
         Upsert(q, u, patch)
  PROVE  /\ profiles' \subseteq Profile /\ OneProfileEach'
         /\ ProfileOf(u)' = Merge(ProfileOf(u), patch)
         /\ \A v \in Ids : v # u => ProfileOf(v)' = ProfileOf(v)
         /\ log' \in [Ids -> Seq(Patch)] /\ log'[u] = Append(log[u], patch)
         /\ \A v \in Ids : v # u => log'[v] = log[v]
<1> DEFINE m == Merge(ProfileOf(u), patch)
<1>1. m \in Profile /\ m.userId = u
  BY ProfileShape, MergeShape DEF IInv
<1>2. profiles' = {row \in profiles : row.userId # u} \cup {m}
  BY DEF Upsert
<1> HIDE DEF m
<1>3. profiles' \subseteq Profile
  BY <1>1, <1>2 DEF IInv, TypeOK
<1>4. OneProfileEach'
  BY <1>1, <1>2 DEF IInv, OneProfileEach
<1>5. ProfileOf(u)' = m
  <2>1. \A row \in profiles' : row.userId = u => row = m
    BY <1>2
  <2>2. m \in profiles' /\ m.userId = u
    BY <1>1, <1>2
  <2> QED
    BY <2>1, <2>2 DEF ProfileOf
<1>6. ASSUME NEW v \in Ids, v # u PROVE ProfileOf(v)' = ProfileOf(v)
  <2>1. \A row : row \in profiles' /\ row.userId = v <=> row \in profiles /\ row.userId = v
    BY <1>1, <1>2, <1>6
  <2>2. CASE \E row \in profiles : row.userId = v
    <3>1. PICK row \in profiles : row.userId = v
      BY <2>2
    <3>2. row \in profiles' /\ \A r \in profiles' : r.userId = v => r = row
      BY <2>1, <3>1 DEF IInv, OneProfileEach
    <3>3. \A r \in profiles : r.userId = v => r = row
      BY <3>1 DEF IInv, OneProfileEach
    <3>4. ProfileOf(v)' = row
      BY <3>1, <3>2 DEF ProfileOf
    <3>5. ProfileOf(v) = row
      BY <3>1, <3>3 DEF ProfileOf
    <3> QED
      BY <3>4, <3>5
  <2>3. CASE ~\E row \in profiles : row.userId = v
    BY <2>1, <2>3 DEF ProfileOf
  <2> QED
    BY <2>2, <2>3
<1>7. /\ log' \in [Ids -> Seq(Patch)] /\ log'[u] = Append(log[u], patch)
      /\ \A v \in Ids : v # u => log'[v] = log[v]
  BY DEF IInv, TypeOK, Upsert
<1> QED
  BY <1>3, <1>4, <1>5, <1>6, <1>7 DEF m

\* A column holds what the last patch that gave it said, one patch later too.
LEMMA MergedGrows ==
  ASSUME TypeOK, OneProfileEach, Merged, NEW u \in Ids, NEW patch \in Patch,
         ProfileOf(u)' = Merge(ProfileOf(u), patch),
         log'[u] = Append(log[u], patch)
  PROVE  MergedHideout(u)' /\ \A c \in Columns : MergedColumn(u, c)'
<1> DEFINE n == Len(log[u])
           old == ProfileOf(u)
           now == ProfileOf(u)'
<1>1. /\ n \in Nat /\ DOMAIN log[u] = 1..n /\ DOMAIN log'[u] = 1..(n + 1)
      /\ log'[u][n + 1] = patch /\ \A i \in 1..n : log'[u][i] = log[u][i]
  <2>1. log[u] \in Seq(Patch)
    BY DEF TypeOK
  <2> QED
    BY <2>1
<1>2. /\ \A c \in Columns : now.plain[c] = IF patch.plain[c] = Omitted THEN old.plain[c]
                                           ELSE patch.plain[c]
      /\ patch.hideout = None => now.point = old.point /\ now.radius = old.radius
      /\ patch.hideout # None => /\ now.point = patch.hideout.point
                                 /\ now.radius = patch.hideout.radius
  BY ProfileShape, MergeShape
<1>m. MergedHideout(u) /\ \A c \in Columns : MergedColumn(u, c)
  BY DEF Merged
<1> HIDE DEF n
<1>3. ASSUME NEW c \in Columns PROVE MergedColumn(u, c)'
  <2>0. MergedColumn(u, c)
    BY <1>m
  <2>1. CASE patch.plain[c] = Omitted
    <3>1. Giving(u, c)' = Giving(u, c)
      BY <1>1, <2>1 DEF Giving
    <3>2. now.plain[c] = old.plain[c]
      BY <1>2, <2>1
    <3>3. CASE Giving(u, c) = {} /\ old.plain[c] = None
      BY <3>1, <3>2, <3>3 DEF MergedColumn
    <3>4. ASSUME NEW i \in DOMAIN log[u], IsLast(i, Giving(u, c)),
                 old.plain[c] = log[u][i].plain[c]
          PROVE  MergedColumn(u, c)'
      <4>1. i \in DOMAIN log'[u] /\ log'[u][i] = log[u][i]
        BY <1>1, <3>4
      <4>2. IsLast(i, Giving(u, c)')
        BY <3>1, <3>4
      <4>3. now.plain[c] = log'[u][i].plain[c]
        BY <3>2, <3>4, <4>1
      <4> QED
        BY <4>1, <4>2, <4>3 DEF MergedColumn, IsLast
    <3> QED
      BY <2>0, <3>3, <3>4 DEF MergedColumn
  <2>2. CASE patch.plain[c] # Omitted
    <3>1. IsLast(n + 1, Giving(u, c)')
      BY <1>1, <2>2 DEF IsLast, Giving
    <3>2. now.plain[c] = log'[u][n + 1].plain[c] /\ n + 1 \in DOMAIN log'[u]
      BY <1>1, <1>2, <2>2
    <3> QED
      BY <3>1, <3>2 DEF MergedColumn, IsLast
  <2> QED
    BY <2>1, <2>2
<1>4. MergedHideout(u)'
  <2>0. MergedHideout(u)
    BY <1>m
  <2>1. CASE patch.hideout = None
    <3>1. Hiding(u)' = Hiding(u)
      BY <1>1, <2>1 DEF Hiding
    <3>2. now.point = old.point /\ now.radius = old.radius
      BY <1>2, <2>1
    <3>3. CASE Hiding(u) = {} /\ old.point = None /\ old.radius = None
      BY <3>1, <3>2, <3>3 DEF MergedHideout
    <3>4. ASSUME NEW i \in DOMAIN log[u], IsLast(i, Hiding(u)),
                 old.point = log[u][i].hideout.point, old.radius = log[u][i].hideout.radius
          PROVE  MergedHideout(u)'
      <4>1. i \in DOMAIN log'[u] /\ log'[u][i] = log[u][i]
        BY <1>1, <3>4
      <4>2. IsLast(i, Hiding(u)')
        BY <3>1, <3>4
      <4>3. /\ now.point = log'[u][i].hideout.point
            /\ now.radius = log'[u][i].hideout.radius
        BY <3>2, <3>4, <4>1
      <4> QED
        BY <4>1, <4>2, <4>3 DEF MergedHideout, IsLast
    <3> QED
      BY <2>0, <3>3, <3>4 DEF MergedHideout
  <2>2. CASE patch.hideout # None
    <3>1. IsLast(n + 1, Hiding(u)')
      BY <1>1, <2>2 DEF IsLast, Hiding
    <3>2. /\ now.point = log'[u][n + 1].hideout.point
          /\ now.radius = log'[u][n + 1].hideout.radius
          /\ n + 1 \in DOMAIN log'[u]
      BY <1>1, <1>2, <2>2
    <3> QED
      BY <3>1, <3>2 DEF MergedHideout, IsLast
  <2> QED
    BY <2>1, <2>2
<1> QED
  BY <1>3, <1>4

LEMMA UpsertKeeps ==
  ASSUME IInv, NEW q \in Requests, NEW u \in Ids, NEW patch \in Patch,
         Upsert(q, u, patch)
  PROVE  IInv'
<1> DEFINE k == Len(log[u]) + 1
           b == [Idle EXCEPT !.pc = "written", !.user = u, !.nth = k]
           r == [b EXCEPT !.op = "patch"]
<1>1. /\ profiles' \subseteq Profile /\ OneProfileEach'
      /\ ProfileOf(u)' = Merge(ProfileOf(u), patch)
      /\ \A v \in Ids : v # u => ProfileOf(v)' = ProfileOf(v)
      /\ log' \in [Ids -> Seq(Patch)] /\ log'[u] = Append(log[u], patch)
      /\ \A v \in Ids : v # u => log'[v] = log[v]
  BY UpsertEffect
<1>2. /\ req[q].pc = "new" /\ req' = [req EXCEPT ![q] = r] /\ users' = users
  BY DEF Upsert, Begin
<1>3. \A v \in Ids : log[v] \in Seq(Patch)
  BY DEF IInv, TypeOK
<1>4. k \in Nat /\ k \in 1..Len(log'[u])
  BY <1>1, <1>3
<1>5. LogGrows
  <2>1. ASSUME NEW v \in Ids
        PROVE  /\ Len(log[v]) <= Len(log'[v])
               /\ \A i \in 1..Len(log[v]) : log'[v][i] = log[v][i]
    BY <1>1, <1>3
  <2> QED
    BY <2>1 DEF LogGrows
<1> HIDE DEF k
<1>6. /\ b \in Request /\ b.pc = "written" /\ b.user = u /\ b.nth = k
      /\ b.email = None /\ b.body = None
  BY <1>4, IdleShape DEF Request, Pcs
<1> HIDE DEF b
<1>7. /\ r \in Request /\ r.pc = "written" /\ r.op = "patch" /\ r.user = u
      /\ r.nth = k /\ r.email = None /\ r.body = None
  BY <1>6, WithOpShape
<1> HIDE DEF r
<1>8. /\ req' \in [Requests -> Request] /\ req'[q] = r
      /\ \A p \in Requests : p # q => req'[p] = req[p]
  BY <1>2, <1>7 DEF IInv, TypeOK
<1>9. TypeOK'
  BY <1>1, <1>2, <1>8 DEF IInv, TypeOK
<1>10. req[q].user = None
  BY <1>2, IdleShape DEF IInv, Local
<1>11. UniqueColumns'
  BY <1>2 DEF IInv, UniqueColumns, Normal
<1>16. RowsKept /\ RequestsKept
  BY <1>2, <1>8, <1>10, RowsSame DEF RequestsKept
<1>12. Owners'
  BY <1>2, <1>16, OwnersStay DEF IInv
<1>13. Merged'
  <2>1. MergedHideout(u)' /\ \A c \in Columns : MergedColumn(u, c)'
    BY <1>1, MergedGrows DEF IInv
  <2>2. ASSUME NEW v \in Ids, v # u
        PROVE  MergedHideout(v)' /\ \A c \in Columns : MergedColumn(v, c)'
    <3>1. log'[v] = log[v] /\ ProfileOf(v)' = ProfileOf(v)
      BY <1>1, <2>2
    <3>2. Hiding(v)' = Hiding(v) /\ \A c \in Columns : Giving(v, c)' = Giving(v, c)
      BY <3>1 DEF Hiding, Giving
    <3>3. MergedHideout(v)'
      BY <3>1, <3>2 DEF IInv, Merged, MergedHideout, IsLast
    <3>4. \A c \in Columns : MergedColumn(v, c)'
      BY <3>1, <3>2 DEF IInv, Merged, MergedColumn, IsLast
    <3> QED
      BY <3>3, <3>4
  <2> QED
    BY <2>1, <2>2 DEF Merged
<1>14. ASSUME NEW p \in Requests, p # q
       PROVE  Local(req[p])' /\ Decided(p)' /\ Shows(req[p])'
  <2>1. req'[p] = req[p]
    BY <1>8, <1>14
  <2>2. Local(req[p])' /\ Shows(req[p])'
    BY <1>5, <1>9, <1>16, <2>1, LocalStays, ShowsStays DEF IInv
  <2>3. Decided(p)'
    BY <1>16, <2>1, DecidedStays DEF IInv
  <2> QED
    BY <2>2, <2>3
<1>15. Local(req[q])' /\ Decided(q)' /\ Shows(req[q])'
  BY <1>4, <1>7, <1>8 DEF Local, Decided, Shows
<1> QED
  BY <1>1, <1>9, <1>11, <1>12, <1>13, <1>14, <1>15 DEF IInv

\* What is read back shows every column as the patch, or a later one, left it.
LEMMA ReadBackKeeps == ASSUME IInv, NEW q \in Requests, ReadBack(q) PROVE IInv'
<1> DEFINE u == req[q].user
           body == ProfileOf(u)
           a == Answered(req[q], 200)
           r == [a EXCEPT !.body = body]
<1>1. /\ req[q] \in Request /\ req[q].pc = "written" /\ req[q].op = "patch"
      /\ u \in Ids /\ req[q].nth \in 1..Len(log[u])
      /\ UNCHANGED <<users, profiles, log>>
  BY DEF IInv, TypeOK, Local, ReadBack
<1>2. req' = [req EXCEPT ![q] = r]
  BY DEF ReadBack
<1>3. body \in Profile
  BY <1>1, ProfileShape DEF IInv
<1>4. /\ a \in Request /\ a.pc = "done" /\ a.op = "patch" /\ a.user = u
      /\ a.email = req[q].email /\ a.alias = req[q].alias
      /\ a.spread = req[q].spread /\ a.nth = req[q].nth
  BY <1>1, AnsweredShape
<1>5. MergedHideout(u) /\ \A c \in Columns : MergedColumn(u, c)
  BY <1>1 DEF IInv, Merged
<1>6. /\ Len(log[u]) \in Nat /\ DOMAIN log[u] = 1..Len(log[u])
  BY <1>1 DEF IInv, TypeOK
<1> HIDE DEF a
<1>7. /\ r \in Request /\ r.pc = "done" /\ r.op = "patch" /\ r.user = u
      /\ r.email = req[q].email /\ r.alias = req[q].alias
      /\ r.spread = req[q].spread /\ r.nth = req[q].nth /\ r.body = body
  BY <1>3, <1>4 DEF Request
<1> HIDE DEF r
<1>8. Local(r)
  BY <1>1, <1>7 DEF Local
<1>9. ASSUME NEW c \in Columns PROVE ShowsColumn(r, c)
  <2>1. CASE Giving(u, c) = {} /\ body.plain[c] = None
    <3>1. \A j \in 1..r.nth : log[u][j].plain[c] = Omitted
      BY <1>1, <1>6, <1>7, <2>1 DEF Giving
    <3> QED
      BY <1>6, <1>7, <2>1, <3>1 DEF ShowsColumn
  <2>2. ASSUME NEW i \in DOMAIN log[u], IsLast(i, Giving(u, c)),
               body.plain[c] = log[u][i].plain[c]
        PROVE  ShowsColumn(r, c)
    <3>1. i \in 0..Len(log[u]) /\ i > 0
      BY <1>6
    <3>2. \A j \in i + 1..r.nth : log[u][j].plain[c] = Omitted
      BY <1>1, <1>6, <1>7, <2>2, <3>1 DEF IsLast, Giving
    <3> QED
      BY <1>7, <2>2, <3>1, <3>2 DEF ShowsColumn
  <2> QED
    BY <1>5, <2>1, <2>2 DEF MergedColumn
<1>12. ShowsHideout(r)
  <2>1. CASE Hiding(u) = {} /\ body.point = None /\ body.radius = None
    <3>1. \A j \in 1..r.nth : log[u][j].hideout = None
      BY <1>1, <1>6, <1>7, <2>1 DEF Hiding
    <3> QED
      BY <1>6, <1>7, <2>1, <3>1 DEF ShowsHideout
  <2>2. ASSUME NEW i \in DOMAIN log[u], IsLast(i, Hiding(u)),
               body.point = log[u][i].hideout.point,
               body.radius = log[u][i].hideout.radius
        PROVE  ShowsHideout(r)
    <3>1. i \in 0..Len(log[u]) /\ i > 0 /\ log[u][i].hideout # None
      BY <1>6, <2>2 DEF IsLast, Hiding
    <3>2. \A j \in i + 1..r.nth : log[u][j].hideout = None
      BY <1>1, <1>6, <1>7, <2>2, <3>1 DEF IsLast, Hiding
    <3> QED
      BY <1>7, <2>2, <3>1, <3>2 DEF ShowsHideout
  <2> QED
    BY <1>5, <2>1, <2>2 DEF MergedHideout
<1>10. Shows(r)
  BY <1>9, <1>12 DEF Shows
<1>11. Decided(q)'
  BY <1>2, <1>7 DEF IInv, TypeOK, Decided
<1> QED
  BY <1>1, <1>2, <1>7, <1>8, <1>10, <1>11, RequestKeeps
-----------------------------------------------------------------------------
LEMMA NextKeeps == ASSUME IInv, [Next]_vars PROVE IInv'
<1>1. ASSUME NEW q \in Requests, Registering(q) PROVE IInv'
  BY <1>1, RefusalsKeep, RegisterKeeps, InsertKeeps, InsertRefusedKeeps,
     AccountsAssumption DEF Registering
<1>2. ASSUME NEW q \in Requests, Patching(q) PROVE IInv'
  BY <1>2, RefusalsKeep, UpsertKeeps, ReadBackKeeps DEF Patching
<1>3. ASSUME NEW q \in Requests, Verifying(q) PROVE IInv'
  BY <1>3, RefusalsKeep, VerifyKeeps DEF Verifying
<1> QED
  BY <1>1, <1>2, <1>3, CreatedKeeps, CutKeeps, LoseKeeps, StutterKeeps DEF Next

\* The inductive invariant holds of every behaviour.
LEMMA Inductive == Spec => []IInv
  BY InitIInv, NextKeeps, PTL DEF Spec

\* Every variable keeps its type.
THEOREM TypeCorrect == Spec => []TypeOK
<1>1. IInv => TypeOK
  BY DEF IInv
<1> QED
  BY <1>1, Inductive, PTL

\* No two accounts share an alias, or an address however it was typed
\* (register-user.use-case.ts:16-27, schema.ts:15-16).
THEOREM AccountsAreUnique == Spec => []OneAccountEach
<1>1. IInv => OneAccountEach
  <2> SUFFICES ASSUME IInv, NEW r1 \in users, NEW r2 \in users,
                      r1.email.name = r2.email.name \/ r1.alias = r2.alias
               PROVE  r1 = r2
    BY DEF OneAccountEach
  <2>1. /\ r1.email \in Address /\ r1.email.typed = Lower
        /\ r2.email \in Address /\ r2.email.typed = Lower
    BY DEF IInv, UniqueColumns, Normal
  <2>2. r1.email.name = r2.email.name => r1.email = r2.email
    BY <2>1 DEF Address
  <2> QED
    BY <2>2 DEF IInv, UniqueColumns
<1> QED
  BY <1>1, Inductive, PTL

\* A registration whose address was accepted is told 201, 409, 400 or 500, each
\* for its reason (all-exceptions.filter.ts:42-60, user.repository.ts:29-37).
THEOREM RegistrationsDecided == Spec => []RegistrationDecided
<1>1. IInv => RegistrationDecided
  BY DEF IInv, Decided, OwnRow, RegistrationDecided
<1> QED
  BY <1>1, Inductive, PTL

\* Each column of a profile holds what the last patch that gave it said
\* (profile.repository.ts:34-66).
THEOREM ProfilesAreMerges == Spec => []ProfileIsMerge
<1>1. IInv => ProfileIsMerge
  BY DEF IInv, Merged, MergedColumn, MergedHideout, ProfileIsMerge
<1> QED
  BY <1>1, Inductive, PTL

\* The answer to a patch shows that patch, its hide-out included (profile.repository.ts:68).
THEOREM AnswersShowPatches == Spec => []AnswerShowsPatch
<1>1. IInv => AnswerShowsPatch
  BY DEF IInv, Shows, AnswerShowsPatch
<1> QED
  BY <1>1, Inductive, PTL
=============================================================================
