--------------------------- MODULE SessionsProofs ---------------------------
(***************************************************************************)
(* Safety of Sessions for every set of users, devices, tokens and requests *)
(* and every lifetime.                                                     *)
(*                                                                         *)
(* The argument: the row of a session always carries the data of the one   *)
(* request whose write it was (RowOrigin), and all requests about a        *)
(* session agree on its user and device (OneOwner).  Those two facts turn  *)
(* what a request read before an await into a fact about the table after.  *)
(***************************************************************************)
EXTENDS Sessions, TLAPS

Carries(q) == req[q].new # None

(* What the fields of a request hold at each point of its life.             *)
Shape ==
  \A q \in Requests :
    /\ req[q].pc = "new" => ~Carries(q) /\ req[q].op = "none"
    /\ req[q].pc \in {"ready", "written", "died", "lost"} => Carries(q)
    /\ Carries(q) => /\ req[q].op \in {"create", "refresh"}
                     /\ req[q].user \in Users /\ req[q].agent \in Agents
                     /\ req[q].pc \in {"ready", "written", "ok", "died", "lost"}
    /\ req[q].op = "create" => (req[q].sid # None <=> Wrote(q))
    /\ Carries(q) /\ req[q].op = "refresh" => req[q].sid # None

(* A token is minted once.                                                  *)
DistinctTokens ==
  \A q, r \in Requests : Carries(q) /\ req[q].new = req[r].new => q = r

(* A session is opened by one login.                                        *)
DistinctIds ==
  \A q, r \in Requests :
    /\ Wrote(q) /\ req[q].op = "create"
    /\ Wrote(r) /\ req[r].op = "create"
    /\ req[q].sid = req[r].sid
    => q = r

(* Every refresh is about a session some login opened, ...                  *)
CreatedOnce ==
  \A q \in Requests :
    Carries(q) /\ req[q].op = "refresh" =>
      \E m \in Requests :
        Wrote(m) /\ req[m].op = "create" /\ req[m].sid = req[q].sid

(* ... presents a token some request wrote, ...                             *)
OldIsWritten ==
  \A q \in Requests :
    req[q].op = "refresh" /\ req[q].old # None =>
      \E m \in Requests : Wrote(m) /\ req[m].new = req[q].old

(* ... and all requests about one session agree on its user and device.     *)
OneOwner ==
  \A q, r \in Requests :
    Carries(q) /\ Carries(r) /\ req[q].sid # None /\ req[q].sid = req[r].sid
      => req[q].user = req[r].user /\ req[q].agent = req[r].agent

(* m is the request whose write the row is.                                 *)
Origin(row, m) ==
  /\ Wrote(m)
  /\ req[m].new = row.refreshToken
  /\ req[m].sid = row.id
  /\ req[m].user = row.userId
  /\ req[m].agent = row.userAgent
  /\ req[m].exp = row.expiresAt

RowOrigin == \A row \in sessions : \E m \in Requests : Origin(row, m)

(* Once a refresh of a session has written, the row is some refresh's.      *)
LastWriter ==
  \A row \in sessions, m \in Requests :
    Wrote(m) /\ req[m].op = "refresh" /\ req[m].sid = row.id =>
      \E o \in Requests : /\ Wrote(o) /\ req[o].op = "refresh"
                          /\ req[o].new = row.refreshToken

Provenance ==
  /\ Shape /\ DistinctTokens /\ DistinctIds /\ CreatedOnce /\ OldIsWritten
  /\ OneOwner /\ RowOrigin /\ LastWriter

-----------------------------------------------------------------------------
(* Types.                                                                   *)

(* A new job of the right type, and a table of rows, keep the types.        *)
LEMMA BeginType ==
  ASSUME TypeOK, NEW q \in Requests, NEW job \in Request, Begin(q, job),
         sessions' \subseteq Row, now' \in Nat
  PROVE  TypeOK'
  BY DEF TypeOK, Begin

LEMMA AdvanceType ==
  ASSUME TypeOK, NEW q \in Requests, NEW from, NEW to \in Pcs,
         Advance(q, from, to), sessions' \subseteq Row, now' \in Nat
  PROVE  TypeOK'
<1>1. req[q] \in Request
  BY DEF TypeOK
<1>2. [req[q] EXCEPT !.pc = to] \in Request
  BY <1>1 DEF Request
<1> QED
  BY <1>2 DEF TypeOK, Advance

LEMMA ExpirationType ==
  ASSUME now \in Nat, NEW b \in BOOLEAN
  PROVE  Expiration(b) \in Nat
  BY TimeAssumption DEF Expiration

LEMMA TypeStep == TypeOK /\ Shape /\ [Next]_vars => TypeOK'
<1> SUFFICES ASSUME TypeOK, Shape, [Next]_vars PROVE TypeOK'
  OBVIOUS
<1> USE DEF Pcs, Ops
<1>0. now \in Nat /\ sessions \subseteq Row /\ Held \subseteq Tokens
  BY DEF TypeOK, Held, Request
<1>1. ASSUME NEW q \in Requests, NEW u \in Users, NEW a \in Agents,
             NEW t \in Tokens, NEW b \in BOOLEAN, BeginCreate(q, u, a, t, b)
      PROVE  TypeOK'
  BY <1>0, <1>1, BeginType, ExpirationType DEF BeginCreate, Request, Idle
<1>2. ASSUME NEW q \in Requests, NEW u \in Users,
             CreateRejected(q, u) \/ Challenge(q, u)
      PROVE  TypeOK'
  BY <1>0, <1>2, BeginType DEF CreateRejected, Challenge, Request, Idle
<1>3. ASSUME NEW q \in Requests, NEW s \in SessionIds, Insert(q, s)
      PROVE  TypeOK'
  <2>1. req[q] \in Request /\ Carries(q)
    BY <1>3 DEF Insert, TypeOK, Shape
  <2>2. req[q].user \in Users /\ req[q].agent \in Agents
        /\ req[q].new \in Tokens /\ req[q].exp \in Nat
    BY <2>1 DEF Shape, Carries, Request
  <2>3. [id |-> s, userId |-> req[q].user, refreshToken |-> req[q].new,
         userAgent |-> req[q].agent, expiresAt |-> req[q].exp] \in Row
    BY <2>2 DEF Row
  <2>4. [req[q] EXCEPT !.pc = "written", !.sid = s] \in Request
    BY <2>1 DEF Request
  <2> QED
    BY <1>0, <1>3, <2>3, <2>4 DEF Insert, TypeOK
<1>4. ASSUME NEW q \in Requests, NEW t \in Held, NEW a \in Agents,
             NEW new \in Tokens, RefreshRead(q, t, a, new)
      PROVE  TypeOK'
  BY <1>0, <1>4, BeginType, ExpirationType
     DEF RefreshRead, Accepted, Request, Row, Idle
<1>5. ASSUME NEW q \in Requests, NEW t \in Held \cup {None}, NEW a \in Agents,
             RefreshDenied(q, t, a)
      PROVE  TypeOK'
  BY <1>0, <1>5, BeginType DEF RefreshDenied, Request, Idle
<1>6. ASSUME NEW q \in Requests, RefreshWrite(q)
      PROVE  TypeOK'
  <2>1. req[q] \in Request /\ Carries(q)
    BY <1>6 DEF RefreshWrite, UpdateWhere, Advance, TypeOK, Shape
  <2>2. req[q].new \in Tokens /\ req[q].exp \in Nat
    BY <2>1 DEF Carries, Request
  <2>3. sessions' \subseteq Row
    BY <1>0, <1>6, <2>2 DEF RefreshWrite, UpdateWhere, Row
  <2> QED
    BY <1>0, <1>6, <2>3, AdvanceType DEF RefreshWrite, UpdateWhere
<1>7. ASSUME NEW q \in Requests, Answer(q)
      PROVE  TypeOK'
  <2>1. CASE Reply(q)
    <3>1. [req[q] EXCEPT !.pc = "ok", !.at = now] \in Request
      BY DEF TypeOK, Request
    <3> QED
      BY <2>1, <3>1 DEF Reply, TypeOK
  <2>2. CASE Die(q)
    BY <1>0, <2>2, AdvanceType DEF Die
  <2>3. CASE Lose(q)
    BY <1>0, <2>3, AdvanceType DEF Lose
  <2> QED
    BY <1>7, <2>1, <2>2, <2>3 DEF Answer
<1>8. ASSUME NEW q \in Requests, Delete(q)
      PROVE  TypeOK'
  BY <1>0, <1>8, BeginType
     DEF Delete, RevokeSession, RevokeAll, RevokeAllOthers, Logout,
         DeleteRequest, DeleteOne, Request, Idle
<1>9. CASE Tick
  BY <1>9 DEF Tick, TypeOK
<1>10. CASE UNCHANGED vars
  BY <1>10 DEF vars, TypeOK
<1> QED
  BY <1>1, <1>2, <1>3, <1>4, <1>5, <1>6, <1>7, <1>8, <1>9, <1>10
     DEF Next, Create, Refresh

-----------------------------------------------------------------------------
(* Provenance.                                                              *)

(* A step that writes no token: rows may only disappear, and every request  *)
(* keeps its data, except a new one that takes up a job without a token.    *)
Quiet ==
  /\ sessions' \subseteq sessions
  /\ \A r \in Requests :
       \/ /\ Wrote(r)' <=> Wrote(r)
          /\ req'[r].op = req[r].op /\ req'[r].user = req[r].user
          /\ req'[r].agent = req[r].agent /\ req'[r].sid = req[r].sid
          /\ req'[r].old = req[r].old /\ req'[r].new = req[r].new
          /\ req'[r].exp = req[r].exp
       \/ /\ req[r].pc = "new" /\ req'[r].new = None
          /\ \/ req'[r].op # "refresh"
             \/ req'[r].old \in Held \cup {None}

LEMMA HeldIsWritten ==
  ASSUME TypeOK, Shape, NEW t \in Held
  PROVE  \E m \in Requests : Wrote(m) /\ req[m].new = t
  BY DEF Held, Wrote

LEMMA QuietProvenance ==
  ASSUME TypeOK, Provenance, Quiet
  PROVE  /\ DistinctTokens' /\ DistinctIds' /\ CreatedOnce' /\ OldIsWritten'
         /\ OneOwner' /\ RowOrigin' /\ LastWriter'
<1>1. \A r \in Requests :
        Carries(r)' \/ Wrote(r) \/ Wrote(r)' =>
          /\ Wrote(r)' <=> Wrote(r)
          /\ req'[r].op = req[r].op /\ req'[r].user = req[r].user
          /\ req'[r].agent = req[r].agent /\ req'[r].sid = req[r].sid
          /\ req'[r].old = req[r].old /\ req'[r].new = req[r].new
          /\ req'[r].exp = req[r].exp
  BY DEF Quiet, Provenance, Shape, Carries, Wrote
<1>2. \A r \in Requests : Carries(r)' => Carries(r)
  BY <1>1 DEF Carries
<1>3. DistinctTokens'
  BY <1>1, <1>2 DEF Provenance, DistinctTokens, Carries
<1>4. DistinctIds'
  BY <1>1 DEF Provenance, DistinctIds
<1>5. CreatedOnce'
  BY <1>1, <1>2 DEF Provenance, CreatedOnce
<1>6. OldIsWritten'
  <2> SUFFICES ASSUME NEW q \in Requests, (req[q].op = "refresh")', (req[q].old # None)'
               PROVE  \E m \in Requests : Wrote(m)' /\ (req[m].new = req[q].old)'
    BY DEF OldIsWritten
  <2>1. \E m \in Requests : Wrote(m) /\ req[m].new = req'[q].old
    BY HeldIsWritten DEF Quiet, Provenance, OldIsWritten
  <2> QED
    BY <1>1, <2>1
<1>7. OneOwner'
  BY <1>1, <1>2 DEF Provenance, OneOwner
<1>8. RowOrigin'
  BY <1>1 DEF Provenance, RowOrigin, Origin, Quiet
<1>9. LastWriter'
  BY <1>1 DEF Provenance, LastWriter, Quiet
<1> QED
  BY <1>3, <1>4, <1>5, <1>6, <1>7, <1>8, <1>9

(* What answers and deletions change.                                       *)
LEMMA AnswerEffect ==
  ASSUME TypeOK, NEW q \in Requests, Answer(q)
  PROVE  /\ \/ req[q].pc = "ready" /\ req'[q].pc = "died"
            \/ req[q].pc = "written" /\ req'[q].pc \in {"ok", "lost"}
         /\ req'[q].op = req[q].op /\ req'[q].user = req[q].user
         /\ req'[q].agent = req[q].agent /\ req'[q].sid = req[q].sid
         /\ req'[q].old = req[q].old /\ req'[q].new = req[q].new
         /\ req'[q].exp = req[q].exp
         /\ \A r \in Requests \ {q} : req'[r] = req[r]
         /\ UNCHANGED <<sessions, now>>
<1> USE DEF TypeOK, Request
<1>1. CASE Reply(q)
  BY <1>1 DEF Reply
<1>2. CASE Die(q)
  BY <1>2 DEF Die, Advance
<1>3. CASE Lose(q)
  BY <1>3 DEF Lose, Advance
<1> QED
  BY <1>1, <1>2, <1>3 DEF Answer

Deletion(q) ==
  /\ req[q].pc = "new" /\ req'[q].pc = "ok"
  /\ req'[q].op \in {"revokeOne", "revokeAll", "revokeOthers", "logout"}
  /\ req'[q].new = None
  /\ \A r \in Requests \ {q} : req'[r] = req[r]
  /\ sessions' \subseteq sessions
  /\ UNCHANGED now

LEMMA DeleteEffect ==
  ASSUME TypeOK, NEW q \in Requests, Delete(q)
  PROVE  Deletion(q)
<1> USE DEF TypeOK, DeleteRequest, Begin, Idle, Deletion
<1>1. ASSUME NEW u \in Users, NEW s \in SessionIds, RevokeSession(q, u, s)
      PROVE  Deletion(q)
  BY <1>1 DEF RevokeSession, DeleteOne
<1>2. ASSUME NEW u \in Users, RevokeAll(q, u)
      PROVE  Deletion(q)
  BY <1>2 DEF RevokeAll
<1>3. ASSUME NEW u \in Users, RevokeAllOthers(q, u)
      PROVE  Deletion(q)
  BY <1>3 DEF RevokeAllOthers
<1>4. ASSUME NEW t \in Held, Logout(q, t)
      PROVE  Deletion(q)
  BY <1>4 DEF Logout, DeleteOne
<1> QED
  BY <1>1, <1>2, <1>3, <1>4 DEF Delete

LEMMA ShapeStep == TypeOK /\ Shape /\ [Next]_vars => Shape'
<1> SUFFICES ASSUME TypeOK, Shape, [Next]_vars PROVE Shape'
  OBVIOUS
<1> USE DEF Carries, Wrote
<1>1. ASSUME NEW q \in Requests, Create(q)
      PROVE  Shape'
  <2>1. ASSUME NEW u \in Users, NEW a \in Agents, NEW t \in Tokens,
               NEW b \in BOOLEAN, BeginCreate(q, u, a, t, b)
        PROVE  Shape'
    BY <2>1, NoneAssumption DEF BeginCreate, Begin, Idle, Shape, TypeOK
  <2>2. ASSUME NEW u \in Users, CreateRejected(q, u) \/ Challenge(q, u)
        PROVE  Shape'
    <3>1. CASE CreateRejected(q, u)
      BY <3>1 DEF CreateRejected, Begin, Idle, Shape, TypeOK
    <3>2. CASE Challenge(q, u)
      BY <3>2 DEF Challenge, Begin, Idle, Shape, TypeOK
    <3> QED
      BY <2>2, <3>1, <3>2
  <2>3. ASSUME NEW s \in SessionIds, Insert(q, s)
        PROVE  Shape'
    BY <2>3, NoneAssumption DEF Insert, Shape, TypeOK, Request
  <2> QED
    BY <1>1, <2>1, <2>2, <2>3 DEF Create
<1>2. ASSUME NEW q \in Requests, Refresh(q)
      PROVE  Shape'
  <2>1. ASSUME NEW t \in Held, NEW a \in Agents, NEW new \in Tokens,
               RefreshRead(q, t, a, new)
        PROVE  Shape'
    BY <2>1, NoneAssumption
       DEF RefreshRead, Accepted, Begin, Idle, Shape, TypeOK, Row
  <2>2. ASSUME NEW t \in Held \cup {None}, NEW a \in Agents,
               RefreshDenied(q, t, a)
        PROVE  Shape'
    BY <2>2 DEF RefreshDenied, Begin, Idle, Shape, TypeOK
  <2>3. CASE RefreshWrite(q)
    BY <2>3 DEF RefreshWrite, UpdateWhere, Advance, Shape, TypeOK, Request
  <2> QED
    BY <1>2, <2>1, <2>2, <2>3 DEF Refresh
<1>3. ASSUME NEW q \in Requests, Answer(q)
      PROVE  Shape'
  BY <1>3, AnswerEffect DEF Shape, TypeOK, Request
<1>4. ASSUME NEW q \in Requests, Delete(q)
      PROVE  Shape'
  BY <1>4, DeleteEffect DEF Deletion, Shape
<1>5. CASE Tick \/ UNCHANGED vars
  BY <1>5 DEF Tick, vars, Shape
<1> QED
  BY <1>1, <1>2, <1>3, <1>4, <1>5 DEF Next

(* The steps that write no token.                                           *)
LEMMA QuietSteps ==
  ASSUME TypeOK, Shape, NEW q \in Requests,
         \/ \E u \in Users : CreateRejected(q, u) \/ Challenge(q, u)
         \/ \E t \in Held \cup {None}, a \in Agents : RefreshDenied(q, t, a)
         \/ Answer(q)
         \/ Delete(q)
  PROVE  Quiet
<1> USE DEF Quiet, Wrote, TypeOK
<1>1. ASSUME NEW u \in Users, CreateRejected(q, u) \/ Challenge(q, u)
      PROVE  Quiet
  BY <1>1 DEF CreateRejected, Challenge, Begin, Idle
<1>2. ASSUME NEW t \in Held \cup {None}, NEW a \in Agents, RefreshDenied(q, t, a)
      PROVE  Quiet
  BY <1>2 DEF RefreshDenied, Begin, Idle
<1>3. CASE Answer(q)
  BY <1>3, AnswerEffect
<1>4. CASE Delete(q)
  BY <1>4, DeleteEffect DEF Deletion
<1> QED
  BY <1>1, <1>2, <1>3, <1>4

(* The two steps that mint a token.                                         *)
Mint(q, new) ==
  /\ FreshToken(new) /\ new # None
  /\ req[q].pc = "new"
  /\ req'[q].pc = "ready" /\ req'[q].new = new
  /\ \A r \in Requests \ {q} : req'[r] = req[r]
  /\ UNCHANGED sessions

LEMMA MintProvenance ==
  ASSUME TypeOK, Provenance, NEW q \in Requests, NEW new \in Tokens,
         Mint(q, new),
         \/ req'[q].op = "create" /\ req'[q].sid = None
         \/ /\ req'[q].op = "refresh"
            /\ \E m \in Requests : /\ Wrote(m)
                                   /\ req[m].new = req'[q].old
                                   /\ req[m].sid = req'[q].sid
                                   /\ req[m].user = req'[q].user
                                   /\ req[m].agent = req'[q].agent
  PROVE  /\ DistinctTokens' /\ DistinctIds' /\ CreatedOnce' /\ OldIsWritten'
         /\ OneOwner' /\ RowOrigin' /\ LastWriter'
<1>1. \A r \in Requests : /\ Wrote(r)' <=> Wrote(r)
                          /\ Wrote(r) => req'[r] = req[r]
                          /\ r # q => (Carries(r)' <=> Carries(r))
  BY DEF Mint, Wrote, Carries
<1>2. ~Carries(q) /\ ~Wrote(q)
  BY DEF Mint, Wrote, Provenance, Shape
<1>3. DistinctTokens'
  BY <1>1 DEF Provenance, DistinctTokens, Mint, FreshToken, Carries
<1>4. DistinctIds'
  BY <1>1 DEF Provenance, DistinctIds
<1>5. CreatedOnce'
  <2>1. ASSUME req'[q].op = "refresh"
        PROVE  \E m \in Requests :
                 Wrote(m) /\ req[m].op = "create" /\ req[m].sid = req'[q].sid
    BY <2>1 DEF Provenance, CreatedOnce, Shape, Carries, Wrote
  <2> QED
    BY <1>1, <2>1 DEF Provenance, CreatedOnce, Mint
<1>6. OldIsWritten'
  BY <1>1 DEF Provenance, OldIsWritten, Mint
<1>7. OneOwner'
  BY <1>1, <1>2 DEF Provenance, OneOwner, Mint, Wrote, Carries
<1>8. RowOrigin'
  BY <1>1 DEF Provenance, RowOrigin, Origin, Mint
<1>9. LastWriter'
  BY <1>1 DEF Provenance, LastWriter, Mint
<1> QED
  BY <1>3, <1>4, <1>5, <1>6, <1>7, <1>8, <1>9

LEMMA MintSteps ==
  ASSUME TypeOK, Provenance, NEW q \in Requests, NEW new \in Tokens,
         \/ \E u \in Users, a \in Agents, b \in BOOLEAN : BeginCreate(q, u, a, new, b)
         \/ \E t \in Held, a \in Agents : RefreshRead(q, t, a, new)
  PROVE  /\ Mint(q, new)
         /\ \/ req'[q].op = "create" /\ req'[q].sid = None
            \/ /\ req'[q].op = "refresh"
               /\ \E m \in Requests : /\ Wrote(m)
                                      /\ req[m].new = req'[q].old
                                      /\ req[m].sid = req'[q].sid
                                      /\ req[m].user = req'[q].user
                                      /\ req[m].agent = req'[q].agent
                                      /\ req'[q].exp <= req[m].exp + RefreshTtl
<1> USE DEF Mint, Begin, TypeOK
<1>1. ASSUME NEW u \in Users, NEW a \in Agents, NEW b \in BOOLEAN,
             BeginCreate(q, u, a, new, b)
      PROVE  Mint(q, new) /\ req'[q].op = "create" /\ req'[q].sid = None
  BY <1>1, NoneAssumption DEF BeginCreate, Idle
<1>2. ASSUME NEW t \in Held, NEW a \in Agents, RefreshRead(q, t, a, new)
      PROVE  /\ Mint(q, new) /\ req'[q].op = "refresh"
             /\ \E m \in Requests : /\ Wrote(m)
                                    /\ req[m].new = req'[q].old
                                    /\ req[m].sid = req'[q].sid
                                    /\ req[m].user = req'[q].user
                                    /\ req[m].agent = req'[q].agent
                                    /\ req'[q].exp <= req[m].exp + RefreshTtl
  <2>1. PICK row \in Accepted(t, a) :
          Begin(q, [Idle EXCEPT !.pc = "ready", !.op = "refresh",
                                !.user = row.userId, !.agent = a, !.sid = row.id,
                                !.old = t, !.new = new,
                                !.exp = Expiration(FALSE)])
    BY <1>2 DEF RefreshRead
  <2>2. /\ row \in sessions /\ row.refreshToken = t /\ row.userAgent = a
        /\ ~(row.expiresAt < now)
    BY <2>1 DEF Accepted, Accepts
  <2>3. PICK m \in Requests : Origin(row, m)
    BY <2>2 DEF Provenance, RowOrigin
  <2>4. /\ Mint(q, new) /\ req'[q].op = "refresh" /\ req'[q].old = t
        /\ req'[q].sid = row.id /\ req'[q].user = row.userId
        /\ req'[q].agent = a /\ req'[q].exp = now + RefreshTtl
    BY <1>2, <2>1, NoneAssumption DEF RefreshRead, Idle, Expiration
  <2>5. now + RefreshTtl <= row.expiresAt + RefreshTtl
    BY <2>2, TimeAssumption DEF Row
  <2> QED
    BY <2>2, <2>3, <2>4, <2>5 DEF Origin
<1> QED
  BY <1>1, <1>2

(* The two steps that write a token.  What changes in the requests: *)
Write(q) ==
  /\ req[q].pc = "ready" /\ req'[q].pc = "written"
  /\ req'[q].op = req[q].op /\ req'[q].user = req[q].user
  /\ req'[q].agent = req[q].agent /\ req'[q].old = req[q].old
  /\ req'[q].new = req[q].new /\ req'[q].exp = req[q].exp
  /\ \A r \in Requests \ {q} : req'[r] = req[r]

LEMMA WriteEffect ==
  ASSUME TypeOK, Shape, NEW q \in Requests, Write(q)
  PROVE  /\ \A r \in Requests : /\ Carries(r)' <=> Carries(r)
                                /\ Wrote(r)' <=> Wrote(r) \/ r = q
                                /\ req'[r].new = req[r].new
         /\ Carries(q) /\ ~Wrote(q)
  BY DEF Write, Carries, Wrote, Shape

LEMMA InsertProvenance ==
  ASSUME TypeOK, Provenance, NEW q \in Requests, NEW s \in SessionIds,
         Insert(q, s)
  PROVE  /\ Write(q) /\ DistinctTokens' /\ DistinctIds' /\ CreatedOnce'
         /\ OldIsWritten' /\ OneOwner' /\ RowOrigin' /\ LastWriter'
<1>1. /\ Write(q) /\ req[q].op = "create" /\ req'[q].sid = s
      /\ \A r \in Requests : req[r].op = "create" => req[r].sid # s
      /\ req[q].sid = None
  BY DEF Insert, Write, TypeOK, Request, FreshId, Provenance, Shape, Wrote
<1>2. /\ \A r \in Requests : /\ Carries(r)' <=> Carries(r)
                             /\ Wrote(r)' <=> Wrote(r) \/ r = q
                             /\ req'[r].new = req[r].new
      /\ Carries(q) /\ ~Wrote(q)
  BY <1>1, WriteEffect DEF Provenance
<1>3. \A r \in Requests : Carries(r) => req[r].sid # s
  BY <1>1, NoneAssumption DEF Provenance, Shape, CreatedOnce
<1>4. \A row \in sessions : row.id # s
  BY <1>3 DEF Provenance, RowOrigin, Origin, Wrote, Carries
<1>5. DistinctTokens'
  BY <1>2 DEF Provenance, DistinctTokens
<1>6. DistinctIds'
  BY <1>1, <1>2 DEF Provenance, DistinctIds, Write
<1>7. CreatedOnce'
  BY <1>1, <1>2 DEF Provenance, CreatedOnce, Write
<1>8. OldIsWritten'
  BY <1>1, <1>2 DEF Provenance, OldIsWritten, Write
<1>9. OneOwner'
  BY <1>1, <1>2, <1>3 DEF Provenance, OneOwner, Write
<1>10. RowOrigin'
  <2> SUFFICES ASSUME NEW row \in sessions'
               PROVE  \E m \in Requests : Origin(row, m)'
    BY DEF RowOrigin
  <2>1. CASE row \in sessions
    BY <1>1, <1>2, <2>1 DEF Provenance, RowOrigin, Origin, Write
  <2>2. CASE row \notin sessions
    BY <1>1, <1>2, <2>2 DEF Insert, Origin, Write
  <2> QED
    BY <2>1, <2>2
<1>11. LastWriter'
  <2> SUFFICES ASSUME NEW row \in sessions', NEW m \in Requests,
                      Wrote(m)', (req[m].op = "refresh")', (req[m].sid = row.id)'
               PROVE  \E o \in Requests : /\ Wrote(o)' /\ (req[o].op = "refresh")'
                                          /\ (req[o].new = row.refreshToken)'
    BY DEF LastWriter
  <2>1. m # q /\ Wrote(m) /\ Carries(m)
    BY <1>1, <1>2 DEF Write, Wrote, Carries
  <2>2. row \in sessions
    BY <1>1, <1>3, <2>1 DEF Insert, Write
  <2>3. req[m].op = "refresh" /\ req[m].sid = row.id
    BY <1>1, <2>1 DEF Write
  <2> QED
    BY <1>1, <1>2, <2>1, <2>2, <2>3 DEF Provenance, LastWriter, Write
<1> QED
  BY <1>1, <1>5, <1>6, <1>7, <1>8, <1>9, <1>10, <1>11

LEMMA RefreshWriteProvenance ==
  ASSUME TypeOK, Provenance, NEW q \in Requests, RefreshWrite(q)
  PROVE  /\ Write(q) /\ DistinctTokens' /\ DistinctIds' /\ CreatedOnce'
         /\ OldIsWritten' /\ OneOwner' /\ RowOrigin' /\ LastWriter'
<1>1. Write(q) /\ req[q].op = "refresh" /\ req'[q].sid = req[q].sid
  BY DEF RefreshWrite, UpdateWhere, Advance, Write, TypeOK, Request
<1>2. /\ \A r \in Requests : /\ Carries(r)' <=> Carries(r)
                             /\ Wrote(r)' <=> Wrote(r) \/ r = q
                             /\ req'[r].new = req[r].new
      /\ Carries(q) /\ ~Wrote(q)
  BY <1>1, WriteEffect DEF Provenance
<1>3. DistinctTokens'
  BY <1>2 DEF Provenance, DistinctTokens
<1>4. DistinctIds'
  BY <1>1, <1>2 DEF Provenance, DistinctIds, Write
<1>5. CreatedOnce'
  BY <1>1, <1>2 DEF Provenance, CreatedOnce, Write
<1>6. OldIsWritten'
  BY <1>1, <1>2 DEF Provenance, OldIsWritten, Write
<1>7. OneOwner'
  BY <1>1, <1>2 DEF Provenance, OneOwner, Write
<1>8. ASSUME NEW row \in sessions'
      PROVE  \/ row \in sessions /\ row.id # req[q].sid
             \/ \E old \in sessions :
                  /\ old.id = req[q].sid /\ row.id = old.id
                  /\ row.userId = old.userId /\ row.userAgent = old.userAgent
                  /\ row.refreshToken = req[q].new /\ row.expiresAt = req[q].exp
  BY DEF RefreshWrite, UpdateWhere, TypeOK, Row
<1>9. RowOrigin'
  <2> SUFFICES ASSUME NEW row \in sessions'
               PROVE  \E m \in Requests : Origin(row, m)'
    BY DEF RowOrigin
  <2>1. CASE row \in sessions /\ row.id # req[q].sid
    BY <1>1, <1>2, <2>1 DEF Provenance, RowOrigin, Origin, Write
  <2>2. ASSUME NEW old \in sessions,
               old.id = req[q].sid, row.id = old.id,
               row.userId = old.userId, row.userAgent = old.userAgent,
               row.refreshToken = req[q].new, row.expiresAt = req[q].exp
        PROVE  Origin(row, q)'
    <3>1. PICK m \in Requests : Origin(old, m)
      BY DEF Provenance, RowOrigin
    <3>2. req[q].sid # None
      BY <1>1, <1>2 DEF Provenance, Shape
    <3>3. req[q].user = old.userId /\ req[q].agent = old.userAgent
      BY <1>2, <2>2, <3>1, <3>2 DEF Provenance, OneOwner, Origin, Wrote, Carries
    <3> QED
      BY <1>1, <1>2, <2>2, <3>3 DEF Origin, Write
  <2> QED
    BY <1>8, <2>1, <2>2
<1>10. LastWriter'
  <2> SUFFICES ASSUME NEW row \in sessions', NEW m \in Requests,
                      Wrote(m)', (req[m].op = "refresh")', (req[m].sid = row.id)'
               PROVE  \E o \in Requests : /\ Wrote(o)' /\ (req[o].op = "refresh")'
                                          /\ (req[o].new = row.refreshToken)'
    BY DEF LastWriter
  <2>1. CASE row \in sessions /\ row.id # req[q].sid
    BY <1>1, <1>2, <2>1 DEF Provenance, LastWriter, Write
  <2>2. CASE row.refreshToken = req[q].new
    BY <1>1, <1>2, <2>2 DEF Write
  <2> QED
    BY <1>8, <2>1, <2>2
<1> QED
  BY <1>1, <1>3, <1>4, <1>5, <1>6, <1>7, <1>9, <1>10

(* Nothing but the clock.                                                   *)
LEMMA IdleQuiet ==
  ASSUME TypeOK, Tick \/ UNCHANGED vars
  PROVE  Quiet /\ UNCHANGED <<sessions, req>>
  BY DEF Tick, vars, Quiet, Wrote

(* A step mints a token, writes a row, or is quiet.                         *)
QuietStep(q) ==
  \/ \E u \in Users : CreateRejected(q, u) \/ Challenge(q, u)
  \/ \E t \in Held \cup {None}, a \in Agents : RefreshDenied(q, t, a)
  \/ Answer(q)
  \/ Delete(q)

MintStep(q, new) ==
  \/ \E u \in Users, a \in Agents, b \in BOOLEAN : BeginCreate(q, u, a, new, b)
  \/ \E t \in Held, a \in Agents : RefreshRead(q, t, a, new)

LEMMA StepCases ==
  ASSUME [Next]_vars
  PROVE  \/ \E q \in Requests : QuietStep(q)
         \/ \E q \in Requests, new \in Tokens : MintStep(q, new)
         \/ \E q \in Requests, s \in SessionIds : Insert(q, s)
         \/ \E q \in Requests : RefreshWrite(q)
         \/ Tick \/ UNCHANGED vars
  BY DEF Next, Create, Refresh, QuietStep, MintStep

LEMMA ProvenanceStep == TypeOK /\ Provenance /\ [Next]_vars => Provenance'
<1> SUFFICES ASSUME TypeOK, Provenance, [Next]_vars PROVE Provenance'
  OBVIOUS
<1>1. Shape'
  BY ShapeStep DEF Provenance
<1>2. ASSUME NEW q \in Requests, QuietStep(q)
      PROVE  Provenance'
  BY <1>1, <1>2, QuietSteps, QuietProvenance DEF Provenance, QuietStep
<1>3. ASSUME NEW q \in Requests, NEW new \in Tokens, MintStep(q, new)
      PROVE  Provenance'
  BY <1>1, <1>3, MintSteps, MintProvenance DEF Provenance, MintStep
<1>4. ASSUME NEW q \in Requests, NEW s \in SessionIds, Insert(q, s)
      PROVE  Provenance'
  BY <1>1, <1>4, InsertProvenance DEF Provenance
<1>5. ASSUME NEW q \in Requests, RefreshWrite(q)
      PROVE  Provenance'
  BY <1>1, <1>5, RefreshWriteProvenance DEF Provenance
<1>6. CASE Tick \/ UNCHANGED vars
  BY <1>1, <1>6, IdleQuiet, QuietProvenance DEF Provenance
<1> QED
  BY StepCases, <1>2, <1>3, <1>4, <1>5, <1>6

LEMMA InitProvenance == Init => TypeOK /\ Provenance
<1> SUFFICES ASSUME Init PROVE TypeOK /\ Provenance
  OBVIOUS
<1>1. TypeOK
  BY DEF Init, TypeOK, Request, Idle, Pcs, Ops
<1>2. \A q \in Requests : ~Carries(q) /\ ~Wrote(q) /\ req[q].op = "none"
                          /\ req[q].pc = "new"
  BY DEF Init, Idle, Carries, Wrote
<1>3. Shape
  BY <1>2 DEF Shape, Carries
<1> QED
  BY <1>1, <1>2, <1>3
     DEF Init, Provenance, DistinctTokens, DistinctIds, CreatedOnce,
         OldIsWritten, OneOwner, RowOrigin, LastWriter

(* Rows and requests always trace back to the request that wrote them.      *)
THEOREM ProvenanceHolds == Spec => [](TypeOK /\ Provenance)
<1>1. TypeOK /\ Provenance /\ [Next]_vars => (TypeOK /\ Provenance)'
  BY TypeStep, ProvenanceStep DEF Provenance
<1> QED
  BY InitProvenance, <1>1, PTL DEF Spec

(* Every table row and every request record keeps its type.                 *)
THEOREM TypeCorrect == Spec => []TypeOK
  BY ProvenanceHolds, PTL
-----------------------------------------------------------------------------
(* Unique keys.                                                             *)

LEMMA KeysStep ==
  TypeOK /\ Provenance /\ UniqueKeys /\ [Next]_vars => UniqueKeys'
<1> SUFFICES ASSUME TypeOK, Provenance, UniqueKeys, [Next]_vars
             PROVE  UniqueKeys'
  OBVIOUS
<1>1. ASSUME sessions' \subseteq sessions
      PROVE  UniqueKeys'
  BY <1>1 DEF UniqueKeys
<1>2. ASSUME NEW q \in Requests, ~Wrote(q)
      PROVE  \A row \in sessions : row.refreshToken # req[q].new
  BY <1>2 DEF Provenance, RowOrigin, Origin, DistinctTokens, Wrote, Carries
<1>3. ASSUME NEW q \in Requests, NEW s \in SessionIds, Insert(q, s)
      PROVE  UniqueKeys'
  <2>1. ~Wrote(q)
    BY <1>3 DEF Insert, Wrote
  <2>2. \A row \in sessions : row.id # s
    BY <1>3 DEF Insert, FreshId, Provenance, RowOrigin, Origin, CreatedOnce,
                Shape, Wrote, Carries
  <2> QED
    BY <1>2, <1>3, <2>1, <2>2 DEF Insert, UniqueKeys
<1>4. ASSUME NEW q \in Requests, RefreshWrite(q)
      PROVE  UniqueKeys'
  <2>1. ~Wrote(q)
    BY <1>4 DEF RefreshWrite, UpdateWhere, Advance, Wrote
  <2>2. ASSUME NEW r1 \in sessions, NEW r2 \in sessions, r1 # r2
        PROVE  r1.id # r2.id /\ r1.refreshToken # r2.refreshToken
    BY <2>2 DEF UniqueKeys
  <2> DEFINE After(row) == IF row.id = req[q].sid
                             THEN [row EXCEPT !.refreshToken = req[q].new,
                                              !.expiresAt = req[q].exp]
                             ELSE row
  <2>3. \A row \in sessions :
          /\ After(row).id = row.id
          /\ \/ After(row).refreshToken = row.refreshToken
             \/ row.id = req[q].sid /\ After(row).refreshToken = req[q].new
    BY DEF TypeOK, Row
  <2>4. sessions' = {After(row) : row \in sessions}
    BY <1>4 DEF RefreshWrite, UpdateWhere
  <2> HIDE DEF After
  <2> QED
    BY <1>2, <2>1, <2>2, <2>3, <2>4 DEF UniqueKeys
<1>5. ASSUME NEW q \in Requests, QuietStep(q)
      PROVE  UniqueKeys'
  BY <1>1, <1>5, QuietSteps DEF QuietStep, Quiet, Provenance
<1>6. ASSUME NEW q \in Requests, NEW new \in Tokens, MintStep(q, new)
      PROVE  UniqueKeys'
  BY <1>1, <1>6, MintSteps DEF MintStep, Mint
<1>7. CASE Tick \/ UNCHANGED vars
  BY <1>1, <1>7, IdleQuiet
<1> QED
  BY StepCases, <1>3, <1>4, <1>5, <1>6, <1>7

(* Ids and refresh tokens stay unique whatever requests are interleaved.    *)
THEOREM KeysAreUnique == Spec => []UniqueKeys
<1>1. Init => UniqueKeys
  BY DEF Init, UniqueKeys
<1> QED
  BY <1>1, KeysStep, ProvenanceHolds, PTL DEF Spec
-----------------------------------------------------------------------------
(* A refresh is bound to what the presented token was issued for.           *)

LEMMA BoundStep ==
  TypeOK /\ Provenance /\ RefreshIsBound /\ [Next]_vars => RefreshIsBound'
<1> SUFFICES ASSUME TypeOK, Provenance, RefreshIsBound, [Next]_vars
             PROVE  RefreshIsBound'
  OBVIOUS
<1>1. ASSUME Quiet
      PROVE  RefreshIsBound'
  <2>1. \A r \in Requests :
          req'[r].new # None \/ Wrote(r) =>
            /\ Wrote(r)' <=> Wrote(r)
            /\ req'[r].op = req[r].op /\ req'[r].user = req[r].user
            /\ req'[r].agent = req[r].agent /\ req'[r].sid = req[r].sid
            /\ req'[r].old = req[r].old /\ req'[r].new = req[r].new
            /\ req'[r].exp = req[r].exp
    BY <1>1 DEF Quiet, Wrote
  <2> QED
    BY <2>1 DEF RefreshIsBound
<1>2. ASSUME NEW q \in Requests, NEW new \in Tokens, MintStep(q, new)
      PROVE  RefreshIsBound'
  <2>1. \A r \in Requests : Wrote(r) => Wrote(r)' /\ req'[r] = req[r]
    BY <1>2, MintSteps DEF MintStep, Mint, Wrote
  <2> QED
    BY <1>2, <2>1, MintSteps DEF MintStep, Mint, RefreshIsBound
<1>3. ASSUME NEW q \in Requests, Write(q),
             req[q].op = "refresh" => req'[q].sid = req[q].sid
      PROVE  RefreshIsBound'
  <2>1. \A r \in Requests : /\ Wrote(r) => Wrote(r)' /\ req'[r] = req[r]
                            /\ req'[r].new = req[r].new
    BY <1>3, WriteEffect DEF Provenance, Write
  <2> QED
    BY <1>3, <2>1 DEF Write, RefreshIsBound
<1>4. ASSUME NEW q \in Requests, QuietStep(q)
      PROVE  RefreshIsBound'
  BY <1>1, <1>4, QuietSteps DEF QuietStep, Provenance
<1>5. ASSUME NEW q \in Requests, NEW s \in SessionIds, Insert(q, s)
      PROVE  RefreshIsBound'
  BY <1>3, <1>5, InsertProvenance DEF Insert
<1>6. ASSUME NEW q \in Requests, RefreshWrite(q)
      PROVE  RefreshIsBound'
  BY <1>3, <1>6, RefreshWriteProvenance DEF RefreshWrite, UpdateWhere, Advance, TypeOK, Request
<1>7. CASE Tick \/ UNCHANGED vars
  BY <1>1, <1>7, IdleQuiet
<1> QED
  BY StepCases, <1>2, <1>4, <1>5, <1>6, <1>7

(* No interleaving lets a token refresh another session, user or device, or *)
(* a session past its lifetime.                                             *)
THEOREM RefreshesAreBound == Spec => []RefreshIsBound
<1>1. Init => RefreshIsBound
  BY DEF Init, RefreshIsBound, Idle
<1> QED
  BY <1>1, BoundStep, ProvenanceHolds, PTL DEF Spec
-----------------------------------------------------------------------------
(* A client is refused only when its session ended or was refreshed.        *)

(* As long as the session lives and nobody else refreshed it, its row is    *)
(* the one m wrote.                                                         *)
LEMMA UnspentIsCurrent ==
  ASSUME TypeOK, Provenance, NEW m \in Requests, Wrote(m), ~Spent(m)
  PROVE  \E row \in sessions : /\ row.refreshToken = req[m].new
                               /\ row.userAgent = req[m].agent
                               /\ row.expiresAt = req[m].exp
<1>1. PICK row \in sessions : row.id = req[m].sid
  BY DEF Spent, Alive
<1>2. PICK o \in Requests : Origin(row, o)
  BY DEF Provenance, RowOrigin
<1>3. CASE o = m
  BY <1>2, <1>3 DEF Origin
<1>4. CASE o # m
  <2>1. req[o].op = "create"
    BY <1>1, <1>2, <1>4 DEF Origin, Spent, Provenance, Shape, Carries, Wrote
  <2>2. req[m].op = "refresh"
    BY <1>1, <1>2, <1>4, <2>1
       DEF Origin, Provenance, DistinctIds, Shape, Carries, Wrote
  <2>3. PICK p \in Requests : /\ Wrote(p) /\ req[p].op = "refresh"
                              /\ req[p].new = row.refreshToken
    BY <1>1, <2>2 DEF Provenance, LastWriter
  <2>4. p = o
    BY <1>2, <2>3 DEF Origin, Provenance, DistinctTokens, Carries, Wrote
  <2> QED
    BY <2>1, <2>3, <2>4
<1> QED
  BY <1>3, <1>4

(* What a write recorded stays, ...                                         *)
LEMMA WriteStays ==
  ASSUME TypeOK, Provenance, [Next]_vars, NEW m \in Requests, Wrote(m)
  PROVE  /\ Wrote(m)'
         /\ req'[m].op = req[m].op /\ req'[m].sid = req[m].sid
         /\ req'[m].new = req[m].new /\ req'[m].agent = req[m].agent
         /\ req'[m].exp = req[m].exp
<1> DEFINE Kept == /\ Wrote(m)'
                   /\ req'[m].op = req[m].op /\ req'[m].sid = req[m].sid
                   /\ req'[m].new = req[m].new /\ req'[m].agent = req[m].agent
                   /\ req'[m].exp = req[m].exp
<1>1. ASSUME Quiet
      PROVE  Kept
  BY <1>1 DEF Quiet, Wrote
<1>2. ASSUME NEW q \in Requests, QuietStep(q)
      PROVE  Kept
  BY <1>1, <1>2, QuietSteps DEF QuietStep, Provenance
<1>3. ASSUME NEW q \in Requests, NEW new \in Tokens, MintStep(q, new)
      PROVE  Kept
  <2>1. Mint(q, new)
    BY <1>3, MintSteps DEF MintStep
  <2> QED
    BY <2>1 DEF Mint, Wrote
<1>4. ASSUME NEW q \in Requests, Write(q)
      PROVE  Kept
  BY <1>4, WriteEffect DEF Write, Provenance
<1>5. CASE Tick \/ UNCHANGED vars
  BY <1>1, <1>5, IdleQuiet
<1> QED
  BY StepCases, <1>2, <1>3, <1>4, <1>5, InsertProvenance, RefreshWriteProvenance

(* ... an id is never used again, ...                                       *)
LEMMA DeadStaysDead ==
  ASSUME TypeOK, Provenance, [Next]_vars, NEW m \in Requests, Wrote(m),
         ~Alive(req[m].sid)
  PROVE  ~Alive(req[m].sid)'
<1>1. req'[m].sid = req[m].sid
  BY WriteStays
<1>2. ASSUME sessions' \subseteq sessions
      PROVE  ~Alive(req[m].sid)'
  BY <1>1, <1>2 DEF Alive
<1>3. ASSUME NEW q \in Requests, QuietStep(q)
      PROVE  ~Alive(req[m].sid)'
  BY <1>2, <1>3, QuietSteps DEF QuietStep, Provenance, Quiet
<1>4. ASSUME NEW q \in Requests, NEW new \in Tokens, MintStep(q, new)
      PROVE  ~Alive(req[m].sid)'
  BY <1>2, <1>4, MintSteps DEF MintStep, Mint
<1>5. ASSUME NEW q \in Requests, NEW s \in SessionIds, Insert(q, s)
      PROVE  ~Alive(req[m].sid)'
  <2>1. req[m].sid # s
    BY <1>5, NoneAssumption
       DEF Insert, FreshId, Provenance, Shape, CreatedOnce, Wrote, Carries
  <2> QED
    BY <1>1, <1>5, <2>1 DEF Insert, Alive
<1>6. ASSUME NEW q \in Requests, RefreshWrite(q)
      PROVE  ~Alive(req[m].sid)'
  BY <1>1, <1>6 DEF RefreshWrite, UpdateWhere, Alive, TypeOK, Row
<1>7. CASE Tick \/ UNCHANGED vars
  BY <1>2, <1>7, IdleQuiet DEF Quiet
<1> QED
  BY StepCases, <1>3, <1>4, <1>5, <1>6, <1>7

(* ... so a spent token stays spent.                                        *)
LEMMA SpentStays ==
  ASSUME TypeOK, Provenance, [Next]_vars, NEW m \in Requests, Wrote(m), Spent(m)
  PROVE  Spent(m)'
<1>1. CASE ~Alive(req[m].sid)
  BY <1>1, DeadStaysDead DEF Spent
<1>2. ASSUME NEW r \in Requests \ {m},
             Wrote(r), req[r].op = "refresh", req[r].sid = req[m].sid
      PROVE  Spent(m)'
  <2>1. /\ Wrote(r)' /\ req'[r].op = "refresh"
        /\ req'[r].sid = req'[m].sid
    BY <1>2, WriteStays
  <2> QED
    BY <2>1 DEF Spent
<1> QED
  BY <1>1, <1>2 DEF Spent

(* A refresh becomes refused by RefreshDenied and stays refused.            *)
LEMMA DenialCases ==
  ASSUME TypeOK, Provenance, [Next]_vars, NEW q \in Requests,
         req'[q].op = "refresh", req'[q].pc = "denied"
  PROVE  \/ req'[q] = req[q]
         \/ \E t \in Held \cup {None}, a \in Agents : RefreshDenied(q, t, a)
<1>1. ASSUME NEW r \in Requests, QuietStep(r), r = q
      PROVE  \E t \in Held \cup {None}, a \in Agents : RefreshDenied(q, t, a)
  <2>1. ~Answer(r)
    BY <1>1, AnswerEffect
  <2>2. ~Delete(r)
    BY <1>1, DeleteEffect DEF Deletion
  <2>3. ASSUME NEW u \in Users, CreateRejected(r, u) \/ Challenge(r, u)
        PROVE  FALSE
    BY <1>1, <2>3 DEF CreateRejected, Challenge, Begin, Idle, TypeOK
  <2> QED
    BY <1>1, <2>1, <2>2, <2>3 DEF QuietStep
<1>2. ASSUME NEW r \in Requests, QuietStep(r), r # q
      PROVE  req'[q] = req[q]
  <2>1. CASE Answer(r)
    BY <1>2, <2>1, AnswerEffect
  <2>2. CASE Delete(r)
    BY <1>2, <2>2, DeleteEffect DEF Deletion
  <2> QED
    BY <1>2, <2>1, <2>2
       DEF QuietStep, CreateRejected, Challenge, RefreshDenied, Begin, TypeOK
<1>3. ASSUME NEW r \in Requests, NEW new \in Tokens, MintStep(r, new)
      PROVE  req'[q] = req[q]
  <2>1. Mint(r, new)
    BY <1>3, MintSteps DEF MintStep
  <2> QED
    BY <2>1 DEF Mint
<1>4. ASSUME NEW r \in Requests, Write(r)
      PROVE  req'[q] = req[q]
  BY <1>4 DEF Write
<1>5. CASE Tick \/ UNCHANGED vars
  BY <1>5, IdleQuiet
<1> QED
  BY StepCases, <1>1, <1>2, <1>3, <1>4, <1>5, InsertProvenance,
     RefreshWriteProvenance

LEMMA RefusedStep ==
  TypeOK /\ Provenance /\ RefusedOnlyWhenSpent /\ [Next]_vars
    => RefusedOnlyWhenSpent'
<1> SUFFICES ASSUME TypeOK, Provenance, RefusedOnlyWhenSpent, [Next]_vars,
                    NEW q \in Requests, NEW m \in Requests,
                    (req[q].op = "refresh")', (req[q].pc = "denied")',
                    Wrote(m)', (req[m].new = req[q].old)',
                    (req[m].agent = req[q].agent)', (req[q].at <= req[m].exp)'
             PROVE  Spent(m)'
  BY DEF RefusedOnlyWhenSpent
<1>1. CASE req'[q] = req[q]
  <2>1. PICK w \in Requests : Wrote(w) /\ req[w].new = req[q].old
    BY <1>1 DEF Provenance, OldIsWritten, Wrote
  <2>2. Wrote(w)' /\ req'[w].new = req[w].new
    BY <2>1, WriteStays
  <2>3. w = m
    BY <1>1, <2>1, <2>2, ProvenanceStep
       DEF Provenance, DistinctTokens, Wrote, Carries
  <2>4. /\ req'[m].agent = req[m].agent /\ req'[m].exp = req[m].exp
    BY <2>1, <2>3, WriteStays
  <2>5. Spent(m)
    BY <1>1, <2>1, <2>3, <2>4 DEF RefusedOnlyWhenSpent
  <2> QED
    BY <2>1, <2>3, <2>5, SpentStays
<1>2. ASSUME NEW t \in Held \cup {None}, NEW a \in Agents, RefreshDenied(q, t, a)
      PROVE  Spent(m)'
  <2>1. /\ req'[q].old = t /\ req'[q].agent = a /\ req'[q].at = now
        /\ Accepted(t, a) = {}
        /\ \A r \in Requests \ {q} : req'[r] = req[r]
        /\ req'[q].new = None
    BY <1>2 DEF RefreshDenied, Begin, Idle, TypeOK
  <2>2. m # q /\ Wrote(m) /\ req'[m] = req[m]
    BY <2>1 DEF Wrote
  <2>3. Spent(m)
    <3>1. SUFFICES ASSUME ~Spent(m) PROVE FALSE
      OBVIOUS
    <3>2. PICK row \in sessions : /\ row.refreshToken = req[m].new
                                  /\ row.userAgent = req[m].agent
                                  /\ row.expiresAt = req[m].exp
      BY <2>2, <3>1, UnspentIsCurrent
    <3>3. row \in Accepted(t, a)
      BY <2>1, <2>2, <3>2 DEF Accepted, Accepts, TypeOK, Row
    <3> QED
      BY <2>1, <3>3
  <2> QED
    BY <2>2, <2>3, SpentStays
<1> QED
  BY <1>1, <1>2, DenialCases

(* No client loses its session to a crash, a lost refusal or an interleaved *)
(* request that did not refresh or end it.                                  *)
THEOREM RefusalsAreSpent == Spec => []RefusedOnlyWhenSpent
<1>1. Init => RefusedOnlyWhenSpent
  BY DEF Init, RefusedOnlyWhenSpent, Idle
<1> QED
  BY <1>1, RefusedStep, ProvenanceHolds, PTL DEF Spec
-----------------------------------------------------------------------------
(* Who ends a session.                                                      *)

LEMMA EndedStep ==
  ASSUME TypeOK, Provenance, [Next]_vars
  PROVE  [EndedByOwner]_vars
<1>1. ASSUME sessions \subseteq sessions'
      PROVE  EndedByOwner
  BY <1>1 DEF EndedByOwner
<1>2. ASSUME NEW q \in Requests, QuietStep(q), ~Delete(q)
      PROVE  EndedByOwner
  BY <1>1, <1>2, AnswerEffect
     DEF QuietStep, CreateRejected, Challenge, RefreshDenied
<1>3. ASSUME NEW q \in Requests, NEW new \in Tokens, MintStep(q, new)
      PROVE  EndedByOwner
  BY <1>1, <1>3, MintSteps DEF MintStep, Mint
<1>4. ASSUME NEW q \in Requests, NEW s \in SessionIds, Insert(q, s)
      PROVE  EndedByOwner
  BY <1>1, <1>4 DEF Insert
<1>5. ASSUME NEW q \in Requests, RefreshWrite(q)
      PROVE  EndedByOwner
  <2> SUFFICES ASSUME NEW row \in sessions
               PROVE  \E after \in sessions' : /\ after.id = row.id
                                               /\ after.userId = row.userId
                                               /\ after.userAgent = row.userAgent
    BY DEF EndedByOwner
  <2> DEFINE After == IF row.id = req[q].sid
                        THEN [row EXCEPT !.refreshToken = req[q].new,
                                         !.expiresAt = req[q].exp]
                        ELSE row
  <2>1. After \in sessions'
    BY <1>5 DEF RefreshWrite, UpdateWhere
  <2>2. /\ After.id = row.id /\ After.userId = row.userId
        /\ After.userAgent = row.userAgent
    BY DEF TypeOK, Row
  <2> HIDE DEF After
  <2> QED
    BY <2>1, <2>2
<1>6. ASSUME NEW q \in Requests, Delete(q)
      PROVE  EndedByOwner
  <2> USE DEF TypeOK, DeleteRequest, Begin, Idle, EndedByOwner
  <2>1. ASSUME NEW u \in Users, NEW s \in SessionIds, RevokeSession(q, u, s)
        PROVE  EndedByOwner
    BY <2>1 DEF RevokeSession, DeleteOne
  <2>2. ASSUME NEW u \in Users, RevokeAll(q, u)
        PROVE  EndedByOwner
    BY <2>2 DEF RevokeAll
  <2>3. ASSUME NEW u \in Users, RevokeAllOthers(q, u)
        PROVE  EndedByOwner
    BY <2>3, <1>1 DEF RevokeAllOthers, SqlNe, CurrentSessionId
  <2>4. ASSUME NEW t \in Held, Logout(q, t)
        PROVE  EndedByOwner
    BY <2>4, <1>1, NoneAssumption DEF Logout, DeleteOne, Row
  <2> QED
    BY <1>6, <2>1, <2>2, <2>3, <2>4 DEF Delete
<1>7. CASE Tick \/ UNCHANGED vars
  BY <1>1, <1>7, IdleQuiet
<1> QED
  BY StepCases, <1>2, <1>3, <1>4, <1>5, <1>6, <1>7

(* Sessions end only by their own user's revocation.                        *)
THEOREM OwnersEndSessions == Spec => SessionsEndByOwner
<1>1. TypeOK /\ Provenance /\ [Next]_vars => [EndedByOwner]_vars
  BY EndedStep
<1> QED
  BY <1>1, ProvenanceHolds, PTL DEF Spec, SessionsEndByOwner
-----------------------------------------------------------------------------
(* The table implements the ledger.                                         *)

Keys == TypeOK /\ Provenance /\ UniqueKeys

LEMMA KeysHold == Spec => []Keys
  BY ProvenanceHolds, KeysAreUnique, PTL DEF Keys

LEMMA InitLedger == Init => Ledger!Init
  BY DEF Init, Ledger!Init, live, opened, retired, written, Wrote, Idle

(* The ledger only reads what has been written.                             *)
LEMMA UnchangedWrites ==
  ASSUME \A r \in Requests : (Wrote(r)' <=> Wrote(r)) /\ (Wrote(r) =>
           req'[r].op = req[r].op /\ req'[r].sid = req[r].sid
           /\ req'[r].new = req[r].new)
  PROVE  opened' = opened /\ written' = written
  BY DEF opened, written

Opens(t) == \E row \in sessions : row.refreshToken = t

LEMMA LedgerView ==
  /\ \A s, t : <<s, t>> \in live <=>
                 \E row \in sessions : row.id = s /\ row.refreshToken = t
  /\ \A p \in live : p = <<p[1], p[2]>> /\ Opens(p[2])
  /\ \A t : t \in retired <=> t \in written /\ ~Opens(t)
<1>1. \A p \in live : \E row \in sessions : p = <<row.id, row.refreshToken>>
  BY DEF live
<1>2. \A row \in sessions : <<row.id, row.refreshToken>> \in live
  BY DEF live
<1>3. \A p \in live : p = <<p[1], p[2]>> /\ Opens(p[2])
  BY <1>1 DEF Opens
<1>4. \A t : t \in retired <=> t \in written /\ ~Opens(t)
  BY DEF retired, Opens
<1> QED
  BY <1>1, <1>2, <1>3, <1>4

\* The same one step later.
LEMMA LedgerViewNext ==
  /\ \A s, t : <<s, t>> \in live' <=>
                 \E row \in sessions' : row.id = s /\ row.refreshToken = t
  /\ \A p \in live' : p = <<p[1], p[2]>>
  /\ \A t : t \in retired' <=> t \in written' /\ ~Opens(t)'
<1>1. \A p \in live' : \E row \in sessions' : p = <<row.id, row.refreshToken>>
  BY DEF live
<1>2. \A row \in sessions' : <<row.id, row.refreshToken>> \in live'
  BY DEF live
<1>3. \A p \in live' : p = <<p[1], p[2]>>
  BY <1>1
<1>4. \A t : t \in retired' <=> t \in written' /\ ~Opens(t)'
  BY DEF retired, Opens
<1> QED
  BY <1>1, <1>2, <1>3, <1>4

LEMMA OpensIsWritten ==
  ASSUME Keys, NEW row \in sessions
  PROVE  row.refreshToken \in written
<1>1. PICK m \in Requests : Origin(row, m)
  BY DEF Keys, Provenance, RowOrigin
<1>2. row.refreshToken \in Tokens
  BY DEF Keys, TypeOK, Row
<1> QED
  BY <1>1, <1>2 DEF Origin, written

(* Rows that disappear are closed.                                          *)
LEMMA QuietLedger ==
  ASSUME Keys, Quiet
  PROVE  \E S \in SUBSET SessionIds : Ledger!Close(S)
<1>1. opened' = opened /\ written' = written
  BY UnchangedWrites DEF Quiet, Wrote
<1> DEFINE S == {s \in SessionIds : Alive(s) /\ ~Alive(s)'}
<1>2. live' = {p \in live : p[1] \notin S}
  BY DEF live, Quiet, Alive, Keys, UniqueKeys, TypeOK, Row
<1>3. \A t : Opens(t)' => Opens(t)
  BY DEF Opens, Quiet
<1>4. ASSUME NEW row \in sessions
      PROVE  Opens(row.refreshToken)' <=> <<row.id, row.refreshToken>> \in live'
  BY LedgerViewNext DEF Opens, Quiet, Keys, UniqueKeys
<1>5. retired' = retired \cup {p[2] : p \in live \ live'}
  <2>1. ASSUME NEW p \in live, p \notin live'
        PROVE  p[2] \in retired'
    <3>1. PICK row \in sessions : row.id = p[1] /\ row.refreshToken = p[2]
      BY LedgerView
    <3>2. p = <<row.id, row.refreshToken>>
      BY <3>1, LedgerView
    <3> QED
      BY <1>1, <1>4, <2>1, <3>1, <3>2, OpensIsWritten, LedgerViewNext
  <2>2. retired \subseteq retired'
    BY <1>1, <1>3, LedgerView, LedgerViewNext
  <2>3. ASSUME NEW t \in retired', t \notin retired
        PROVE  \E p \in live \ live' : p[2] = t
    <3>1. t \in written /\ Opens(t) /\ ~Opens(t)'
      BY <1>1, <2>3, LedgerView, LedgerViewNext
    <3>2. PICK row \in sessions : row.refreshToken = t
      BY <3>1 DEF Opens
    <3>3. <<row.id, t>> \in live \ live'
      BY <1>4, <3>1, <3>2, LedgerView
    <3> QED
      BY <3>3
  <2> QED
    BY <2>1, <2>2, <2>3
<1> QED
  BY <1>1, <1>2, <1>5 DEF Ledger!Close

(* A token about to be written has not been seen by the ledger.             *)
LEMMA AboutToWrite ==
  ASSUME Keys, NEW q \in Requests, Write(q)
  PROVE  /\ Ledger!Unseen(req[q].new)
         /\ written' = written \cup {req[q].new}
         /\ req[q].new \in Tokens /\ req[q].new \notin written
<1>1. /\ \A r \in Requests : /\ Wrote(r)' <=> Wrote(r) \/ r = q
                             /\ req'[r].new = req[r].new
      /\ Carries(q) /\ ~Wrote(q)
  BY WriteEffect DEF Keys, Provenance
<1>2. req[q].new \in Tokens
  BY <1>1 DEF Keys, TypeOK, Request, Carries
<1>3. req[q].new \notin written
  BY <1>1 DEF written, Keys, Provenance, DistinctTokens
<1>4. ~Opens(req[q].new)
  BY <1>3, OpensIsWritten DEF Opens
<1>5. \A t : t \in written' <=> t \in written \/ t = req[q].new
  BY <1>1, <1>2 DEF written
<1>6. written' = written \cup {req[q].new}
  BY <1>5
<1>7. Ledger!Unseen(req[q].new)
  BY <1>3, <1>4, LedgerView DEF Ledger!Unseen
<1> QED
  BY <1>2, <1>3, <1>6, <1>7

LEMMA InsertLedger ==
  ASSUME Keys, NEW q \in Requests, NEW s \in SessionIds, Insert(q, s)
  PROVE  Ledger!Open(s, req[q].new) /\ req[q].new \in Tokens
<1>1. Write(q)
  BY InsertProvenance DEF Keys
<1>2. /\ Ledger!Unseen(req[q].new) /\ written' = written \cup {req[q].new}
      /\ req[q].new \in Tokens /\ req[q].new \notin written
  BY <1>1, AboutToWrite
<1> DEFINE new == [id |-> s, userId |-> req[q].user,
                  refreshToken |-> req[q].new, userAgent |-> req[q].agent,
                  expiresAt |-> req[q].exp]
<1>0. sessions' = sessions \cup {new}
      /\ new.id = s /\ new.refreshToken = req[q].new
  BY DEF Insert
<1> HIDE DEF new
<1>3. live' = live \cup {<<s, req[q].new>>}
  BY <1>0 DEF live
<1>4. s \notin opened
  BY DEF Insert, FreshId, opened
<1>5. \A r \in Requests : /\ Wrote(r)' <=> Wrote(r) \/ r = q
                          /\ r # q => req'[r] = req[r]
  BY <1>1, WriteEffect DEF Write, Keys, Provenance
<1>6. req'[q].op = "create" /\ req'[q].sid = s
  BY DEF Insert, Keys, TypeOK, Request
<1>7. opened' = opened \cup {s}
  <2>1. \A i : i \in opened' <=> i \in opened \/ i = s
    BY <1>1, <1>5, <1>6 DEF opened, Write, Wrote
  <2> QED
    BY <2>1
<1>8. retired' = retired
  <2>1. \A t : Opens(t)' <=> Opens(t) \/ t = req[q].new
    BY <1>0 DEF Opens
  <2>2. \A t : t \in retired' <=> t \in retired
    BY <1>2, <2>1, LedgerView, LedgerViewNext
  <2> QED
    BY <2>2
<1> QED
  BY <1>2, <1>3, <1>4, <1>7, <1>8 DEF Ledger!Open

LEMMA RefreshWriteLedger ==
  ASSUME Keys, NEW q \in Requests, RefreshWrite(q)
  PROVE  \/ \E old \in Tokens : Ledger!Rotate(req[q].sid, old, req[q].new)
         \/ Ledger!Discard(req[q].new)
<1>1. Write(q) /\ req[q].op = "refresh" /\ req'[q].sid = req[q].sid
  BY RefreshWriteProvenance DEF Keys, RefreshWrite, UpdateWhere, Advance, TypeOK, Request
<1>2. /\ Ledger!Unseen(req[q].new) /\ written' = written \cup {req[q].new}
      /\ req[q].new \in Tokens /\ req[q].new \notin written
  BY <1>1, AboutToWrite
<1>3. \A r \in Requests : /\ Wrote(r)' <=> Wrote(r) \/ r = q
                          /\ r # q => req'[r] = req[r]
  BY <1>1, WriteEffect DEF Write, Keys, Provenance
<1>4. opened' = opened
  BY <1>1, <1>3 DEF opened, Write
<1>6. \A row \in sessions : row.id # req[q].sid => row \in sessions'
  BY DEF RefreshWrite, UpdateWhere
<1>7. ASSUME NEW after \in sessions'
      PROVE  \/ after \in sessions /\ after.id # req[q].sid
             \/ /\ Alive(req[q].sid)
                /\ after.id = req[q].sid /\ after.refreshToken = req[q].new
  BY DEF RefreshWrite, UpdateWhere, Keys, TypeOK, Row, Alive
<1>8. CASE ~Alive(req[q].sid)
  <2>1. live' = live
    BY <1>6, <1>7, <1>8 DEF live, Alive
  <2>2. \A t : Opens(t)' <=> Opens(t)
    BY <1>6, <1>7, <1>8 DEF Opens, Alive
  <2>3. ~Opens(req[q].new)
    BY <1>2, OpensIsWritten DEF Opens
  <2>4. \A t : t \in retired' <=> t \in retired \/ t = req[q].new
    BY <1>2, <2>2, <2>3, LedgerView, LedgerViewNext
  <2>5. retired' = retired \cup {req[q].new}
    BY <2>4
  <2> QED
    BY <1>2, <1>4, <2>1, <2>5 DEF Ledger!Discard
<1>9. ASSUME NEW row \in sessions, row.id = req[q].sid
      PROVE  Ledger!Rotate(req[q].sid, row.refreshToken, req[q].new)
  <2> DEFINE After == [row EXCEPT !.refreshToken = req[q].new,
                                  !.expiresAt = req[q].exp]
  <2>1. After \in sessions'
    BY <1>9 DEF RefreshWrite, UpdateWhere
  <2>2. After.id = req[q].sid /\ After.refreshToken = req[q].new
    BY <1>9 DEF Keys, TypeOK, Row
  <2> HIDE DEF After
  <2>3. \A other \in sessions :
          other.id = req[q].sid \/ other.refreshToken = row.refreshToken
            => other = row
    BY <1>9 DEF Keys, UniqueKeys
  <2>4. \A s, t : <<s, t>> \in live' <=>
          \/ <<s, t>> \in live /\ <<s, t>> # <<req[q].sid, row.refreshToken>>
          \/ s = req[q].sid /\ t = req[q].new
    <3>1. \A s, t :
            (\E r \in sessions' : r.id = s /\ r.refreshToken = t) <=>
              \/ \E r \in sessions : r.id = s /\ r.refreshToken = t /\ r # row
              \/ s = req[q].sid /\ t = req[q].new
      BY <1>6, <1>7, <1>9, <2>1, <2>2, <2>3
    <3>2. \A s, t :
            (\E r \in sessions : r.id = s /\ r.refreshToken = t /\ r # row) <=>
            (/\ \E r \in sessions : r.id = s /\ r.refreshToken = t
             /\ ~(s = req[q].sid /\ t = row.refreshToken))
      BY <1>9, <2>3
    <3>3. \A s, t : <<s, t>> # <<req[q].sid, row.refreshToken>> <=>
                      ~(s = req[q].sid /\ t = row.refreshToken)
      OBVIOUS
    <3>4. \A s, t : <<s, t>> \in live' <=>
                      \E r \in sessions' : r.id = s /\ r.refreshToken = t
      BY LedgerViewNext
    <3>5. \A s, t : <<s, t>> \in live <=>
                      \E r \in sessions : r.id = s /\ r.refreshToken = t
      BY LedgerView
    <3>6. ASSUME NEW s, NEW t
          PROVE  <<s, t>> \in live' <=>
                   \/ <<s, t>> \in live
                      /\ <<s, t>> # <<req[q].sid, row.refreshToken>>
                   \/ s = req[q].sid /\ t = req[q].new
      <4>1. <<s, t>> \in live' <=>
              \/ \E r \in sessions : r.id = s /\ r.refreshToken = t /\ r # row
              \/ s = req[q].sid /\ t = req[q].new
        BY <3>1, <3>4
      <4>2. (\E r \in sessions : r.id = s /\ r.refreshToken = t /\ r # row) <=>
              /\ <<s, t>> \in live
              /\ ~(s = req[q].sid /\ t = row.refreshToken)
        BY <3>2, <3>5
      <4> QED
        BY <3>3, <4>1, <4>2
    <3> QED
      BY <3>6
  <2>5. live' = (live \ {<<req[q].sid, row.refreshToken>>})
                  \cup {<<req[q].sid, req[q].new>>}
    BY <2>4, LedgerView, LedgerViewNext
  <2>6. <<req[q].sid, row.refreshToken>> \in live
    BY <1>9, LedgerView
  <2>7. \A t : Opens(t)' <=> \/ Opens(t) /\ t # row.refreshToken
                             \/ t = req[q].new
    BY <1>6, <1>7, <1>9, <2>1, <2>2, <2>3 DEF Opens
  <2>8. ~Opens(req[q].new) /\ row.refreshToken \in written
    BY <1>2, OpensIsWritten DEF Opens
  <2>9. \A t : t \in retired' <=> t \in retired \/ t = row.refreshToken
    BY <1>2, <1>9, <2>7, <2>8, LedgerView, LedgerViewNext DEF Opens
  <2>10. retired' = retired \cup {row.refreshToken}
    BY <2>9
  <2> QED
    BY <1>2, <1>4, <2>5, <2>6, <2>10 DEF Ledger!Rotate
<1> QED
  BY <1>8, <1>9 DEF Alive, Keys, TypeOK, Row

LEMMA LedgerStep ==
  ASSUME Keys, [Next]_vars
  PROVE  [Ledger!Next]_(Ledger!vars)
<1>1. ASSUME NEW q \in Requests, QuietStep(q)
      PROVE  Ledger!Next
  BY <1>1, QuietSteps, QuietLedger DEF QuietStep, Keys, Provenance, Ledger!Next
<1>2. ASSUME NEW q \in Requests, NEW new \in Tokens, MintStep(q, new)
      PROVE  UNCHANGED Ledger!vars
  <2>1. Mint(q, new)
    BY <1>2, MintSteps DEF MintStep, Keys
  <2>2. opened' = opened /\ written' = written
    BY <2>1, UnchangedWrites DEF Mint, Wrote
  <2>3. live' = live /\ retired' = retired
    BY <2>1, <2>2 DEF Mint, live, retired
  <2> QED
    BY <2>2, <2>3 DEF Ledger!vars
<1>3. ASSUME NEW q \in Requests, NEW s \in SessionIds, Insert(q, s)
      PROVE  Ledger!Next
  BY <1>3, InsertLedger DEF Ledger!Next
<1>4. ASSUME NEW q \in Requests, RefreshWrite(q)
      PROVE  Ledger!Next
  <2>1. req[q].sid \in SessionIds /\ req[q].new \in Tokens
    BY <1>4 DEF RefreshWrite, UpdateWhere, Advance, Keys, Provenance, Shape, Carries,
                TypeOK, Request
  <2> QED
    BY <1>4, <2>1, RefreshWriteLedger DEF Ledger!Next
<1>5. CASE Tick \/ UNCHANGED vars
  BY <1>5, IdleQuiet, QuietLedger DEF Keys, Ledger!Next
<1> QED
  BY StepCases, <1>1, <1>2, <1>3, <1>4, <1>5

(* Closed sessions stay closed and retired tokens stay dead, whatever is    *)
(* interleaved.                                                             *)
THEOREM ImplementsLedger == Spec => LedgerSpec
<1>1. Keys /\ [Next]_vars => [Ledger!Next]_(Ledger!vars)
  BY LedgerStep
<1> QED
  BY <1>1, InitLedger, KeysHold, PTL DEF Spec, LedgerSpec, Ledger!Spec
=============================================================================
