------------------------------ MODULE Sessions ------------------------------
(***************************************************************************)
(* The session store of the authentication module: SessionService,         *)
(* SessionRepository, SessionValidatorPolicy and the JWT guard that stands *)
(* before the revocation endpoints.                                        *)
(*                                                                         *)
(* Every HTTP request is one element of Requests and is used once.  Node   *)
(* interleaves requests at each await, so a request is cut into one action *)
(* per database statement: what it read stays in its own record req[q] and *)
(* may be stale when the next statement runs.  A database statement is     *)
(* atomic.  A request may die before its write, and its answer may be lost *)
(* after the write.                                                        *)
(***************************************************************************)
EXTENDS Integers, FiniteSets

CONSTANTS
  Users, Agents,             \* accounts; values of the User-Agent header
  SessionIds, Tokens,        \* gen_random_uuid() and nanoid(64) values
  Requests,                  \* HTTP requests
  None,                      \* null, undefined and the empty string
  AccessTtl, PartialTtl,     \* '15m' of the access token, '5m' of the 2FA one
  RefreshTtl, RememberTtl,   \* REFRESH_TOKEN_DAYS, REMEMBER_ME_DAYS
  MaxTime                    \* bound of the clock

ASSUME NoneAssumption ==
  None \notin Users \cup Agents \cup SessionIds \cup Tokens

ASSUME TimeAssumption ==
  {AccessTtl, PartialTtl, RefreshTtl, RememberTtl, MaxTime} \subseteq Nat

\* A uuid has 36 characters and a refresh token 64.
ASSUME KeyAssumption == SessionIds \cap Tokens = {}

VARIABLES
  sessions,   \* the rows of table Session
  req,        \* what each request has done and holds in its local variables
  now         \* Date.now()

vars == <<sessions, req, now>>

Ops == {"none", "create", "challenge", "refresh", "revokeOne", "revokeAll",
        "revokeOthers", "logout"}

(* new: not sent; ready: holds a fresh token, about to write; written: the  *)
(* write is committed; ok / denied: answered; died: failed before the write;*)
(* lost: the write is committed but the client never sees the answer.       *)
Pcs == {"new", "ready", "written", "ok", "denied", "died", "lost"}

Row == [id : SessionIds, userId : Users, refreshToken : Tokens,
        userAgent : Agents, expiresAt : Nat]

Request == [pc : Pcs, op : Ops, user : Users \cup {None},
            agent : Agents \cup {None}, sid : SessionIds \cup {None},
            old : Tokens \cup {None}, new : Tokens \cup {None},
            exp : Nat, at : Nat]

Idle == [pc |-> "new", op |-> "none", user |-> None, agent |-> None,
         sid |-> None, old |-> None, new |-> None, exp |-> 0, at |-> 0]

Init ==
  /\ sessions = {}
  /\ req = [q \in Requests |-> Idle]
  /\ now = 0
-----------------------------------------------------------------------------
\* nanoid(64) and gen_random_uuid() do not repeat.
FreshToken(t) == \A q \in Requests : req[q].new # t
FreshId(s) == \A q \in Requests : req[q].op = "create" => req[q].sid # s

Expiration(rememberMe) == now + IF rememberMe THEN RememberTtl ELSE RefreshTtl

\* Mutants of Accepts: the device is not compared; `<=` for `<`.
AcceptsAnyDevice(row, agent) == ~(row.expiresAt < now)
AcceptsStrictly(row, agent) == ~(row.expiresAt <= now) /\ row.userAgent = agent

\* SessionValidatorPolicy, on the row the token selects (if any).
Accepts(row, agent) == ~(row.expiresAt < now) /\ row.userAgent = agent
Accepted(t, agent) ==
  {row \in sessions : row.refreshToken = t /\ Accepts(row, agent)}

\* A request of u passes AuthGuard('jwt'): the client holds an unexpired token
\* signed with JWT_SECRET.  One secret signs them all, so besides the access
\* token of an answered login or refresh the guard accepts the partialToken
\* handed out between the password and the second factor.  It never looks at
\* the table.
Signs(op, ttl) ==
  \/ op \in {"create", "refresh"} /\ ttl = AccessTtl
  \/ op = "challenge" /\ ttl = PartialTtl

Authenticated(u) ==
  \E q \in Requests, ttl \in {AccessTtl, PartialTtl} :
    /\ req[q].pc = "ok"
    /\ Signs(req[q].op, ttl)
    /\ req[q].user = u
    /\ now < req[q].at + ttl

\* What a client can present: a token SessionService answered.  (What the
\* login endpoint passes on of that answer is the subject of module SignIn.)
Held == {req[q].new : q \in {r \in Requests : req[r].pc = "ok"}} \ {None}

Begin(q, job) == req[q].pc = "new" /\ req' = [req EXCEPT ![q] = job]

Advance(q, from, to) ==
  req[q].pc = from /\ req' = [req EXCEPT ![q] = [@ EXCEPT !.pc = to]]
-----------------------------------------------------------------------------
(* SessionService.create: the token and its expiry are fixed first, ...     *)
BeginCreate(q, u, a, t, rememberMe) ==
  /\ FreshToken(t)
  /\ Begin(q, [Idle EXCEPT !.pc = "ready", !.op = "create", !.user = u,
                           !.agent = a, !.new = t,
                           !.exp = Expiration(rememberMe)])
  /\ UNCHANGED <<sessions, now>>

(* ... `new IpAddress(ip)` may throw before anything is stored, ...         *)
CreateRejected(q, u) ==
  /\ Begin(q, [Idle EXCEPT !.pc = "denied", !.op = "create", !.user = u])
  /\ UNCHANGED <<sessions, now>>

(* ... and the row is inserted; the database names it.                      *)
Insert(q, s) ==
  /\ req[q].pc = "ready" /\ req[q].op = "create"
  /\ FreshId(s)
  /\ sessions' = sessions \cup
       {[id |-> s, userId |-> req[q].user, refreshToken |-> req[q].new,
         userAgent |-> req[q].agent, expiresAt |-> req[q].exp]}
  /\ req' = [req EXCEPT ![q] = [@ EXCEPT !.pc = "written", !.sid = s]]
  /\ UNCHANGED now

(* A right password of a user with 2FA: no session yet, but a signed token. *)
Challenge(q, u) ==
  /\ Begin(q, [Idle EXCEPT !.pc = "ok", !.op = "challenge", !.user = u,
                           !.at = now])
  /\ UNCHANGED <<sessions, now>>

(* SessionService.refresh up to its second await: select the row by token,  *)
(* validate it, mint the next token.                                        *)
RefreshRead(q, t, a, new) ==
  /\ FreshToken(new)
  /\ \E row \in Accepted(t, a) :
       Begin(q, [Idle EXCEPT !.pc = "ready", !.op = "refresh",
                             !.user = row.userId, !.agent = a, !.sid = row.id,
                             !.old = t, !.new = new,
                             !.exp = Expiration(FALSE)])
  /\ UNCHANGED <<sessions, now>>

RefreshDenied(q, t, a) ==
  /\ Accepted(t, a) = {}
  /\ Begin(q, [Idle EXCEPT !.pc = "denied", !.op = "refresh", !.agent = a,
                           !.old = t, !.at = now])
  /\ UNCHANGED <<sessions, now>>

\* update ... set refreshToken, expiresAt where ...; its result is not looked
\* at: when no row matches the request goes on all the same.
UpdateWhere(q, matches(_), token) ==
  /\ req[q].op = "refresh"
  /\ Advance(q, "ready", "written")
  /\ sessions' = {IF matches(row)
                    THEN [row EXCEPT !.refreshToken = token,
                                     !.expiresAt = req[q].exp]
                    ELSE row : row \in sessions}
  /\ UNCHANGED now

\* Mutants of RefreshWrite: the update selects by userId; the token column is
\* set to null; a missing row is inserted (an upsert).
RefreshWriteByUser(q) ==
  LET mine(row) == row.userId = req[q].user
  IN  UpdateWhere(q, mine, req[q].new)

RefreshWriteNull(q) ==
  LET named(row) == row.id = req[q].sid
  IN  UpdateWhere(q, named, None)

RefreshUpsert(q) ==
  /\ req[q].op = "refresh"
  /\ Advance(q, "ready", "written")
  /\ sessions' = {row \in sessions : row.id # req[q].sid} \cup
       {[id |-> req[q].sid, userId |-> req[q].user,
         refreshToken |-> req[q].new, userAgent |-> req[q].agent,
         expiresAt |-> req[q].exp]}
  /\ UNCHANGED now

(* The refresh's write selects the row by id alone.                         *)
RefreshWrite(q) ==
  LET named(row) == row.id = req[q].sid
  IN  UpdateWhere(q, named, req[q].new)

(* create and refresh sign the access token and answer.                     *)
Reply(q) ==
  /\ req[q].pc = "written"
  /\ req' = [req EXCEPT ![q] = [@ EXCEPT !.pc = "ok", !.at = now]]
  /\ UNCHANGED <<sessions, now>>

Die(q) == Advance(q, "ready", "died") /\ UNCHANGED <<sessions, now>>
Lose(q) == Advance(q, "written", "lost") /\ UNCHANGED <<sessions, now>>
-----------------------------------------------------------------------------
(* The deleting requests: one statement each.                               *)
DeleteRequest(q, op, u, s, t) ==
  Begin(q, [Idle EXCEPT !.pc = "ok", !.op = op, !.user = u, !.sid = s,
                        !.old = t, !.at = now])

\* Mutant of DeleteOne: the owner is not part of the condition.
DeleteById(s, u) == sessions' = {row \in sessions : row.id # s}

\* delete ... where id = s and userId = u
DeleteOne(s, u) ==
  sessions' = {row \in sessions : ~(row.id = s /\ row.userId = u)}

RevokeSession(q, u, s) ==
  /\ Authenticated(u)
  /\ DeleteRequest(q, "revokeOne", u, s, None)
  /\ DeleteOne(s, u)
  /\ UNCHANGED now

RevokeAll(q, u) ==
  /\ Authenticated(u)
  /\ DeleteRequest(q, "revokeAll", u, None, None)
  /\ sessions' = {row \in sessions : row.userId # u}
  /\ UNCHANGED now

\* The access token carries no sessionId claim, so JwtStrategy.validate
\* leaves it undefined, which the driver sends as NULL.
CurrentSessionId == None

\* SQL's <>: a comparison with NULL is not true.
SqlNe(a, b) == a # None /\ b # None /\ a # b

RevokeAllOthers(q, u) ==
  /\ Authenticated(u)
  /\ DeleteRequest(q, "revokeOthers", u, None, None)
  /\ sessions' = {row \in sessions :
                    ~(row.userId = u /\ SqlNe(row.id, CurrentSessionId))}
  /\ UNCHANGED now

\* AuthFacade.logout calls revokeSession(token, ''): the token is passed as
\* the session's id and the empty string as its owner.
Logout(q, t) ==
  /\ DeleteRequest(q, "logout", None, None, t)
  /\ DeleteOne(t, None)
  /\ UNCHANGED now

Tick == now < MaxTime /\ now' = now + 1 /\ UNCHANGED <<sessions, req>>
-----------------------------------------------------------------------------
Create(q) ==
  \/ \E u \in Users, a \in Agents, t \in Tokens, rememberMe \in BOOLEAN :
       BeginCreate(q, u, a, t, rememberMe)
  \/ \E u \in Users : CreateRejected(q, u) \/ Challenge(q, u)
  \/ \E s \in SessionIds : Insert(q, s)

Refresh(q) ==
  \/ \E t \in Held, a \in Agents, new \in Tokens : RefreshRead(q, t, a, new)
  \/ \E t \in Held \cup {None}, a \in Agents : RefreshDenied(q, t, a)
  \/ RefreshWrite(q)

Answer(q) == Reply(q) \/ Die(q) \/ Lose(q)

Delete(q) ==
  \/ \E u \in Users, s \in SessionIds : RevokeSession(q, u, s)
  \/ \E u \in Users : RevokeAll(q, u)
  \/ \E u \in Users : RevokeAllOthers(q, u)
  \/ \E t \in Held : Logout(q, t)

Next ==
  \/ \E q \in Requests : Create(q) \/ Refresh(q) \/ Answer(q) \/ Delete(q)
  \/ Tick

Spec == Init /\ [][Next]_vars
-----------------------------------------------------------------------------
TypeOK ==
  /\ sessions \subseteq Row
  /\ req \in [Requests -> Request]
  /\ now \in Nat

Wrote(q) == req[q].pc \in {"written", "ok", "lost"} /\ req[q].new # None

\* The row of session s, as far as the table still has it.
Alive(s) == \E row \in sessions : row.id = s

\* The session m wrote has ended, or another request refreshed it.
Spent(m) ==
  \/ ~Alive(req[m].sid)
  \/ \E r \in Requests \ {m} :
       Wrote(r) /\ req[r].op = "refresh" /\ req[r].sid = req[m].sid

(* No two rows share an id or a refresh token, although refresh writes a    *)
(* token it minted before the last await over whatever row has the id.      *)
UniqueKeys ==
  \A r1, r2 \in sessions :
    (r1.id = r2.id \/ r1.refreshToken = r2.refreshToken) => r1 = r2

(* A refresh goes ahead only on a token that an earlier login or refresh of *)
(* the same session wrote, for the same user and User-Agent, and it extends *)
(* the session by at most REFRESH_TOKEN_DAYS past that token's expiry:      *)
(* whatever is concurrent, no token opens another session, another device,  *)
(* or a session that had run out (session.service.ts:58-71).                *)
RefreshIsBound ==
  \A q \in Requests :
    req[q].op = "refresh" /\ req[q].new # None =>
      \E m \in Requests :
        /\ Wrote(m)
        /\ req[m].new = req[q].old
        /\ req[m].sid = req[q].sid
        /\ req[m].user = req[q].user
        /\ req[m].agent = req[q].agent
        /\ req[q].exp <= req[m].exp + RefreshTtl

(* A client is refused a token it was given, on the device it was given to  *)
(* and before it expired, only if the session was ended or another refresh  *)
(* of that session took effect: neither a crash before the write nor a      *)
(* refresh that was itself refused costs the client its session             *)
(* (session.service.ts:59-71, session-validator.policy.ts:9-21).            *)
RefusedOnlyWhenSpent ==
  \A q, m \in Requests :
    /\ req[q].op = "refresh" /\ req[q].pc = "denied"
    /\ Wrote(m) /\ req[m].new = req[q].old /\ req[m].agent = req[q].agent
    /\ req[q].at <= req[m].exp
    => Spent(m)

(* A session disappears only by a revocation asked for with an unexpired    *)
(* token of its own user, and only the session named when one is named; it  *)
(* never changes owner or device (session.repository.ts:35-67).  The token  *)
(* may be the partial one of a login whose second factor is still missing:  *)
(* the guard takes any token of JWT_SECRET (jwt.strategy.ts:15-29), so the  *)
(* password alone is enough to end the user's sessions.                     *)
EndedByOwner ==
  \A row \in sessions :
    \/ \E after \in sessions' : /\ after.id = row.id
                                /\ after.userId = row.userId
                                /\ after.userAgent = row.userAgent
    \/ \E q \in Requests :
         /\ req[q].pc = "new" /\ req'[q].pc = "ok"
         /\ req'[q].user = row.userId
         /\ \/ req'[q].op = "revokeOne" /\ req'[q].sid = row.id
            \/ req'[q].op = "revokeAll"
         /\ Authenticated(row.userId)

SessionsEndByOwner == [][EndedByOwner]_vars

(* The table implements the ledger: a closed session is never reopened and  *)
(* a token that was replaced, or written for a session that was already     *)
(* closed, never works again.                                               *)
live == {<<row.id, row.refreshToken>> : row \in sessions}
opened == {s \in SessionIds :
             \E q \in Requests :
               Wrote(q) /\ req[q].op = "create" /\ req[q].sid = s}
written == {t \in Tokens : \E q \in Requests : Wrote(q) /\ req[q].new = t}
retired == written \ {row.refreshToken : row \in sessions}

Ledger == INSTANCE SessionLedger WITH
  live <- live, opened <- opened, retired <- retired

LedgerSpec == Ledger!Spec
-----------------------------------------------------------------------------
(* What the API documentation says and the code does not do.                *)

(* "Sessão inválida ou token já utilizado" (session-validator.policy.ts:10):*)
(* a refresh token that has been used is refused, so two refreshes never    *)
(* both succeed on the same one.                                            *)
TokenUsedOnce ==
  \A q, r \in Requests :
    /\ req[q].op = "refresh" /\ req[r].op = "refresh"
    /\ req[q].pc = "ok" /\ req[r].pc = "ok"
    /\ req[q].old = req[r].old
    => q = r

(* "Encerra todas as sessões do usuário, exceto a atual"                    *)
(* (session.controller.ts:59): at most one session of the user remains.     *)
OthersRevoked ==
  [][\A q \in Requests :
       req[q].pc = "new" /\ req'[q].op = "revokeOthers"
         => Cardinality({row \in sessions' : row.userId = req'[q].user}) <= 1
    ]_vars
=============================================================================
