------------------------------- MODULE SignIn -------------------------------
(***************************************************************************)
(* Signing in: AuthFacade.login and verify2fa, LoginUserUseCase,           *)
(* TwoFactorService, DeviceMonitorService, AuthMapper and the cookie the   *)
(* SetCookieInterceptor sets.                                              *)
(*                                                                         *)
(* A login reads the user once, works on that copy, and reads the user a   *)
(* second time, by the address as it was typed, just before it opens the   *)
(* session.  Meanwhile the password may be reset and two-factor            *)
(* authentication switched.  table[u] is therefore the history of the      *)
(* user's row; its last element is the row.                                *)
(***************************************************************************)
EXTENDS Integers, Sequences, FiniteSets

CONSTANTS
  Users, Agents, Passwords,
  Codes,        \* six digits: two logins may draw the same
  Requests,     \* POST /auth/login and /auth/verify-2fa, each used once
  None,
  MaxChanges    \* bound on the changes of one user's row

ASSUME SignInAssumption ==
  /\ None \notin Users \cup Agents \cup Codes \cup Passwords
  /\ MaxChanges \in Nat

VARIABLES
  table,     \* rows of table User, with their history
  code,      \* column User.twoFactorCode
  devices,   \* rows of table KnownDevice, each with the login that wrote it
  sessions,  \* rows of table Session, likewise
  events,    \* 'two.factor.code.generated' events emitted, likewise
  cookies,   \* logins whose client was sent a refreshToken cookie
  req        \* each request's progress and local variables

store == <<table, code, devices, sessions>>
vars == <<table, code, devices, sessions, events, cookies, req>>

UserRow == [password : Passwords, is2faEnabled : BOOLEAN]

(* new: not sent; arrived: validated; coded, sending: the 2FA branch before *)
(* and after the code is stored; device, logging: before and after looking  *)
(* for the device; lookup: before the second read; session, opened: before  *)
(* and after the session is stored; ok, partial: answered with a session or *)
(* with a partial token; denied: 401; failed: another error, or died.       *)
Pcs == {"new", "arrived", "coded", "sending", "device", "logging", "lookup",
        "session", "opened", "ok", "partial", "denied", "failed"}

Request == [pc : Pcs, op : {"none", "login", "verify"},
            user : Users \cup {None}, agent : Agents \cup {None},
            password : Passwords \cup {None}, code : Codes \cup {None},
            normal : BOOLEAN,     \* the address was typed as it is stored
            since : Nat]          \* length of the row's history on arrival

Idle == [pc |-> "new", op |-> "none", user |-> None, agent |-> None,
         password |-> None, code |-> None, normal |-> TRUE, since |-> 0]

\* A registration's body may have switched 2FA on already (module Accounts).
Init ==
  /\ table \in [Users -> {<<row>> : row \in UserRow}]
  /\ code = [u \in Users |-> None]
  /\ devices = {} /\ sessions = {} /\ events = {} /\ cookies = {}
  /\ req = [q \in Requests |-> Idle]
-----------------------------------------------------------------------------
Row(u) == table[u][Len(table[u])]

Advance(q, from, to) ==
  req[q].pc = from /\ req' = [req EXCEPT ![q] = [@ EXCEPT !.pc = to]]

\* Email and Password accept the body; the login is under way.
Login(q, u, p, a, normal) ==
  /\ req[q].pc = "new"
  /\ req' = [req EXCEPT ![q] = [Idle EXCEPT
       !.pc = "arrived", !.op = "login", !.user = u, !.agent = a,
       !.password = p, !.normal = normal, !.since = Len(table[u])]]
  /\ UNCHANGED <<store, events, cookies>>

\* The body is malformed (400) or the address unknown.
LoginRefused(q) ==
  Advance(q, "new", "failed") /\ UNCHANGED <<store, events, cookies>>

\* Mutant of Authenticate: whether 2FA is on is read before the password is.
AuthenticateTwice(q) ==
  /\ req[q].pc = "arrived"
  /\ \E i \in req[q].since..Len(table[req[q].user]) :
       Advance(q, "arrived",
         IF Row(req[q].user).password # req[q].password THEN "denied"
         ELSE IF table[req[q].user][i].is2faEnabled THEN "coded" ELSE "device")
  /\ UNCHANGED <<store, events, cookies>>

\* findByEmail with the normalised address; bcrypt compares with the row that
\* was read, and the branch is taken on that row's is2faEnabled.
Authenticate(q) ==
  /\ Advance(q, "arrived",
       IF Row(req[q].user).password # req[q].password THEN "denied"
       ELSE IF Row(req[q].user).is2faEnabled THEN "coded" ELSE "device")
  /\ UNCHANGED <<store, events, cookies>>

Emitted(q) == [user |-> req[q].user, code |-> req[q].code, by |-> q]
-----------------------------------------------------------------------------
\* Mutant of StoreCode: the update is not awaited (it may not have happened
\* when the code is mailed, or ever).
StoreCodeLater(q, c) ==
  /\ req[q].pc = "coded"
  /\ req' = [req EXCEPT ![q] = [@ EXCEPT !.pc = "sending", !.code = c]]
  /\ UNCHANGED <<store, events, cookies>>

(* The 2FA branch: draw a code and store it, ...                            *)
StoreCode(q, c) ==
  /\ req[q].pc = "coded"
  /\ req' = [req EXCEPT ![q] = [@ EXCEPT !.pc = "sending", !.code = c]]
  /\ code' = [code EXCEPT ![req[q].user] = c]
  /\ UNCHANGED <<table, devices, sessions, events, cookies>>

(* ... have it mailed, and answer with a partial token.                     *)
SendCode(q) ==
  /\ Advance(q, "sending", "partial")
  /\ events' = events \cup {Emitted(q)}
  /\ UNCHANGED <<store, cookies>>
-----------------------------------------------------------------------------
(* The other branch: look for the device, ...                               *)
Known(q) == \E d \in devices : d.user = req[q].user /\ d.agent = req[q].agent

CheckDevice(q) ==
  /\ Advance(q, "device", IF Known(q) THEN "lookup" ELSE "logging")
  /\ UNCHANGED <<store, events, cookies>>

\* Mutant of Written: the user is not passed on.
WrittenUnresolved(q) == [user |-> None, agent |-> req[q].agent, by |-> q]

Written(q) == [user |-> req[q].user, agent |-> req[q].agent, by |-> q]

\* Mutant of LogDevice: the insert is not awaited and fails.
LogDeviceFails(q) ==
  Advance(q, "logging", "lookup") /\ UNCHANGED <<store, events, cookies>>

(* ... insert it if it was not found, ...                                   *)
LogDevice(q) ==
  /\ Advance(q, "logging", "lookup")
  /\ devices' = devices \cup {Written(q)}
  /\ UNCHANGED <<table, code, sessions, events, cookies>>

(* ... look the user up again, by the address as typed, ...                 *)
LookUpAgain(q) ==
  /\ Advance(q, "lookup", IF req[q].normal THEN "session" ELSE "denied")
  /\ UNCHANGED <<store, events, cookies>>

(* ... let SessionService.create store the session, ...                     *)
OpenSession(q) ==
  /\ Advance(q, "session", "opened")
  /\ sessions' = sessions \cup {Written(q)}
  /\ UNCHANGED <<table, code, devices, events, cookies>>

\* SessionService.create returns both tokens; AuthMapper.toAuthResponse picks
\* the access token; the interceptor sets a cookie when it finds the other.
CreatedSession(q) == [accessToken |-> q, refreshToken |-> q]
ToAuthResponse(session) == [accessToken |-> session.accessToken]
SetCookie(q, data) ==
  cookies' = IF "refreshToken" \in DOMAIN data THEN cookies \cup {q} ELSE cookies

(* ... and answer.                                                          *)
Answer(q) ==
  /\ Advance(q, "opened", "ok")
  /\ SetCookie(q, ToAuthResponse(CreatedSession(q)))
  /\ UNCHANGED <<store, events>>

\* A statement fails, or the process stops.
Fail(q) ==
  /\ req[q].pc \in {"arrived", "coded", "sending", "device", "logging",
                    "lookup", "session", "opened"}
  /\ Advance(q, req[q].pc, "failed")
  /\ UNCHANGED <<store, events, cookies>>

\* AuthFacade.verify2fa calls verifyPartialToken, a method TwoFactorService
\* does not have: a TypeError, whatever the client sent.
Verify2fa(q, u, c) ==
  /\ req[q].pc = "new"
  /\ req' = [req EXCEPT ![q] = [Idle EXCEPT !.pc = "failed", !.op = "verify",
                                            !.user = u, !.code = c]]
  /\ UNCHANGED <<store, events, cookies>>
-----------------------------------------------------------------------------
(* The other writers of the user's row.                                     *)
Rewrite(u, row) ==
  /\ Len(table[u]) <= MaxChanges
  /\ table' = [table EXCEPT ![u] = Append(@, row)]
  /\ UNCHANGED <<code, devices, sessions, events, cookies, req>>

\* ResetPasswordUseCase's update (module PasswordReset).
ChangePassword(u, p) == Rewrite(u, [Row(u) EXCEPT !.password = p])

\* SecurityFacade.enable2fa and disable2fa, behind the JWT guard: the client
\* has a token that a login of u was answered.
Switch2fa(u, on) ==
  /\ \E q \in Requests : req[q].pc \in {"ok", "partial"} /\ req[q].user = u
  /\ Rewrite(u, [Row(u) EXCEPT !.is2faEnabled = on])

LoginStep(q) ==
  \/ \E u \in Users, p \in Passwords, a \in Agents, normal \in BOOLEAN :
       Login(q, u, p, a, normal)
  \/ LoginRefused(q)
  \/ Authenticate(q) \/ CheckDevice(q) \/ LogDevice(q) \/ LookUpAgain(q)
  \/ OpenSession(q) \/ Answer(q) \/ Fail(q)

CodeStep(q) ==
  \/ \E c \in Codes : StoreCode(q, c)
  \/ SendCode(q)
  \/ \E e \in events, c \in Codes : Verify2fa(q, e.user, c)

Next ==
  \/ \E q \in Requests : LoginStep(q) \/ CodeStep(q)
  \/ \E u \in Users, p \in Passwords : ChangePassword(u, p)
  \/ \E u \in Users, on \in BOOLEAN : Switch2fa(u, on)

Spec == Init /\ [][Next]_vars
-----------------------------------------------------------------------------
Stamp == [user : Users, agent : Agents, by : Requests]

TypeOK ==
  /\ table \in [Users -> Seq(UserRow)] /\ \A u \in Users : Len(table[u]) > 0
  /\ code \in [Users -> Codes \cup {None}]
  /\ devices \subseteq Stamp /\ sessions \subseteq Stamp
  /\ events \subseteq [user : Users, code : Codes, by : Requests]
  /\ cookies \subseteq Requests
  /\ req \in [Requests -> Request]

\* At one moment since q arrived the user's row had q's password, and 2FA
\* switched to `on`.
Vouched(q, on) ==
  \E i \in req[q].since..Len(table[req[q].user]) :
    table[req[q].user][i] = [password |-> req[q].password, is2faEnabled |-> on]

(* A login takes effect as if it had looked at the user's row at one single *)
(* moment after it arrived, whatever resets of the password and switches of *)
(* 2FA it overlaps: with 2FA off at that moment it may leave a device and a *)
(* session of that user, with 2FA on only a mailed code                     *)
(* (login-user.use-case.ts:28-58, auth.facade.ts:25-50).                    *)
OneMoment ==
  /\ \A d \in devices \cup sessions :
       req[d.by].user = d.user /\ Vouched(d.by, FALSE)
  /\ \A e \in events : req[e.by].user = e.user /\ Vouched(e.by, TRUE)

(* Every session is on a device of its user that is in KnownDevice: the     *)
(* device is recorded before the session, also when several first logins    *)
(* from it overlap or one of them dies (login-user.use-case.ts:51-58).      *)
SessionsOnKnownDevices ==
  \A s \in sessions : \E d \in devices : d.user = s.user /\ d.agent = s.agent

(* A code that was mailed is the one on file for its user, unless another   *)
(* login of that user has replaced it (two-factor.service.ts:20-25).        *)
MailedCodeStands ==
  \A e \in events :
    \/ code[e.user] = e.code
    \/ \E q \in Requests \ {e.by} : /\ req[q].op = "login"
                                    /\ req[q].user = e.user
                                    /\ req[q].code # None
                                    /\ req[q].code = code[e.user]
=============================================================================
