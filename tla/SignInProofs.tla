---------------------------- MODULE SignInProofs ----------------------------
(***************************************************************************)
(* Safety of SignIn for every set of users, agents, passwords, codes and   *)
(* requests.                                                               *)
(*                                                                         *)
(* A login is vouched for by one element of its user's history, the row it *)
(* authenticated against; the history only grows, so the element stays.    *)
(* What the login writes later, it writes in its own name.                 *)
(***************************************************************************)
EXTENDS SignIn, TLAPS

Plain == {"device", "logging", "lookup", "session", "opened"}

\* How far a request has come, and what it has kept of its body.
Came ==
  \A q \in Requests :
    /\ req[q].pc = "new" => req[q] = Idle
    /\ req[q].op = "login" =>
         req[q].user \in Users /\ req[q].since \in 1..Len(table[req[q].user])
    /\ req[q].pc \notin {"new", "failed"} => req[q].op = "login" /\ req[q].agent \in Agents

Vouches ==
  \A q \in Requests : /\ req[q].pc \in Plain => Vouched(q, FALSE)
                      /\ req[q].pc \in {"coded", "sending"} => Vouched(q, TRUE)

\* Whatever was written in a login's name is its user's, and vouched for.
Stamped(s, on) ==
  req[s.by].op = "login" /\ req[s.by].user = s.user /\ Vouched(s.by, on)

Stamps ==
  /\ \A d \in devices : Stamped(d, FALSE)
  /\ \A s \in sessions : Stamped(s, FALSE)
  /\ \A e \in events : Stamped(e, TRUE) /\ req[e.by].code = e.code

DeviceFirst ==
  \A q \in Requests : req[q].pc \in {"lookup", "session", "opened"} => Known(q)

Replaced(q) ==
  \E r \in Requests : /\ r # q /\ req[r].op = "login" /\ req[r].user = req[q].user
                      /\ req[r].code # None /\ req[r].code = code[req[q].user]

CodesStand ==
  \A q \in Requests :
    /\ req[q].op = "login" /\ req[q].code # None =>
         code[req[q].user] = req[q].code \/ Replaced(q)
    /\ req[q].pc \in {"arrived", "coded"} => req[q].code = None
    /\ req[q].pc = "sending" => req[q].code # None

IInv ==
  /\ TypeOK /\ Came /\ Vouches /\ Stamps /\ DeviceFirst /\ SessionsOnKnownDevices
  /\ CodesStand
-----------------------------------------------------------------------------
LEMMA IdleShape ==
  /\ Idle \in Request /\ Idle.pc = "new" /\ Idle.op = "none" /\ Idle.code = None
  BY DEF Idle, Request, Pcs

LEMMA InitIInv == Init => IInv
<1> SUFFICES ASSUME Init PROVE IInv
  OBVIOUS
<1>1. TypeOK
  <2>1. \A row \in UserRow : <<row>> \in Seq(UserRow) /\ Len(<<row>>) > 0
    OBVIOUS
  <2>2. table \in [Users -> Seq(UserRow)] /\ \A u \in Users : Len(table[u]) > 0
    BY <2>1 DEF Init
  <2> QED
    BY <2>2, IdleShape DEF Init, TypeOK
<1>2. Came /\ Vouches /\ DeviceFirst /\ CodesStand
  BY IdleShape DEF Init, Came, Vouches, DeviceFirst, CodesStand, Plain
<1>3. Stamps /\ SessionsOnKnownDevices
  BY DEF Init, Stamps, SessionsOnKnownDevices
<1> QED
  BY <1>1, <1>2, <1>3 DEF IInv

\* A login goes on being vouched for while its record keeps what it came with
\* and the history grows.
LEMMA VouchedStays ==
  ASSUME TypeOK, TypeOK', Came, NEW q \in Requests, NEW on, Vouched(q, on),
         req[q].op = "login",
         req'[q].user = req[q].user, req'[q].since = req[q].since,
         req'[q].password = req[q].password,
         \A u \in Users : /\ Len(table[u]) <= Len(table'[u])
                          /\ \A i \in 1..Len(table[u]) : table'[u][i] = table[u][i]
  PROVE  Vouched(q, on)'
<1>1. /\ req[q].user \in Users /\ req[q].since \in 1..Len(table[req[q].user])
      /\ Len(table[req[q].user]) \in Nat /\ Len(table'[req[q].user]) \in Nat
  BY DEF Came, TypeOK
<1>2. PICK i \in req[q].since..Len(table[req[q].user]) :
        table[req[q].user][i] = [password |-> req[q].password, is2faEnabled |-> on]
  BY DEF Vouched
<1>3. i \in 1..Len(table[req[q].user]) /\ i \in req[q].since..Len(table'[req[q].user])
  BY <1>1, <1>2
<1> QED
  BY <1>1, <1>2, <1>3 DEF Vouched

LEMMA HistorySame ==
  ASSUME TypeOK, UNCHANGED table
  PROVE  \A u \in Users : /\ Len(table[u]) <= Len(table'[u])
                          /\ \A i \in 1..Len(table[u]) : table'[u][i] = table[u][i]
<1>1. \A u \in Users : Len(table[u]) \in Nat
  BY DEF TypeOK
<1> QED
  BY <1>1
-----------------------------------------------------------------------------
(* What every step of a request has in common.  Going(q, r): r is what is   *)
(* next in the record of q.                                                 *)
Going(q, r) ==
  /\ r \in Request /\ r.pc # "new"
  /\ req[q].op = "login" => /\ r.op = "login" /\ r.user = req[q].user
                            /\ r.since = req[q].since /\ r.password = req[q].password
                            /\ r.agent = req[q].agent
                            /\ (req[q].code # None => r.code = req[q].code)
  /\ r.op = "login" => r.user \in Users /\ r.since \in 1..Len(table[r.user])
  /\ r.pc # "failed" => r.op = "login" /\ r.agent \in Agents

\* No login loses what vouches for it, and what is written is vouched for.
VouchersStay ==
  \A p \in Requests : \A on \in BOOLEAN :
    req[p].op = "login" /\ Vouched(p, on) => Vouched(p, on)'

NewStamps ==
  /\ \A d \in devices' : d \in devices \/ Stamped(d, FALSE)'
  /\ \A s \in sessions' : s \in sessions \/ Stamped(s, FALSE)'
  /\ \A e \in events' : e \in events \/ (Stamped(e, TRUE)' /\ req'[e.by].code = e.code)

LEMMA GoingKeeps ==
  ASSUME IInv, TypeOK', NEW q \in Requests, NEW r, Going(q, r),
         req' = [req EXCEPT ![q] = r], UNCHANGED table,
         r.pc \in Plain => Vouched(q, FALSE)',
         r.pc \in {"coded", "sending"} => Vouched(q, TRUE)'
  PROVE  /\ req'[q] = r /\ \A p \in Requests : p # q => req'[p] = req[p]
         /\ Came' /\ Vouches' /\ VouchersStay
<1>1. req'[q] = r /\ \A p \in Requests : p # q => req'[p] = req[p]
  BY DEF IInv, TypeOK
<1>2. Came'
  BY <1>1 DEF IInv, Came, Going
<1>3. ASSUME NEW p \in Requests, NEW on \in BOOLEAN, req[p].op = "login", Vouched(p, on)
      PROVE  Vouched(p, on)'
  <2>1. /\ req'[p].user = req[p].user /\ req'[p].since = req[p].since
        /\ req'[p].password = req[p].password
    BY <1>1, <1>3 DEF Going
  <2> QED
    BY <1>3, <2>1, HistorySame, VouchedStays DEF IInv
<1>4. Vouches'
  <2> SUFFICES ASSUME NEW p \in Requests
               PROVE  /\ req'[p].pc \in Plain => Vouched(p, FALSE)'
                      /\ req'[p].pc \in {"coded", "sending"} => Vouched(p, TRUE)'
    BY DEF Vouches
  <2>1. CASE p = q
    BY <1>1, <2>1
  <2>2. CASE p # q
    <3>1. req'[p] = req[p]
      BY <1>1, <2>2
    <3>2. /\ req[p].pc \in Plain => req[p].op = "login" /\ Vouched(p, FALSE)
          /\ req[p].pc \in {"coded", "sending"} => req[p].op = "login" /\ Vouched(p, TRUE)
      BY DEF IInv, Vouches, Came, Plain
    <3> QED
      BY <1>3, <3>1, <3>2
  <2> QED
    BY <2>1, <2>2
<1> QED
  BY <1>1, <1>2, <1>3, <1>4 DEF VouchersStay

\* The stamps already there stay; the step of q may add one in q's name.
LEMMA StampsStay ==
  ASSUME IInv, NEW q \in Requests, NEW r, Going(q, r),
         req'[q] = r, \A p \in Requests : p # q => req'[p] = req[p],
         VouchersStay, NewStamps
  PROVE  Stamps'
<1>1. \A p \in Requests : req[p].op = "login" =>
        req'[p].op = "login" /\ req'[p].user = req[p].user
        /\ (req[p].code # None => req'[p].code = req[p].code)
  BY DEF Going
<1>2. ASSUME NEW d \in devices PROVE Stamped(d, FALSE)'
  <2>1. d.by \in Requests /\ req[d.by].op = "login" /\ req[d.by].user = d.user
        /\ Vouched(d.by, FALSE)
    BY DEF IInv, TypeOK, Stamp, Stamps, Stamped
  <2>2. Vouched(d.by, FALSE)'
    BY <2>1 DEF VouchersStay
  <2> QED
    BY <1>1, <2>1, <2>2 DEF Stamped
<1>3. ASSUME NEW s \in sessions PROVE Stamped(s, FALSE)'
  <2>1. s.by \in Requests /\ req[s.by].op = "login" /\ req[s.by].user = s.user
        /\ Vouched(s.by, FALSE)
    BY DEF IInv, TypeOK, Stamp, Stamps, Stamped
  <2>2. Vouched(s.by, FALSE)'
    BY <2>1 DEF VouchersStay
  <2> QED
    BY <1>1, <2>1, <2>2 DEF Stamped
<1>4. ASSUME NEW e \in events PROVE Stamped(e, TRUE)' /\ req'[e.by].code = e.code
  <2>1. e.by \in Requests /\ req[e.by].op = "login" /\ req[e.by].user = e.user
        /\ Vouched(e.by, TRUE) /\ req[e.by].code = e.code /\ e.code # None
    BY SignInAssumption DEF IInv, TypeOK, Stamps, Stamped
  <2>2. Vouched(e.by, TRUE)'
    BY <2>1 DEF VouchersStay
  <2> QED
    BY <1>1, <2>1, <2>2 DEF Stamped
<1> QED
  BY <1>2, <1>3, <1>4 DEF Stamps, NewStamps

LEMMA DevicesStay ==
  ASSUME IInv, NEW q \in Requests, NEW r, req'[q] = r,
         \A p \in Requests : p # q => req'[p] = req[p],
         devices \subseteq devices',
         r.pc \in {"lookup", "session", "opened"} =>
           \E d \in devices' : d.user = r.user /\ d.agent = r.agent
  PROVE  DeviceFirst'
<1> SUFFICES ASSUME NEW p \in Requests, req'[p].pc \in {"lookup", "session", "opened"}
             PROVE  \E d \in devices' : d.user = req'[p].user /\ d.agent = req'[p].agent
  BY DEF DeviceFirst, Known
<1>1. CASE p = q
  BY <1>1
<1>2. CASE p # q
  BY <1>2 DEF IInv, DeviceFirst, Known
<1> QED
  BY <1>1, <1>2

\* No step but StoreCode gives a login a code.
LEMMA CodesStay ==
  ASSUME IInv, NEW q \in Requests, NEW r, Going(q, r), req'[q] = r,
         \A p \in Requests : p # q => req'[p] = req[p],
         UNCHANGED code,
         r.op = "login" /\ r.code # None => req[q].op = "login" /\ req[q].code # None,
         r.pc \in {"arrived", "coded"} => r.code = None,
         r.pc = "sending" => r.code # None
  PROVE  CodesStand'
<1>1. ASSUME NEW p \in Requests, req[p].op = "login", req[p].code # None
      PROVE  /\ req'[p].op = "login" /\ req'[p].code = req[p].code
             /\ req'[p].user = req[p].user
  BY <1>1 DEF Going
<1>2. ASSUME NEW p \in Requests, req'[p].op = "login", req'[p].code # None
      PROVE  code'[req'[p].user] = req'[p].code \/ Replaced(p)'
  <2>1. /\ req[p].op = "login" /\ req[p].code # None
        /\ req'[p].code = req[p].code /\ req'[p].user = req[p].user
    BY <1>1, <1>2
  <2>2. CASE code[req[p].user] = req[p].code
    BY <2>1, <2>2
  <2>3. CASE Replaced(p)
    <3>1. PICK w \in Requests : /\ w # p /\ req[w].op = "login"
                                /\ req[w].user = req[p].user /\ req[w].code # None
                                /\ req[w].code = code[req[p].user]
      BY <2>3 DEF Replaced
    <3>2. /\ req'[w].op = "login" /\ req'[w].code = req[w].code
          /\ req'[w].user = req[w].user
      BY <1>1, <3>1
    <3> QED
      BY <2>1, <3>1, <3>2 DEF Replaced
  <2> QED
    BY <2>1, <2>2, <2>3 DEF IInv, CodesStand
<1>3. ASSUME NEW p \in Requests
      PROVE  /\ req'[p].pc \in {"arrived", "coded"} => req'[p].code = None
             /\ req'[p].pc = "sending" => req'[p].code # None
  BY DEF IInv, CodesStand
<1> QED
  BY <1>2, <1>3 DEF CodesStand

\* A step of a request that writes nothing, but for a cookie.
LEMMA QuietKeeps ==
  ASSUME IInv, NEW q \in Requests, NEW r, Going(q, r),
         req' = [req EXCEPT ![q] = r],
         UNCHANGED <<table, code, devices, sessions, events>>,
         cookies' \subseteq Requests,
         r.pc \in Plain => Vouched(q, FALSE)',
         r.pc \in {"coded", "sending"} => Vouched(q, TRUE)',
         r.pc \in {"lookup", "session", "opened"} =>
           \E d \in devices : d.user = r.user /\ d.agent = r.agent,
         r.op = "login" /\ r.code # None => req[q].op = "login" /\ req[q].code # None,
         r.pc \in {"arrived", "coded"} => r.code = None,
         r.pc # "sending"
  PROVE  IInv'
<1>1. TypeOK'
  BY DEF IInv, TypeOK, Going
<1>2. /\ req'[q] = r /\ \A p \in Requests : p # q => req'[p] = req[p]
      /\ Came' /\ Vouches' /\ VouchersStay
  BY <1>1, GoingKeeps
<1>3. Stamps'
  <2>1. NewStamps
    BY DEF NewStamps
  <2> QED
    BY <1>2, <2>1, StampsStay
<1>4. DeviceFirst'
  BY <1>2, DevicesStay
<1>5. CodesStand'
  BY <1>2, CodesStay
<1>6. SessionsOnKnownDevices'
  BY DEF IInv, SessionsOnKnownDevices
<1> QED
  BY <1>1, <1>2, <1>3, <1>4, <1>5, <1>6 DEF IInv
-----------------------------------------------------------------------------
(* The steps of a login.                                                    *)

\* An Advance keeps everything of the record but how far it has come.
LEMMA AdvanceEffect ==
  ASSUME TypeOK, NEW q \in Requests, NEW from, NEW to \in Pcs, Advance(q, from, to)
  PROVE  LET r == [req[q] EXCEPT !.pc = to]
         IN  /\ r \in Request /\ r.pc = to /\ r.op = req[q].op /\ r.user = req[q].user
             /\ r.agent = req[q].agent /\ r.password = req[q].password
             /\ r.code = req[q].code /\ r.since = req[q].since
             /\ req[q].pc = from /\ req' = [req EXCEPT ![q] = r]
<1>1. req[q] \in Request
  BY DEF TypeOK
<1> QED
  BY <1>1 DEF Request, Advance

\* The same, of a login that is under way.
LEMMA AdvanceGoes ==
  ASSUME IInv, NEW q \in Requests, NEW from, NEW to \in Pcs \ {"new"},
         from \notin {"new", "failed"}, Advance(q, from, to)
  PROVE  \E r : /\ Going(q, r) /\ req' = [req EXCEPT ![q] = r] /\ req'[q] = r
                /\ req[q].pc = from /\ req[q].op = "login" /\ req[q].agent \in Agents
                /\ r.pc = to /\ r.op = "login" /\ r.user = req[q].user
                /\ r.agent = req[q].agent /\ r.password = req[q].password
                /\ r.code = req[q].code /\ r.since = req[q].since
<1> DEFINE r == [req[q] EXCEPT !.pc = to]
<1>1. /\ r \in Request /\ r.pc = to /\ r.op = req[q].op /\ r.user = req[q].user
      /\ r.agent = req[q].agent /\ r.password = req[q].password
      /\ r.code = req[q].code /\ r.since = req[q].since
      /\ req[q].pc = from /\ req' = [req EXCEPT ![q] = r]
  BY AdvanceEffect DEF IInv
<1> HIDE DEF r
<1>2. req[q].op = "login" /\ req[q].agent \in Agents
  BY <1>1 DEF IInv, Came
<1>3. Going(q, r)
  BY <1>1, <1>2 DEF IInv, Came, Going
<1>4. req'[q] = r
  BY <1>1 DEF IInv, TypeOK
<1> QED
  BY <1>1, <1>2, <1>3, <1>4

\* A login that is vouched for stays so when only its pc changes.
LEMMA StillVouched ==
  ASSUME IInv, TypeOK', NEW q \in Requests, NEW r, NEW on \in BOOLEAN,
         Vouched(q, on), req'[q] = r, UNCHANGED table, req[q].op = "login",
         r.user = req[q].user, r.password = req[q].password, r.since = req[q].since
  PROVE  Vouched(q, on)'
  BY HistorySame, VouchedStays DEF IInv

LEMMA QuietStepKeeps ==
  ASSUME IInv, NEW q \in Requests, NEW from, NEW to \in Pcs \ {"new", "arrived", "coded", "sending"},
         from \notin {"new", "failed"}, Advance(q, from, to),
         UNCHANGED <<table, code, devices, sessions, events>>,
         cookies' \subseteq Requests,
         to \in Plain => Vouched(q, FALSE),
         to \in {"lookup", "session", "opened"} => Known(q)
  PROVE  IInv'
<1>1. PICK r : /\ Going(q, r) /\ req' = [req EXCEPT ![q] = r] /\ req'[q] = r
               /\ req[q].pc = from /\ req[q].op = "login" /\ req[q].agent \in Agents
               /\ r.pc = to /\ r.op = "login" /\ r.user = req[q].user
               /\ r.agent = req[q].agent /\ r.password = req[q].password
               /\ r.code = req[q].code /\ r.since = req[q].since
  BY AdvanceGoes
<1>2. TypeOK'
  BY <1>1 DEF IInv, TypeOK, Going
<1>3. r.pc \in Plain => Vouched(q, FALSE)'
  BY <1>1, <1>2, StillVouched
<1>4. r.pc \in {"lookup", "session", "opened"} =>
        \E d \in devices : d.user = r.user /\ d.agent = r.agent
  BY <1>1 DEF Known
<1> QED
  BY <1>1, <1>3, <1>4, QuietKeeps

LEMMA LoginKeeps ==
  ASSUME IInv, NEW q \in Requests, NEW u \in Users, NEW p \in Passwords,
         NEW a \in Agents, NEW normal \in BOOLEAN, Login(q, u, p, a, normal)
  PROVE  IInv'
<1> DEFINE r == [Idle EXCEPT !.pc = "arrived", !.op = "login", !.user = u, !.agent = a,
                             !.password = p, !.normal = normal, !.since = Len(table[u])]
<1>1. Len(table[u]) \in Nat /\ Len(table[u]) > 0
  BY DEF IInv, TypeOK
<1>2. /\ r \in Request /\ r.pc = "arrived" /\ r.op = "login" /\ r.user = u
      /\ r.agent = a /\ r.since = Len(table[u]) /\ r.code = None
  BY <1>1 DEF Idle, Request, Pcs
<1>3. /\ req[q].pc = "new" /\ req' = [req EXCEPT ![q] = r]
      /\ UNCHANGED <<table, code, devices, sessions, events, cookies>>
  BY DEF Login, store
<1> HIDE DEF r
<1>4. req[q].op = "none"
  BY <1>3, IdleShape DEF IInv, Came
<1>5. Going(q, r)
  BY <1>1, <1>2, <1>4 DEF Going
<1>6. cookies' \subseteq Requests
  BY <1>3 DEF IInv, TypeOK
<1> QED
  BY <1>2, <1>3, <1>5, <1>6, QuietKeeps DEF Plain

LEMMA VerifyKeeps ==
  ASSUME IInv, NEW q \in Requests, NEW e \in events, NEW c \in Codes,
         Verify2fa(q, e.user, c)
  PROVE  IInv'
<1> DEFINE r == [Idle EXCEPT !.pc = "failed", !.op = "verify", !.user = e.user, !.code = c]
<1>1. e.user \in Users
  BY DEF IInv, TypeOK
<1>2. r \in Request /\ r.pc = "failed" /\ r.op = "verify"
  BY <1>1 DEF Idle, Request, Pcs
<1>3. /\ req[q].pc = "new" /\ req' = [req EXCEPT ![q] = r]
      /\ UNCHANGED <<table, code, devices, sessions, events, cookies>>
  BY DEF Verify2fa, store
<1> HIDE DEF r
<1>4. req[q].op = "none"
  BY <1>3, IdleShape DEF IInv, Came
<1>5. Going(q, r)
  BY <1>2, <1>4 DEF Going
<1>6. cookies' \subseteq Requests
  BY <1>3 DEF IInv, TypeOK
<1> QED
  BY <1>2, <1>3, <1>5, <1>6, QuietKeeps DEF Plain

LEMMA LoginRefusedKeeps ==
  ASSUME IInv, NEW q \in Requests, LoginRefused(q) PROVE IInv'
<1> DEFINE r == [req[q] EXCEPT !.pc = "failed"]
<1>1. /\ r \in Request /\ r.pc = "failed" /\ r.op = req[q].op /\ r.code = req[q].code
      /\ req[q].pc = "new" /\ req' = [req EXCEPT ![q] = r]
      /\ UNCHANGED <<table, code, devices, sessions, events, cookies>>
  <2>1. Advance(q, "new", "failed") /\ "failed" \in Pcs
    BY DEF LoginRefused, Pcs
  <2>2. UNCHANGED <<table, code, devices, sessions, events, cookies>>
    BY DEF LoginRefused, store
  <2> QED
    BY <2>1, <2>2, AdvanceEffect DEF IInv
<1> HIDE DEF r
<1>2. req[q].op = "none"
  BY <1>1, IdleShape DEF IInv, Came
<1>3. Going(q, r)
  BY <1>1, <1>2 DEF Going
<1>4. cookies' \subseteq Requests
  BY <1>1 DEF IInv, TypeOK
<1> QED
  BY <1>1, <1>2, <1>3, <1>4, QuietKeeps DEF Plain

\* The moment a login is vouched for: the row it authenticates against.
LEMMA AuthenticateKeeps ==
  ASSUME IInv, NEW q \in Requests, Authenticate(q) PROVE IInv'
<1> DEFINE row == Row(req[q].user)
           to == IF row.password # req[q].password THEN "denied"
                 ELSE IF row.is2faEnabled THEN "coded" ELSE "device"
<1>1. /\ Advance(q, "arrived", to)
      /\ UNCHANGED <<table, code, devices, sessions, events, cookies>>
      /\ cookies' \subseteq Requests
  BY DEF IInv, TypeOK, Authenticate, store
<1>2. to \in {"denied", "coded", "device"}
  OBVIOUS
<1>3. PICK r : /\ Going(q, r) /\ req' = [req EXCEPT ![q] = r] /\ req'[q] = r
               /\ req[q].pc = "arrived" /\ req[q].op = "login"
               /\ r.pc = to /\ r.op = "login" /\ r.user = req[q].user
               /\ r.password = req[q].password
               /\ r.code = req[q].code /\ r.since = req[q].since
  <2> HIDE DEF to
  <2> QED
    BY <1>1, <1>2, AdvanceGoes DEF Pcs
<1>4. /\ req[q].user \in Users /\ req[q].since \in 1..Len(table[req[q].user])
      /\ Len(table[req[q].user]) \in Nat /\ table[req[q].user] \in Seq(UserRow)
  BY <1>3 DEF IInv, TypeOK, Came
<1>5. row \in UserRow /\ row = table[req[q].user][Len(table[req[q].user])]
      /\ Len(table[req[q].user]) \in req[q].since..Len(table[req[q].user])
  BY <1>4 DEF Row
<1>6. TypeOK'
  BY <1>1, <1>3 DEF IInv, TypeOK, Going
<1> HIDE DEF row
<1>7. ASSUME NEW on \in BOOLEAN, row.password = req[q].password, row.is2faEnabled = on
      PROVE  Vouched(q, on)'
  <2>1. row = [password |-> req[q].password, is2faEnabled |-> on]
    BY <1>5, <1>7 DEF UserRow
  <2>2. Vouched(q, on)
    BY <1>5, <2>1 DEF Vouched
  <2> QED
    BY <1>1, <1>3, <1>6, <2>2, StillVouched
<1>8. row.is2faEnabled \in BOOLEAN
  BY <1>5 DEF UserRow
<1>9. /\ to = "device" => row.password = req[q].password /\ row.is2faEnabled = FALSE
      /\ to = "coded" => row.password = req[q].password /\ row.is2faEnabled = TRUE
  BY <1>8
<1>10. /\ r.pc \in Plain => Vouched(q, FALSE)'
       /\ r.pc \in {"coded", "sending"} => Vouched(q, TRUE)'
  <2> HIDE DEF to
  <2> QED
    BY <1>2, <1>3, <1>7, <1>9 DEF Plain
<1>11. r.pc \notin {"lookup", "session", "opened", "sending"} /\ r.code = None
  BY <1>2, <1>3 DEF IInv, CodesStand
<1> QED
  BY <1>1, <1>3, <1>10, <1>11, QuietKeeps

LEMMA QuietLoginKeeps ==
  ASSUME IInv, NEW q \in Requests,
         CheckDevice(q) \/ LookUpAgain(q) \/ Answer(q) \/ Fail(q)
  PROVE  IInv'
<1>1. /\ req[q].pc \in Plain => Vouched(q, FALSE)
      /\ req[q].pc \in {"lookup", "session", "opened"} => Known(q)
      /\ cookies \subseteq Requests
  BY DEF IInv, TypeOK, Vouches, DeviceFirst
<1>2. CASE CheckDevice(q)
  <2> DEFINE to == IF Known(q) THEN "lookup" ELSE "logging"
  <2>1. /\ Advance(q, "device", to)
        /\ UNCHANGED <<table, code, devices, sessions, events, cookies>>
    BY <1>2 DEF CheckDevice, store
  <2>2. to \in {"lookup", "logging"} /\ (to = "lookup" => Known(q))
    OBVIOUS
  <2>3. Vouched(q, FALSE)
    BY <1>1, <2>1 DEF Advance, Plain
  <2> HIDE DEF to
  <2> QED
    BY <1>1, <2>1, <2>2, <2>3, QuietStepKeeps DEF Pcs
<1>3. CASE LookUpAgain(q)
  <2> DEFINE to == IF req[q].normal THEN "session" ELSE "denied"
  <2>1. /\ Advance(q, "lookup", to)
        /\ UNCHANGED <<table, code, devices, sessions, events, cookies>>
    BY <1>3 DEF LookUpAgain, store
  <2>2. to \in {"session", "denied"}
    OBVIOUS
  <2>3. Vouched(q, FALSE) /\ Known(q)
    BY <1>1, <2>1 DEF Advance, Plain
  <2> HIDE DEF to
  <2> QED
    BY <1>1, <2>1, <2>2, <2>3, QuietStepKeeps DEF Pcs
<1>4. CASE Answer(q)
  <2>1. cookies' \subseteq Requests
    BY <1>1, <1>4 DEF Answer, SetCookie
  <2> QED
    BY <1>4, <2>1, QuietStepKeeps DEF Answer, Pcs, Plain, store
<1>5. CASE Fail(q)
  BY <1>1, <1>5, QuietStepKeeps DEF Fail, Pcs, Plain, store
<1> QED
  BY <1>2, <1>3, <1>4, <1>5
-----------------------------------------------------------------------------
(* The steps that write.                                                    *)

\* A login that has just been given a code has replaced every other's.
LEMMA StoreCodeKeeps ==
  ASSUME IInv, NEW q \in Requests, NEW c \in Codes, StoreCode(q, c) PROVE IInv'
<1> DEFINE r == [req[q] EXCEPT !.pc = "sending", !.code = c]
<1>1. /\ req[q] \in Request /\ req[q].pc = "coded" /\ req[q].op = "login"
      /\ req[q].agent \in Agents /\ req[q].user \in Users
      /\ req[q].since \in 1..Len(table[req[q].user]) /\ Vouched(q, TRUE)
      /\ c # None
  BY SignInAssumption DEF IInv, TypeOK, Came, Vouches, StoreCode
<1>2. /\ r \in Request /\ r.pc = "sending" /\ r.op = "login" /\ r.user = req[q].user
      /\ r.agent = req[q].agent /\ r.password = req[q].password
      /\ r.since = req[q].since /\ r.code = c
  BY <1>1 DEF Request, Pcs
<1>3. /\ req' = [req EXCEPT ![q] = r] /\ code' = [code EXCEPT ![req[q].user] = c]
      /\ UNCHANGED <<table, devices, sessions, events, cookies>>
  BY DEF StoreCode
<1> HIDE DEF r
<1>4. TypeOK'
  BY <1>1, <1>2, <1>3 DEF IInv, TypeOK
<1>5. req'[q] = r /\ \A p \in Requests : p # q => req'[p] = req[p]
  BY <1>2, <1>3 DEF IInv, TypeOK
<1>6. Vouched(q, TRUE)'
  BY <1>1, <1>2, <1>3, <1>4, <1>5, StillVouched
<1>7. Going(q, r)
  BY <1>1, <1>2 DEF IInv, CodesStand, Going
<1>8. Came' /\ Vouches' /\ VouchersStay
  BY <1>2, <1>3, <1>4, <1>6, <1>7, GoingKeeps DEF Plain
<1>9. Stamps'
  <2>1. NewStamps
    BY <1>3 DEF NewStamps
  <2> QED
    BY <1>5, <1>7, <1>8, <2>1, StampsStay
<1>10. DeviceFirst'
  BY <1>2, <1>3, <1>5, DevicesStay
<1>11. SessionsOnKnownDevices'
  BY <1>3 DEF IInv, SessionsOnKnownDevices
<1>12. CodesStand'
  <2>1. ASSUME NEW p \in Requests, req'[p].op = "login", req'[p].code # None
        PROVE  code'[req'[p].user] = req'[p].code \/ Replaced(p)'
    <3>1. code'[req[q].user] = c
      BY <1>1, <1>3 DEF IInv, TypeOK
    <3>2. CASE req'[p].user = req[q].user
      <4>1. CASE p = q
        BY <1>2, <1>5, <3>1, <4>1
      <4>2. CASE p # q
        BY <1>1, <1>2, <1>5, <3>1, <3>2, <4>2 DEF Replaced
      <4> QED
        BY <4>1, <4>2
    <3>3. CASE req'[p].user # req[q].user
      <4>1. p # q /\ req'[p] = req[p]
        BY <1>2, <1>5, <3>3
      <4>2. req[p].user \in Users /\ code'[req[p].user] = code[req[p].user]
        BY <1>1, <1>3, <2>1, <3>3, <4>1 DEF IInv, TypeOK, Came
      <4>3. CASE code[req[p].user] = req[p].code
        BY <4>1, <4>2, <4>3
      <4>4. CASE Replaced(p)
        <5>1. PICK w \in Requests : /\ w # p /\ req[w].op = "login"
                                    /\ req[w].user = req[p].user /\ req[w].code # None
                                    /\ req[w].code = code[req[p].user]
          BY <4>4 DEF Replaced
        <5>2. req'[w] = req[w]
          BY <1>5, <3>3, <4>1, <5>1
        <5> QED
          BY <4>1, <4>2, <5>1, <5>2 DEF Replaced
      <4> QED
        BY <2>1, <4>1, <4>3, <4>4 DEF IInv, CodesStand
    <3> QED
      BY <3>2, <3>3
  <2>2. ASSUME NEW p \in Requests
        PROVE  /\ req'[p].pc \in {"arrived", "coded"} => req'[p].code = None
               /\ req'[p].pc = "sending" => req'[p].code # None
    BY <1>1, <1>2, <1>5 DEF IInv, CodesStand
  <2> QED
    BY <2>1, <2>2 DEF CodesStand
<1> QED
  BY <1>4, <1>8, <1>9, <1>10, <1>11, <1>12 DEF IInv

LEMMA SendCodeKeeps == ASSUME IInv, NEW q \in Requests, SendCode(q) PROVE IInv'
<1>1. PICK r : /\ Going(q, r) /\ req' = [req EXCEPT ![q] = r] /\ req'[q] = r
               /\ req[q].pc = "sending" /\ req[q].op = "login"
               /\ r.pc = "partial" /\ r.op = "login" /\ r.user = req[q].user
               /\ r.password = req[q].password
               /\ r.code = req[q].code /\ r.since = req[q].since
  BY AdvanceGoes DEF SendCode, Pcs
<1>2. /\ events' = events \cup {Emitted(q)}
      /\ UNCHANGED <<table, code, devices, sessions, cookies>>
  BY DEF SendCode, store
<1>3. /\ req[q].user \in Users /\ req[q].code # None /\ req[q].code \in Codes \cup {None}
      /\ Vouched(q, TRUE)
  BY <1>1 DEF IInv, TypeOK, Request, Came, Vouches, CodesStand
<1>4. PICK e \in [user : Users, code : Codes, by : Requests] :
        /\ e.user = req[q].user /\ e.code = req[q].code /\ e.by = q
        /\ events' = events \cup {e}
  <2>1. Emitted(q) \in [user : Users, code : Codes, by : Requests]
        /\ Emitted(q).user = req[q].user /\ Emitted(q).code = req[q].code
        /\ Emitted(q).by = q
    BY <1>3 DEF Emitted
  <2> QED
    BY <1>2, <2>1
<1>5. TypeOK'
  BY <1>1, <1>2, <1>4 DEF IInv, TypeOK, Going
<1>6. Came' /\ Vouches' /\ VouchersStay /\ \A p \in Requests : p # q => req'[p] = req[p]
  BY <1>1, <1>2, <1>5, GoingKeeps DEF Plain
<1>7. Vouched(q, TRUE)'
  BY <1>1, <1>2, <1>3, <1>5, StillVouched
<1>8. Stamps'
  <2>1. Stamped(e, TRUE)' /\ req'[e.by].code = e.code
    BY <1>1, <1>4, <1>7 DEF Stamped
  <2>2. \A f \in events' : f \in events \/ (Stamped(f, TRUE)' /\ req'[f.by].code = f.code)
    BY <1>4, <2>1 DEF Stamped, Vouched
  <2>3. NewStamps
    BY <1>2, <2>2 DEF NewStamps
  <2> QED
    BY <1>1, <1>6, <2>3, StampsStay
<1>9. DeviceFirst'
  BY <1>1, <1>2, <1>6, DevicesStay
<1>10. CodesStand'
  BY <1>1, <1>2, <1>3, <1>6, CodesStay
<1>11. SessionsOnKnownDevices'
  BY <1>2 DEF IInv, SessionsOnKnownDevices
<1> QED
  BY <1>5, <1>6, <1>8, <1>9, <1>10, <1>11 DEF IInv

\* A login that goes on from `from` having written the stamp w.
LEMMA WriteKeeps ==
  ASSUME IInv, NEW q \in Requests, NEW from \in {"logging", "session"},
         NEW to \in {"lookup", "opened"}, Advance(q, from, to),
         NEW w \in Stamp, w.user = req[q].user, w.agent = req[q].agent, w.by = q,
         \/ devices' = devices \cup {w} /\ sessions' = sessions
         \/ devices' = devices /\ sessions' = sessions \cup {w} /\ Known(q),
         UNCHANGED <<table, code, events, cookies>>
  PROVE  IInv'
<1>1. PICK r : /\ Going(q, r) /\ req' = [req EXCEPT ![q] = r] /\ req'[q] = r
               /\ req[q].pc = from /\ req[q].op = "login"
               /\ r.pc = to /\ r.op = "login" /\ r.user = req[q].user
               /\ r.agent = req[q].agent /\ r.password = req[q].password
               /\ r.code = req[q].code /\ r.since = req[q].since
  BY AdvanceGoes DEF Pcs
<1>2. Vouched(q, FALSE)
  BY <1>1 DEF IInv, Vouches, Plain
<1>3. TypeOK'
  BY <1>1 DEF IInv, TypeOK, Going
<1>4. Vouched(q, FALSE)'
  BY <1>1, <1>2, <1>3, StillVouched
<1>5. Came' /\ Vouches' /\ VouchersStay /\ \A p \in Requests : p # q => req'[p] = req[p]
  BY <1>1, <1>3, <1>4, GoingKeeps
<1>6. Stamps'
  <2>1. Stamped(w, FALSE)'
    BY <1>1, <1>4 DEF Stamped
  <2>2. /\ \A d \in devices' : d \in devices \/ Stamped(d, FALSE)'
        /\ \A s \in sessions' : s \in sessions \/ Stamped(s, FALSE)'
    BY <2>1 DEF Stamped, Vouched
  <2>3. NewStamps
    BY <2>2 DEF NewStamps
  <2> QED
    BY <1>1, <1>5, <2>3, StampsStay
<1>7. DeviceFirst'
  <2>1. devices \subseteq devices'
        /\ \E d \in devices' : d.user = r.user /\ d.agent = r.agent
    BY <1>1 DEF Known
  <2> QED
    BY <1>1, <1>5, <2>1, DevicesStay
<1>8. SessionsOnKnownDevices'
  <2>1. devices \subseteq devices'
        /\ \A s \in sessions' : s \in sessions \/ (s = w /\ Known(q))
    OBVIOUS
  <2> QED
    BY <2>1 DEF IInv, SessionsOnKnownDevices, Known
<1>9. CodesStand'
  BY <1>1, <1>5, CodesStay
<1> QED
  BY <1>3, <1>5, <1>6, <1>7, <1>8, <1>9 DEF IInv

LEMMA WrittenStamp ==
  ASSUME IInv, NEW q \in Requests, req[q].pc \in {"logging", "session"}
  PROVE  /\ Written(q) \in Stamp /\ Written(q).user = req[q].user
         /\ Written(q).agent = req[q].agent /\ Written(q).by = q
<1>1. req[q].user \in Users /\ req[q].agent \in Agents
  BY DEF IInv, Came
<1> QED
  BY <1>1 DEF Written, Stamp

LEMMA LogDeviceKeeps == ASSUME IInv, NEW q \in Requests, LogDevice(q) PROVE IInv'
<1>1. /\ Advance(q, "logging", "lookup") /\ devices' = devices \cup {Written(q)}
      /\ UNCHANGED <<table, code, sessions, events, cookies>>
  BY DEF LogDevice
<1>2. PICK w \in Stamp : /\ w = Written(q) /\ w.user = req[q].user
                         /\ w.agent = req[q].agent /\ w.by = q
  BY <1>1, WrittenStamp DEF Advance
<1> QED
  BY <1>1, <1>2, WriteKeeps

LEMMA OpenSessionKeeps == ASSUME IInv, NEW q \in Requests, OpenSession(q) PROVE IInv'
<1>1. /\ Advance(q, "session", "opened") /\ sessions' = sessions \cup {Written(q)}
      /\ UNCHANGED <<table, code, devices, events, cookies>>
  BY DEF OpenSession
<1>2. PICK w \in Stamp : /\ w = Written(q) /\ w.user = req[q].user
                         /\ w.agent = req[q].agent /\ w.by = q
  BY <1>1, WrittenStamp DEF Advance
<1>3. Known(q)
  BY <1>1 DEF IInv, DeviceFirst, Advance
<1> QED
  BY <1>1, <1>2, <1>3, WriteKeeps
-----------------------------------------------------------------------------
(* The other writers of the row, and all steps together.                    *)
LEMMA RewriteKeeps ==
  ASSUME IInv, NEW u \in Users, NEW row \in UserRow, Rewrite(u, row) PROVE IInv'
<1>1. /\ table' = [table EXCEPT ![u] = Append(table[u], row)]
      /\ UNCHANGED <<code, devices, sessions, events, cookies, req>>
  BY DEF Rewrite
<1>2. ASSUME NEW v \in Users
      PROVE  /\ table'[v] \in Seq(UserRow) /\ Len(table'[v]) > 0
             /\ Len(table[v]) <= Len(table'[v])
             /\ \A i \in 1..Len(table[v]) : table'[v][i] = table[v][i]
  <2>1. table[v] \in Seq(UserRow) /\ Len(table[v]) > 0
    BY DEF IInv, TypeOK
  <2>2. table'[v] = IF v = u THEN Append(table[v], row) ELSE table[v]
    BY <1>1 DEF IInv, TypeOK
  <2> QED
    BY <2>1, <2>2
<1>3. TypeOK'
  <2>1. table' \in [Users -> Seq(UserRow)]
    BY <1>1, <1>2 DEF IInv, TypeOK
  <2> QED
    BY <1>1, <1>2, <2>1 DEF IInv, TypeOK
<1>4. Came'
  <2>1. ASSUME NEW q \in Requests, req[q].op = "login"
        PROVE  req[q].user \in Users /\ req[q].since \in 1..Len(table'[req[q].user])
    <3>1. /\ req[q].user \in Users /\ req[q].since \in 1..Len(table[req[q].user])
          /\ Len(table[req[q].user]) \in Nat /\ Len(table'[req[q].user]) \in Nat
      BY <1>3, <2>1 DEF IInv, TypeOK, Came
    <3> QED
      BY <1>2, <3>1
  <2> QED
    BY <1>1, <2>1 DEF IInv, Came
<1>5. ASSUME NEW q \in Requests, NEW on \in BOOLEAN, req[q].op = "login", Vouched(q, on)
      PROVE  Vouched(q, on)'
  BY <1>1, <1>2, <1>3, <1>5, VouchedStays DEF IInv
<1>6. Vouches'
  <2> SUFFICES ASSUME NEW q \in Requests
               PROVE  /\ req'[q].pc \in Plain => Vouched(q, FALSE)'
                      /\ req'[q].pc \in {"coded", "sending"} => Vouched(q, TRUE)'
    BY DEF Vouches
  <2>1. /\ req[q].pc \in Plain => req[q].op = "login" /\ Vouched(q, FALSE)
        /\ req[q].pc \in {"coded", "sending"} => req[q].op = "login" /\ Vouched(q, TRUE)
    BY DEF IInv, Vouches, Came, Plain
  <2> QED
    BY <1>1, <1>5, <2>1
<1>7. Stamps'
  <2>1. ASSUME NEW d \in devices \cup sessions PROVE Stamped(d, FALSE)'
    <3>1. d.by \in Requests /\ Stamped(d, FALSE)
      BY DEF IInv, TypeOK, Stamp, Stamps
    <3>2. Vouched(d.by, FALSE)'
      BY <1>5, <3>1 DEF Stamped
    <3> QED
      BY <1>1, <3>1, <3>2 DEF Stamped
  <2>2. ASSUME NEW e \in events PROVE Stamped(e, TRUE)' /\ req'[e.by].code = e.code
    <3>1. e.by \in Requests /\ Stamped(e, TRUE) /\ req[e.by].code = e.code
      BY DEF IInv, TypeOK, Stamps
    <3>2. Vouched(e.by, TRUE)'
      BY <1>5, <3>1 DEF Stamped
    <3> QED
      BY <1>1, <3>1, <3>2 DEF Stamped
  <2> QED
    BY <1>1, <2>1, <2>2 DEF Stamps
<1>8. DeviceFirst' /\ SessionsOnKnownDevices'
  BY <1>1 DEF IInv, DeviceFirst, SessionsOnKnownDevices, Known
<1>9. CodesStand'
  BY <1>1 DEF IInv, CodesStand, Replaced
<1> QED
  BY <1>3, <1>4, <1>6, <1>7, <1>8, <1>9 DEF IInv

LEMMA OtherWritersKeep ==
  ASSUME IInv,
         \/ \E u \in Users, p \in Passwords : ChangePassword(u, p)
         \/ \E u \in Users, on \in BOOLEAN : Switch2fa(u, on)
  PROVE  IInv'
<1>1. ASSUME NEW u \in Users PROVE Row(u) \in UserRow
  <2>1. table[u] \in Seq(UserRow) /\ Len(table[u]) > 0
    BY DEF IInv, TypeOK
  <2> QED
    BY <2>1 DEF Row
<1>2. ASSUME NEW u \in Users, NEW p \in Passwords, ChangePassword(u, p) PROVE IInv'
  <2>1. [Row(u) EXCEPT !.password = p] \in UserRow
    BY <1>1 DEF UserRow
  <2> QED
    BY <1>2, <2>1, RewriteKeeps DEF ChangePassword
<1>3. ASSUME NEW u \in Users, NEW on \in BOOLEAN, Switch2fa(u, on) PROVE IInv'
  <2>1. [Row(u) EXCEPT !.is2faEnabled = on] \in UserRow
    BY <1>1 DEF UserRow
  <2> QED
    BY <1>3, <2>1, RewriteKeeps DEF Switch2fa
<1> QED
  BY <1>2, <1>3

LEMMA StutterKeeps == ASSUME IInv, UNCHANGED vars PROVE IInv'
<1>1. UNCHANGED <<table, code, devices, sessions, events, cookies, req>>
  BY DEF vars
<1>2. TypeOK' /\ Came' /\ DeviceFirst' /\ SessionsOnKnownDevices' /\ CodesStand'
  BY <1>1 DEF IInv, TypeOK, Came, DeviceFirst, SessionsOnKnownDevices, CodesStand,
              Known, Replaced
<1>3. Vouches' /\ Stamps'
  BY <1>1 DEF IInv, Vouches, Stamps, Stamped, Vouched
<1> QED
  BY <1>2, <1>3 DEF IInv

LEMMA NextKeeps == ASSUME IInv, [Next]_vars PROVE IInv'
<1>1. ASSUME NEW q \in Requests, LoginStep(q) PROVE IInv'
  BY <1>1, LoginKeeps, LoginRefusedKeeps, AuthenticateKeeps, QuietLoginKeeps,
     LogDeviceKeeps, OpenSessionKeeps DEF LoginStep
<1>2. ASSUME NEW q \in Requests, CodeStep(q) PROVE IInv'
  BY <1>2, StoreCodeKeeps, SendCodeKeeps, VerifyKeeps DEF CodeStep
<1> QED
  BY <1>1, <1>2, OtherWritersKeep, StutterKeeps DEF Next
-----------------------------------------------------------------------------
\* The inductive invariant holds of every behaviour.
LEMMA Inductive == Spec => []IInv
  BY InitIInv, NextKeeps, PTL DEF Spec

\* Every variable keeps its type.
THEOREM TypeCorrect == Spec => []TypeOK
<1>1. IInv => TypeOK
  BY DEF IInv
<1> QED
  BY <1>1, Inductive, PTL

\* A login takes effect as if it had looked at the user's row at one moment
\* (login-user.use-case.ts:28-58, auth.facade.ts:25-50).
THEOREM LoginsAreAtomic == Spec => []OneMoment
<1>1. IInv => OneMoment
  BY DEF IInv, Stamps, Stamped, OneMoment
<1> QED
  BY <1>1, Inductive, PTL

\* Every session is on a device of its user that is in KnownDevice
\* (login-user.use-case.ts:51-58).
THEOREM DevicesAreKnown == Spec => []SessionsOnKnownDevices
<1>1. IInv => SessionsOnKnownDevices
  BY DEF IInv
<1> QED
  BY <1>1, Inductive, PTL

\* A code that was mailed is on file until another login of its user replaces
\* it (two-factor.service.ts:20-25).
THEOREM MailedCodesStand == Spec => []MailedCodeStands
<1>1. IInv => MailedCodeStands
  <2> SUFFICES ASSUME IInv, NEW e \in events, code[e.user] # e.code
               PROVE  \E q \in Requests \ {e.by} :
                        /\ req[q].op = "login" /\ req[q].user = e.user
                        /\ req[q].code # None /\ req[q].code = code[e.user]
    BY DEF MailedCodeStands
  <2>1. /\ e.by \in Requests /\ req[e.by].op = "login" /\ req[e.by].user = e.user
        /\ req[e.by].code = e.code /\ e.code # None
    BY SignInAssumption DEF IInv, TypeOK, Stamps, Stamped
  <2>2. Replaced(e.by)
    BY <2>1 DEF IInv, CodesStand
  <2> QED
    BY <2>1, <2>2 DEF Replaced
<1> QED
  BY <1>1, Inductive, PTL
=============================================================================
