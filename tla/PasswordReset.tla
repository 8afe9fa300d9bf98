--------------------------- MODULE PasswordReset ---------------------------
(***************************************************************************)
(* Forgotten passwords: RequestPasswordResetUseCase, ResetPasswordUseCase  *)
(* and PasswordResetRepository.                                            *)
(*                                                                         *)
(* Setting the new password and marking the token as used are two          *)
(* statements with no database transaction around them, and the check that *)
(* the token is unused is a third, earlier one.  Requests interleave       *)
(* between any two of them and may stop there for good.                    *)
(***************************************************************************)
EXTENDS Integers, FiniteSets

CONSTANTS
  Users,
  Passwords, Weak,   \* passwords, and those shorter than 8 characters
  Tokens,            \* nanoid(32) values
  Requests,          \* HTTP requests, each used once
  None,
  ResetTtl,          \* 3600000 ms
  MaxTime            \* bound of the clock

ASSUME ResetAssumption ==
  /\ Weak \subseteq Passwords
  /\ None \notin Users \cup Passwords \cup Tokens
  /\ ResetTtl \in Nat /\ MaxTime \in Nat

VARIABLES
  resets,     \* the rows of table PasswordReset
  password,   \* column User.password: None is the one chosen at registration
  events,     \* tokens of the 'password.reset.requested' events emitted
  req,        \* each request's progress and local variables
  now         \* Date.now()

vars == <<resets, password, events, req, now>>

(* new: not sent; minted: about to insert a token; stored: the token is in  *)
(* the table; hashing: the token was found valid, bcrypt is running;        *)
(* updated: the password is set, the token not yet marked.                  *)
Pcs == {"new", "minted", "stored", "hashing", "updated", "ok", "denied", "died"}

Reset == [token : Tokens, userId : Users, expiresAt : Nat, used : BOOLEAN]

Request == [pc : Pcs, op : {"none", "forgot", "reset"},
            user : Users \cup {None}, token : Tokens \cup {None},
            pass : Passwords \cup {None}, exp : Nat, at : Nat]

Idle == [pc |-> "new", op |-> "none", user |-> None, token |-> None,
         pass |-> None, exp |-> 0, at |-> 0]

Init ==
  /\ resets = {}
  /\ password = [u \in Users |-> None]
  /\ events = {}
  /\ req = [q \in Requests |-> Idle]
  /\ now = 0
-----------------------------------------------------------------------------
Begin(q, job) == req[q].pc = "new" /\ req' = [req EXCEPT ![q] = job]

Advance(q, from, to) ==
  req[q].pc = from /\ req' = [req EXCEPT ![q] = [@ EXCEPT !.pc = to]]

\* nanoid(32) does not repeat.
FreshToken(t) == \A q \in Requests : req[q].op = "forgot" => req[q].token # t

(* RequestPasswordResetUseCase: look the user up (an unknown address is     *)
(* refused), mint a token that lives one hour, ...                          *)
Forgot(q, u, t) ==
  /\ FreshToken(t)
  /\ Begin(q, [Idle EXCEPT !.pc = "minted", !.op = "forgot", !.user = u,
                           !.token = t, !.exp = now + ResetTtl])
  /\ UNCHANGED <<resets, password, events, now>>

\* Mutant of ForgotUnknown: the missing user is not noticed.
ForgotUnchecked(q) ==
  /\ \E t \in Tokens :
       /\ FreshToken(t)
       /\ Begin(q, [Idle EXCEPT !.pc = "minted", !.op = "forgot", !.token = t])
  /\ UNCHANGED <<resets, password, events, now>>

ForgotUnknown(q) ==
  /\ Begin(q, [Idle EXCEPT !.pc = "denied", !.op = "forgot"])
  /\ UNCHANGED <<resets, password, events, now>>

(* ... store it, ...                                                        *)
ForgotStore(q) ==
  /\ Advance(q, "minted", "stored")
  /\ resets' = resets \cup {[token |-> req[q].token, userId |-> req[q].user,
                             expiresAt |-> req[q].exp, used |-> FALSE]}
  /\ UNCHANGED <<password, events, now>>

(* ... and only then tell the listener that mails it.                       *)
ForgotEmit(q) ==
  /\ Advance(q, "stored", "ok")
  /\ events' = events \cup {req[q].token}
  /\ UNCHANGED <<resets, password, now>>

\* Mutant of Usable: the used mark is not looked at.
UsableAgain(row) == ~(row.expiresAt < now)

\* Mutant of Usable: the expiry is not looked at.
UsableForever(row) == ~row.used

\* !reset.usedAt and not expired.
Usable(row) == ~row.used /\ ~(row.expiresAt < now)

(* ResetPasswordUseCase: find the token and check it, ...                   *)
ResetRead(q, t, p) ==
  /\ p \notin Weak
  /\ \E row \in resets :
       /\ row.token = t /\ Usable(row)
       /\ Begin(q, [Idle EXCEPT !.pc = "hashing", !.op = "reset",
                                !.user = row.userId, !.token = t, !.pass = p,
                                !.at = now])
  /\ UNCHANGED <<resets, password, events, now>>

(* ... refuse a bad token (401) or a weak password (400), ...               *)
ResetDenied(q, t, p) ==
  /\ p \in Weak \/ ~\E row \in resets : row.token = t /\ Usable(row)
  /\ Begin(q, [Idle EXCEPT !.pc = "denied", !.op = "reset", !.token = t,
                           !.pass = p, !.at = now])
  /\ UNCHANGED <<resets, password, events, now>>

\* update ... set usedAt where id is the token's row
MarkRows(q) ==
  resets' = {IF row.token = req[q].token THEN [row EXCEPT !.used = TRUE]
             ELSE row : row \in resets}

\* Mutant of ResetUpdate: the token is marked before the password is set.
ResetMarkFirst(q) ==
  /\ Advance(q, "hashing", "updated")
  /\ MarkRows(q)
  /\ UNCHANGED <<password, events, now>>

(* ... set the password of the token's user, ...                            *)
ResetUpdate(q) ==
  /\ Advance(q, "hashing", "updated")
  /\ password' = [password EXCEPT ![req[q].user] = req[q].pass]
  /\ UNCHANGED <<resets, events, now>>

(* ... and mark the token, by its row's id.                                 *)
ResetMark(q) ==
  /\ Advance(q, "updated", "ok")
  /\ MarkRows(q)
  /\ UNCHANGED <<password, events, now>>

UnderWay(q) == req[q].pc \in {"minted", "stored", "hashing", "updated"}

(* A statement of a request fails, or the process stops and every request   *)
(* under way ends between two statements.                                   *)
Die(Q) ==
  /\ Q # {} /\ \A q \in Q : UnderWay(q)
  /\ req' = [q \in Requests |->
               IF q \in Q THEN [req[q] EXCEPT !.pc = "died"] ELSE req[q]]
  /\ UNCHANGED <<resets, password, events, now>>

Tick ==
  now < MaxTime /\ now' = now + 1 /\ UNCHANGED <<resets, password, events, req>>

Next ==
  \/ \E q \in Requests :
       \/ \E u \in Users, t \in Tokens : Forgot(q, u, t)
       \/ ForgotUnknown(q) \/ ForgotStore(q) \/ ForgotEmit(q)
       \/ \E t \in events, p \in Passwords : ResetRead(q, t, p)
       \/ \E t \in events \cup {None}, p \in Passwords : ResetDenied(q, t, p)
       \/ ResetUpdate(q) \/ ResetMark(q)
  \/ \E Q \in SUBSET Requests : Die(Q)
  \/ Tick

Spec == Init /\ [][Next]_vars
-----------------------------------------------------------------------------
TypeOK ==
  /\ resets \subseteq Reset
  /\ password \in [Users -> Passwords \cup {None}]
  /\ events \subseteq Tokens
  /\ req \in [Requests -> Request]
  /\ now \in Nat

TakesEffect(q) ==
  req[q].op = "reset" /\ req[q].pc \in {"hashing", "updated", "ok"}

(* A reset goes ahead only for the user a token was minted for, and only if *)
(* it began within that token's hour - though bcrypt may end after it       *)
(* (reset-password.use-case.ts:16-25).                                      *)
EffectIsBound ==
  \A q \in Requests : TakesEffect(q) =>
    \E f \in Requests : /\ req[f].op = "forgot"
                        /\ req[f].token = req[q].token
                        /\ req[f].user = req[q].user
                        /\ req[q].at <= req[f].exp

(* A token is burnt only by a reset that has already set the password: a    *)
(* crash, a weak password or a late request never costs the user the link   *)
(* they were mailed (reset-password.use-case.ts:18-26).                     *)
BurntOnlyByReset ==
  \A row \in resets : row.used =>
    /\ password[row.userId] # None
    /\ \E q \in Requests : /\ req[q].op = "reset" /\ req[q].pc = "ok"
                           /\ req[q].token = row.token
                           /\ req[q].user = row.userId

(* Once a reset has been answered, its token starts no other: a token works *)
(* twice only for requests that overlap, or after a crash before the mark   *)
(* (reset-password.use-case.ts:18,26).                                      *)
StartsSpent ==
  \E q, r \in Requests :
    /\ req[r].op = "reset" /\ req[r].pc = "ok"
    /\ req[q].pc = "new" /\ req'[q].pc = "hashing"
    /\ req'[q].token = req[r].token

SpentForGood == [][~StartsSpent]_vars
=============================================================================
