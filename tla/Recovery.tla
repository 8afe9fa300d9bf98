------------------------------ MODULE Recovery ------------------------------
(***************************************************************************)
(* A forgotten password from the request to the new one: PasswordReset and *)
(* MailQueue put together.                                                 *)
(*                                                                         *)
(* The event a request emits puts its token's mail on the way in the same  *)
(* step, and a client can present only a token whose mail has arrived.     *)
(* When the process stops, the requests under way, the listeners and the   *)
(* worker all stop at once; the tables and the queue stay.                 *)
(***************************************************************************)
EXTENDS Integers, FiniteSets

CONSTANTS
  Users, Passwords, Weak, Tokens, Requests, None, ResetTtl, MaxTime,
  MaxFailures, MaxCrashes

\* Those of the two components.
ASSUME RecoveryAssumption ==
  /\ Weak \subseteq Passwords
  /\ None \notin Users \cup Passwords \cup Tokens
  /\ ResetTtl \in Nat /\ MaxTime \in Nat
  /\ MaxFailures \in Nat /\ MaxCrashes \in Nat

VARIABLES
  resets, password, events, req, now,                            \* PasswordReset
  kind, answer, job, tries, stalls, copies, failures, crashes    \* MailQueue

Reset == INSTANCE PasswordReset
Mail == INSTANCE MailQueue WITH Mails <- Tokens

resetVars == <<resets, password, events, req, now>>
mailVars == <<kind, answer, job, tries, stalls, copies, failures, crashes>>
vars == <<resetVars, mailVars>>

Init == Reset!Init /\ Mail!Init

\* What is in the users' inboxes.
Arrived == {t \in Tokens : copies[t] > 0}
-----------------------------------------------------------------------------
Ask(q) ==
  /\ \/ \E u \in Users, t \in Tokens : Reset!Forgot(q, u, t)
     \/ Reset!ForgotUnknown(q) \/ Reset!ForgotStore(q)
  /\ UNCHANGED mailVars

\* Mutant of Emit: the event is emitted before the token is stored.
EmitFirst(q) ==
  /\ req[q].pc = "minted" /\ events' = events \cup {req[q].token}
  /\ Mail!Emit(req[q].token, "password-reset")
  /\ UNCHANGED <<resets, password, req, now>>

\* eventEmitter.emit runs the listener up to its first await.
Emit(q) ==
  Reset!ForgotEmit(q) /\ Mail!Emit(req[q].token, "password-reset")

Deliver(t) ==
  /\ Mail!Answer(t) \/ Mail!Add(t) \/ Mail!AddFails(t) \/ Mail!Working(t)
       \/ Mail!SendFails(t)
  /\ UNCHANGED resetVars

Redeem(q) ==
  /\ \/ \E t \in Arrived, p \in Passwords : Reset!ResetRead(q, t, p)
     \/ \E t \in Arrived \cup {None}, p \in Passwords : Reset!ResetDenied(q, t, p)
     \/ Reset!ResetUpdate(q) \/ Reset!ResetMark(q)
  /\ UNCHANGED mailVars

Fail(q) == Reset!Die({q}) /\ UNCHANGED mailVars

Stop ==
  LET running == {q \in Requests : Reset!UnderWay(q)}
  IN  /\ Mail!Crash
      /\ \/ Reset!Die(running)
         \/ running = {} /\ UNCHANGED resetVars

Tick == Reset!Tick /\ UNCHANGED mailVars

Next ==
  \/ \E q \in Requests : Ask(q) \/ Emit(q) \/ Redeem(q) \/ Fail(q)
  \/ \E t \in Tokens : Deliver(t)
  \/ Stop \/ Tick

Spec == Init /\ [][Next]_vars
-----------------------------------------------------------------------------
(* Put together, each component still does only what it promises alone, so  *)
(* that what is shown of PasswordReset and of MailQueue holds of both       *)
(* (request-password-reset.use-case.ts:23-28, auth.listener.ts:33-50).      *)
ComponentsKept == Reset!Spec /\ Mail!Spec

(* A link that has arrived is refused to a good password only after its     *)
(* hour or after a reset with it: never because the process stopped between *)
(* storing the token and mailing it, nor because another link was asked for *)
(* meanwhile (request-password-reset.use-case.ts:23-28,                     *)
(* reset-password.use-case.ts:16-20).                                       *)
GoodLinkAccepted ==
  \A q \in Requests :
    /\ req[q].op = "reset" /\ req[q].pc = "denied"
    /\ req[q].token # None /\ req[q].pass \notin Weak
    => \/ \E f \in Requests : /\ req[f].op = "forgot"
                              /\ req[f].token = req[q].token
                              /\ req[f].exp < req[q].at
       \/ \E r \in Requests : /\ req[r].op = "reset" /\ req[r].pc = "ok"
                              /\ req[r].token = req[q].token
=============================================================================
