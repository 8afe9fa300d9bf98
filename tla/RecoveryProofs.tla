--------------------------- MODULE RecoveryProofs ---------------------------
(***************************************************************************)
(* What is proved of PasswordReset and of MailQueue holds of them put      *)
(* together, for every set of users, passwords, tokens and requests.       *)
(*                                                                         *)
(* A step of Recovery is a step of each component or leaves it alone.  What *)
(* has to be shown for it is that a client's token, whose mail arrived, was *)
(* emitted, and that an emitted token is one the queue knows.              *)
(***************************************************************************)
EXTENDS Recovery, TLAPS

(* The components' proofs, of the same variables.                          *)
Token == INSTANCE PasswordResetProofs
Queue == INSTANCE MailQueueProofs WITH Mails <- Tokens

LEMMA SameReset ==
  /\ Reset!Init <=> Token!Init
  /\ [Reset!Next]_(Reset!vars) <=> [Token!Next]_(Token!vars)
  BY DEF Reset!Init, Reset!Idle, Reset!Next, Reset!vars, Reset!Forgot,
         Reset!FreshToken, Reset!Begin, Reset!Advance, Reset!ForgotUnknown,
         Reset!ForgotStore, Reset!ForgotEmit, Reset!Usable, Reset!ResetRead,
         Reset!ResetDenied, Reset!MarkRows, Reset!ResetUpdate, Reset!ResetMark,
         Reset!UnderWay, Reset!Die, Reset!Tick,
         Token!Init, Token!Idle, Token!Next, Token!vars, Token!Forgot,
         Token!FreshToken, Token!Begin, Token!Advance, Token!ForgotUnknown,
         Token!ForgotStore, Token!ForgotEmit, Token!Usable, Token!ResetRead,
         Token!ResetDenied, Token!MarkRows, Token!ResetUpdate, Token!ResetMark,
         Token!UnderWay, Token!Die, Token!Tick

LEMMA SameMail ==
  /\ Mail!Init <=> Queue!Init
  /\ [Mail!Next]_(Mail!vars) <=> [Queue!Next]_(Queue!vars)
  BY DEF Mail!Init, Mail!Next, Mail!vars, Mail!ghost, Mail!Kinds, Mail!Attempts,
         Mail!MaxStalled, Mail!Request, Mail!Emit, Mail!Register, Mail!Answer,
         Mail!Move, Mail!AFailure, Mail!Add, Mail!AddFails, Mail!Busy, Mail!Take,
         Mail!Send, Mail!Complete, Mail!SendFails, Mail!Promote, Mail!Crash,
         Mail!Recover, Mail!Asking, Mail!Working,
         Queue!Init, Queue!Next, Queue!vars, Queue!ghost, Queue!Kinds, Queue!Attempts,
         Queue!MaxStalled, Queue!Request, Queue!Emit, Queue!Register, Queue!Answer,
         Queue!Move, Queue!AFailure, Queue!Add, Queue!AddFails, Queue!Busy, Queue!Take,
         Queue!Send, Queue!Complete, Queue!SendFails, Queue!Promote, Queue!Crash,
         Queue!Recover, Queue!Asking, Queue!Working

\* A mail that is on its way, or arrived, is of a token that was emitted.
Carried == \A t \in Tokens : job[t] # "none" \/ copies[t] > 0 => t \in events

IInv == Token!LinkInv /\ Queue!IInv /\ Carried
-----------------------------------------------------------------------------
\* The request of the token that is about to be mailed.
LEMMA StoredHasToken ==
  ASSUME IInv, NEW q \in Requests, req[q].pc = "stored" PROVE req[q].token \in Tokens
  BY DEF IInv, Token!LinkInv, Token!IInv, Token!Shape

LEMMA ArrivedWasEmitted == ASSUME IInv PROVE Arrived \subseteq events
  BY DEF IInv, Carried, Arrived

LEMMA ResetSteps == ASSUME IInv, [Next]_vars PROVE [Reset!Next]_(Reset!vars)
<1>1. ASSUME NEW q \in Requests, Ask(q) \/ Emit(q) PROVE Reset!Next
  BY <1>1 DEF Ask, Emit, Reset!Next
<1>2. ASSUME NEW q \in Requests, Redeem(q) PROVE Reset!Next
  BY <1>2, ArrivedWasEmitted DEF Redeem, Reset!Next
<1>3. ASSUME NEW q \in Requests, Fail(q) PROVE Reset!Next
  BY <1>3 DEF Fail, Reset!Next
<1>4. CASE Stop
  BY <1>4 DEF Stop, Reset!Next, resetVars, Reset!vars
<1>5. CASE Tick
  BY <1>5 DEF Tick, Reset!Next
<1>6. ASSUME UNCHANGED resetVars PROVE UNCHANGED Reset!vars
  BY <1>6 DEF resetVars, Reset!vars
<1> QED
  BY <1>1, <1>2, <1>3, <1>4, <1>5, <1>6 DEF Next, Deliver, vars

LEMMA MailSteps == ASSUME IInv, [Next]_vars PROVE [Mail!Next]_(Mail!vars)
<1>1. ASSUME NEW q \in Requests, Emit(q) PROVE Mail!Next
  <2>1. req[q].pc = "stored"
    BY <1>1 DEF Emit, Reset!ForgotEmit, Reset!Advance
  <2>2. req[q].token \in Tokens /\ Mail!Emit(req[q].token, "password-reset")
    BY <1>1, <2>1, StoredHasToken DEF Emit
  <2>3. Mail!Asking(req[q].token)
    BY <2>2 DEF Mail!Asking, Mail!Kinds
  <2> QED
    BY <2>2, <2>3 DEF Mail!Next
<1>2. ASSUME NEW t \in Tokens, Deliver(t) PROVE Mail!Next
  BY <1>2 DEF Deliver, Mail!Next, Mail!Asking
<1>3. CASE Stop
  BY <1>3 DEF Stop, Mail!Next
<1>4. ASSUME UNCHANGED mailVars PROVE UNCHANGED Mail!vars
  BY <1>4 DEF mailVars, Mail!vars, Mail!ghost
<1> QED
  BY <1>1, <1>2, <1>3, <1>4 DEF Next, Ask, Redeem, Fail, Tick, vars
-----------------------------------------------------------------------------
LEMMA InitIInv == Init => IInv
<1> SUFFICES ASSUME Init PROVE IInv
  OBVIOUS
<1>1. Token!Init /\ Queue!Init
  BY SameReset, SameMail DEF Init
<1>2. Token!LinkInv
  BY <1>1, Token!InitLinkInv, RecoveryAssumption
<1>3. Queue!IInv
  BY <1>1, Queue!InitIInv, RecoveryAssumption
<1>4. Carried
  BY <1>1 DEF Queue!Init, Carried
<1> QED
  BY <1>2, <1>3, <1>4 DEF IInv

\* A delivery leaves every mail where no job was.
LEMMA DeliverCarries ==
  ASSUME IInv, NEW t \in Tokens, Deliver(t) PROVE Carried'
<1>1. events' = events
  BY DEF Deliver, resetVars
<1>2. job \in [Tokens -> Queue!Places] /\ copies \in [Tokens -> Nat]
  BY DEF IInv, Queue!IInv, Queue!TypeOK
<1>3. \A o \in Tokens : o # t => job'[o] = job[o] /\ copies'[o] = copies[o]
  BY <1>2 DEF Deliver, Mail!Answer, Mail!Add, Mail!AddFails, Mail!Working, Mail!SendFails,
              Mail!Take, Mail!Send, Mail!Complete, Mail!Promote, Mail!Recover, Mail!Move
<1>4. job[t] # "none" \/ (job'[t] = job[t] /\ copies'[t] = copies[t])
  BY <1>2 DEF Deliver, Mail!Answer, Mail!Add, Mail!AddFails, Mail!Working, Mail!SendFails,
              Mail!Take, Mail!Send, Mail!Complete, Mail!Promote, Mail!Recover, Mail!Move
<1> QED
  BY <1>1, <1>3, <1>4 DEF IInv, Carried

LEMMA NextKeeps == ASSUME IInv, [Next]_vars PROVE IInv'
<1>1. Token!LinkInv'
  BY ResetSteps, SameReset, Token!LinkNextKeeps, RecoveryAssumption DEF IInv
<1>2. Queue!IInv'
  BY MailSteps, SameMail, Queue!NextKeeps, RecoveryAssumption DEF IInv
<1>3. ASSUME NEW q \in Requests, Emit(q) PROVE Carried'
  <2>1. PICK t \in Tokens : t = req[q].token
    BY <1>3, StoredHasToken DEF Emit, Reset!ForgotEmit, Reset!Advance
  <2>2. events' = events \cup {t} /\ job' = [job EXCEPT ![t] = "adding"] /\ copies' = copies
    BY <1>3, <2>1 DEF Emit, Reset!ForgotEmit, Mail!Emit, Mail!Request
  <2>3. \A o \in Tokens : o # t => job'[o] = job[o]
    BY <2>2 DEF IInv, Queue!IInv, Queue!TypeOK
  <2> QED
    BY <2>2, <2>3 DEF IInv, Carried
<1>4. ASSUME Stop PROVE Carried'
  <2>1. events' = events /\ copies' = copies
    BY <1>4 DEF Stop, Mail!Crash, Reset!Die, resetVars
  <2>2. \A t \in Tokens : job[t] = "none" => job'[t] = "none"
    BY <1>4 DEF Stop, Mail!Crash
  <2> QED
    BY <2>1, <2>2 DEF IInv, Carried
<1>5. ASSUME UNCHANGED <<events, job, copies>> PROVE Carried'
  BY <1>5 DEF IInv, Carried
<1>6. ASSUME NEW q \in Requests, Ask(q) \/ Redeem(q) \/ Fail(q)
      PROVE  UNCHANGED <<events, job, copies>>
  BY <1>6 DEF Ask, Redeem, Fail, mailVars, Reset!Forgot, Reset!ForgotUnknown,
              Reset!ForgotStore, Reset!ResetRead, Reset!ResetDenied, Reset!ResetUpdate,
              Reset!ResetMark, Reset!Die
<1>7. ASSUME Tick \/ UNCHANGED vars PROVE Carried'
  BY <1>5, <1>7 DEF Tick, vars, resetVars, mailVars, Reset!Tick
<1>8. Carried'
  BY <1>3, <1>4, <1>5, <1>6, <1>7, DeliverCarries DEF Next
<1> QED
  BY <1>1, <1>2, <1>8 DEF IInv

LEMMA Inductive == Spec => []IInv
  BY InitIInv, NextKeeps, PTL DEF Spec

(* Put together, each component does only what it promises alone           *)
(* (request-password-reset.use-case.ts:23-28, auth.listener.ts:33-50).     *)
THEOREM ComponentsStandAlone == Spec => ComponentsKept
<1>1. Spec => Reset!Spec
  BY Inductive, ResetSteps, PTL DEF Spec, Init, Reset!Spec
<1>2. Spec => Mail!Spec
  BY Inductive, MailSteps, PTL DEF Spec, Init, Mail!Spec
<1> QED
  BY <1>1, <1>2 DEF ComponentsKept

(* A link that arrived is refused to a good password only after its hour   *)
(* or after a reset with it, whatever stops meanwhile                      *)
(* (reset-password.use-case.ts:16-20).                                     *)
THEOREM GoodLinksAccepted == Spec => []GoodLinkAccepted
<1>1. IInv => GoodLinkAccepted
  BY DEF IInv, Token!LinkInv, Token!RefusedForCause, Token!Refused, Token!Cause,
         GoodLinkAccepted
<1> QED
  BY <1>1, Inductive, PTL

(* What the components' own runs check.                                    *)
Promised ==
  Reset!EffectIsBound /\ Reset!BurntOnlyByReset /\ Mail!CopiesExcused /\ Mail!FourCopiesAtMost

(* What each component promises alone, it promises to the users of both:   *)
(* a reset is bound to its link, a link is burnt only by a reset, and its  *)
(* mail arrives no more often than attempts allow                          *)
(* (reset-password.use-case.ts:16-26, mail.processor.ts:20-53).            *)
THEOREM PromisesKept == Spec => []Promised
<1>1. IInv => Reset!EffectIsBound /\ Reset!BurntOnlyByReset
  BY DEF IInv, Token!LinkInv, Token!IInv, Token!EffectIsBound, Token!BurntOnlyByReset,
         Token!TakesEffect, Reset!EffectIsBound, Reset!BurntOnlyByReset, Reset!TakesEffect
<1>2. IInv => Mail!CopiesExcused /\ Mail!FourCopiesAtMost
  BY Queue!CopiesBound, Queue!FourCopiesBound, RecoveryAssumption
     DEF IInv, Mail!CopiesExcused, Queue!CopiesExcused, Mail!FourCopiesAtMost,
         Queue!FourCopiesAtMost
<1>3. IInv => Promised
  BY <1>1, <1>2 DEF Promised
<1> QED
  BY <1>3, Inductive, PTL
=============================================================================
