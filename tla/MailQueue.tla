----------------------------- MODULE MailQueue -----------------------------
(***************************************************************************)
(* From an answered request to a mail in somebody's inbox: AuthListener,   *)
(* MailService, MailProcessor and MailOrchestrator, around the BullMQ      *)
(* queue 'mail' (external, kept in Redis).                                 *)
(*                                                                         *)
(* The listener adds a job to the queue while the request is already being *)
(* answered and swallows every error of doing so.  The worker, one per     *)
(* process and one job at a time, renders and sends; a failed attempt is   *)
(* retried after a back-off, a job whose worker stopped is run once more.  *)
(***************************************************************************)
EXTENDS Integers, FiniteSets

CONSTANTS
  Mails,         \* mails that requests ask for, each at most once
  MaxFailures,   \* bound on the failures of Redis and SMTP
  MaxCrashes     \* bound on the times the process stops

ASSUME MailAssumption == MaxFailures \in Nat /\ MaxCrashes \in Nat

VARIABLES
  kind,       \* the mail's template, "none" before it is asked for
  answer,     \* of the request that asked: "none", "waiting", "ok" or "lost"
  job,        \* where the mail is
  tries,      \* attempts of the job that failed (Job.attemptsMade)
  stalls,     \* times its worker stopped (Job.stalledCounter)
  copies,     \* times the SMTP server accepted it
  failures, crashes

ghost == <<failures, crashes>>
vars == <<kind, answer, job, tries, stalls, copies, ghost>>

Kinds == {"verify-email", "password-reset", "two-factor-code"}

(* none: no job and no attempt to add one; adding: the listener awaits      *)
(* Queue.add; dropped: it failed; wait, delayed, active, completed, failed: *)
(* BullMQ's states; sent: active and accepted by the SMTP server; stalled:  *)
(* active on a worker that is no more.                                      *)
Places == {"none", "adding", "dropped", "wait", "delayed", "active", "sent",
           "stalled", "completed", "failed"}

\* Mutant of Attempts: one retry less, one more.
TwoAttempts == 2
FourAttempts == 4

\* The job options of every MailService method.
Attempts == 3

\* maxStalledCount, BullMQ's default.
MaxStalled == 1

Init ==
  /\ kind = [m \in Mails |-> "none"]
  /\ answer = [m \in Mails |-> "none"]
  /\ job = [m \in Mails |-> "none"]
  /\ tries = [m \in Mails |-> 0]
  /\ stalls = [m \in Mails |-> 0]
  /\ copies = [m \in Mails |-> 0]
  /\ failures = 0 /\ crashes = 0
-----------------------------------------------------------------------------
(* The requests.                                                            *)

\* A request asks for mail m; it emits the kind's event, or none at all.
Request(m, k, place) ==
  /\ kind[m] = "none"
  /\ kind' = [kind EXCEPT ![m] = k]
  /\ answer' = [answer EXCEPT ![m] = "waiting"]
  /\ job' = [job EXCEPT ![m] = place]
  /\ UNCHANGED <<tries, stalls, copies, ghost>>

\* EventEmitter2.emit runs the listener up to its first await: Queue.add.
Emit(m, k) == k # "verify-email" /\ Request(m, k, "adding")

\* AccountFacade.register promises a mail; nothing emits 'user.created'.
Register(m) == Request(m, "verify-email", "none")

\* The request is answered without waiting for the listener.
Answer(m) ==
  /\ answer[m] = "waiting"
  /\ answer' = [answer EXCEPT ![m] = "ok"]
  /\ UNCHANGED <<kind, job, tries, stalls, copies, ghost>>
-----------------------------------------------------------------------------
(* The listener and the worker.                                             *)
Move(m, from, to) == job[m] = from /\ job' = [job EXCEPT ![m] = to]

AFailure == failures < MaxFailures /\ failures' = failures + 1

Add(m) ==
  /\ Move(m, "adding", "wait")
  /\ UNCHANGED <<kind, answer, tries, stalls, copies, ghost>>

\* The listener logs the error and goes on.
AddFails(m) ==
  /\ Move(m, "adding", "dropped")
  /\ AFailure
  /\ UNCHANGED <<kind, answer, tries, stalls, copies, crashes>>

Busy == \E m \in Mails : job[m] \in {"active", "sent"}

\* Mutant of Take: a job that is being worked on can be taken once more.
TakeAgain(m) ==
  /\ \E from \in {"wait", "sent"} : Move(m, from, "active")
  /\ UNCHANGED <<kind, answer, tries, stalls, copies, ghost>>

Take(m) ==
  /\ ~Busy
  /\ Move(m, "wait", "active")
  /\ UNCHANGED <<kind, answer, tries, stalls, copies, ghost>>

\* MailOrchestrator.send: the SMTP server has the mail ...
Send(m) ==
  /\ Move(m, "active", "sent")
  /\ copies' = [copies EXCEPT ![m] = @ + 1]
  /\ UNCHANGED <<kind, answer, tries, stalls, ghost>>

\* ... and says so; process() returns.
Complete(m) ==
  /\ Move(m, "sent", "completed")
  /\ UNCHANGED <<kind, answer, tries, stalls, copies, ghost>>

\* Mutant of SendFails: off by one.
SendFailsLate(m) ==
  /\ job[m] \in {"active", "sent"}
  /\ AFailure
  /\ tries' = [tries EXCEPT ![m] = @ + 1]
  /\ Move(m, job[m], IF tries[m] < Attempts THEN "delayed" ELSE "failed")
  /\ UNCHANGED <<kind, answer, stalls, copies, crashes>>

\* process() throws: the server refused the mail, or accepted it but its
\* answer did not come.
SendFails(m) ==
  /\ job[m] \in {"active", "sent"}
  /\ AFailure
  /\ tries' = [tries EXCEPT ![m] = @ + 1]
  /\ Move(m, job[m], IF tries[m] + 1 < Attempts THEN "delayed" ELSE "failed")
  /\ UNCHANGED <<kind, answer, stalls, copies, crashes>>

\* The back-off is over.
Promote(m) ==
  /\ Move(m, "delayed", "wait")
  /\ UNCHANGED <<kind, answer, tries, stalls, copies, ghost>>

\* The process stops: what is not in Redis is gone.
Crash ==
  /\ crashes < MaxCrashes /\ crashes' = crashes + 1
  /\ answer' = [m \in Mails |->
                  IF answer[m] = "waiting" THEN "lost" ELSE answer[m]]
  /\ job' = [m \in Mails |-> CASE job[m] = "adding" -> "dropped"
                               [] job[m] \in {"active", "sent"} -> "stalled"
                               [] OTHER -> job[m]]
  /\ UNCHANGED <<kind, tries, stalls, copies, failures>>

\* BullMQ finds the job's lock expired.
Recover(m) ==
  /\ stalls' = [stalls EXCEPT ![m] = @ + 1]
  /\ Move(m, "stalled", IF stalls[m] < MaxStalled THEN "wait" ELSE "failed")
  /\ UNCHANGED <<kind, answer, tries, copies, ghost>>

Asking(m) ==
  \/ \E k \in Kinds : Emit(m, k)
  \/ Register(m) \/ Answer(m)

Working(m) == Take(m) \/ Send(m) \/ Complete(m) \/ Promote(m) \/ Recover(m)

Next ==
  \/ \E m \in Mails : Asking(m) \/ Add(m) \/ AddFails(m) \/ Working(m) \/ SendFails(m)
  \/ Crash

\* Redis answers Queue.add, one way or the other; the worker goes on as long as
\* the process is restarted; jobs wait in a first-in first-out list, so each
\* has its turn.  Nobody has to ask, fail or crash.
Fairness ==
  \A m \in Mails : /\ SF_vars(Take(m)) /\ WF_vars(Add(m) \/ AddFails(m))
                   /\ WF_vars(Send(m)) /\ WF_vars(Complete(m))
                   /\ WF_vars(Promote(m)) /\ WF_vars(Recover(m))

Spec == Init /\ [][Next]_vars
FairSpec == Spec /\ Fairness
-----------------------------------------------------------------------------
TypeOK ==
  /\ kind \in [Mails -> Kinds \cup {"none"}]
  /\ answer \in [Mails -> {"none", "waiting", "ok", "lost"}]
  /\ job \in [Mails -> Places]
  /\ tries \in [Mails -> 0..Attempts]
  /\ stalls \in [Mails -> 0..MaxStalled + 1]
  /\ copies \in [Mails -> Nat]
  /\ failures \in 0..MaxFailures /\ crashes \in 0..MaxCrashes

(* A mail arrives twice only when an attempt at it failed or its worker     *)
(* stopped: the queue is shared by every mail and every restart, yet no job *)
(* is run again that completed (mail.processor.ts:20-53).                   *)
CopiesExcused ==
  \A m \in Mails : copies[m] <= 1 + tries[m] + stalls[m]
                                + IF job[m] = "stalled" THEN 1 ELSE 0

(* No mail arrives more than four times, however attempts fail and workers  *)
(* stop: three attempts, and one more for the worker that stopped           *)
(* (mail.service.ts:52-55).                                                 *)
FourCopiesAtMost == \A m \in Mails : copies[m] <= 4

(* A mail a listener was told of is sent in the end, unless the queue       *)
(* refused the job, the process stopped before it was there, three attempts *)
(* at it failed or two workers stopped: nothing less loses a mail, whatever *)
(* happens to the others (auth.listener.ts:33-70, mail.service.ts:43-56).   *)
EmittedIsSent ==
  \A m \in Mails :
    job[m] = "adding" ~>
      \/ copies[m] > 0
      \/ job[m] = "dropped" /\ failures + crashes > 0
      \/ tries[m] = 3
      \/ stalls[m] = 2
-----------------------------------------------------------------------------
(* What the program tells its clients and does not see to.                  *)

Mailed(m) == job[m] \notin {"none", "dropped"}

(* "E-mail de recuperação enviado." (password.controller.ts:33) and         *)
(* "Password reset link sent to your email" (security.facade.ts:18): when   *)
(* the request has been answered the mail is sent, or will be.              *)
ForgotIsMailed ==
  \A m \in Mails : kind[m] = "password-reset" /\ answer[m] = "ok" => Mailed(m)
=============================================================================
