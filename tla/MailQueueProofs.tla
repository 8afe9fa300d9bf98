-------------------------- MODULE MailQueueProofs --------------------------
(***************************************************************************)
(* Safety of MailQueue for every set of mails and every number of failures *)
(* and crashes.                                                            *)
(*                                                                         *)
(* A copy is an attempt's: each attempt that ended, by a failure or by its *)
(* worker's end, accounts for one, and the one under way for another.  A   *)
(* job that is not given up has an attempt and a stall left.               *)
(***************************************************************************)
EXTENDS MailQueue, TLAPS

UnderWay(m) == IF job[m] \in {"sent", "completed", "stalled"} THEN 1 ELSE 0

Accounted == \A m \in Mails : copies[m] <= tries[m] + stalls[m] + UnderWay(m)

\* A stalled job's last stall is not counted yet.
Spared ==
  \A m \in Mails :
    /\ job[m] # "failed" => tries[m] < Attempts /\ stalls[m] <= MaxStalled
    /\ job[m] = "failed" => tries[m] + stalls[m] <= Attempts + MaxStalled

Unasked == \A m \in Mails : kind[m] = "none" => job[m] = "none"

IInv == TypeOK /\ Accounted /\ Spared /\ Unasked
-----------------------------------------------------------------------------
LEMMA InitIInv == Init => IInv
  BY MailAssumption
     DEF Init, IInv, TypeOK, Accounted, Spared, Unasked, UnderWay, Kinds, Places, Attempts,
         MaxStalled

LEMMA StutterKeeps == ASSUME IInv, UNCHANGED vars PROVE IInv'
  BY DEF IInv, TypeOK, Accounted, Spared, Unasked, UnderWay, vars, ghost

\* A step of one mail: what it must leave true of it.
LEMMA MailKeeps ==
  ASSUME IInv, NEW m \in Mails, NEW place \in Places,
         job' = [job EXCEPT ![m] = place],
         kind' \in [Mails -> Kinds \cup {"none"}],
         \A o \in Mails : o # m => kind'[o] = kind[o],
         kind'[m] = "none" => place = "none",
         answer' \in [Mails -> {"none", "waiting", "ok", "lost"}],
         tries' \in [Mails -> 0..Attempts], stalls' \in [Mails -> 0..MaxStalled + 1],
         copies' \in [Mails -> Nat],
         \A o \in Mails : o # m =>
           tries'[o] = tries[o] /\ stalls'[o] = stalls[o] /\ copies'[o] = copies[o],
         failures' \in 0..MaxFailures, crashes' \in 0..MaxCrashes,
         copies'[m] <= tries'[m] + stalls'[m]
                       + (IF place \in {"sent", "completed", "stalled"} THEN 1 ELSE 0),
         place # "failed" => tries'[m] < Attempts /\ stalls'[m] <= MaxStalled,
         place = "failed" => tries'[m] + stalls'[m] <= Attempts + MaxStalled
  PROVE  IInv'
<1>1. /\ job' \in [Mails -> Places] /\ job'[m] = place
      /\ \A o \in Mails : o # m => job'[o] = job[o]
  BY DEF IInv, TypeOK
<1>2. TypeOK'
  BY <1>1 DEF TypeOK
<1>3. Accounted'
  <2> SUFFICES ASSUME NEW o \in Mails
               PROVE  copies'[o] <= tries'[o] + stalls'[o]
                                    + (IF job'[o] \in {"sent", "completed", "stalled"}
                                       THEN 1 ELSE 0)
    BY DEF Accounted, UnderWay
  <2>1. CASE o = m
    BY <1>1, <2>1
  <2>2. CASE o # m
    BY <1>1, <2>2 DEF IInv, Accounted, UnderWay
  <2> QED
    BY <2>1, <2>2
<1>4. Spared'
  <2> SUFFICES ASSUME NEW o \in Mails
               PROVE  /\ job'[o] # "failed" => tries'[o] < Attempts /\ stalls'[o] <= MaxStalled
                      /\ job'[o] = "failed" => tries'[o] + stalls'[o] <= Attempts + MaxStalled
    BY DEF Spared
  <2>1. CASE o = m
    BY <1>1, <2>1
  <2>2. CASE o # m
    BY <1>1, <2>2 DEF IInv, Spared
  <2> QED
    BY <2>1, <2>2
<1>5. Unasked'
  BY <1>1 DEF IInv, Unasked
<1> QED
  BY <1>2, <1>3, <1>4, <1>5 DEF IInv

\* The numbers of one mail.
LEMMA Numbers ==
  ASSUME IInv, NEW m \in Mails
  PROVE  /\ copies[m] \in Nat /\ tries[m] \in 0..3 /\ stalls[m] \in 0..2
         /\ job[m] \in Places
         /\ copies[m] <= tries[m] + stalls[m]
                         + (IF job[m] \in {"sent", "completed", "stalled"} THEN 1 ELSE 0)
         /\ job[m] # "failed" => tries[m] < 3 /\ stalls[m] <= 1
  BY DEF IInv, TypeOK, Accounted, Spared, UnderWay, Attempts, MaxStalled
-----------------------------------------------------------------------------
\* A step that changes the place only, from one where no copy is pending or
\* to one where it still is.
LEMMA MoveKeeps ==
  ASSUME IInv, NEW m \in Mails, NEW from, NEW to \in Places \ {"failed"},
         Move(m, from, to),
         from # "failed",
         from \in {"sent", "completed", "stalled"} => to \in {"sent", "completed", "stalled"},
         kind' \in [Mails -> Kinds \cup {"none"}],
         \A o \in Mails : o # m => kind'[o] = kind[o],
         kind'[m] = "none" => to = "none",
         answer' \in [Mails -> {"none", "waiting", "ok", "lost"}],
         failures' \in 0..MaxFailures, crashes' \in 0..MaxCrashes,
         UNCHANGED <<tries, stalls, copies>>
  PROVE  IInv'
<1>1. job[m] = from /\ job' = [job EXCEPT ![m] = to]
  BY DEF Move
<1>2. copies[m] <= tries[m] + stalls[m]
                   + (IF to \in {"sent", "completed", "stalled"} THEN 1 ELSE 0)
  BY <1>1, Numbers
<1>3. tries[m] < Attempts /\ stalls[m] <= MaxStalled
  BY <1>1 DEF IInv, Spared
<1>4. /\ tries' \in [Mails -> 0..Attempts] /\ stalls' \in [Mails -> 0..MaxStalled + 1]
      /\ copies' \in [Mails -> Nat]
  BY DEF IInv, TypeOK
<1> QED
  BY <1>1, <1>2, <1>3, <1>4, MailKeeps

\* The same, of a mail that has been asked for already.
LEMMA PlainMoveKeeps ==
  ASSUME IInv, NEW m \in Mails, NEW from \in Places \ {"none", "failed"},
         NEW to \in Places \ {"failed"}, Move(m, from, to),
         from \in {"sent", "completed", "stalled"} => to \in {"sent", "completed", "stalled"},
         failures' \in 0..MaxFailures,
         UNCHANGED <<kind, answer, tries, stalls, copies, crashes>>
  PROVE  IInv'
<1>1. /\ kind' \in [Mails -> Kinds \cup {"none"}]
      /\ answer' \in [Mails -> {"none", "waiting", "ok", "lost"}]
      /\ crashes' \in 0..MaxCrashes
  BY DEF IInv, TypeOK
<1>2. kind[m] # "none"
  BY DEF IInv, Unasked, Move
<1> QED
  BY <1>1, <1>2, MoveKeeps

LEMMA RequestKeeps ==
  ASSUME IInv, NEW m \in Mails, NEW k \in Kinds, NEW place \in {"none", "adding"},
         Request(m, k, place)
  PROVE  IInv'
<1>1. /\ kind' \in [Mails -> Kinds \cup {"none"}] /\ kind'[m] = k
      /\ \A o \in Mails : o # m => kind'[o] = kind[o]
      /\ answer' \in [Mails -> {"none", "waiting", "ok", "lost"}]
      /\ failures' \in 0..MaxFailures /\ crashes' \in 0..MaxCrashes
      /\ UNCHANGED <<tries, stalls, copies>>
  BY DEF IInv, TypeOK, Request, ghost
<1>2. Move(m, "none", place)
  BY DEF IInv, Unasked, Request, Move
<1>3. k # "none"
  BY DEF Kinds
<1> QED
  BY <1>1, <1>2, <1>3, MoveKeeps DEF Places

LEMMA AskingKeeps == ASSUME IInv, NEW m \in Mails, Asking(m) PROVE IInv'
<1>1. CASE \E k \in Kinds : Emit(m, k)
  BY <1>1, RequestKeeps DEF Emit
<1>2. CASE Register(m)
  BY <1>2, RequestKeeps DEF Register, Kinds
<1>3. CASE Answer(m)
  <2>1. /\ answer' \in [Mails -> {"none", "waiting", "ok", "lost"}]
        /\ UNCHANGED <<kind, job, tries, stalls, copies, failures, crashes>>
    BY <1>3 DEF IInv, TypeOK, Answer, ghost
  <2> QED
    BY <2>1 DEF IInv, TypeOK, Accounted, Spared, Unasked, UnderWay
<1> QED
  BY <1>1, <1>2, <1>3 DEF Asking

LEMMA QuietMoveKeeps ==
  ASSUME IInv, NEW m \in Mails,
         Add(m) \/ AddFails(m) \/ Take(m) \/ Complete(m) \/ Promote(m)
  PROVE  IInv'
<1>1. failures \in 0..MaxFailures
  BY DEF IInv, TypeOK
<1>2. CASE Add(m)
  BY <1>1, <1>2, PlainMoveKeeps DEF Add, Places, ghost
<1>3. CASE AddFails(m)
  <2>1. failures' \in 0..MaxFailures
    BY <1>1, <1>3, MailAssumption DEF AddFails, AFailure
  <2> QED
    BY <1>3, <2>1, PlainMoveKeeps DEF AddFails, Places
<1>4. CASE Take(m)
  BY <1>1, <1>4, PlainMoveKeeps DEF Take, Places, ghost
<1>5. CASE Complete(m)
  BY <1>1, <1>5, PlainMoveKeeps DEF Complete, Places, ghost
<1>6. CASE Promote(m)
  BY <1>1, <1>6, PlainMoveKeeps DEF Promote, Places, ghost
<1> QED
  BY <1>2, <1>3, <1>4, <1>5, <1>6

LEMMA SendKeeps == ASSUME IInv, NEW m \in Mails, Send(m) PROVE IInv'
<1>1. /\ job[m] = "active" /\ job' = [job EXCEPT ![m] = "sent"]
      /\ UNCHANGED <<kind, answer, tries, stalls, failures, crashes>>
  BY DEF Send, Move, ghost
<1>2. /\ copies' \in [Mails -> Nat] /\ copies'[m] = copies[m] + 1
      /\ \A o \in Mails : o # m => copies'[o] = copies[o]
  BY DEF IInv, TypeOK, Send
<1>3. copies'[m] <= tries[m] + stalls[m] + 1
  BY <1>1, <1>2, Numbers
<1>4. tries[m] < Attempts /\ stalls[m] <= MaxStalled /\ kind[m] # "none"
  BY <1>1 DEF IInv, Spared, Unasked
<1>5. /\ kind' \in [Mails -> Kinds \cup {"none"}]
      /\ answer' \in [Mails -> {"none", "waiting", "ok", "lost"}]
      /\ tries' \in [Mails -> 0..Attempts] /\ stalls' \in [Mails -> 0..MaxStalled + 1]
      /\ failures' \in 0..MaxFailures /\ crashes' \in 0..MaxCrashes
  BY <1>1 DEF IInv, TypeOK
<1> QED
  BY <1>1, <1>2, <1>3, <1>4, <1>5, MailKeeps DEF Places

\* A failed attempt is counted; its copy, if there is one, was the pending one.
LEMMA SendFailsKeeps == ASSUME IInv, NEW m \in Mails, SendFails(m) PROVE IInv'
<1> DEFINE place == IF tries[m] + 1 < Attempts THEN "delayed" ELSE "failed"
<1>1. /\ job[m] \in {"active", "sent"} /\ job' = [job EXCEPT ![m] = place]
      /\ UNCHANGED <<kind, answer, stalls, copies, crashes>>
  BY DEF SendFails, Move
<1>2. tries[m] \in 0..3 /\ tries[m] < 3 /\ stalls[m] \in 0..2 /\ stalls[m] <= 1
  BY <1>1, Numbers
<1>3. /\ tries' \in [Mails -> 0..Attempts] /\ tries'[m] = tries[m] + 1
      /\ \A o \in Mails : o # m => tries'[o] = tries[o]
  BY <1>2 DEF IInv, TypeOK, SendFails, Attempts
<1>4. copies[m] <= tries'[m] + stalls[m]
  BY <1>1, <1>2, <1>3, Numbers
<1>5. \/ place = "delayed" /\ tries'[m] < Attempts
      \/ place = "failed" /\ tries'[m] = 3
  BY <1>2, <1>3 DEF Attempts
<1> HIDE DEF place
<1>6. kind[m] # "none"
  BY <1>1 DEF IInv, Unasked
<1>7. /\ place \in Places
      /\ copies'[m] <= tries'[m] + stalls'[m]
                       + (IF place \in {"sent", "completed", "stalled"} THEN 1 ELSE 0)
      /\ place # "failed" => tries'[m] < Attempts /\ stalls'[m] <= MaxStalled
      /\ place = "failed" => tries'[m] + stalls'[m] <= Attempts + MaxStalled
  <2>1. copies'[m] <= tries'[m] + stalls'[m]
    BY <1>1, <1>4
  <2>2. copies[m] \in Nat /\ tries'[m] + stalls'[m] \in Int
    BY <1>1, <1>2, <1>3, Numbers
  <2>3. stalls'[m] <= MaxStalled
    BY <1>1, <1>2 DEF MaxStalled
  <2>4. CASE place = "delayed" /\ tries'[m] < Attempts
    BY <2>1, <2>4, <2>2, <2>3, <1>1 DEF Places
  <2>5. CASE place = "failed" /\ tries'[m] = 3
    <3>1. tries'[m] + stalls'[m] <= Attempts + MaxStalled
      BY <2>5, <1>1, <1>2 DEF Attempts, MaxStalled
    <3> QED
      BY <2>1, <2>5, <2>2, <3>1, <1>1 DEF Places
  <2> QED
    BY <1>5, <2>4, <2>5
<1>8. /\ kind' \in [Mails -> Kinds \cup {"none"}]
      /\ answer' \in [Mails -> {"none", "waiting", "ok", "lost"}]
      /\ stalls' \in [Mails -> 0..MaxStalled + 1] /\ copies' \in [Mails -> Nat]
      /\ failures' \in 0..MaxFailures /\ crashes' \in 0..MaxCrashes
  BY <1>1, MailAssumption DEF IInv, TypeOK, SendFails, AFailure
<1> QED
  BY <1>1, <1>3, <1>6, <1>7, <1>8, MailKeeps

LEMMA RecoverKeeps == ASSUME IInv, NEW m \in Mails, Recover(m) PROVE IInv'
<1> DEFINE place == IF stalls[m] < MaxStalled THEN "wait" ELSE "failed"
<1>1. /\ job[m] = "stalled" /\ job' = [job EXCEPT ![m] = place]
      /\ UNCHANGED <<kind, answer, tries, copies, failures, crashes>>
  BY DEF Recover, Move, ghost
<1>2. tries[m] \in 0..3 /\ tries[m] < 3 /\ stalls[m] \in 0..2 /\ stalls[m] <= 1
  BY <1>1, Numbers
<1>3. /\ stalls' \in [Mails -> 0..MaxStalled + 1] /\ stalls'[m] = stalls[m] + 1
      /\ \A o \in Mails : o # m => stalls'[o] = stalls[o]
  BY <1>2 DEF IInv, TypeOK, Recover, MaxStalled
<1>4. copies[m] <= tries[m] + stalls'[m]
  BY <1>1, <1>2, <1>3, Numbers
<1>5. \/ place = "wait" /\ stalls'[m] <= MaxStalled
      \/ place = "failed" /\ stalls'[m] = 2
  BY <1>2, <1>3 DEF MaxStalled
<1> HIDE DEF place
<1>6. kind[m] # "none"
  BY <1>1 DEF IInv, Unasked
<1>7. /\ place \in Places
      /\ copies'[m] <= tries'[m] + stalls'[m]
                       + (IF place \in {"sent", "completed", "stalled"} THEN 1 ELSE 0)
      /\ place # "failed" => tries'[m] < Attempts /\ stalls'[m] <= MaxStalled
      /\ place = "failed" => tries'[m] + stalls'[m] <= Attempts + MaxStalled
  <2>1. copies'[m] <= tries'[m] + stalls'[m]
    BY <1>1, <1>4
  <2>2. copies[m] \in Nat /\ tries'[m] + stalls'[m] \in Int
    BY <1>1, <1>2, <1>3, Numbers
  <2>3. tries'[m] < Attempts
    BY <1>1, <1>2 DEF Attempts
  <2>4. CASE place = "wait" /\ stalls'[m] <= MaxStalled
    BY <2>1, <2>4, <2>2, <2>3, <1>1 DEF Places
  <2>5. CASE place = "failed" /\ stalls'[m] = 2
    <3>1. tries'[m] + stalls'[m] <= Attempts + MaxStalled
      BY <2>5, <1>1, <1>2 DEF Attempts, MaxStalled
    <3> QED
      BY <2>1, <2>5, <2>2, <3>1, <1>1 DEF Places
  <2> QED
    BY <1>5, <2>4, <2>5
<1>8. /\ kind' \in [Mails -> Kinds \cup {"none"}]
      /\ answer' \in [Mails -> {"none", "waiting", "ok", "lost"}]
      /\ tries' \in [Mails -> 0..Attempts] /\ copies' \in [Mails -> Nat]
      /\ failures' \in 0..MaxFailures /\ crashes' \in 0..MaxCrashes
  BY <1>1 DEF IInv, TypeOK
<1> QED
  BY <1>1, <1>3, <1>6, <1>7, <1>8, MailKeeps

\* When the process stops, what was pending on a worker is pending as stalled.
LEMMA CrashKeeps == ASSUME IInv, Crash PROVE IInv'
<1>1. /\ crashes' \in 0..MaxCrashes
      /\ UNCHANGED <<kind, tries, stalls, copies, failures>>
      /\ answer' = [m \in Mails |-> IF answer[m] = "waiting" THEN "lost" ELSE answer[m]]
  BY MailAssumption DEF IInv, TypeOK, Crash
<1>2. job' = [m \in Mails |-> CASE job[m] = "adding" -> "dropped"
                                [] job[m] \in {"active", "sent"} -> "stalled"
                                [] OTHER -> job[m]]
  BY DEF Crash
<1>3. ASSUME NEW m \in Mails
      PROVE  \/ job[m] = "adding" /\ job'[m] = "dropped"
             \/ job[m] \in {"active", "sent"} /\ job'[m] = "stalled"
             \/ job'[m] = job[m]
  BY <1>2
<1>4. job' \in [Mails -> Places]
  <2>1. \A m \in Mails : job[m] \in Places
    BY DEF IInv, TypeOK
  <2>2. \A m \in Mails : job'[m] \in Places
    BY <1>3, <2>1 DEF Places
  <2>3. job' = [m \in Mails |-> job'[m]]
    BY <1>2
  <2> QED
    BY <2>2, <2>3
<1>5. answer' \in [Mails -> {"none", "waiting", "ok", "lost"}]
  BY <1>1 DEF IInv, TypeOK
<1>6. TypeOK'
  BY <1>1, <1>4, <1>5 DEF IInv, TypeOK
<1>7. Accounted'
  <2> SUFFICES ASSUME NEW m \in Mails
               PROVE  copies[m] <= tries[m] + stalls[m]
                                   + (IF job'[m] \in {"sent", "completed", "stalled"}
                                      THEN 1 ELSE 0)
    BY <1>1 DEF Accounted, UnderWay
  <2> QED
    BY <1>3, Numbers
<1>8. Spared' /\ Unasked'
  BY <1>1, <1>3 DEF IInv, Spared, Unasked
<1> QED
  BY <1>6, <1>7, <1>8 DEF IInv

LEMMA NextKeeps == ASSUME IInv, [Next]_vars PROVE IInv'
<1>1. ASSUME NEW m \in Mails, Working(m) PROVE IInv'
  BY <1>1, QuietMoveKeeps, SendKeeps, RecoverKeeps DEF Working
<1> QED
  BY <1>1, AskingKeeps, QuietMoveKeeps, SendFailsKeeps, CrashKeeps, StutterKeeps DEF Next
-----------------------------------------------------------------------------
\* The inductive invariant holds of every behaviour.
LEMMA Inductive == Spec => []IInv
  BY InitIInv, NextKeeps, PTL DEF Spec

\* Every variable keeps its type; no job fails four times.
THEOREM TypeCorrect == Spec => []TypeOK
<1>1. IInv => TypeOK
  BY DEF IInv
<1> QED
  BY <1>1, Inductive, PTL

LEMMA CopiesBound == IInv => CopiesExcused
<1> SUFFICES ASSUME IInv, NEW m \in Mails
             PROVE  copies[m] <= 1 + tries[m] + stalls[m]
                                 + IF job[m] = "stalled" THEN 1 ELSE 0
  BY DEF CopiesExcused
<1> QED
  BY Numbers

\* A mail arrives twice only when an attempt failed or its worker stopped
\* (mail.processor.ts:20-53).
THEOREM CopiesAreExcused == Spec => []CopiesExcused
  BY CopiesBound, Inductive, PTL

LEMMA FourCopiesBound == IInv => FourCopiesAtMost
<1> SUFFICES ASSUME IInv, NEW m \in Mails PROVE copies[m] <= 4
  BY DEF FourCopiesAtMost
<1>1. job[m] = "failed" => tries[m] + stalls[m] <= 4
  BY DEF IInv, Spared, Attempts, MaxStalled
<1> QED
  BY <1>1, Numbers

\* No mail arrives more than four times (mail.service.ts:52-55).
THEOREM FourCopies == Spec => []FourCopiesAtMost
  BY FourCopiesBound, Inductive, PTL
=============================================================================
