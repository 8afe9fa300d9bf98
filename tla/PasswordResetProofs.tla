------------------------ MODULE PasswordResetProofs ------------------------
(***************************************************************************)
(* Safety of PasswordReset for every set of users, passwords, tokens and   *)
(* requests.                                                               *)
(*                                                                         *)
(* The inductive invariant follows a token: one request minted it, its row *)
(* carries what that request stored, a reset that got past the check finds *)
(* the row there for the same user, and an answered reset leaves it marked.*)
(***************************************************************************)
EXTENDS PasswordReset, TLAPS

Shape ==
  \A q \in Requests :
    /\ req[q].pc = "new" => req[q].op = "none"
    /\ req[q].pc \in {"minted", "stored"} =>
         req[q].op = "forgot" /\ req[q].user \in Users /\ req[q].token \in Tokens
    /\ req[q].pc \in {"hashing", "updated"} =>
         /\ req[q].op = "reset" /\ req[q].user \in Users
         /\ req[q].token \in Tokens /\ req[q].pass \in Passwords
    /\ req[q].op = "forgot" => req[q].pc \in {"minted", "stored", "ok", "denied", "died"}
    /\ req[q].op = "forgot" /\ req[q].pc # "denied" => req[q].token # None

DistinctTokens ==
  \A f, g \in Requests :
    /\ req[f].op = "forgot" /\ req[g].op = "forgot"
    /\ req[f].token = req[g].token /\ req[f].token # None
    => f = g

RowOrigin ==
  \A row \in resets : \E f \in Requests :
    /\ req[f].op = "forgot" /\ req[f].pc \notin {"minted", "denied"}
    /\ req[f].token = row.token /\ req[f].user = row.userId
    /\ req[f].exp = row.expiresAt

\* A reset that got past the check: its row is there.
RowStays ==
  \A q \in Requests : TakesEffect(q) =>
    \E row \in resets : row.token = req[q].token

UpdatedIsSet ==
  \A q \in Requests :
    req[q].op = "reset" /\ req[q].pc = "updated" => password[req[q].user] # None

OkIsMarked ==
  \A q \in Requests, row \in resets :
    req[q].op = "reset" /\ req[q].pc = "ok" /\ row.token = req[q].token => row.used

IInv ==
  /\ TypeOK /\ Shape /\ DistinctTokens /\ RowOrigin /\ RowStays /\ UpdatedIsSet
  /\ OkIsMarked /\ EffectIsBound /\ BurntOnlyByReset
-----------------------------------------------------------------------------
LEMMA InitIInv == Init => IInv
  BY DEF Init, IInv, TypeOK, Shape, DistinctTokens, RowOrigin, RowStays,
         UpdatedIsSet, OkIsMarked, EffectIsBound, BurntOnlyByReset,
         TakesEffect, Request, Idle, Pcs

(* Only one request changes in a step, ...                                  *)
Others(q) == \A r \in Requests \ {q} : req'[r] = req[r]

(* ... and one that only moves on keeps its data.                           *)
Moves(q, from, to) ==
  /\ req[q].pc = from /\ req'[q].pc = to
  /\ req'[q].op = req[q].op /\ req'[q].user = req[q].user
  /\ req'[q].token = req[q].token /\ req'[q].pass = req[q].pass
  /\ req'[q].exp = req[q].exp /\ req'[q].at = req[q].at
  /\ Others(q)

LEMMA AdvanceEffect ==
  ASSUME TypeOK, NEW q \in Requests, NEW from, NEW to \in Pcs, Advance(q, from, to)
  PROVE  Moves(q, from, to) /\ req' \in [Requests -> Request]
<1>1. req[q] \in Request
  BY DEF TypeOK
<1>2. [req[q] EXCEPT !.pc = to] \in Request
  BY <1>1 DEF Request
<1> QED
  BY <1>1, <1>2 DEF Advance, Moves, Others, TypeOK, Request

LEMMA BeginEffect ==
  ASSUME TypeOK, NEW q \in Requests, NEW job \in Request, Begin(q, job)
  PROVE  /\ req[q].pc = "new" /\ req'[q] = job /\ Others(q)
         /\ req' \in [Requests -> Request]
  BY DEF Begin, Others, TypeOK

(* A request begins and the tables stay as they are.                        *)
LEMMA ForgotKeeps ==
  ASSUME IInv, NEW q \in Requests, NEW u \in Users, NEW t \in Tokens, Forgot(q, u, t)
  PROVE  IInv'
<1> DEFINE job == [Idle EXCEPT !.pc = "minted", !.op = "forgot", !.user = u,
                               !.token = t, !.exp = now + ResetTtl]
<1>0. now + ResetTtl \in Nat
  BY ResetAssumption DEF IInv, TypeOK
<1>1. job \in Request
  BY <1>0 DEF Idle, Request, Pcs
<1>2. /\ job.pc = "minted" /\ job.op = "forgot" /\ job.user = u /\ job.token = t
      /\ t # None
  BY ResetAssumption DEF Idle
<1> HIDE DEF job
<1>3. /\ req[q].pc = "new" /\ req'[q] = job /\ Others(q)
      /\ req' \in [Requests -> Request]
      /\ UNCHANGED <<resets, password, events, now>>
  BY <1>1, BeginEffect DEF Forgot, job, IInv
<1> USE DEF Others
<1>4. TypeOK'
  BY <1>3 DEF IInv, TypeOK
<1>5. Shape'
  BY <1>2, <1>3 DEF IInv, Shape
<1>6. DistinctTokens'
  BY <1>2, <1>3 DEF IInv, DistinctTokens, Forgot, FreshToken
<1>7. \A r \in Requests : TakesEffect(r)' => TakesEffect(r) /\ req'[r] = req[r]
  BY <1>2, <1>3 DEF TakesEffect
<1>8. \A r \in Requests : req[r].op # "none" => r # q /\ req'[r] = req[r]
  BY <1>3 DEF IInv, Shape
<1>9. RowOrigin' /\ RowStays' /\ EffectIsBound' /\ BurntOnlyByReset'
  BY <1>3, <1>7, <1>8
     DEF IInv, RowOrigin, RowStays, EffectIsBound, BurntOnlyByReset
<1>10. UpdatedIsSet' /\ OkIsMarked'
  BY <1>2, <1>3 DEF IInv, UpdatedIsSet, OkIsMarked
<1> QED
  BY <1>4, <1>5, <1>6, <1>9, <1>10 DEF IInv

LEMMA RefusalKeeps ==
  ASSUME IInv, NEW q \in Requests,
         \/ ForgotUnknown(q)
         \/ \E t \in events \cup {None}, p \in Passwords : ResetDenied(q, t, p)
  PROVE  IInv'
<1>1. PICK job \in Request : /\ Begin(q, job) /\ job.pc = "denied"
                             /\ job.op = "forgot" => job.token = None
                             /\ job.op \in {"forgot", "reset"}
  <2>1. CASE ForgotUnknown(q)
    <3> DEFINE job == [Idle EXCEPT !.pc = "denied", !.op = "forgot"]
    <3>1. /\ job \in Request /\ job.pc = "denied" /\ job.op = "forgot"
          /\ job.token = None
      BY DEF Idle, Request, Pcs
    <3> QED
      BY <2>1, <3>1 DEF ForgotUnknown
  <2>2. ASSUME NEW t \in events \cup {None}, NEW p \in Passwords,
               ResetDenied(q, t, p)
        PROVE  \E job \in Request : /\ Begin(q, job) /\ job.pc = "denied"
                                    /\ job.op = "reset"
    <3> DEFINE job == [Idle EXCEPT !.pc = "denied", !.op = "reset",
                                   !.token = t, !.pass = p, !.at = now]
    <3>1. t \in Tokens \cup {None} /\ now \in Nat
      BY DEF IInv, TypeOK
    <3>2. job \in Request /\ job.pc = "denied" /\ job.op = "reset"
      BY <3>1 DEF Idle, Request, Pcs
    <3> QED
      BY <2>2, <3>2 DEF ResetDenied
  <2> QED
    BY <2>1, <2>2
<1>2. UNCHANGED <<resets, password, events, now>>
  BY DEF ForgotUnknown, ResetDenied
<1>3. /\ req[q].pc = "new" /\ req'[q] = job /\ Others(q)
      /\ req' \in [Requests -> Request]
  BY <1>1, BeginEffect DEF IInv
<1> USE DEF Others
<1>4. TypeOK'
  BY <1>2, <1>3 DEF IInv, TypeOK
<1>5. Shape'
  BY <1>1, <1>3 DEF IInv, Shape
<1>6. DistinctTokens'
  BY <1>1, <1>3 DEF IInv, DistinctTokens
<1>7. \A r \in Requests : TakesEffect(r)' => TakesEffect(r) /\ req'[r] = req[r]
  BY <1>1, <1>3 DEF TakesEffect
<1>8. \A r \in Requests : req[r].op # "none" => r # q /\ req'[r] = req[r]
  BY <1>3 DEF IInv, Shape
<1>9. RowOrigin' /\ RowStays' /\ EffectIsBound' /\ BurntOnlyByReset'
  BY <1>2, <1>3, <1>7, <1>8
     DEF IInv, RowOrigin, RowStays, EffectIsBound, BurntOnlyByReset
<1>10. UpdatedIsSet' /\ OkIsMarked'
  BY <1>1, <1>2, <1>3 DEF IInv, UpdatedIsSet, OkIsMarked
<1> QED
  BY <1>4, <1>5, <1>6, <1>9, <1>10 DEF IInv

LEMMA ResetReadKeeps ==
  ASSUME IInv, NEW q \in Requests, NEW t \in events, NEW p \in Passwords,
         ResetRead(q, t, p)
  PROVE  IInv'
<1>1. PICK row \in resets :
        /\ row.token = t /\ Usable(row)
        /\ Begin(q, [Idle EXCEPT !.pc = "hashing", !.op = "reset",
                                 !.user = row.userId, !.token = t, !.pass = p,
                                 !.at = now])
  BY DEF ResetRead
<1> DEFINE job == [Idle EXCEPT !.pc = "hashing", !.op = "reset",
                               !.user = row.userId, !.token = t, !.pass = p,
                               !.at = now]
<1>2. row \in Reset /\ t \in Tokens /\ now \in Nat
  BY DEF IInv, TypeOK
<1>3. job \in Request
  BY <1>2 DEF Idle, Request, Pcs, Reset
<1>4. /\ job.pc = "hashing" /\ job.op = "reset" /\ job.user = row.userId
      /\ job.token = t /\ job.pass = p /\ job.at = now
  BY DEF Idle
<1> HIDE DEF job
<1>5. /\ req[q].pc = "new" /\ req'[q] = job /\ Others(q)
      /\ req' \in [Requests -> Request]
      /\ UNCHANGED <<resets, password, events, now>>
  BY <1>1, <1>3, BeginEffect DEF ResetRead, job, IInv
<1> USE DEF Others
<1>6. TypeOK'
  BY <1>5 DEF IInv, TypeOK
<1>7. Shape'
  BY <1>2, <1>4, <1>5 DEF IInv, Shape, Reset
<1>8. \A r \in Requests : req[r].op # "none" => r # q /\ req'[r] = req[r]
  BY <1>5 DEF IInv, Shape
<1>9. DistinctTokens'
  BY <1>4, <1>5 DEF IInv, DistinctTokens
<1>10. RowOrigin' /\ BurntOnlyByReset'
  BY <1>5, <1>8 DEF IInv, RowOrigin, BurntOnlyByReset
<1>11. RowStays'
  BY <1>1, <1>4, <1>5 DEF IInv, RowStays, TakesEffect
<1>12. EffectIsBound'
  <2>1. PICK f \in Requests : /\ req[f].op = "forgot"
                              /\ req[f].token = t /\ req[f].user = row.userId
                              /\ req[f].exp = row.expiresAt
    BY <1>1 DEF IInv, RowOrigin
  <2>2. now <= req[f].exp
    BY <1>1, <1>2, <2>1 DEF Usable, Reset
  <2>3. f # q /\ req'[f] = req[f]
    BY <1>8, <2>1
  <2> QED
    BY <1>4, <1>5, <1>8, <2>1, <2>2, <2>3 DEF IInv, EffectIsBound, TakesEffect
<1>13. UpdatedIsSet' /\ OkIsMarked'
  BY <1>4, <1>5 DEF IInv, UpdatedIsSet, OkIsMarked
<1> QED
  BY <1>6, <1>7, <1>9, <1>10, <1>11, <1>12, <1>13 DEF IInv

(* The steps that move a request on.                                        *)
LEMMA ForgotStoreKeeps ==
  ASSUME IInv, NEW q \in Requests, ForgotStore(q)
  PROVE  IInv'
<1> DEFINE new == [token |-> req[q].token, userId |-> req[q].user,
                   expiresAt |-> req[q].exp, used |-> FALSE]
<1>1. /\ Moves(q, "minted", "stored") /\ req' \in [Requests -> Request]
      /\ resets' = resets \cup {new} /\ UNCHANGED <<password, events, now>>
  BY AdvanceEffect DEF ForgotStore, IInv, Pcs
<1>2. req[q].op = "forgot" /\ req[q].user \in Users /\ req[q].token \in Tokens
  BY <1>1 DEF Moves, IInv, Shape
<1>3. /\ new \in Reset /\ new.token = req[q].token /\ new.userId = req[q].user
      /\ new.expiresAt = req[q].exp /\ new.used = FALSE
  BY <1>2 DEF IInv, TypeOK, Request, Reset
<1> HIDE DEF new
<1>4. \A row \in resets : row.token # req[q].token
  BY <1>1, <1>2, ResetAssumption DEF Moves, IInv, RowOrigin, DistinctTokens
<1>5. \A r \in Requests : TakesEffect(r)' <=> TakesEffect(r)
  BY <1>1, <1>2 DEF TakesEffect, Moves, Others
<1>6. \A r \in Requests : TakesEffect(r) => req[r].token # req[q].token
  BY <1>4 DEF IInv, RowStays
<1> USE DEF Moves, Others
<1>7. TypeOK'
  BY <1>1, <1>3 DEF IInv, TypeOK
<1>8. Shape'
  BY <1>1, <1>2 DEF IInv, Shape
<1>9. DistinctTokens'
  BY <1>1 DEF IInv, DistinctTokens
<1>10. RowOrigin'
  BY <1>1, <1>2, <1>3 DEF IInv, RowOrigin
<1>11. RowStays'
  BY <1>1, <1>5 DEF IInv, RowStays
<1>12. UpdatedIsSet'
  BY <1>1 DEF IInv, UpdatedIsSet
<1>13. OkIsMarked'
  BY <1>1, <1>2, <1>3, <1>6 DEF IInv, OkIsMarked, TakesEffect
<1>14. EffectIsBound'
  BY <1>1, <1>5 DEF IInv, EffectIsBound
<1>15. BurntOnlyByReset'
  BY <1>1, <1>2, <1>3 DEF IInv, BurntOnlyByReset
<1> QED
  BY <1>7, <1>8, <1>9, <1>10, <1>11, <1>12, <1>13, <1>14, <1>15 DEF IInv

(* Moving on without touching a table.                                      *)
LEMMA QuietKeeps ==
  ASSUME IInv, NEW q \in Requests, NEW from \in Pcs, NEW to \in Pcs,
         \/ from = "stored" /\ to = "ok"
         \/ from \in {"minted", "stored", "hashing", "updated"} /\ to = "died",
         Moves(q, from, to), req' \in [Requests -> Request],
         UNCHANGED <<resets, password, now>>, events' \subseteq Tokens
  PROVE  IInv'
<1> USE DEF Moves, Others
<1>1. TypeOK'
  BY DEF IInv, TypeOK
<1>2. Shape'
  BY DEF IInv, Shape
<1>3. DistinctTokens'
  BY DEF IInv, DistinctTokens
<1>4. RowOrigin'
  BY DEF IInv, RowOrigin
<1>5. req[q].op = "reset" => to = "died"
  BY DEF IInv, Shape
<1>6. \A r \in Requests :
        TakesEffect(r)' => TakesEffect(r) /\ r # q /\ req'[r] = req[r]
  BY <1>5 DEF TakesEffect
<1>7. RowStays'
  BY <1>6 DEF IInv, RowStays
<1>8. UpdatedIsSet' /\ OkIsMarked'
  BY <1>5 DEF IInv, UpdatedIsSet, OkIsMarked
<1>9. EffectIsBound'
  BY <1>6 DEF IInv, EffectIsBound
<1>10. BurntOnlyByReset'
  BY DEF IInv, BurntOnlyByReset
<1> QED
  BY <1>1, <1>2, <1>3, <1>4, <1>7, <1>8, <1>9, <1>10 DEF IInv

LEMMA ResetUpdateKeeps ==
  ASSUME IInv, NEW q \in Requests, ResetUpdate(q)
  PROVE  IInv'
<1>1. /\ Moves(q, "hashing", "updated") /\ req' \in [Requests -> Request]
      /\ password' = [password EXCEPT ![req[q].user] = req[q].pass]
      /\ UNCHANGED <<resets, events, now>>
  BY AdvanceEffect DEF ResetUpdate, IInv, Pcs
<1>2. /\ req[q].op = "reset" /\ req[q].user \in Users /\ req[q].pass \in Passwords
      /\ req[q].token \in Tokens
  BY <1>1 DEF Moves, IInv, Shape
<1>3. \A u \in Users : password[u] # None => password'[u] # None
  BY <1>1, <1>2, ResetAssumption DEF IInv, TypeOK
<1>4. password'[req[q].user] # None
  BY <1>1, <1>2, ResetAssumption DEF IInv, TypeOK
<1>5. \A r \in Requests : TakesEffect(r)' <=> TakesEffect(r)
  BY <1>1, <1>2 DEF TakesEffect, Moves, Others
<1> USE DEF Moves, Others
<1>6. TypeOK'
  BY <1>1, <1>2 DEF IInv, TypeOK
<1>7. Shape'
  BY <1>1, <1>2 DEF IInv, Shape
<1>8. DistinctTokens' /\ RowOrigin'
  BY <1>1 DEF IInv, DistinctTokens, RowOrigin
<1>9. RowStays' /\ EffectIsBound'
  BY <1>1, <1>5 DEF IInv, RowStays, EffectIsBound
<1>10. UpdatedIsSet'
  BY <1>1, <1>2, <1>3, <1>4 DEF IInv, UpdatedIsSet, Shape
<1>11. OkIsMarked'
  BY <1>1 DEF IInv, OkIsMarked
<1>12. BurntOnlyByReset'
  BY <1>1, <1>2, <1>3 DEF IInv, BurntOnlyByReset, TypeOK, Reset
<1> QED
  BY <1>6, <1>7, <1>8, <1>9, <1>10, <1>11, <1>12 DEF IInv

LEMMA ResetMarkKeeps ==
  ASSUME IInv, NEW q \in Requests, ResetMark(q)
  PROVE  IInv'
<1>1. /\ Moves(q, "updated", "ok") /\ req' \in [Requests -> Request]
      /\ UNCHANGED <<password, events, now>>
  BY AdvanceEffect DEF ResetMark, IInv, Pcs
<1>2. /\ req[q].op = "reset" /\ req[q].user \in Users /\ req[q].token \in Tokens
      /\ password[req[q].user] # None
  BY <1>1 DEF Moves, IInv, Shape, UpdatedIsSet
<1>3. \A row \in resets : row.token = req[q].token => row.userId = req[q].user
  BY <1>1, <1>2, ResetAssumption
     DEF IInv, RowOrigin, EffectIsBound, DistinctTokens, TakesEffect, Moves
<1>4. ASSUME NEW after \in resets'
      PROVE  /\ after \in Reset
             /\ \/ after \in resets /\ after.token # req[q].token
                \/ /\ after.used /\ after.token = req[q].token
                   /\ \E row \in resets : /\ row.token = after.token
                                          /\ row.userId = after.userId
                                          /\ row.expiresAt = after.expiresAt
  <2>1. PICK row \in resets :
          after = IF row.token = req[q].token THEN [row EXCEPT !.used = TRUE]
                  ELSE row
    BY DEF ResetMark, MarkRows
  <2>2. row \in Reset
    BY DEF IInv, TypeOK
  <2> QED
    BY <2>1, <2>2 DEF Reset
<1>5. ASSUME NEW row \in resets
      PROVE  \E after \in resets' : after.token = row.token
  <2> DEFINE after == IF row.token = req[q].token THEN [row EXCEPT !.used = TRUE]
                      ELSE row
  <2>1. after \in resets'
    BY DEF ResetMark, MarkRows
  <2>2. after.token = row.token
    BY DEF IInv, TypeOK, Reset
  <2> QED
    BY <2>1, <2>2
<1>6. \A r \in Requests : TakesEffect(r)' <=> TakesEffect(r)
  BY <1>1, <1>2 DEF TakesEffect, Moves, Others
<1> USE DEF Moves, Others
<1>7. TypeOK'
  BY <1>1, <1>4 DEF IInv, TypeOK
<1>8. Shape' /\ DistinctTokens' /\ UpdatedIsSet'
  BY <1>1, <1>2 DEF IInv, Shape, DistinctTokens, UpdatedIsSet
<1>9. RowOrigin'
  <2> SUFFICES ASSUME NEW after \in resets'
               PROVE  \E row \in resets : /\ row.token = after.token
                                          /\ row.userId = after.userId
                                          /\ row.expiresAt = after.expiresAt
    BY <1>1 DEF IInv, RowOrigin
  <2> QED
    BY <1>4
<1>10. RowStays'
  BY <1>1, <1>5, <1>6 DEF IInv, RowStays
<1>11. EffectIsBound'
  BY <1>1, <1>6 DEF IInv, EffectIsBound
<1>12. OkIsMarked'
  BY <1>1, <1>4 DEF IInv, OkIsMarked
<1>13. BurntOnlyByReset'
  BY <1>1, <1>2, <1>3, <1>4 DEF IInv, BurntOnlyByReset
<1> QED
  BY <1>7, <1>8, <1>9, <1>10, <1>11, <1>12, <1>13 DEF IInv

(* Requests that die keep their data and have no effect any more.           *)
LEMMA DieKeeps ==
  ASSUME IInv, NEW Q \in SUBSET Requests, Die(Q)
  PROVE  IInv'
<1>1. ASSUME NEW r \in Requests
      PROVE  /\ req'[r] \in Request
             /\ req'[r].op = req[r].op /\ req'[r].user = req[r].user
             /\ req'[r].token = req[r].token /\ req'[r].pass = req[r].pass
             /\ req'[r].exp = req[r].exp /\ req'[r].at = req[r].at
             /\ \/ req'[r].pc = req[r].pc
                \/ req'[r].pc = "died" /\ UnderWay(r)
  <2>1. req[r] \in Request
    BY DEF IInv, TypeOK
  <2>2. req'[r] = IF r \in Q THEN [req[r] EXCEPT !.pc = "died"] ELSE req[r]
    BY DEF Die
  <2>3. r \in Q => UnderWay(r)
    BY DEF Die
  <2> QED
    BY <2>1, <2>2, <2>3 DEF Request, Pcs
<1>2. UNCHANGED <<resets, password, events, now>>
  BY DEF Die
<1>3. req' \in [Requests -> Request]
  BY <1>1 DEF Die
<1>4. TypeOK'
  BY <1>2, <1>3 DEF IInv, TypeOK
<1>5. Shape'
  BY <1>1 DEF IInv, Shape, UnderWay
<1>6. DistinctTokens'
  BY <1>1 DEF IInv, DistinctTokens
<1>7. \A r \in Requests : TakesEffect(r)' => TakesEffect(r)
  BY <1>1 DEF TakesEffect
<1>8. RowOrigin'
  <2> SUFFICES ASSUME NEW row \in resets
               PROVE  \E f \in Requests :
                        /\ req'[f].op = "forgot" /\ req'[f].pc \notin {"minted", "denied"}
                        /\ req'[f].token = row.token /\ req'[f].user = row.userId
                        /\ req'[f].exp = row.expiresAt
    BY <1>2 DEF RowOrigin
  <2>1. PICK f \in Requests : /\ req[f].op = "forgot" /\ req[f].pc \notin {"minted", "denied"}
                              /\ req[f].token = row.token /\ req[f].user = row.userId
                              /\ req[f].exp = row.expiresAt
    BY DEF IInv, RowOrigin
  <2> QED
    BY <1>1, <2>1
<1>9. RowStays' /\ UpdatedIsSet' /\ OkIsMarked'
  BY <1>1, <1>2, <1>7 DEF IInv, RowStays, UpdatedIsSet, OkIsMarked, UnderWay
<1>10. EffectIsBound'
  <2> SUFFICES ASSUME NEW q \in Requests, TakesEffect(q)
               PROVE  \E f \in Requests :
                        /\ req'[f].op = "forgot" /\ req'[f].token = req'[q].token
                        /\ req'[f].user = req'[q].user /\ req'[q].at <= req'[f].exp
    BY <1>7 DEF EffectIsBound
  <2> QED
    BY <1>1 DEF IInv, EffectIsBound
<1>11. BurntOnlyByReset'
  BY <1>1, <1>2 DEF IInv, BurntOnlyByReset, UnderWay
<1> QED
  BY <1>4, <1>5, <1>6, <1>8, <1>9, <1>10, <1>11 DEF IInv

LEMMA NextKeeps == IInv /\ [Next]_vars => IInv'
<1> SUFFICES ASSUME IInv, [Next]_vars PROVE IInv'
  OBVIOUS
<1>1. ASSUME NEW q \in Requests, ForgotEmit(q)
      PROVE  IInv'
  <2>1. Moves(q, "stored", "ok") /\ req' \in [Requests -> Request]
    BY <1>1, AdvanceEffect DEF ForgotEmit, IInv, Pcs
  <2>2. events' \subseteq Tokens /\ UNCHANGED <<resets, password, now>>
    BY <1>1, <2>1 DEF ForgotEmit, Moves, IInv, Shape, TypeOK
  <2> QED
    BY <2>1, <2>2, QuietKeeps DEF Pcs
<1>2. CASE Tick \/ UNCHANGED vars
  BY <1>2 DEF Tick, vars, IInv, TypeOK, Shape, DistinctTokens, RowOrigin,
              RowStays, UpdatedIsSet, OkIsMarked, EffectIsBound,
              BurntOnlyByReset, TakesEffect
<1> QED
  BY <1>1, <1>2, ForgotKeeps, RefusalKeeps, ResetReadKeeps, DieKeeps,
     ForgotStoreKeeps, ResetUpdateKeeps, ResetMarkKeeps DEF Next

LEMMA IInvHolds == Spec => []IInv
  BY InitIInv, NextKeeps, PTL DEF Spec

(* Rows, requests and passwords keep their types.                           *)
THEOREM ResetTypes == Spec => []TypeOK
  BY IInvHolds, PTL DEF IInv

(* Resets are bound to the user and the hour of a minted token.             *)
THEOREM ResetsAreBound == Spec => []EffectIsBound
  BY IInvHolds, PTL DEF IInv

(* Nothing but a completed reset burns a token.                             *)
THEOREM TokensBurnByReset == Spec => []BurntOnlyByReset
  BY IInvHolds, PTL DEF IInv

(* An answered reset's token starts no other reset.                         *)
THEOREM TokensStaySpent == Spec => SpentForGood
<1>1. IInv /\ [Next]_vars => ~StartsSpent
  <2> SUFFICES ASSUME IInv, [Next]_vars, NEW q \in Requests, NEW r \in Requests,
                      req[r].op = "reset", req[r].pc = "ok",
                      req[q].pc = "new", req'[q].pc = "hashing",
                      req'[q].token = req[r].token
               PROVE  FALSE
    BY DEF StartsSpent
  <2>1. PICK t \in events, p \in Passwords : ResetRead(q, t, p)
    <3>1. ASSUME NEW i \in Requests, NEW to \in Pcs, Advance(i, req[i].pc, to)
          PROVE  to = "hashing"
      BY <3>1, AdvanceEffect DEF IInv, Moves, Others
    <3>2. ASSUME NEW i \in Requests, NEW job, Begin(i, job), job.pc # "hashing"
          PROVE  FALSE
      BY <3>2 DEF Begin, IInv, TypeOK
    <3>3. \A i \in Requests :
            ~ForgotStore(i) /\ ~ForgotEmit(i) /\ ~ResetUpdate(i)
            /\ ~ResetMark(i)
      <4> SUFFICES ASSUME NEW i \in Requests, NEW to \in Pcs,
                          Advance(i, req[i].pc, to), to # "hashing"
                   PROVE  FALSE
        BY DEF ForgotStore, ForgotEmit, ResetUpdate, ResetMark, Advance, Pcs
      <4> QED
        BY <3>1
    <3>4. \A i \in Requests :
            /\ \A u \in Users, t \in Tokens : ~Forgot(i, u, t)
            /\ ~ForgotUnknown(i)
            /\ \A t, p : ~ResetDenied(i, t, p)
      BY <3>2 DEF Forgot, ForgotUnknown, ResetDenied, Idle
    <3>5. ~Tick /\ ~UNCHANGED vars
      BY DEF Tick, vars
    <3>6. \A Q \in SUBSET Requests : ~Die(Q)
      <4> SUFFICES ASSUME NEW Q \in SUBSET Requests, Die(Q) PROVE FALSE
        OBVIOUS
      <4>1. req'[q] = IF q \in Q THEN [req[q] EXCEPT !.pc = "died"] ELSE req[q]
        BY DEF Die
      <4>2. req[q] \in Request
        BY DEF IInv, TypeOK
      <4> QED
        BY <4>1, <4>2 DEF Request
    <3>7. \A i \in Requests, t \in events, p \in Passwords :
            ResetRead(i, t, p) => i = q
      BY DEF ResetRead, Begin, IInv, TypeOK
    <3> QED
      BY <3>3, <3>4, <3>5, <3>6, <3>7 DEF Next
  <2>2. PICK row \in resets : row.token = t /\ Usable(row)
    BY <2>1 DEF ResetRead
  <2>3. req'[q].token = t
    BY <2>1 DEF ResetRead, Begin, Idle, IInv, TypeOK
  <2> QED
    BY <2>2, <2>3 DEF IInv, OkIsMarked, Usable
<1> QED
  BY <1>1, IInvHolds, PTL DEF Spec, SpentForGood
-----------------------------------------------------------------------------
(* A link that was mailed.  Its row is in the table before the event is      *)
(* emitted and is never removed, so a request that does not find it usable   *)
(* finds it expired or used.                                                 *)
HasRow(rows, t) == \E row \in rows : row.token = t

LinkHasRow ==
  /\ \A t \in events : HasRow(resets, t)
  /\ \A q \in Requests : req[q].pc = "stored" => HasRow(resets, req[q].token)

Cause(q) ==
  \/ \E f \in Requests : /\ req[f].op = "forgot"
                         /\ req[f].token = req[q].token
                         /\ req[f].exp < req[q].at
  \/ \E r \in Requests : /\ req[r].op = "reset" /\ req[r].pc = "ok"
                         /\ req[r].token = req[q].token

Refused(q) ==
  /\ req[q].op = "reset" /\ req[q].pc = "denied"
  /\ req[q].token # None /\ req[q].pass \notin Weak

RefusedForCause == \A q \in Requests : Refused(q) => Cause(q)

LinkInv == IInv /\ LinkHasRow /\ RefusedForCause

\* What a step must do to the requests and the rows to keep the two.
LEMMA LinkKeeps ==
  ASSUME LinkInv, IInv',
         \A row \in resets : HasRow(resets', row.token),
         \A t \in events' : t \in events \/ HasRow(resets', t),
         \A q \in Requests : req[q].op # "none" =>
           /\ req'[q].op = req[q].op /\ req'[q].token = req[q].token
           /\ req'[q].pass = req[q].pass /\ req'[q].exp = req[q].exp
           /\ req'[q].at = req[q].at
           /\ req[q].pc = "ok" => req'[q].pc = "ok",
         \A q \in Requests : req'[q].pc = "stored" =>
           req[q].pc = "stored" \/ HasRow(resets', req'[q].token),
         \A q \in Requests : Refused(q)' => Refused(q) \/ Cause(q)'
  PROVE  LinkInv'
<1>1. \A t : HasRow(resets, t) => HasRow(resets', t)
  BY DEF HasRow
<1>2. \A q \in Requests : req[q].pc = "stored" => req'[q].token = req[q].token
  BY DEF LinkInv, IInv, Shape
<1>3. LinkHasRow'
  BY <1>1, <1>2 DEF LinkInv, LinkHasRow
<1>4. ASSUME NEW q \in Requests, Refused(q), Cause(q) PROVE Cause(q)'
  <2>1. req'[q].token = req[q].token /\ req'[q].at = req[q].at
    BY <1>4 DEF Refused
  <2> QED
    BY <1>4, <2>1 DEF Cause
<1>5. RefusedForCause'
  BY <1>4 DEF LinkInv, RefusedForCause
<1> QED
  BY <1>3, <1>5 DEF LinkInv

\* A request that begins, without touching a table.
LEMMA BeginLinkKeeps ==
  ASSUME LinkInv, IInv', NEW q \in Requests, NEW job \in Request, Begin(q, job),
         UNCHANGED <<resets, events>>, job.pc # "stored",
         Refused(q)' => Cause(q)'
  PROVE  LinkInv'
<1>1. req[q].pc = "new" /\ req'[q] = job /\ Others(q)
  BY BeginEffect DEF LinkInv, IInv
<1>2. \A r \in Requests : req[r].op # "none" => req'[r] = req[r]
  BY <1>1 DEF LinkInv, IInv, Shape, Others
<1>3. \A r \in Requests : req'[r].pc = "stored" => req[r].pc = "stored"
  BY <1>1 DEF Others
<1>4. \A r \in Requests : Refused(r)' => Refused(r) \/ Cause(r)'
  BY <1>1 DEF Refused, Others
<1>5. \A row \in resets : HasRow(resets', row.token)
  BY DEF HasRow
<1> QED
  BY <1>2, <1>3, <1>4, <1>5, LinkKeeps

\* A request that goes on.
LEMMA MoveLinkKeeps ==
  ASSUME LinkInv, IInv', NEW q \in Requests, NEW from, NEW to,
         Moves(q, from, to), from # "ok", to # "denied",
         \A row \in resets : HasRow(resets', row.token),
         \A t \in events' : t \in events \/ HasRow(resets', t),
         to = "stored" => HasRow(resets', req[q].token)
  PROVE  LinkInv'
<1> USE DEF Moves, Others
<1>1. \A r \in Requests : req'[r].pc = "stored" =>
        req[r].pc = "stored" \/ HasRow(resets', req'[r].token)
  <2>1. req'[q].token = req[q].token
    OBVIOUS
  <2>2. req'[q].pc = "stored" => HasRow(resets', req'[q].token)
    BY <2>1
  <2> QED
    BY <2>2
<1>2. \A r \in Requests : Refused(r)' => Refused(r)
  BY DEF Refused
<1> QED
  BY <1>1, <1>2, LinkKeeps

\* The reason a good password is refused for: the row's, as the request found it.
LEMMA DeniedHasCause ==
  ASSUME LinkInv, NEW q \in Requests, NEW t \in events \cup {None}, NEW p \in Passwords,
         ResetDenied(q, t, p), Refused(q)'
  PROVE  Cause(q)'
<1> DEFINE job == [Idle EXCEPT !.pc = "denied", !.op = "reset", !.token = t,
                               !.pass = p, !.at = now]
<1>1. job \in Request /\ job.token = t /\ job.pass = p /\ job.at = now
  BY DEF LinkInv, IInv, TypeOK, Idle, Request, Pcs
<1> HIDE DEF job
<1>2. req[q].pc = "new" /\ req'[q] = job /\ Others(q)
  BY <1>1, BeginEffect DEF ResetDenied, job, LinkInv, IInv
<1>3. t \in events /\ p \notin Weak
  BY <1>1, <1>2 DEF Refused
<1>4. PICK row \in resets : row.token = t
  BY <1>3 DEF LinkInv, LinkHasRow, HasRow
<1>5. row.used \/ row.expiresAt < now
  BY <1>3, <1>4 DEF ResetDenied, Usable
<1>6. \A r \in Requests : req[r].op # "none" => req'[r] = req[r]
  BY <1>2 DEF LinkInv, IInv, Shape, Others
<1>7. CASE row.used
  BY <1>1, <1>2, <1>4, <1>6, <1>7 DEF LinkInv, IInv, BurntOnlyByReset, Cause
<1>8. CASE row.expiresAt < now
  BY <1>1, <1>2, <1>4, <1>6, <1>8 DEF LinkInv, IInv, RowOrigin, Cause
<1> QED
  BY <1>5, <1>7, <1>8

LEMMA LinkNextKeeps == ASSUME LinkInv, [Next]_vars PROVE LinkInv'
<1>1. IInv'
  BY NextKeeps DEF LinkInv
<1>2. TypeOK /\ now \in Nat
  BY DEF LinkInv, IInv, TypeOK
<1>3. ASSUME NEW q \in Requests, NEW u \in Users, NEW t \in Tokens, Forgot(q, u, t)
      PROVE  LinkInv'
  <2> DEFINE job == [Idle EXCEPT !.pc = "minted", !.op = "forgot", !.user = u,
                                 !.token = t, !.exp = now + ResetTtl]
  <2>1. now + ResetTtl \in Nat
    BY <1>2, ResetAssumption
  <2>2. job \in Request /\ job.pc = "minted"
    BY <2>1 DEF Idle, Request, Pcs
  <2> HIDE DEF job
  <2>3. Begin(q, job) /\ UNCHANGED <<resets, events>>
    BY <1>3 DEF Forgot, job
  <2>4. ~Refused(q)'
    BY <1>2, <2>2, <2>3, BeginEffect DEF Refused
  <2> QED
    BY <1>1, <2>2, <2>3, <2>4, BeginLinkKeeps
<1>4. ASSUME NEW q \in Requests, ForgotUnknown(q) PROVE LinkInv'
  <2> DEFINE job == [Idle EXCEPT !.pc = "denied", !.op = "forgot"]
  <2>1. job \in Request /\ job.pc = "denied" /\ job.op = "forgot"
    BY DEF Idle, Request, Pcs
  <2> HIDE DEF job
  <2>2. Begin(q, job) /\ UNCHANGED <<resets, events>>
    BY <1>4 DEF ForgotUnknown, job
  <2>3. ~Refused(q)'
    BY <1>2, <2>1, <2>2, BeginEffect DEF Refused
  <2> QED
    BY <1>1, <2>1, <2>2, <2>3, BeginLinkKeeps
<1>5. ASSUME NEW q \in Requests, NEW t \in events, NEW p \in Passwords, ResetRead(q, t, p)
      PROVE  LinkInv'
  <2>1. PICK row \in resets :
          Begin(q, [Idle EXCEPT !.pc = "hashing", !.op = "reset", !.user = row.userId,
                                !.token = t, !.pass = p, !.at = now])
    BY <1>5 DEF ResetRead
  <2> DEFINE job == [Idle EXCEPT !.pc = "hashing", !.op = "reset", !.user = row.userId,
                                 !.token = t, !.pass = p, !.at = now]
  <2>2. row \in Reset /\ t \in Tokens
    BY <1>2 DEF TypeOK
  <2>3. job \in Request /\ job.pc = "hashing"
    BY <1>2, <2>2 DEF Idle, Request, Pcs, Reset
  <2> HIDE DEF job
  <2>4. Begin(q, job) /\ UNCHANGED <<resets, events>>
    BY <1>5, <2>1 DEF ResetRead, job
  <2>5. ~Refused(q)'
    BY <1>2, <2>3, <2>4, BeginEffect DEF Refused
  <2> QED
    BY <1>1, <2>3, <2>4, <2>5, BeginLinkKeeps
<1>6. ASSUME NEW q \in Requests, NEW t \in events \cup {None}, NEW p \in Passwords,
             ResetDenied(q, t, p)
      PROVE  LinkInv'
  <2> DEFINE job == [Idle EXCEPT !.pc = "denied", !.op = "reset", !.token = t,
                                 !.pass = p, !.at = now]
  <2>1. job \in Request /\ job.pc = "denied"
    BY <1>2 DEF TypeOK, Idle, Request, Pcs
  <2> HIDE DEF job
  <2>2. Begin(q, job) /\ UNCHANGED <<resets, events>>
    BY <1>6 DEF ResetDenied, job
  <2> QED
    BY <1>1, <1>6, <2>1, <2>2, DeniedHasCause, BeginLinkKeeps
<1>7. ASSUME NEW q \in Requests, ForgotStore(q) PROVE LinkInv'
  <2> DEFINE new == [token |-> req[q].token, userId |-> req[q].user,
                     expiresAt |-> req[q].exp, used |-> FALSE]
  <2>1. Moves(q, "minted", "stored") /\ resets' = resets \cup {new} /\ events' = events
    BY <1>2, <1>7, AdvanceEffect DEF ForgotStore, Pcs
  <2>2. new.token = req[q].token
    OBVIOUS
  <2> HIDE DEF new
  <2>3. HasRow(resets', req[q].token) /\ \A row \in resets : HasRow(resets', row.token)
    BY <2>1, <2>2 DEF HasRow
  <2> QED
    BY <1>1, <2>1, <2>3, MoveLinkKeeps
<1>8. ASSUME NEW q \in Requests, ForgotEmit(q) PROVE LinkInv'
  <2>1. /\ Moves(q, "stored", "ok") /\ events' = events \cup {req[q].token}
        /\ resets' = resets
    BY <1>2, <1>8, AdvanceEffect DEF ForgotEmit, Pcs
  <2>2. HasRow(resets, req[q].token)
    BY <2>1 DEF Moves, LinkInv, LinkHasRow
  <2>3. HasRow(resets', req[q].token) /\ \A row \in resets : HasRow(resets', row.token)
    BY <2>1, <2>2 DEF HasRow
  <2> QED
    BY <1>1, <2>1, <2>3, MoveLinkKeeps
<1>9. ASSUME NEW q \in Requests, ResetUpdate(q) PROVE LinkInv'
  <2>1. Moves(q, "hashing", "updated") /\ UNCHANGED <<resets, events>>
    BY <1>2, <1>9, AdvanceEffect DEF ResetUpdate, Pcs
  <2>2. \A row \in resets : HasRow(resets', row.token)
    BY <2>1 DEF HasRow
  <2> QED
    BY <1>1, <2>1, <2>2, MoveLinkKeeps
<1>10. ASSUME NEW q \in Requests, ResetMark(q) PROVE LinkInv'
  <2>1. Moves(q, "updated", "ok") /\ events' = events /\ MarkRows(q)
    BY <1>2, <1>10, AdvanceEffect DEF ResetMark, Pcs
  <2>2. ASSUME NEW row \in resets PROVE HasRow(resets', row.token)
    <3>1. row \in Reset
      BY <1>2 DEF TypeOK
    <3>2. [row EXCEPT !.used = TRUE].token = row.token
      BY <3>1 DEF Reset
    <3> QED
      BY <2>1, <3>2 DEF MarkRows, HasRow
  <2> QED
    BY <1>1, <2>1, <2>2, MoveLinkKeeps
<1>11. ASSUME NEW Q \in SUBSET Requests, Die(Q) PROVE LinkInv'
  <2>1. ASSUME NEW r \in Requests
        PROVE  /\ req'[r].op = req[r].op /\ req'[r].token = req[r].token
               /\ req'[r].pass = req[r].pass /\ req'[r].exp = req[r].exp
               /\ req'[r].at = req[r].at
               /\ req'[r].pc = req[r].pc \/ (req'[r].pc = "died" /\ UnderWay(r))
    <3>1. req[r] \in Request
      BY <1>2 DEF TypeOK
    <3>2. req'[r] = IF r \in Q THEN [req[r] EXCEPT !.pc = "died"] ELSE req[r]
      BY <1>11 DEF Die
    <3>3. r \in Q => UnderWay(r)
      BY <1>11 DEF Die
    <3> QED
      BY <3>1, <3>2, <3>3 DEF Request
  <2>2. UNCHANGED <<resets, events>> /\ \A row \in resets : HasRow(resets', row.token)
    BY <1>11 DEF Die, HasRow
  <2>3. \A r \in Requests : Refused(r)' => Refused(r)
    BY <2>1 DEF Refused
  <2> QED
    BY <1>1, <2>1, <2>2, <2>3, LinkKeeps DEF UnderWay
<1>12. CASE Tick \/ UNCHANGED vars
  <2>1. UNCHANGED <<resets, events, req>> /\ \A row \in resets : HasRow(resets', row.token)
    BY <1>12 DEF Tick, vars, HasRow
  <2> QED
    BY <1>1, <2>1, LinkKeeps DEF Refused
<1> QED
  BY <1>3, <1>4, <1>5, <1>6, <1>7, <1>8, <1>9, <1>10, <1>11, <1>12 DEF Next

LEMMA InitLinkInv == Init => LinkInv
  BY InitIInv DEF Init, Idle, LinkInv, LinkHasRow, RefusedForCause, Refused

(* A link that was mailed is refused to a good password only after its hour  *)
(* or after a reset with it (reset-password.use-case.ts:16-20).              *)
THEOREM RefusalsHaveCause == Spec => []RefusedForCause
<1>1. LinkInv => RefusedForCause
  BY DEF LinkInv
<1> QED
  BY <1>1, InitLinkInv, LinkNextKeeps, PTL DEF Spec
=============================================================================
