------------------------------ MODULE Accounts ------------------------------
(***************************************************************************)
(* Accounts and profiles: registration, verification of an e-mail address  *)
(* and PATCH /profile, over the tables User and profiles.                  *)
(*                                                                         *)
(* Registration looks nothing up: bcrypt runs for a while, then one insert *)
(* of whatever the body held leaves it to the columns to refuse it.  A     *)
(* patch is one upsert, whose answer is read back by a second statement;   *)
(* patches of one profile overlap.  The connection to the database may be  *)
(* cut, and an answer lost, before or after the write.                     *)
(***************************************************************************)
EXTENDS Errors, Sequences, FiniteSets

CONSTANTS
  Names, Spellings,   \* e-mail addresses, and the ways to type each
  Lower,              \* the spelling in lower case without spaces around
  Aliases,
  Ids, Tokens,        \* uuids; verification tokens
  Columns, Values,    \* plain columns of a profile and what they may hold
  Points, Radii,      \* places, and radii in metres (0 is one)
  Bodies,             \* what bodies of a registration hold besides those
  Requests,           \* HTTP requests, each used once
  None                \* null

\* What a registration's body, spread into the row, holds besides its address
\* and alias: an id, a verification token, and whether the columns can hold it.
Spread == [id : Ids \cup {None}, token : Tokens \cup {None}, fits : BOOLEAN]
NoSpread == [id |-> None, token |-> None, fits |-> TRUE]

ASSUME AccountsAssumption ==
  /\ Bodies \subseteq Spread
  /\ Lower \in Spellings
  /\ Radii \subseteq Nat
  /\ None \notin Names \cup Aliases \cup Ids \cup Tokens \cup Values \cup Points \cup Radii

VARIABLES
  users,      \* the rows of table User
  profiles,   \* the rows of table profiles
  req,        \* each request's progress and local variables
  log         \* the patches each user's profile has been given, in order

vars == <<users, profiles, req, log>>

Address == [name : Names, typed : Spellings]

User == [id : Ids, email : Address, alias : Aliases, isVerified : BOOLEAN,
         verificationToken : Tokens \cup {None}]

Profile == [userId : Ids, plain : [Columns -> Values \cup {None}],
            point : Points \cup {None}, radius : Radii \cup {None}]

\* A plain column may be given a value or null; a hide-out is given whole, and
\* null stands for nothing given.
Omitted == "omitted"
Hideout == [point : Points, radius : Radii]
Patch == [plain : [Columns -> Values \cup {None, Omitted}],
          hideout : Hideout \cup {None}]

\* "done" and "cut" are answered; a request that is "lost" never is.
Pcs == {"new", "hashing", "written", "done", "cut", "lost"}

\* alias is None when it, or another column that may not be null, is null.
Request == [pc : Pcs, op : {"none", "register", "verify", "patch"},
            email : Address \cup {None}, alias : Aliases \cup {None},
            spread : Spread, user : Ids \cup {None}, nth : Nat, status : Nat,
            body : Profile \cup {None}]

Idle == [pc |-> "new", op |-> "none", email |-> None, alias |-> None,
         spread |-> NoSpread, user |-> None, nth |-> 0, status |-> 0, body |-> None]

Init ==
  /\ users = {} /\ profiles = {}
  /\ req = [q \in Requests |-> Idle]
  /\ log = [u \in Ids |-> <<>>]
-----------------------------------------------------------------------------
Begin(q, op, local) ==
  /\ req[q].pc = "new"
  /\ req' = [req EXCEPT ![q] = [local EXCEPT !.op = op]]

Answered(local, status) == [local EXCEPT !.pc = "done", !.status = status]

Refuse(q, op, error) ==
  /\ Begin(q, op, Answered(Idle, StatusOf(error)))
  /\ UNCHANGED <<users, profiles, log>>

\* Mutant of Normalise: the address is kept as it was typed.
AsTyped(address) == address

\* new Email(...).toString()
Normalise(address) == [address EXCEPT !.typed = Lower]

\* Email and Password throw; the body is not validated before (its type is
\* imported as a type), so a missing field is an undefined they trip over.
RegisterRefused(q) ==
  \E error \in {Http(400), TypeError} : Refuse(q, "register", error)

Register(q, address, alias, spread) ==
  /\ Begin(q, "register", [Idle EXCEPT !.pc = "hashing", !.alias = alias,
                                       !.email = Normalise(address), !.spread = spread])
  /\ UNCHANGED <<users, profiles, log>>

\* The unique columns.
Clashes(row, q) ==
  \/ row.id = req[q].spread.id
  \/ row.email = req[q].email
  \/ row.alias = req[q].alias
  \/ row.verificationToken # None /\ row.verificationToken = req[q].spread.token

\* The row of id u: verified if the body says so.
Store(q, u, verified) ==
  /\ req[q].pc = "hashing" /\ req[q].spread.fits
  /\ req[q].spread.id \in {u, None}
  /\ ~\E row \in users : Clashes(row, q) \/ row.id = u
  /\ users' = users \cup
       {[id |-> u, email |-> req[q].email, alias |-> req[q].alias,
         isVerified |-> verified, verificationToken |-> req[q].spread.token]}
  /\ req' = [req EXCEPT ![q] = [@ EXCEPT !.pc = "written", !.user = u]]
  /\ UNCHANGED <<profiles, log>>

\* Mutant of Insert: the alias may be null.
InsertNullable(q, u, verified) == Store(q, u, verified)

\* UserRepository.create: the row, or the error of a column that refuses it.
Insert(q, u, verified) == req[q].alias # None /\ Store(q, u, verified)

InsertRefused(q) ==
  /\ req[q].pc = "hashing"
  /\ \E error \in Unfit \cup {Sql(UniqueViolation), Sql(NotNullViolation)} :
       /\ error \in Unfit => ~req[q].spread.fits
       /\ error = Sql(NotNullViolation) => req[q].alias = None
       /\ error = Sql(UniqueViolation) =>
            req[q].alias # None /\ \E row \in users : Clashes(row, q)
       /\ req' = [req EXCEPT ![q] = Answered(@, StatusOf(error))]
  /\ UNCHANGED <<users, profiles, log>>

\* update ... set isVerified where verificationToken = t returning *
VerifyEmail(q, t) ==
  LET matching == {row \in users : row.verificationToken = t}
      verified == {[row EXCEPT !.isVerified = TRUE, !.verificationToken = None] :
                     row \in matching}
  IN  /\ matching # {}
      /\ users' = (users \ matching) \cup verified
      /\ Begin(q, "verify", [Idle EXCEPT !.pc = "written"])
      /\ UNCHANGED <<profiles, log>>

\* With no row there is nothing for UserMapper to read an id from.
VerifyRefused(q, t) ==
  \/ /\ ~\E row \in users : row.verificationToken = t
     /\ Refuse(q, "verify", TypeError)
  \/ \E error \in Unfit \cup {ConnectionLost} : Refuse(q, "verify", error)
-----------------------------------------------------------------------------
(* PATCH /profile, for the user an access token names.                      *)

\* The guard (401), the validation pipe (400), a fraction for a column of
\* integers, which refuses the whole statement, or no connection.
PatchRefused(q) ==
  \E error \in {Http(401), Http(400), Sql(InvalidText), ConnectionLost} :
    Refuse(q, "patch", error)

NoProfile(u) == [userId |-> u, plain |-> [c \in Columns |-> None],
                 point |-> None, radius |-> None]

\* Mutant of Merge: `||` for `??`, so that a radius of 0 is not one.
MergeFalsy(row, patch) ==
  [row EXCEPT
     !.plain = [c \in Columns |->
                  IF patch.plain[c] = Omitted THEN row.plain[c] ELSE patch.plain[c]],
     !.point = IF patch.hideout = None THEN @ ELSE patch.hideout.point,
     !.radius = IF patch.hideout = None THEN @
                ELSE IF patch.hideout.radius = 0 THEN @ ELSE patch.hideout.radius]

\* The set clause.  Inserting into a row of nulls gives the same.
Merge(row, patch) ==
  [row EXCEPT
     !.plain = [c \in Columns |->
                  IF patch.plain[c] = Omitted THEN row.plain[c] ELSE patch.plain[c]],
     !.point = IF patch.hideout = None THEN @ ELSE patch.hideout.point,
     !.radius = IF patch.hideout = None THEN @ ELSE patch.hideout.radius]

ProfileOf(u) ==
  IF \E row \in profiles : row.userId = u
    THEN CHOOSE row \in profiles : row.userId = u
    ELSE NoProfile(u)

\* insert ... on conflict (userId) do update
Upsert(q, u, patch) ==
  /\ \E row \in users : row.id = u
  /\ profiles' = {row \in profiles : row.userId # u} \cup {Merge(ProfileOf(u), patch)}
  /\ log' = [log EXCEPT ![u] = Append(@, patch)]
  /\ Begin(q, "patch", [Idle EXCEPT !.pc = "written", !.user = u,
                                    !.nth = Len(log[u]) + 1])
  /\ UNCHANGED users

\* Mutant of ReadBack: the patch is answered, on a row of nulls.
ReadBackPatch(q) ==
  /\ req[q].pc = "written" /\ req[q].op = "patch"
  /\ req' = [req EXCEPT ![q] = [Answered(@, 200) EXCEPT
       !.body = Merge(NoProfile(req[q].user), log[req[q].user][req[q].nth])]]
  /\ UNCHANGED <<users, profiles, log>>

\* findByUserId
ReadBack(q) ==
  /\ req[q].pc = "written" /\ req[q].op = "patch"
  /\ req' = [req EXCEPT ![q] = [Answered(@, 200) EXCEPT
                                  !.body = ProfileOf(req[q].user)]]
  /\ UNCHANGED <<users, profiles, log>>
-----------------------------------------------------------------------------
\* POST answers 201, to a verification too.
Created(q) ==
  /\ req[q].pc = "written" /\ req[q].op \in {"register", "verify"}
  /\ req' = [req EXCEPT ![q] = Answered(@, 201)]
  /\ UNCHANGED <<users, profiles, log>>

\* The statement under way fails with the connection, done or not.
Cut(q) ==
  /\ req[q].pc \in {"hashing", "written"}
  /\ req' = [req EXCEPT ![q] = [@ EXCEPT !.pc = "cut",
                                         !.status = StatusOf(ConnectionLost)]]
  /\ UNCHANGED <<users, profiles, log>>

\* The process stops, or the client is gone.
Lose(q) ==
  /\ req[q].pc \in {"hashing", "written"}
  /\ req' = [req EXCEPT ![q] = [@ EXCEPT !.pc = "lost"]]
  /\ UNCHANGED <<users, profiles, log>>

Registering(q) ==
  \/ RegisterRefused(q)
  \/ \E a \in Address, alias \in Aliases \cup {None}, spread \in Bodies :
       Register(q, a, alias, spread)
  \/ \E u \in Ids, verified \in BOOLEAN : Insert(q, u, verified)
  \/ InsertRefused(q)

Verifying(q) == \E t \in Tokens : VerifyEmail(q, t) \/ VerifyRefused(q, t)

Patching(q) ==
  \/ PatchRefused(q)
  \/ \E u \in Ids, patch \in Patch : Upsert(q, u, patch)
  \/ ReadBack(q)

Next ==
  \E q \in Requests :
    \/ Registering(q) \/ Verifying(q) \/ Patching(q)
    \/ Created(q) \/ Cut(q) \/ Lose(q)

Spec == Init /\ [][Next]_vars
-----------------------------------------------------------------------------
TypeOK ==
  /\ users \subseteq User
  /\ profiles \subseteq Profile
  /\ req \in [Requests -> Request]
  /\ log \in [Ids -> Seq(Patch)]

(* No two accounts share an alias, or an address however it was typed: the  *)
(* column compares text, so this rests on every writer normalising first    *)
(* (register-user.use-case.ts:16-27, schema.ts:15-16).                      *)
OneAccountEach ==
  \A r1, r2 \in users :
    (r1.email.name = r2.email.name \/ r1.alias = r2.alias) => r1 = r2

\* Request r stored an account that stands in the way of q's: it has the same
\* address or alias, the id q names, or came with the same token.
InTheWay(r, q) ==
  /\ req[r].op = "register" /\ \E row \in users : row.id = req[r].user
  /\ \/ req[r].user = req[q].spread.id
     \/ req[r].email = req[q].email
     \/ req[r].alias = req[q].alias
     \/ req[r].spread.token # None /\ req[r].spread.token = req[q].spread.token

(* How a registration is answered whose address was accepted: with 201 its  *)
(* own row is there; with 409 another request has stored an account that    *)
(* stands in its way; with 400 it lacks a column; with 500 a column could   *)
(* not hold what it sent, or the connection was cut, which alone leaves     *)
(* open whether the row is there, whatever ran meanwhile                    *)
(* (all-exceptions.filter.ts:42-60, user.repository.ts:29-37).              *)
RegistrationDecided ==
  \A q \in Requests :
    req[q].pc \in {"done", "cut"} /\ req[q].op = "register" /\ req[q].email # None =>
      \/ /\ req[q].status = 201
         /\ \E row \in users : row.id = req[q].user /\ row.alias = req[q].alias
                                 /\ row.email = req[q].email
      \/ /\ req[q].status = 409 /\ req[q].user = None
         /\ \E r \in Requests \ {q} : InTheWay(r, q)
      \/ req[q].status = 400 /\ req[q].user = None /\ req[q].alias = None
      \/ req[q].status = 500 /\ req[q].user = None /\ ~req[q].spread.fits
      \/ req[q].status = 500 /\ req[q].pc = "cut"

\* The patches of u that give column c, and those that give a hide-out.
Giving(u, c) == {i \in DOMAIN log[u] : log[u][i].plain[c] # Omitted}
Hiding(u) == {i \in DOMAIN log[u] : log[u][i].hideout # None}

IsLast(i, S) == i \in S /\ \A j \in S : j <= i

(* A profile is the merge of the patches it was given: each column holds    *)
(* what the last patch that gave it said, null and 0 included, and the      *)
(* place and radius of a hide-out come from one patch, whatever overlapped  *)
(* (profile.repository.ts:34-66).                                           *)
ProfileIsMerge ==
  \A u \in Ids :
    LET row == ProfileOf(u)
    IN  /\ \A c \in Columns :
             \/ Giving(u, c) = {} /\ row.plain[c] = None
             \/ \E i \in DOMAIN log[u] :
                  IsLast(i, Giving(u, c)) /\ row.plain[c] = log[u][i].plain[c]
        /\ \/ Hiding(u) = {} /\ row.point = None /\ row.radius = None
           \/ \E i \in DOMAIN log[u] :
                /\ IsLast(i, Hiding(u))
                /\ row.point = log[u][i].hideout.point
                /\ row.radius = log[u][i].hideout.radius

\* A profile read for request r shows what patch i of its user gave, or the null
\* before any; none between i and r's own patch gave anything else.
ShowsColumn(r, c) ==
  \E i \in 0..Len(log[r.user]) :
    \/ /\ i > 0 /\ log[r.user][i].plain[c] = r.body.plain[c]
       /\ \A j \in i + 1..r.nth : log[r.user][j].plain[c] = Omitted
    \/ /\ i = 0 /\ r.body.plain[c] = None
       /\ \A j \in 1..r.nth : log[r.user][j].plain[c] = Omitted

ShowsHideout(r) ==
  \E i \in 0..Len(log[r.user]) :
    \/ /\ i > 0 /\ log[r.user][i].hideout # None
       /\ r.body.point = log[r.user][i].hideout.point
       /\ r.body.radius = log[r.user][i].hideout.radius
       /\ \A j \in i + 1..r.nth : log[r.user][j].hideout = None
    \/ /\ i = 0 /\ r.body.point = None /\ r.body.radius = None
       /\ \A j \in 1..r.nth : log[r.user][j].hideout = None

(* The answer to a patch is the profile as it was at or after that patch,   *)
(* although a second statement reads it: what the patch and those before it *)
(* gave is shown, the hide-out whole, unless a later patch gave something   *)
(* else (profile.repository.ts:68).                                         *)
AnswerShowsPatch ==
  \A q \in Requests :
    req[q].body # None =>
      ShowsHideout(req[q]) /\ \A c \in Columns : ShowsColumn(req[q], c)
=============================================================================
