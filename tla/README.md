# Verification of the ROTA backend

TLA+ models of the backend's concurrent and failure-prone parts, TLC runs on
small instances of them, and TLAPS proofs of what matters most.  Paths below
are relative to the repository.

## How to run

    tlc -workers 2 -config MCSessions.cfg MCSessions
    tlapm SessionsProofs.tla      # and the other *Proofs modules

Every `.cfg` names its constants and properties; `PROJECT.json` lists the runs,
which definition models which source lines, and for every checked property a
*mutant*: a deliberately wrong variant of a definition (kept beside it, marked
"Mutant of") under which the property fails.  Mutants are no part of `Next`.

## Inventory

The backend is one NestJS process over PostgreSQL (Drizzle), Redis (BullMQ) and
two external services: an SMTP server and the AbacatePay gateway.  Node runs one
callback at a time, so what interleaves is what lies between two `await`s; the
database makes each statement atomic; only `PaymentService` opens a database
transaction.

| Component | State | Operations | Hard behaviour | What makes it correct |
|---|---|---|---|---|
| Session store (`auth/services/session.service.ts`, `auth/repositories/session.repository.ts`, `auth/policies`, `auth/strategies`) | table `Session` | create, refresh (rotate), revoke one / all / all others, logout, list | select-then-update with an await in between; lost answers; expiry at the boundary; NULL comparison | keys unique; a token opens only its own session, user, device and lifetime; refused only when spent; ended only with a token signed for its user; nothing reopens |
| Sign-in and 2FA (`auth.facade.ts`, `login-user.use-case.ts`, `two-factor.service.ts`, `device-monitor.service.ts`) | columns of `User`, table `KnownDevice`, cookie | login, verify-2fa, enable, disable | works on a copy of the user's row; reads the user twice by different keys; check-then-insert of devices; codes overwrite each other | a login acts on one consistent view; sessions only on recorded devices; mailed codes match the table |
| Password recovery (`request-password-reset.use-case.ts`, `reset-password.use-case.ts`) | table `PasswordReset`, column `password` | forgot, reset | check, bcrypt, set and mark are four steps without a transaction; crashes between them | a reset acts for its token's user; a token is burnt only by a reset that worked; a spent token starts nothing |
| Mail (`auth.listener.ts`, `mail/`) | queue `mail` in Redis | add, process, retry | errors swallowed after the answer; at-least-once delivery; restarts | duplicates bounded and excused; queued mails are sent |
| Payment (`payment/`) | table `Transaction`, column `plan` | checkout, webhook, forced confirmation | two or three remote calls before anything is stored; duplicate and concurrent notifications; handlers that die | a plan is the registration's or bought; no payment forgotten; every payment confirmed in the end |
| Circuit breaker (`abacatepay.gateway.ts`) | opossum's state and timers | fire | timeouts racing answers; refused calls caught on the way; one probe decides | a working gateway that is sent sound data raises no alarm; only the probe decides; nobody waits for longer than three timeouts; it closes again |
| Accounts (`register-user.use-case.ts`, `verify-email.use-case.ts`, `user.repository.ts`, `all-exceptions.filter.ts`) | table `User` | register, verify e-mail | no look-up before the insert: the body is spread into the row as it is and the columns decide, a race included; the filter turns their errors, and the connection's, into answers | one account per address and alias; each registration gets the status its data call for |
| Profile (`profile/`) | table `profiles` | partial update by upsert, read back | overlapping partial updates; null and 0 are values; a second statement reads the answer | a profile is the merge of its patches; an answer shows its patch |
| Rate limiting (`auth.module.ts`) | per-client counters of the library | guard | names of throttlers and overrides | see "Not modelled" |
| Runs, health, filters, request ids, bootstrap | - | - | none or pure I/O | see "Not modelled" |

Interactions: `AuthFacade.login` calls `LoginUserUseCase`, then
`SessionService.create`; `RequestPasswordResetUseCase` and the 2FA strategy emit
events that `AuthListener` turns into mail jobs; `ResetPasswordUseCase` rewrites
the row a login may be holding a copy of; the JWT guard stands before session,
2FA, payment, profile and run endpoints and trusts the token alone; every handler's
error ends in `AllExceptionsFilter`; all three calls of a checkout share one
circuit breaker.

The hazards this code is exposed to, each with its line and the properties that
would catch it going wrong, are in `PROJECT.json` under "hazards".

## Modules

**`Sessions`** - one element of `Requests` per HTTP request, with its own record
`req[q]`: where it is, and its local variables.  `BeginCreate`/`Insert`/`Reply`
are `SessionService.create` cut at its awaits; `RefreshRead`/`RefreshWrite`/
`Reply` are `refresh`, with the stale row in `req[q]` between the two.  `Die`
stops a request before its write, `Lose` loses the answer after it.  The four
deletions are one statement each.  `CurrentSessionId` and `SqlNe` model the
missing `sessionId` claim and what SQL makes of it.  `Challenge` answers the
partial token of a login with 2FA, which is signed with the same secret and passes
the same guard, so `Authenticated` accepts it for its shorter lifetime (`Signs`).  The clock `now` is in
abstract units.  Tokens and ids are drawn from finite sets and never repeat.
The clients of this module are the callers of `SessionService`, which get both
tokens; that the login endpoint drops one of them is in `SignIn`.

**`SessionLedger`** - the abstract specification: which token opens which
session, opened, rotated, discarded, closed.  `Sessions` implements it under
`live`, `opened`, `retired` (property `LedgerSpec`).

**`PasswordReset`** - forgot (mint, store, emit) and reset (read and check, set
the password, mark the token), one action per statement, with `Die` between any
two.  A client can present only a token that was emitted.

**`SignIn`** - `AuthFacade.login` from the body's validation to the cookie, both
branches, and the other writers of the user's row.  `table[u]` is the history of
the row, so that a property can say "at one moment since the request arrived".
Its first element is any row: a registration's body may have switched 2FA on.
Session creation is one insert here; its details are in `Sessions`.

**`MailQueue`** - from the emitted event to the SMTP server.  BullMQ's states,
its single-job worker, its default of one recovery of a stalled job and the
first-in first-out list are external; the three attempts, what is swallowed and
what is thrown are the code's.

**`Recovery`** - `PasswordReset` and `MailQueue` composed, both by
`INSTANCE ... WITH`, over the same variables: emitting the event of a stored token
starts the listener of its mail in the same step (`Emit`), a client can present
only a token whose mail has arrived (`Arrived`), and when the process stops it
stops for both (`Stop`).  Its steps are conjunctions of the components' own.

**`Payment`** - checkout (price, product, subscription, insert, answer), webhook
(read; one transaction; answer) and the gateway around them.  Every remote call
may fail before or after the gateway acted.  `PlanNames` has a plan without a
price because the body is not validated.  `given` is the plan each user's
registration wrote: `GRATIS` by default, but the body of `POST /auth/register` is
spread into the row and may name any.

**`PaymentLedger`** - the abstract specification of buying: bills are offered,
taken up by handlers, settled together with the plan they give, or let go.
`Payment` implements it with `bills` read off the table, `settled` off its status
column and `inHand` off the handlers' local variables (property `LedgerSpec`).
It says why a repeated notification of an old purchase cannot undo a later one:
a settled bill in nobody's hands is final.

**`Breaker`** - the circuit breaker the gateway object configures, its timers, and
the calls a checkout makes over it.  State: `state`, `pendingClose`, `rest` (the
reset timer), one call per request with its age, the gateway's product and
whether it is up.  Each checkout's data are sound or not (`sound`): nothing
validates the tax id, the address to return to or the plan, and the gateway
answers 4xx to what it cannot use (`BadRequest`), which the filter counts as a
failure.  `healthy` says that the gateway has never been down nor been sent
such data.  opossum is external: what the code determines are the options,
the filter, the fallback, the `catch` blocks and the order of the calls.  That a
failure opens a closed breaker is a choice (the library's statistics of the last
ten seconds are left out), so every history of them is covered.  An answer and
what the request does up to its next call are one step: no other callback runs
in between that could change the breaker.

**`Accounts`** - `POST /auth/register` cut at its awaits (normalise and hash;
insert; answer), `verify-email` (update; answer), and `PATCH /profile` (upsert;
read back).  The body of a registration is spread into the row, so it may bring an
id, a verification token, `isVerified`, and values no column can hold (`Spread`).
The insert fails by a null column, a unique column or an unfit value; `Cut` is the
connection that ends under a statement, done or not, and is answered 500; `Lose`
is the process that stops or the client that is gone, and is not answered.
`log[u]` is the sequence of patches a profile was given, so that properties can
compare the row with a reference merge.  An address is a name and the way it was
typed.  **`Errors`** is what the filter answers for an error; the database's
codes reach it as they are because drizzle-orm 0.38.4 (`pnpm-lock.yaml`) does not
wrap them.

`MC*` modules add symmetry sets only, and `MCAccounts` the bodies it enumerates.
The runs of `Sessions`, `PasswordReset`, `SignIn` and `Accounts` use them: they
check safety alone.  Runs with a liveness property
use no symmetry.

## Runs, and the bounds

| Run | Checks | Bounds, and why they are enough |
|---|---|---|
| `sessions` | `TypeOK`, `UniqueKeys`, `RefreshIsBound`, `RefusedOnlyWhenSpent`, `SessionsEndByOwner`, `LedgerSpec` | 3 requests: a login and two racing refreshes, or a refresh and a revocation that overlap; 2 users and 2 devices for the wrong owner or device; lifetimes 2 and 3 (partial token 1) in 0..3 let tokens expire |
| `password_reset` | `TypeOK`, `EffectIsBound`, `BurntOnlyByReset`, `SpentForGood` | 4 requests: two links and two overlapping resets, or one link and three |
| `recovery` | `GoodLinkAccepted`, `ComponentsKept` | 3 requests and 2 tokens: two links and one reset, or one link and two; one failure, one restart, lifetime 1 in 0..2 |
| `payment` | `TypeOK`, `PlanIsBought`, `NoPaymentForgotten`, `LedgerSpec`, `PaymentsConfirmed` | 2 buyers, 2 checkouts, 2 concurrent handlers, 2 faults (a dying handler and a repeated notification); each user may have any plan to begin with |
| `breaker` | `TypeOK`, `NoFalseAlarm`, `ProbeDecides`, `AnsweredInTime`, `Recovers` | 3 concurrent checkouts (one whose failure opens the breaker, one under way, one that probes), timeout 1 and reset 2 (2 and 3 in `unavailable_is_503`), in the order of 5 s and 30 s; any of them may send faulty data; the gateway may go up and down without bound, and requests repeat |
| `accounts` | `TypeOK`, `OneAccountEach`, `RegistrationDecided`, `ProfileIsMerge`, `AnswerShowsPatch` | 3 requests: three racing registrations, a registration, a verification and another registration, or one and two overlapping patches; 2 addresses in 2 spellings, 2 aliases, radii 0 and 50; bodies that fit with any id and token, and one that does not fit (what is refused leaves nothing behind) |
| `sign_in` | `TypeOK`, `OneMoment`, `SessionsOnKnownDevices`, `MailedCodeStands` | 3 logins from 2 devices (one to obtain the token that switches 2FA, two to overlap), 2 changes of the row |
| `mail_queue` | `TypeOK`, `CopiesExcused`, `FourCopiesAtMost`, `EmittedIsSent` | 2 mails, 4 failures, 2 restarts: enough to exhaust the attempts of one mail and stall it beyond recovery, so `EmittedIsSent` is checked where retries do run out |

Clocks (`MaxTime`), faults (`MaxFaults`, `MaxFailures`, `MaxCrashes`) and row
changes (`MaxChanges`) are the only bounds on the behaviour itself, and each is a
guard of the action it bounds.  Requests are used once, so these models stop when
all are answered and deadlock is not checked.  `Breaker` reuses its requests and
needs no such bound: it never stops, and deadlock is checked.

### Where the code does not do what is documented

Four runs are expected to find a violation; each property states a sentence of
the repository.

| Run | Sentence | What happens |
|---|---|---|
| `token_used_once` | `session-validator.policy.ts:10` a used token is refused | two refreshes read the row before either writes; both succeed |
| `others_revoked` | `session.controller.ts:59` all others end | no access token has a `sessionId`, `id <> NULL` selects nothing |
| `unavailable_is_503` | `abacatepay.gateway.ts:41` 503, "currently unavailable" | a list that fails or is refused becomes null, whose `id` is a `TypeError`: 500 |
| `forgot_is_mailed` | `password.controller.ts:33` mail sent | a failing `Queue.add` is swallowed, or lost with the process |

More were met while modelling and have no run of their own, one look at the code
is enough:

- `auth.controller.ts:82` ends the session, but logout passes the token as the id
  and `''` as the owner (`auth.facade.ts:79`) and deletes nothing (action
  `Logout` of `Sessions`);
- `main.ts:71` promises the refresh token by cookie, but `auth.mapper.ts:14` drops
  it before the interceptor (`ToAuthResponse`, `SetCookie` of `SignIn`);
- `auth.controller.ts:59`'s 401 means wrong data, but `auth.facade.ts:38` looks
  the user up by the address as typed and refuses a right password when its case
  differs (`LookUpAgain` of `SignIn`);
- `main.ts:72` promises 2FA for suspicious logins, but
  `login-user.use-case.ts:51-58` only records a new device;
- `auth.controller.ts:91` promises a session after 2FA, but `auth.facade.ts:91`
  calls methods that do not exist (action `Verify2fa`);
- `account.facade.ts:20` announces a verification mail, but nothing emits
  `user.created` (action `Register` of `MailQueue`) and nothing draws a token: the
  only one `verify-email` ever finds is one that a registration's body brought
  along.  Any other is answered 500, where `security.controller.ts:42` documents
  400 (`VerifyRefused` of `Accounts`);
- the guard accepts the partial token of a login that has not passed its second
  factor (`login-user.use-case.ts:44`, `jwt.strategy.ts:15`): with it sessions can
  be ended and 2FA be switched (`Challenge` of `Sessions`, `Switch2fa` of
  `SignIn`);
- the registration's body decides on `plan`, `isVerified`, `role`, `id`,
  `is2faEnabled` and `verificationToken` as well (`given` of `Payment`, `Spread` of
  `Accounts`);
- "Payment gateway is currently unavailable" (`abacatepay.gateway.ts:41`) is also
  said while the gateway works, after other clients' faulty data have opened the
  breaker (`BadRequest` of `Breaker`);
- `auth.controller.ts:40` documents 400 for an address or alias in use, the
  filter answers 409; a missing e-mail or password is a `TypeError`, hence 500
  (`RegisterRefused`), and a NUL byte, an alias too long for its index or a value
  outside an enum is a database error the filter does not classify: 500
  (`InsertRefused`);
- a fraction for `idade` or for the radius passes `IsNumber` and is refused by the
  integer column: 500 (`PatchRefused`);
- `sendVerificationEmail` and `sendWelcomeEmail` give their templates fewer
  variables than they use; no reachable code calls either;
- a refresh that read its row before all sessions were revoked
  (`session.controller.ts:72`) is still answered with tokens, which open nothing
  (`Discard` in `SessionLedger`).

## Fairness

`Sessions`, `PasswordReset`, `Recovery`, `Accounts` and `SignIn` promise safety
only: a client may always give up, and the code retries nothing.

`Payment`: the gateway repeats a notification until it is answered 2xx, so some
handler keeps being started for a pending one (weak fairness of `HookTake` or
`HookNothing` per checkout), and Node continues a handler once its database
answers (weak fairness of `HookCommit` and `HookReply`).  Nobody is obliged to
buy, pay, or fail.

`Breaker`: timers fire (weak fairness of `Tick`, `HalfOpen` and `TimeOut`) and the
gateway answers a call it has not lost, if only to refuse it (weak fairness of
`Answered`).  That clients go on buying is no property of the code, so it is a
premise of `Recovers` and not part of the specification; so are that the gateway
is back for good and that no checkout sends it faulty data any more: each such
probe opens the breaker again, in the code as in the model.

`MailQueue`: Redis answers `Queue.add` one way or the other (weak fairness of `Add`
or `AddFails`), the worker loop continues after each step (weak fairness), and
jobs wait in a first-in first-out list, so each one is taken though others keep
coming (strong fairness of `Take`).

## Proofs

Every safety invariant and every action property that a run checks, and the three
refinements, are also theorems, for every value of the constants that meets the
named assumption of the module: `None` is no user, device, id, token or code;
bounds and lifetimes are naturals; ids and tokens are disjoint (a uuid has 36
characters, a token 64); weak passwords are passwords; the breaker's timeout is
shorter than its reset time (5 s and 30 s).  No set need be finite, so there may
be any number of requests.  Each proof has the same frame: an invariant `IInv`
that is inductive, one lemma per action that it is kept, and the properties drawn
from it.  The invariants of `Payment`, `Breaker`, `Accounts`, `SignIn`,
`MailQueue` and `Recovery` also hold of the runs' instances, by TLC.

*Sessions.*  The table alone does not tell why a refresh is legitimate, so the
properties are not inductive.  The invariant `IInv == TypeOK /\ Provenance` ties
each row to the requests that wrote it:

- `Shape`: which fields a request's record has at each step;
- `DistinctTokens`, `DistinctIds`: no two requests hold one fresh token or id;
- `CreatedOnce`, `OldIsWritten`: a refresh holds a token that some request wrote
  for the same session, and the session was created by one request;
- `OneOwner`: all requests of a session agree on its user and device;
- `RowOrigin`, `LastWriter`: a row has the id, owner and device of the request
  that created it and the token and expiry of one that wrote it.

`TypeCorrect`, `KeysAreUnique`, `RefreshesAreBound`, `RefusalsAreSpent` and
`OwnersEndSessions` follow from it; `ImplementsLedger` maps each step: `Insert`
to `Open`, `RefreshWrite` to `Rotate` when the row is there and to `Discard` when
it is not, the deletions to `Close`, everything else to a stutter.

*PasswordReset.*  `ResetTypes`, `ResetsAreBound`, `TokensBurnByReset` and
`TokensStaySpent`, from an invariant that ties each stored or used token to the
one request that minted it and each reset under way to a stored row.  `Die` ends
any set of requests at once, as `Recovery` needs it; lemma `DieKeeps` covers it.
`RefusalsHaveCause` adds `LinkHasRow`: the row of a token whose event was emitted
is in the table, since the insert comes first and nothing deletes rows; so a
request that does not find it usable finds it expired, or used, and then by an
answered reset.

*Payment.*  `PlansAreBought` and `PaymentsKept` follow a checkout's id through
the tables: the gateway gives it to one request (`DistinctIds`), which writes its
only row (`RowOrigin`, `UniqueRows`); its url is answered after that, and it is
paid for after that (`RowFirst`), so a notification always finds its row; what a
handler holds is a copy of a row that is only ever marked paid (`HandlersCopy`).
`given` never changes, and a plan differs from it only after a purchase.
`TablesImplementLedger` maps `Store` to `Offer`, `HookTake` and `ForceConfirm` to
`TakeUp`, `HookCommit` to `Settle`, `HookDies` to `GiveUp`, all else to a stutter;
the mapping is `bills`, `settled` and `inHand` of `Payment`.

*Breaker.*  That a half-open breaker's probe is alone is a race of two timers.
`TimersRace` says who wins: while the breaker is open, the age of any pending call
and the time left to the breaker together exceed `Timeout`, so each call times out
first.  It holds when the breaker opens because `Timeout < ResetTimeout`, and a
tick moves a unit from one to the other.  `Ages` bounds what a client has waited
by the calls before this one times `Timeout` plus the age of this one; `Healthy`
says what has been answered while the gateway never failed and no data were faulty.

*Accounts.*  The unique columns compare text, so one account per address needs
that every stored address, and every one about to be stored, is in one spelling
(`UniqueColumns`, `Local`).  A registration refused for a unique column is in the
way of another request's row, which that request inserted with what its record
still holds (`Owners`); a verification may take the token off the row, but rows
stay, and so does the answer's reason (`Decided`, lemmas `ClashIsInTheWay` and
`DecidedStays`).  `Merged` compares a profile with the log of its
patches column by column; appending a patch moves the last index that gives a
column or leaves it (lemma `MergedGrows`).  `Shows` says the same of the answer to
one patch, hide-out included, up to that patch's place in the log, which goes on
growing.

*SignIn.*  A login is vouched for by an element of the user's history at or after
the moment it arrived; histories only grow, so the element stays (`Vouches`).
What it leaves, it leaves in its own name (`Stamps`), and a device before the
session (`DeviceFirst`).  `CodesStand`: a login's code is on file or the code on
file is another login's; it is not enough to say so of mailed codes, because a
login stores its code before it mails it.

*MailQueue.*  `CopiesExcused` and `FourCopiesAtMost` are not inductive: whether
the pending attempt has already delivered matters.  `Accounted` charges a copy to
a failed attempt, a counted stall, or the attempt under way; `Spared` says that a
job not given up has an attempt and a stall left, so that no job reaches three
failures and two stalls both.

*Recovery.*  `ComponentsStandAlone` maps each step of the composition to one of
each component or to a stutter.  Only two things are not by definition: a client's
token was emitted, because its mail arrived and mail travels only for emitted
tokens (`Carried`), and the token emitted is a token.  With that, the components'
invariants, taken from their proof modules by `INSTANCE`, hold of the
composition; `GoodLinksAccepted` and `PromisesKept` follow.

Only model-checked: liveness (`PaymentsConfirmed`, `EmittedIsSent`, `Recovers`),
which is out of the prover's reach, and the four violations.

## Not modelled, and why

- `SessionService.list`, security status, `config`: they change nothing.
- `VerifyTwoFactorUseCase`, `SecurityMonitorService`, `IsVerifiedGuard`,
  `deleteManyByToken`, `sendWelcomeEmail`, `sendSecurityAlert`, one-time
  checkouts: no reachable code calls them.
- Rate limiting: guard and counters are the library's.  What the code adds is two
  throttlers named `short` and `long` (`auth.module.ts:59-70`) and two overrides
  of one named `default` (`auth.controller.ts:47`, `password.controller.ts:21`),
  which therefore apply to none; a model would only restate it.
- Runs: one insert of derived numbers in floating point that nothing reads; its
  track points are validated and dropped.
- Health: one ping against a 5 s timer, no state.
- The statistics by which opossum opens a closed breaker: a free choice in
  `Breaker`.
- Of the fields a registration's body may bring, `role`, `createdAt` and the 2FA
  code with its expiry: no reachable code compares them with anything.
- Hashes, signatures, JWT encoding, templates, request ids, the envelope of
  answers, logging: data and formatting.
- Bootstrap, configuration, generated lock files.

## Plan

Done: every module listed above, with the proofs of all the safety they are
checked for.  Left, proofs again:

1. Consequences of the abstract specifications, proved of the ledgers and carried
   over by the refinements: a closed session stays closed, a settled bill that no
   handler has in hand never changes a plan again.
2. The safety half of the liveness properties: while what is to happen has not
   happened, some action of the fairness condition has its guard true
   (`PaymentsConfirmed`: a pending notification has a handler or may get one;
   `EmittedIsSent`: a job that is not at rest can move).
3. What `Sessions` promises `SignIn`: the single insert by which `SignIn` abstracts
   session creation, as a refinement.
