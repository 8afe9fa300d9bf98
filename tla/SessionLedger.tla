--------------------------- MODULE SessionLedger ---------------------------
(***************************************************************************)
(* What the session store promises, with every request, clock and column   *)
(* left out: which refresh token is the one that opens which session.      *)
(*                                                                         *)
(*   - a session is opened once, with a token nobody has seen;             *)
(*   - rotating a session replaces its token by an unseen one and retires  *)
(*     the old one;                                                        *)
(*   - closing sessions retires their tokens;                              *)
(*   - a token may be retired without ever having opened anything (it was  *)
(*     handed out for a session that was closed meanwhile).                *)
(*                                                                         *)
(* A closed session is never reopened and a retired token never works      *)
(* again.  Module Sessions implements this specification.                  *)
(***************************************************************************)
CONSTANTS SessionIds, Tokens

VARIABLES
  live,      \* pairs <<session, token>>: the token that opens the session
  opened,    \* sessions that have ever existed
  retired    \* tokens that will never open a session (again)

vars == <<live, opened, retired>>

Init ==
  /\ live = {}
  /\ opened = {}
  /\ retired = {}

Unseen(t) ==
  /\ t \notin retired
  /\ \A p \in live : p[2] # t

Open(s, t) ==
  /\ s \notin opened
  /\ Unseen(t)
  /\ live' = live \cup {<<s, t>>}
  /\ opened' = opened \cup {s}
  /\ UNCHANGED retired

Rotate(s, old, new) ==
  /\ <<s, old>> \in live
  /\ Unseen(new)
  /\ live' = (live \ {<<s, old>>}) \cup {<<s, new>>}
  /\ retired' = retired \cup {old}
  /\ UNCHANGED opened

Discard(t) ==
  /\ Unseen(t)
  /\ retired' = retired \cup {t}
  /\ UNCHANGED <<live, opened>>

Close(S) ==
  /\ live' = {p \in live : p[1] \notin S}
  /\ retired' = retired \cup {p[2] : p \in live \ live'}
  /\ UNCHANGED opened

Next ==
  \/ \E s \in SessionIds, t \in Tokens : Open(s, t)
  \/ \E s \in SessionIds, old, new \in Tokens : Rotate(s, old, new)
  \/ \E t \in Tokens : Discard(t)
  \/ \E S \in SUBSET SessionIds : Close(S)

Spec == Init /\ [][Next]_vars
=============================================================================
