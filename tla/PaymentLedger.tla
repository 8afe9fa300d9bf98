--------------------------- MODULE PaymentLedger ---------------------------
(***************************************************************************)
(* What buying a plan promises, with the gateway, the requests and the     *)
(* database left out.                                                      *)
(*                                                                         *)
(*   - a bill is offered once, for one user and one plan;                  *)
(*   - it can be taken up only while it is not settled, by any number of   *)
(*     handlers at once, each of which settles it or gives up;             *)
(*   - settling it gives its user its plan, in the same step;              *)
(*   - nothing else changes a plan, whatever it was to begin with.         *)
(*                                                                         *)
(* So a settled bill that nobody is handling any more is final: it never   *)
(* changes a plan again, however often its payment is reported.  While it  *)
(* is still being handled it may be applied once more, over the plan of a  *)
(* later bill.  Module Payment implements this specification.              *)
(***************************************************************************)
CONSTANTS Users, Ids, Plans

VARIABLES
  bills,     \* records [id, user, plan]
  settled,   \* ids of the bills that are paid
  inHand,    \* ids of the bills some handler is about to settle
  plan       \* the plan each user has

vars == <<bills, settled, inHand, plan>>

Bill == [id : Ids, user : Users, plan : Plans]

Init ==
  /\ bills = {} /\ settled = {} /\ inHand = {}
  /\ plan \in [Users -> Plans]

Offer(b) ==
  /\ \A other \in bills : other.id # b.id
  /\ bills' = bills \cup {b}
  /\ UNCHANGED <<settled, inHand, plan>>

TakeUp(b) ==
  /\ b.id \notin settled
  /\ inHand' = inHand \cup {b.id}
  /\ UNCHANGED <<bills, settled, plan>>

\* Another handler may still have the bill in hand.
LetGo(b) == inHand' \in {inHand, inHand \ {b.id}}

Settle(b) ==
  /\ b.id \in inHand
  /\ settled' = settled \cup {b.id}
  /\ plan' = [plan EXCEPT ![b.user] = b.plan]
  /\ LetGo(b)
  /\ UNCHANGED bills

GiveUp(b) == LetGo(b) /\ UNCHANGED <<bills, settled, plan>>

Next ==
  \/ \E b \in Bill : Offer(b)
  \/ \E b \in bills : TakeUp(b) \/ Settle(b) \/ GiveUp(b)

Spec == Init /\ [][Next]_vars
=============================================================================
