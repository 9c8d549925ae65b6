------------------------------- MODULE Domain -------------------------------
(***************************************************************************)
(* The vocabulary of the order pipeline: orders, their statuses, and how a *)
(* call to PostgreSQL, Redis or a simulator may end:                       *)
(*   "ok"     it took effect and returned nil,                             *)
(*   "error"  it had no effect and returned an error,                      *)
(*   "lost"   it took effect but its reply was lost: an error came back.   *)
(* A call that its context interrupts is an "error" or a "lost" one, or,    *)
(* if it writes, a "late" one: OrderStore.                                 *)
(***************************************************************************)

CONSTANTS Orders,       \* one identifier (uuid.NewString) per POST request
          Outcomes      \* the outcomes a call may have in a run

ASSUME OrdersAssumption == Orders # {}
ASSUME OutcomesAssumption ==
  /\ Outcomes \subseteq {"ok", "error", "lost"}
  /\ "ok" \in Outcomes

OrderStatus == {"pending", "queued", "fulfilled", "failed"}

(* Whether a call changed what it was sent to change.                       *)
TookEffect(r) == r \in {"ok", "lost"}

(* The outcomes of a call made under a context that is, or is not, live: a  *)
(* call whose context is already done fails before anything is sent.        *)
Results(live) == IF live THEN Outcomes ELSE {"error"}
===============================================================================
