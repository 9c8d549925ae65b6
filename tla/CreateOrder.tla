---------------------------- MODULE CreateOrder -----------------------------
(***************************************************************************)
(* CreateOrderUseCase.Execute behind POST /api/v1/orders, one action per   *)
(* call that leaves the process.  step[o] is the call the request that     *)
(* made order o is about to make; failUpdate, failRead and failCache are   *)
(* the calls of failOrder, whose errors are ignored.                       *)
(***************************************************************************)
EXTENDS OrderStore, FulfillmentQueue, Process

CONSTANT Simulations    \* the values of fail_shipping that clients send

ASSUME SimulationsAssumption == Simulations \subseteq BOOLEAN /\ Simulations # {}

VARIABLES step,         \* where the request is
          live,         \* its context has neither timed out nor been cancelled
          readBack,     \* the status failOrder read, while it holds one
          answer,       \* the HTTP status it ends with, once Execute knows it
          paid, reserved,       \* external: what the simulators agreed to
          sent          \* history: orders whose first job entered the queue

requestVars == <<step, live, readBack, answer, paid, reserved, sent>>

Forward == {"persist", "cache", "payment", "inventory", "enqueue",
            "markQueued", "cacheQueued"}
Failing == {"failUpdate", "failRead", "failCache"}
Active  == Forward \cup Failing
Steps   == Active \cup {"idle", "done", "gone"}
Answers == {"none", "201", "400", "500", "502"}

RequestTypeOK == /\ step \in [Orders -> Steps]
                 /\ live \in [Orders -> BOOLEAN]
                 /\ readBack \in [Orders -> Entry]
                 /\ answer \in [Orders -> Answers]
                 /\ paid \subseteq Orders
                 /\ reserved \subseteq Orders
                 /\ sent \subseteq Orders

RequestInit == /\ step = [o \in Orders |-> "idle"]
               /\ live = [o \in Orders |-> TRUE]
               /\ readBack = [o \in Orders |-> "absent"]
               /\ answer = [o \in Orders |-> "none"]
               /\ paid = {} /\ reserved = {} /\ sent = {}

(* The client holds the answer only when the handler has returned.          *)
Answered(o, code) == step[o] = "done" /\ answer[o] = code

Goto(o, s) == step' = [step EXCEPT ![o] = s] /\ UNCHANGED answer
Ends(o, s, code) == /\ step' = [step EXCEPT ![o] = s]
                    /\ answer' = [answer EXCEPT ![o] = code]

ContinueAnyway(o, success, s, code) == Goto(o, s)  \* mutant: err is not tested
AnswerAndContinue(o, success, s, code) ==          \* mutant: no return after err
  IF success THEN Goto(o, s) ELSE Ends(o, s, code)

(* Every failure after persist goes through failOrder.                      *)
Continue(o, success, s, code) ==
  IF success THEN Goto(o, s) ELSE Ends(o, "failUpdate", code)

SimulatorsHang(o) ==            \* mutant: the call waits for a closed listener
  IF live[o] /\ Listening THEN Outcomes \cup {"error"} ELSE {}

(* The simulators are routes of this same server, and the client may have   *)
(* asked them to fail.                                                      *)
SimulatorResults(o) ==
  IF live[o] /\ Listening THEN Outcomes \cup {"error"} ELSE {"error"}
-------------------------------------------------------------------------------
(* The handler decodes the body and validateAndBuild accepts or rejects it. *)
Receive(o) == /\ step[o] = "idle"
              /\ Listening
              /\ \/ Goto(o, "persist")
                 \/ Ends(o, "done", "400")
              /\ UNCHANGED <<live, readBack, paid, reserved, sent,
                             storeVars, queueVars>>

(* The one error that failOrder does not follow.                            *)
Persist(o) ==
  /\ step[o] = "persist"
  /\ \E r \in WriteResults(live[o]) :
       /\ WriteRow(o, "pending", r)
       /\ IF r = "ok" THEN Goto(o, "cache") ELSE Ends(o, "done", "500")
  /\ UNCHANGED <<cache, live, readBack, paid, reserved, sent, queueVars>>

CachePending(o) ==
  /\ step[o] = "cache"
  /\ \E r \in WriteResults(live[o]) :
       /\ CacheSet(o, "pending", r)
       /\ Continue(o, r = "ok", "payment", "500")
  /\ UNCHANGED <<db, live, readBack, paid, reserved, sent, queueVars>>

AuthorizePayment(o) ==
  /\ step[o] = "payment"
  /\ \E r \in SimulatorResults(o) :
       /\ paid' = IF TookEffect(r) THEN paid \cup {o} ELSE paid
       /\ Continue(o, r = "ok", "inventory", "502")
  /\ UNCHANGED <<live, readBack, reserved, sent, storeVars, queueVars>>

ReserveInventory(o) ==
  /\ step[o] = "inventory"
  /\ \E r \in SimulatorResults(o) :
       /\ reserved' = IF TookEffect(r) THEN reserved \cup {o} ELSE reserved
       /\ Continue(o, r = "ok", "enqueue", "502")
  /\ UNCHANGED <<live, readBack, paid, sent, storeVars, queueVars>>

(* The job is visible to the worker before the row says "queued".           *)
EnqueueJob(o) ==
  /\ step[o] = "enqueue"
  /\ \E r \in PushResults(live[o]), fail \in Simulations :
       /\ Enqueue([order |-> o, copy |-> 0, attempt |-> 1,
                   failShipping |-> fail], r.copies)
       /\ sent' = IF r.copies > 0 THEN sent \cup {o} ELSE sent
       /\ Continue(o, r.ok, "markQueued", "500")
  /\ UNCHANGED <<live, readBack, paid, reserved, storeVars>>

(* An unconditional UPDATE: whatever status the row has, it becomes queued. *)
MarkQueued(o) ==
  /\ step[o] = "markQueued"
  /\ \E r \in UpdateResults(o, live[o]) :
       /\ WriteRow(o, "queued", r)
       /\ Continue(o, r = "ok", "cacheQueued", "500")
  /\ UNCHANGED <<cache, live, readBack, paid, reserved, sent, queueVars>>

CacheStillPending(o) ==         \* mutant: order.Status is not updated first
  /\ step[o] = "cacheQueued"
  /\ CacheSet(o, "pending", "ok")
  /\ Ends(o, "done", "201")
  /\ UNCHANGED <<db, live, readBack, paid, reserved, sent, queueVars>>

CacheQueued(o) ==
  /\ step[o] = "cacheQueued"
  /\ \E r \in WriteResults(live[o]) :
       /\ CacheSet(o, "queued", r)
       /\ IF r = "ok" THEN Ends(o, "done", "201")
                      ELSE Ends(o, "failUpdate", "500")
  /\ UNCHANGED <<db, live, readBack, paid, reserved, sent, queueVars>>
-------------------------------------------------------------------------------
(* failOrder runs under the request's own context, live or not.             *)
FailUpdate(o) ==
  /\ step[o] = "failUpdate"
  /\ \E r \in UpdateResults(o, live[o]) :
       /\ WriteRow(o, "failed", r)
       /\ Goto(o, IF r = "ok" THEN "failRead" ELSE "done")
  /\ UNCHANGED <<cache, live, readBack, paid, reserved, sent, queueVars>>

FailRead(o) ==
  /\ step[o] = "failRead"
  /\ \E r \in RowResults(o, live[o]) :
       IF r = "ok" THEN /\ readBack' = [readBack EXCEPT ![o] = db[o]]
                        /\ Goto(o, "failCache")
                   ELSE /\ UNCHANGED readBack
                        /\ Goto(o, "done")
  /\ UNCHANGED <<live, paid, reserved, sent, storeVars, queueVars>>

FailCache(o) ==
  /\ step[o] = "failCache"
  /\ \E r \in WriteResults(live[o]) : CacheSet(o, readBack[o], r)
  /\ Goto(o, "done")
  /\ readBack' = [readBack EXCEPT ![o] = "absent"]
  /\ UNCHANGED <<db, live, paid, reserved, sent, queueVars>>

(* REQUEST_TIMEOUT expires or the client hangs up: the handler goes on, and *)
(* each call it still makes fails.                                          *)
RequestTimeout(o) ==
  /\ "timeout" \in Events
  /\ step[o] \in Active
  /\ live[o]
  /\ live' = [live EXCEPT ![o] = FALSE]
  /\ UNCHANGED <<step, readBack, answer, paid, reserved, sent,
                 storeVars, queueVars>>

HandlerStep(o) == \/ Persist(o) \/ CachePending(o)
                  \/ AuthorizePayment(o) \/ ReserveInventory(o)
                  \/ EnqueueJob(o) \/ MarkQueued(o) \/ CacheQueued(o)
                  \/ FailUpdate(o) \/ FailRead(o) \/ FailCache(o)

RequestStep(o) == Receive(o) \/ HandlerStep(o) \/ RequestTimeout(o)
===============================================================================
