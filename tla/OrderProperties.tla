-------------------------- MODULE OrderProperties ---------------------------
(***************************************************************************)
(* What makes the order pipeline correct.  "job" is a FulfillmentJob in    *)
(* the queue, in the worker's hands or among the dead letters.             *)
(***************************************************************************)
EXTENDS OrderSystem

JobsIn(list) == {list[i] : i \in 1..Len(list)}

Unprocessed(job) == job \in JobsIn(queue) \/ (wstep \in {"load", "book"} /\ job = held)

OneEach(list) ==
  \A i, j \in 1..Len(list) : Id(list[i]) = Id(list[j]) => i = j

InHand(c) == held # NoJob /\ Id(held) = c

(* The request's handler will not make another call.                        *)
Over(o) == step[o] \in {"done", "gone"}

(* Every status of order o that is stored, cached, or held by someone who   *)
(* is about to cache it.                                                    *)
StatusesSeen(o) ==
  {db[o], cache[o], readBack[o]}
    \cup {rread[c] : c \in {d \in Readers : target[d] = o}}
    \cup (IF held # NoJob /\ held.order = o THEN {wread} ELSE {})
-------------------------------------------------------------------------------
(* The types of all variables.                                              *)
TypeOK == /\ StoreTypeOK /\ QueueTypeOK /\ process \in ProcessState
          /\ RequestTypeOK /\ WorkerTypeOK /\ ReaderTypeOK

(* An order has one job, and one more for each copy that a repeated LPUSH   *)
(* has left: every job is in one place, and its number among the copies     *)
(* that the client's lost replies account for.  Retries, dead-lettering and *)
(* crashes add none (Enqueue, Dequeue and SendToDLQ of queue.go, Execute of *)
(* process_fulfillment.go).                                                 *)
JobsAccountedFor ==
  /\ OneEach(queue) /\ OneEach(dlq)
  /\ \A c \in Copies :
       /\ ~(Has(queue, c) /\ Has(dlq, c))
       /\ InHand(c) => ~Has(queue, c) /\ ~Has(dlq, c)
       /\ Has(queue, c) \/ Has(dlq, c) \/ InHand(c) =>
            c[1] \in sent /\ c[2] <= repeats[c[1]]
  /\ \A o \in Orders : repeats[o] > 0 => "lost" \in Outcomes /\ Sends > 1

(* The Attempt a job carries is the number of times shipping has been asked *)
(* for it, plus one while it waits: no retry or crash gives a job more than *)
(* WORKER_MAX_ATTEMPTS bookings, and a copy that a repeated LPUSH makes of  *)
(* it starts from the attempts that the job had used up.                    *)
AttemptsCounted ==
  /\ \A job \in Job : Unprocessed(job) => job.attempt = tries[Id(job)] + 1
  /\ wstep \in Holding \ {"load", "book"} => held.attempt = tries[Id(held)]
  /\ \A c \in Copies : tries[c] <= MaxAttempts

(* Shipping is asked for an order only when its payment was authorised and  *)
(* its inventory reserved.                                                  *)
ShipsOnlyPaid ==
  \A c \in Copies : tries[c] > 0 => c[1] \in paid \cap reserved

(* An order refused with 400 or 502 is never handed to shipping, and nobody *)
(* who looks it up can be told that it is queued or fulfilled.              *)
RefusedStaysRefused ==
  \A o \in Orders : answer[o] \in {"400", "502"} =>
    /\ ~Listed(queue, o)
    /\ \A c \in Copies : c[1] = o => tries[c] = 0
    /\ StatusesSeen(o) \cap {"queued", "fulfilled"} = {}

(* A dead letter was tried as often as allowed, and the failure it stands   *)
(* for was written to the order first.                                      *)
DeadLettersAreFailed ==
  \A job \in JobsIn(dlq) : /\ job.attempt = MaxAttempts
                           /\ tries[Id(job)] = MaxAttempts
                           /\ settled[Id(job)] = "failed"

(* Whoever is told that an order is fulfilled, from the row or from any     *)
(* copy of it, is told of an order that shipping has booked.                *)
FulfilledWasShipped ==
  \A o \in Orders : "fulfilled" \in StatusesSeen(o) => booked[o] > 0

(* The client that was answered 201 never reads "pending": not from the     *)
(* row, nor from the cache, whatever late write or fill reaches it.         *)
CreatedIsNotPending ==
  \A o \in Orders : Answered(o, "201") => "pending" \notin StatusesSeen(o)

(* The worker writes one verdict for a job, and once the request that made  *)
(* the order is over, and no write of the row that was given up is still on *)
(* its way, nothing but the first verdict on one more copy of the job       *)
(* changes the row.                                                         *)
VerdictStands ==
  [][/\ \A c \in Copies : settled[c] # "none" => settled'[c] = settled[c]
     /\ \A o \in Orders : Over(o) /\ RowIsSettled(o) /\ db'[o] # db[o] =>
          \E c \in Copies : /\ c[1] = o
                           /\ settled[c] = "none" /\ settled'[c] = db'[o]]_vars

(* Where the pipeline has a copy of an order's job, for Delivery.           *)
PlaceOf(c) ==
  IF c[1] \notin sent \/ c[2] > repeats[c[1]]  THEN "unsent"
  ELSE IF Has(queue, c)                        THEN "queued"
  ELSE IF InHand(c)                            THEN "held"
  ELSE IF Has(dlq, c)                          THEN "buried"
  ELSE IF settled[c] = "fulfilled"             THEN "finished" ELSE "lost"

place == [c \in Copies |-> PlaceOf(c)]

AtMostOnce == INSTANCE Delivery WITH
                Limit <- MaxAttempts,
                Surplus <- MaxRepeats,
                attempts <- tries

(* The pipeline implements Delivery: through every crash, shutdown, lost    *)
(* reply and repeated push, a copy of a job is delivered to one worker at a *)
(* time, tried as often as allowed at most, and never revived once it is    *)
(* finished, buried or lost; only a push makes new ones.                    *)
DeliversAtMostOnce == AtMostOnce!Spec

(* A job that waits in Redis is never lost, whoever dies, but to a BRPOP    *)
(* whose reply is lost, and a dead letter not even to that.  The job in the *)
(* worker's hands is lost only to the end of the process or of its context, *)
(* or to a call that fails: not to the booking, which a retry or a verdict  *)
(* follows, whatever it answers.                                            *)
OnlyTheHeldIsLost ==
  [][\A c \in Copies : place[c] # "lost" /\ place'[c] = "lost" =>
       \/ /\ place[c] = "held"
          /\ \/ process' = "down" \/ ~ContextLive
             \/ Outcomes # {"ok"} /\ wstep # "book"
       \/ /\ place[c] = "queued" /\ "lost" \in Outcomes
          /\ wstep = "popping" /\ held' = NoJob]_vars
-------------------------------------------------------------------------------
(* While nothing fails, a job that entered the queue is waiting, being      *)
(* processed, dead, or has fulfilled its order: the worker drops none.      *)
NoJobLost == \A c \in Copies : place[c] # "lost"

(* While nothing fails, only jobs whose shipping was asked to fail die.     *)
OnlyDoomedJobsDie == \A job \in JobsIn(dlq) : job.failShipping

(* Every order answered 201 gets the worker's verdict.                      *)
CreatedIsSettled ==
  \A o \in Orders : Answered(o, "201") ~> settled[<<o, 0>>] # "none"

(* A job whose shipping always fails is retried to its end and dead-lettered.*)
DoomedJobDies ==
  \A o \in Orders :
    (\E job \in JobsIn(queue) : job.order = o /\ job.failShipping)
      ~> Listed(dlq, o)

(* However the late fills and writes of the cache interleave, in the end it *)
(* has no entry of an order or one that agrees with the row.                *)
CacheConverges ==
  \A o \in Orders : <>[](cache[o] \in {"absent", db[o]})

(* The jobs that crashes left in Redis are taken off the queue once the     *)
(* process stays up.                                                        *)
QueueIsServed ==
  <>[](process = "serving") => \A o \in Orders : []<>~Listed(queue, o)

(* A stop ends the process although requests in flight call the listener    *)
(* that Shutdown has closed: nobody waits for anybody.                      *)
ShutdownEnds == process = "cancelled" ~> process = "down"
-------------------------------------------------------------------------------
(* What the documentation and the tests say, and the code does not do.      *)

(* README: a created order goes from queued to fulfilled when the payment,  *)
(* the inventory and the shipping all succeed.                              *)
CreatedIsFulfilled ==
  \A o \in Orders : Answered(o, "201") ~> db[o] = "fulfilled"

(* README: a job at the limit of its attempts is sent to the DLQ and its    *)
(* order is marked failed.                                                  *)
FailedIsDead ==
  \A o \in Orders :
    settled[<<o, 0>>] = "failed" /\ ~InHand(<<o, 0>>) => Listed(dlq, o)

(* TestCreateOrderPaymentFailure, TestCreateOrderInventoryFailure: an order *)
(* that a dependency refused is stored as failed.                           *)
RefusedIsFailed == \A o \in Orders : Answered(o, "502") => db[o] = "failed"

(* TestCreateOrderEnqueueFailure: an order whose enqueueing failed is       *)
(* stored as failed; certainly it is not fulfilled.                         *)
ErrorIsNotFulfilled ==
  \A o \in Orders : Answered(o, "500") => db[o] # "fulfilled"
===============================================================================
