------------------------- MODULE ProcessFulfillment -------------------------
(***************************************************************************)
(* The fulfilment worker: the polling loop of Worker.Run around            *)
(* ProcessFulfillmentUseCase.Execute, one action per call that leaves the  *)
(* process.  main starts exactly one.  A job leaves the queue when it is   *)
(* popped, so a job whose processing stops early is gone: the loop logs    *)
(* the error and polls again.                                              *)
(***************************************************************************)
EXTENDS OrderStore, FulfillmentQueue, Process

VARIABLES wstep,        \* where the worker is
          held,         \* the job it is processing, or NoJob
          verdict,      \* the status it is recording for that job's order
          wread,        \* the row persistResult read back, while it holds one
          tries,        \* history: calls to Shipping.Book, per copy of a job
          booked,       \* external: the bookings that took effect, per order
          settled       \* history: the last status the worker wrote for a copy

workerVars == <<wstep, held, verdict, wread, tries, booked, settled>>

WorkerSteps == {"poll", "popping", "load", "book", "retry", "update", "read",
                "cacheSet", "deadLetter", "exited"}

(* The steps at which the worker is processing a job.                       *)
Holding == {"load", "book", "retry", "update", "read", "cacheSet", "deadLetter"}

WorkerTypeOK == /\ wstep \in WorkerSteps
                /\ held \in Job \cup {NoJob}
                /\ verdict \in {"none", "fulfilled", "failed"}
                /\ wread \in Entry
                /\ tries \in [Copies -> Nat]
                /\ booked \in [Orders -> Nat]
                /\ settled \in [Copies -> {"none", "fulfilled", "failed"}]

Idle(s) == wstep' = s /\ held' = NoJob /\ verdict' = "none" /\ wread' = "absent"

WorkerInit == /\ wstep = "poll"
              /\ held = NoJob
              /\ verdict = "none"
              /\ wread = "absent"
              /\ tries = [c \in Copies |-> 0]
              /\ booked = [o \in Orders |-> 0]
              /\ settled = [c \in Copies |-> "none"]

history == <<tries, booked, settled>>

(* A copy of the job in hand has the past of that job.                      *)
Inherited(f) ==
  [c \in Copies |-> IF c \in NewCopies(held.order) THEN f[Id(held)] ELSE f[c]]

CopiesInherit == /\ tries' = Inherited(tries) /\ settled' = Inherited(settled)
                 /\ UNCHANGED booked

ShouldRetryOnceMore(job) == job.attempt <= MaxAttempts  \* mutant: < became <=
ShouldRetryOnceLess(job) == job.attempt + 1 < MaxAttempts  \* mutant: counted from 1

ShouldRetry(job) == job.attempt < MaxAttempts

RetryUncounted(job) == job      \* mutant: retryJob.Attempt++ is missing

RetryJob(job) == [order |-> job.order, copy |-> job.copy,
                  attempt |-> job.attempt + 1, failShipping |-> job.failShipping]

AlwaysFulfilled(r) == "fulfilled"       \* mutant: Book's error is dropped
AlwaysFailed(r) == "failed"             \* mutant: the error test is reversed

(* The status that stands for the booking's outcome when it is not retried. *)
Verdict(r) == IF r = "ok" THEN "fulfilled" ELSE "failed"

(* The shipping simulator is a route of this same server, and the job says  *)
(* whether the client asked it to fail.                                     *)
ShippingResults == IF ContextLive /\ Listening /\ ~held.failShipping
                   THEN Outcomes ELSE {"error"}
-------------------------------------------------------------------------------
(* The top of the loop: nothing but a done context leaves it here.          *)
Poll == /\ wstep = "poll"
        /\ wstep' = IF ContextLive THEN "popping" ELSE "exited"
        /\ UNCHANGED <<held, verdict, wread, history, storeVars, queueVars,
                       process>>

(* BRPOP answers with a job, which may race with the cancellation of ctx.   *)
PopJob == /\ wstep = "popping"
          /\ Dequeue
          /\ wstep' = "load"
          /\ held' = Head(queue)
          /\ UNCHANGED <<verdict, wread, history, storeVars, process>>

(* BRPOP waits WORKER_POLL_TIMEOUT in vain: ErrQueueEmpty.                  *)
PopEmpty == /\ wstep = "popping"
            /\ queue = <<>>
            /\ wstep' = "poll"
            /\ UNCHANGED <<held, verdict, wread, history, storeVars,
                           queueVars, process>>

(* Any other error ends Run; the popped element, if there was one, is lost. *)
(* Unless ctx was already done, main's goroutine then stops the process.    *)
PopFails == /\ wstep = "popping"
            /\ \E r \in Results(ContextLive) \ {"ok"} :
                 IF r = "lost" THEN Dequeue ELSE UNCHANGED queueVars
            /\ wstep' = "exited"
            /\ process' = IF ContextLive THEN "cancelled" ELSE process
            /\ UNCHANGED <<held, verdict, wread, history, storeVars>>

(* The client repeats a BRPOP whose reply it lost, and with it the element. *)
PopRepeats == /\ wstep = "popping"
              /\ "lost" \in Outcomes /\ Sends > 1 /\ ContextLive
              /\ Dequeue
              /\ UNCHANGED <<workerVars, storeVars, process>>

(* WorkerLatencyMS, which only a cancelled context interrupts, and GetByID. *)
Load == /\ wstep = "load"
        /\ \E r \in RowResults(held.order, ContextLive) :
             IF r = "ok" THEN wstep' = "book" /\ UNCHANGED <<held, verdict, wread>>
                         ELSE Idle("poll")
        /\ UNCHANGED <<history, storeVars, queueVars, process>>

Book == /\ wstep = "book"
        /\ tries' = [tries EXCEPT ![Id(held)] = @ + 1]
        /\ \E r \in ShippingResults :
             /\ booked' = IF TookEffect(r)
                          THEN [booked EXCEPT ![held.order] = @ + 1] ELSE booked
             /\ IF r # "ok" /\ ShouldRetry(held)
                THEN wstep' = "retry" /\ UNCHANGED verdict
                ELSE wstep' = "update" /\ verdict' = Verdict(r)
        /\ UNCHANGED <<held, wread, settled, storeVars, queueVars, process>>

RetryAndRecord ==               \* mutant: no return after the retry is pushed
  /\ wstep = "retry"
  /\ Enqueue(RetryJob(held), 1)
  /\ wstep' = "update" /\ verdict' = "failed"
  /\ UNCHANGED <<held, wread, history, storeVars, process>>

(* The retry is a new element at the back of the queue, without a pause.    *)
Retry == /\ wstep = "retry"
         /\ \E r \in PushResults(ContextLive) :
              Enqueue(RetryJob(held), r.copies)
         /\ CopiesInherit
         /\ Idle("poll")
         /\ UNCHANGED <<storeVars, process>>
-------------------------------------------------------------------------------
(* persistResult: UpdateStatus, GetByID, Cache.Set.                         *)
UpdateResult ==
  /\ wstep = "update"
  /\ \E r \in UpdateResults(held.order, ContextLive) :
       /\ WriteRow(held.order, verdict, r)
       /\ settled' = IF TookEffect(r)
                     THEN [settled EXCEPT ![Id(held)] = verdict] ELSE settled
       /\ IF r = "ok" THEN wstep' = "read" /\ UNCHANGED <<held, verdict, wread>>
                      ELSE Idle("poll")
  /\ UNCHANGED <<cache, tries, booked, queueVars, process>>

ReadResult ==
  /\ wstep = "read"
  /\ \E r \in RowResults(held.order, ContextLive) :
       IF r = "ok" THEN /\ wstep' = "cacheSet"
                        /\ wread' = db[held.order]
                        /\ UNCHANGED <<held, verdict>>
                   ELSE Idle("poll")
  /\ UNCHANGED <<history, storeVars, queueVars, process>>

CacheResult ==
  /\ wstep = "cacheSet"
  /\ \E r \in WriteResults(ContextLive) :
       /\ CacheSet(held.order, wread, r)
       /\ IF r = "ok" /\ verdict = "failed"
          THEN wstep' = "deadLetter" /\ UNCHANGED <<held, verdict, wread>>
          ELSE Idle("poll")
  /\ UNCHANGED <<db, history, queueVars, process>>

(* Only after persistResult of a failure has wholly succeeded.              *)
DeadLetter == /\ wstep = "deadLetter"
              /\ \E r \in PushResults(ContextLive) : SendToDLQ(held, r.copies)
              /\ CopiesInherit
              /\ Idle("poll")
              /\ UNCHANGED <<storeVars, process>>

JobStep == \/ Load \/ Book \/ Retry
           \/ UpdateResult \/ ReadResult \/ CacheResult \/ DeadLetter

WorkerStep == Poll \/ PopJob \/ PopEmpty \/ PopFails \/ PopRepeats \/ JobStep
===============================================================================
