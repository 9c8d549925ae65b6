-------------------------- MODULE FulfillmentQueue --------------------------
(***************************************************************************)
(* The two Redis lists of the fulfilment pipeline.  LPUSH with BRPOP makes *)
(* the queue a FIFO, written here with \o, Head and Tail.  Nothing consumes *)
(* the dead letters.  The client that openRedis makes keeps its default    *)
(* retries: it sends an LPUSH again whose reply it lost, and Redis then    *)
(* holds the same job several times.                                       *)
(***************************************************************************)
EXTENDS Domain, Integers, Sequences

CONSTANTS Sends,                \* external: 1 + MaxRetries of the Redis client
          MaxRepeats,           \* bound: copies of an order beyond the first
          WorkerMaxAttempts,    \* WORKER_MAX_ATTEMPTS
          NoJob                 \* what a worker without a job holds

ASSUME SendsAssumption == Sends \in Nat \ {0}
ASSUME RepeatsAssumption == MaxRepeats \in Nat
ASSUME MaxAttemptsAssumption == WorkerMaxAttempts \in Int

VARIABLES queue, dlq,
          repeats       \* history: the copies of an order beyond the first

queueVars == <<queue, dlq, repeats>>

(* ProcessFulfillmentUseCase takes a limit of zero or less to mean three.   *)
MaxAttempts == IF WorkerMaxAttempts <= 0 THEN 3 ELSE WorkerMaxAttempts

(* FulfillmentJob, and what it does not have: a number that tells apart     *)
(* the copies a repeated push has made.  No action reads that number.       *)
Job == [order: Orders, copy: 0..MaxRepeats,
        attempt: 1..MaxAttempts, failShipping: BOOLEAN]

Copies == Orders \X (0..MaxRepeats)
Id(job) == <<job.order, job.copy>>

ASSUME NoJobAssumption == NoJob \notin Job

QueueTypeOK == /\ queue \in Seq(Job) /\ dlq \in Seq(Job)
               /\ repeats \in [Orders -> 0..MaxRepeats]

QueueInit == queue = <<>> /\ dlq = <<>> /\ repeats = [o \in Orders |-> 0]

(* How many elements an LPUSH adds, and whether its caller hears of it: one *)
(* lost reply makes the client send it again, the last one is an error.     *)
PushResults(live) ==
  {r \in [copies: 0..Sends, ok: BOOLEAN] :
     \/ r.copies = 0 /\ ~r.ok /\ (live => "error" \in Outcomes)
     \/ r.copies = 1 /\ r.ok /\ live
     \/ r.copies > (IF r.ok THEN 1 ELSE 0) /\ live /\ "lost" \in Outcomes}

Copied(job, i) ==
  IF i = 1 THEN job ELSE [job EXCEPT !.copy = repeats[job.order] + i - 1]

Pushed(list, job, n) == list \o [i \in 1..n |-> Copied(job, i)]

CountCopies(job, n) ==
  /\ n > 1 => repeats[job.order] + n - 1 <= MaxRepeats
  /\ repeats' = IF n > 1 THEN [repeats EXCEPT ![job.order] = @ + n - 1]
                         ELSE repeats

(* The copies that the step under way makes.                                *)
NewCopies(o) == {c \in Copies : c[1] = o /\ c[2] > repeats[o] /\ c[2] <= repeats'[o]}

EnqueueInDLQ(job, n) ==         \* mutant: the two list names are swapped
  dlq' = Pushed(dlq, job, n) /\ CountCopies(job, n) /\ UNCHANGED queue

Enqueue(job, n) ==
  queue' = Pushed(queue, job, n) /\ CountCopies(job, n) /\ UNCHANGED dlq

BuryNowhere(job, n) == UNCHANGED queueVars      \* mutant: the push is missing

SendToDLQ(job, n) ==
  dlq' = Pushed(dlq, job, n) /\ CountCopies(job, n) /\ UNCHANGED queue

PopTwo ==                       \* mutant: two are popped and one is returned
  /\ queue # <<>> /\ UNCHANGED <<dlq, repeats>>
  /\ queue' = IF Len(queue) > 1 THEN Tail(Tail(queue)) ELSE <<>>

Peek == queue # <<>> /\ UNCHANGED queueVars     \* mutant: reads without popping

(* The popped element leaves the list before the reply is sent.             *)
Dequeue == queue # <<>> /\ queue' = Tail(queue) /\ UNCHANGED <<dlq, repeats>>

Listed(list, o) == \E i \in 1..Len(list) : list[i].order = o
Has(list, c) == \E i \in 1..Len(list) : Id(list[i]) = c
===============================================================================
