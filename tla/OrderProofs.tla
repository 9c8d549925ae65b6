---------------------------- MODULE OrderProofs -----------------------------
(***************************************************************************)
(* Proofs about the order pipeline, for any orders, readers, faults and    *)
(* limit of attempts.                                                      *)
(***************************************************************************)
EXTENDS OrderProperties, SequenceTheorems, TLAPS

(* What the place the worker is at says of what it holds.  With it TypeOK   *)
(* is inductive: an attempt is only incremented below the limit, and a row  *)
(* is only given a verdict that is a status.                                *)
Persisting == {"update", "read", "cacheSet", "deadLetter"}

WorkerShape ==
  /\ wstep \in Holding <=> held # NoJob
  /\ wstep \in Persisting <=> verdict # "none"
  /\ wread # "absent" => wstep \in {"cacheSet", "deadLetter"}
  /\ wstep = "retry" => held.attempt < MaxAttempts

TypeInv == TypeOK /\ WorkerShape

BeforeEnqueue  == {"idle", "persist", "cache", "payment", "inventory", "enqueue"}
AfterEnqueue   == {"markQueued", "cacheQueued"}
AfterInventory == {"enqueue"} \cup AfterEnqueue
AfterPayment   == {"inventory"} \cup AfterInventory

(* What the place a request is at says of what it has done.                 *)
RequestShape ==
  \A o \in Orders :
    /\ step[o] \in AfterPayment => o \in paid
    /\ step[o] \in AfterInventory => o \in reserved
    /\ step[o] \in AfterEnqueue => o \in sent
    /\ step[o] \in BeforeEnqueue => o \notin sent
    /\ o \in sent => o \in paid /\ o \in reserved
    /\ step[o] \in Forward \cup {"idle"} => answer[o] = "none"
    /\ answer[o] \in {"400", "502"} => o \notin sent

(* Only orders whose job was sent are queued, held, buried or tried.        *)
OnlySent ==
  /\ \A i \in 1..Len(queue) : queue[i].order \in sent
  /\ \A i \in 1..Len(dlq) : dlq[i].order \in sent
  /\ held # NoJob => held.order \in sent
  /\ \A c \in Copies : tries[c] > 0 => c[1] \in sent

(* Nobody has, or is about to store, a status beyond pending or failed of   *)
(* an order whose job was not sent.                                         *)
Quiet(status) == status \notin {"queued", "fulfilled"}

StoreIsQuiet ==
  \A o \in Orders \ sent :
    /\ Quiet(db[o]) /\ Quiet(cache[o])
    /\ \A w \in Write : late[w] > 0 /\ w.order = o => Quiet(w.status)

ReadIsQuiet ==
  \A o \in Orders \ sent :
    Quiet(readBack[o]) /\ \A c \in Readers : target[c] = o => Quiet(rread[c])

UnsentIsQuiet == StoreIsQuiet /\ ReadIsQuiet

SafetyInv == TypeInv /\ RequestShape /\ OnlySent /\ UnsentIsQuiet
-------------------------------------------------------------------------------
(* Facts about the operators of FulfillmentQueue.                           *)

(* The limit of attempts is positive, whatever WORKER_MAX_ATTEMPTS is.      *)
LEMMA LimitIsPositive == MaxAttempts \in Nat /\ MaxAttempts >= 1
  BY MaxAttemptsAssumption DEF MaxAttempts

(* How many copies of an order's job a push of n elements adds.             *)
Extra(n) == IF n > 1 THEN n - 1 ELSE 0

(* The elements a push adds are the job itself and new copies of it.        *)
LEMMA CopiedIs ==
  ASSUME QueueTypeOK, NEW job \in Job, NEW n \in Nat, CountCopies(job, n)
  PROVE  /\ job.order \in Orders
         /\ repeats' \in [Orders -> 0..MaxRepeats]
         /\ \A o \in Orders : repeats'[o] =
              IF o = job.order THEN repeats[o] + Extra(n) ELSE repeats[o]
         /\ \A i \in 1..n :
              /\ Copied(job, i) \in Job
              /\ Copied(job, i).order = job.order
              /\ Copied(job, i).attempt = job.attempt
              /\ Copied(job, i).failShipping = job.failShipping
              /\ Copied(job, i).copy =
                   IF i = 1 THEN job.copy ELSE repeats[job.order] + i - 1
<1>1. /\ job.order \in Orders /\ repeats \in [Orders -> 0..MaxRepeats]
      /\ MaxRepeats \in Nat /\ repeats[job.order] \in 0..MaxRepeats
  BY RepeatsAssumption DEF QueueTypeOK, Job
<1>2. CASE n > 1
  <2>1. /\ repeats[job.order] + n - 1 <= MaxRepeats
        /\ repeats' = [repeats EXCEPT ![job.order] = repeats[job.order] + n - 1]
    BY <1>2 DEF CountCopies
  <2>2. repeats[job.order] + n - 1 \in 0..MaxRepeats
    BY <1>1, <1>2, <2>1
  <2>3. /\ repeats' \in [Orders -> 0..MaxRepeats]
        /\ \A o \in Orders : repeats'[o] =
             IF o = job.order THEN repeats[o] + Extra(n) ELSE repeats[o]
    BY <1>1, <1>2, <2>1, <2>2 DEF Extra
  <2>4. ASSUME NEW i \in 1..n, i # 1
        PROVE  /\ Copied(job, i) \in Job
               /\ Copied(job, i).order = job.order
               /\ Copied(job, i).attempt = job.attempt
               /\ Copied(job, i).failShipping = job.failShipping
               /\ Copied(job, i).copy = repeats[job.order] + i - 1
    <3>1. repeats[job.order] + i - 1 \in 0..MaxRepeats
      BY <1>1, <2>1, <2>4
    <3> QED
      BY <2>4, <3>1 DEF Copied, Job
  <2> QED
    BY <1>1, <2>3, <2>4 DEF Copied
<1>3. CASE ~(n > 1)
  <2>1. repeats' = repeats /\ \A i \in 1..n : i = 1
    BY <1>3 DEF CountCopies
  <2> QED
    BY <1>1, <1>3, <2>1 DEF Copied, Extra
<1> QED
  BY <1>2, <1>3

(* A push keeps the elements of the list and puts the new ones behind them. *)
LEMMA PushedIs ==
  ASSUME QueueTypeOK, NEW list \in Seq(Job), NEW job \in Job, NEW n \in Nat,
         CountCopies(job, n)
  PROVE  /\ Pushed(list, job, n) \in Seq(Job)
         /\ Len(Pushed(list, job, n)) = Len(list) + n
         /\ \A i \in 1..Len(list) : Pushed(list, job, n)[i] = list[i]
         /\ \A i \in 1..n : Pushed(list, job, n)[Len(list) + i] = Copied(job, i)
<1> DEFINE new == [i \in 1..n |-> Copied(job, i)]
<1>1. new \in Seq(Job) /\ Len(new) = n /\ \A i \in 1..n : new[i] = Copied(job, i)
  BY CopiedIs
<1>2. Pushed(list, job, n) = list \o new
  BY DEF Pushed
<1> HIDE DEF new
<1>3. /\ list \o new \in Seq(Job) /\ Len(list) \in Nat
      /\ Len(list \o new) = Len(list) + n
      /\ \A i \in 1..(Len(list) + n) : (list \o new)[i] =
           IF i <= Len(list) THEN list[i] ELSE new[i - Len(list)]
  <2>1. /\ list \o new \in Seq(Job) /\ Len(list) \in Nat
        /\ Len(list \o new) = Len(list) + Len(new)
        /\ \A i \in 1..Len(list) + Len(new) : (list \o new)[i] =
             IF i <= Len(list) THEN list[i] ELSE new[i - Len(list)]
    BY <1>1, SMTT(30)
  <2> QED
    BY <1>1, <2>1
<1>4. ASSUME NEW i \in 1..n
      PROVE  (list \o new)[Len(list) + i] = Copied(job, i)
  <2>1. Len(list) + i \in 1..(Len(list) + n) /\ ~(Len(list) + i <= Len(list))
        /\ (Len(list) + i) - Len(list) = i
    BY <1>3
  <2> QED
    BY <1>1, <1>3, <2>1
<1>5. \A i \in 1..Len(list) : (list \o new)[i] = list[i]
  BY <1>3
<1> QED
  BY <1>2, <1>3, <1>4, <1>5

(* Every element of a pushed list was there or is one of the copies.        *)
LEMMA PushedElements ==
  ASSUME QueueTypeOK, NEW list \in Seq(Job), NEW job \in Job, NEW n \in Nat,
         CountCopies(job, n), NEW i \in 1..Len(Pushed(list, job, n))
  PROVE  \/ i \in 1..Len(list) /\ Pushed(list, job, n)[i] = list[i]
         \/ \E k \in 1..n : i = Len(list) + k /\ Pushed(list, job, n)[i] = Copied(job, k)
<1>1. Len(list) \in Nat /\ i \in 1..(Len(list) + n)
  BY PushedIs
<1>2. CASE i \in 1..Len(list)
  BY <1>2, PushedIs
<1>3. CASE i \notin 1..Len(list)
  <2>1. i - Len(list) \in 1..n /\ i = Len(list) + (i - Len(list))
    BY <1>1, <1>3
  <2>2. PICK k \in 1..n : i = Len(list) + k
    BY <2>1
  <2> QED
    BY <2>2, PushedIs
<1> QED
  BY <1>2, <1>3

(* What is left after a pop was there before, one place later.              *)
LEMMA PoppedElements ==
  ASSUME NEW list \in Seq(Job), list # <<>>
  PROVE  /\ Head(list) \in Job /\ Head(list) = list[1]
         /\ Tail(list) \in Seq(Job)
         /\ Len(Tail(list)) = Len(list) - 1
         /\ 1 \in 1..Len(list)
         /\ \A i \in 1..Len(Tail(list)) :
              i + 1 \in 1..Len(list) /\ Tail(list)[i] = list[i + 1]
  OBVIOUS

(* The job a retry pushes is a job.                                         *)
LEMMA RetryJobIsJob ==
  ASSUME NEW job \in Job, ShouldRetry(job)
  PROVE  RetryJob(job) \in Job /\ RetryJob(job).order = job.order
                              /\ RetryJob(job).attempt = job.attempt + 1
                              /\ RetryJob(job).copy = job.copy
                              /\ RetryJob(job).failShipping = job.failShipping
  BY LimitIsPositive DEF Job, ShouldRetry, RetryJob
-------------------------------------------------------------------------------
(* Facts about the operators of OrderStore.                                 *)

(* All that a write adds to those on their way is itself.                   *)
Delays(store, o, status) ==
  /\ late' \in [Write -> 0..MaxLate]
  /\ \A w \in Write : late'[w] > 0 =>
       late[w] > 0 \/ (w.store = store /\ w.order = o /\ w.status = status)

LEMMA DelayAdds ==
  ASSUME StoreTypeOK, NEW store \in {"row", "cache"}, NEW o \in Orders,
         NEW status \in Entry, NEW r,
         Delay([store |-> store, order |-> o, status |-> status], r)
  PROVE  Delays(store, o, status) /\ (r # "late" => late' = late)
<1> DEFINE v == [store |-> store, order |-> o, status |-> status]
<1>1. v \in Write /\ v.store = store /\ v.order = o /\ v.status = status
  BY DEF Write
<1>2. late \in [Write -> 0..MaxLate] /\ MaxLate \in Nat
  BY LateAssumption DEF StoreTypeOK
<1>3. \/ late' = late
      \/ r = "late" /\ late[v] < MaxLate /\ late' = [late EXCEPT ![v] = @ + 1]
  BY DEF Delay
<1> HIDE DEF v
<1> QED
  BY <1>1, <1>2, <1>3 DEF Delays

LEMMA RowWritten ==
  ASSUME StoreTypeOK, NEW o \in Orders, NEW status \in Entry, NEW r,
         WriteRow(o, status, r)
  PROVE  /\ db' = IF TookEffect(r) THEN [db EXCEPT ![o] = status] ELSE db
         /\ db' \in [Orders -> Entry]
         /\ Delays("row", o, status) /\ (r # "late" => late' = late)
  BY DelayAdds DEF WriteRow, StoreTypeOK

LEMMA CacheWritten ==
  ASSUME StoreTypeOK, NEW o \in Orders, NEW status \in Entry, NEW r,
         CacheSet(o, status, r)
  PROVE  /\ cache' = IF TookEffect(r) THEN [cache EXCEPT ![o] = status] ELSE cache
         /\ cache' \in [Orders -> Entry]
         /\ Delays("cache", o, status) /\ (r # "late" => late' = late)
  BY DelayAdds DEF CacheSet, StoreTypeOK

(* A late write that arrives changes the entry it was sent for.             *)
LEMMA Arrived ==
  ASSUME StoreTypeOK, NEW w \in Write, Arrive(w)
  PROVE  /\ StoreTypeOK' /\ w.order \in Orders /\ w.status \in Entry /\ late[w] > 0
         /\ \A v \in Write : late'[v] > 0 => late[v] > 0
         /\ \/ /\ w.store = "row" /\ cache' = cache
               /\ db' = [db EXCEPT ![w.order] = w.status]
            \/ /\ w.store = "cache" /\ db' = db
               /\ cache' = [cache EXCEPT ![w.order] = w.status]
<1>1. /\ w.order \in Orders /\ w.status \in Entry /\ MaxLate \in Nat
      /\ late \in [Write -> 0..MaxLate]
  BY LateAssumption DEF Write, StoreTypeOK
<1>2. late[w] > 0 /\ late' = [late EXCEPT ![w] = @ - 1]
  BY DEF Arrive
<1>3. late' \in [Write -> 0..MaxLate] /\ \A v \in Write : late'[v] > 0 => late[v] > 0
  BY <1>1, <1>2
<1>4. \/ /\ w.store = "row" /\ cache' = cache
         /\ db' = [db EXCEPT ![w.order] = w.status]
      \/ /\ w.store = "cache" /\ db' = db
         /\ cache' = [cache EXCEPT ![w.order] = w.status]
  BY DEF Arrive
<1> QED
  BY <1>1, <1>2, <1>3, <1>4 DEF StoreTypeOK
-------------------------------------------------------------------------------
(* Type correctness, one lemma per part of the system.                      *)

(* No write to the store disturbs its types.                                *)
LEMMA WritesKeepTypes ==
  ASSUME StoreTypeOK, NEW o \in Orders, NEW status \in Entry, NEW r,
         \/ WriteRow(o, status, r) /\ UNCHANGED cache
         \/ CacheSet(o, status, r) /\ UNCHANGED db
  PROVE  StoreTypeOK'
<1>1. CASE WriteRow(o, status, r) /\ UNCHANGED cache
  BY <1>1, RowWritten DEF StoreTypeOK, Delays
<1>2. CASE CacheSet(o, status, r) /\ UNCHANGED db
  BY <1>2, CacheWritten DEF StoreTypeOK, Delays
<1> QED
  BY <1>1, <1>2

(* How many elements a push adds, and when it reports success.              *)
LEMMA PushResultIs ==
  ASSUME NEW l, NEW r \in PushResults(l)
  PROVE  r.copies \in Nat /\ r.ok \in BOOLEAN /\ (r.ok => r.copies >= 1)
  BY SendsAssumption DEF PushResults

(* No push and no pop disturbs the types of the queue.                      *)
LEMMA PushesKeepTypes ==
  ASSUME QueueTypeOK, NEW job \in Job, NEW n \in Nat,
         Enqueue(job, n) \/ SendToDLQ(job, n)
  PROVE  QueueTypeOK'
<1>1. CountCopies(job, n)
  BY DEF Enqueue, SendToDLQ
<1>2. repeats' \in [Orders -> 0..MaxRepeats]
  BY <1>1, CopiedIs
<1>3. \A list \in Seq(Job) : Pushed(list, job, n) \in Seq(Job)
  BY <1>1, PushedIs
<1>4. queue \in Seq(Job) /\ dlq \in Seq(Job)
  BY DEF QueueTypeOK
<1>5. queue' \in Seq(Job) /\ dlq' \in Seq(Job)
  BY <1>3, <1>4 DEF Enqueue, SendToDLQ
<1> QED
  BY <1>2, <1>5 DEF QueueTypeOK

LEMMA PopsKeepTypes ==
  ASSUME QueueTypeOK, Dequeue
  PROVE  QueueTypeOK' /\ Head(queue) \in Job
<1>1. queue \in Seq(Job) /\ queue # <<>>
  BY DEF QueueTypeOK, Dequeue
<1>2. Head(queue) \in Job /\ Tail(queue) \in Seq(Job)
  BY <1>1, PoppedElements
<1> QED
  BY <1>2 DEF QueueTypeOK, Dequeue

(* The job of a new order is a job.                                         *)
LEMMA FirstJobIsJob ==
  ASSUME NEW o \in Orders, NEW fail \in Simulations
  PROVE  [order |-> o, copy |-> 0, attempt |-> 1, failShipping |-> fail] \in Job
  BY LimitIsPositive, SimulationsAssumption, RepeatsAssumption DEF Job

LEMMA IdIsCopy ==
  ASSUME NEW job \in Job
  PROVE  /\ Id(job) \in Copies /\ Id(job)[1] = job.order /\ Id(job)[2] = job.copy
         /\ job.order \in Orders
  BY DEF Id, Copies, Job

(* What the copies that a push has made of the job in hand inherit.         *)
LEMMA InheritedIs ==
  ASSUME WorkerTypeOK, held \in Job, CopiesInherit
  PROVE  /\ tries' \in [Copies -> Nat] /\ booked' = booked
         /\ settled' \in [Copies -> {"none", "fulfilled", "failed"}]
         /\ \A c \in Copies :
              /\ tries'[c] = IF c \in NewCopies(held.order)
                             THEN tries[Id(held)] ELSE tries[c]
              /\ settled'[c] = IF c \in NewCopies(held.order)
                               THEN settled[Id(held)] ELSE settled[c]
<1>1. Id(held) \in Copies
  BY IdIsCopy
<1>2. /\ tries' = [c \in Copies |-> IF c \in NewCopies(held.order)
                                    THEN tries[Id(held)] ELSE tries[c]]
      /\ settled' = [c \in Copies |-> IF c \in NewCopies(held.order)
                                      THEN settled[Id(held)] ELSE settled[c]]
      /\ booked' = booked
  BY DEF CopiesInherit, Inherited
<1> QED
  BY <1>1, <1>2 DEF WorkerTypeOK

(* No request disturbs the types.                                           *)
LEMMA RequestsKeepTypes ==
  ASSUME TypeInv, NEW o \in Orders, Creating(o)
  PROVE  TypeInv'
<1>1. WorkerTypeOK' /\ ReaderTypeOK' /\ WorkerShape' /\ process' \in ProcessState
  BY DEF Creating, TypeInv, TypeOK, WorkerTypeOK, ReaderTypeOK, WorkerShape,
         workerVars, readerVars
<1>2. StoreTypeOK /\ QueueTypeOK /\ RequestTypeOK
  BY DEF TypeInv, TypeOK
<1>3. \A s \in {"pending", "queued", "failed", readBack[o]} : s \in Entry
  BY <1>2 DEF RequestTypeOK, Entry, OrderStatus
<1>4. StoreTypeOK'
  <2>1. CASE UNCHANGED storeVars
    BY <1>2, <2>1 DEF StoreTypeOK, storeVars
  <2>2. CASE Persist(o) \/ MarkQueued(o) \/ FailUpdate(o)
    <3>1. PICK s, r : /\ s \in {"pending", "queued", "failed"}
                      /\ WriteRow(o, s, r) /\ UNCHANGED cache
      BY <2>2 DEF Persist, MarkQueued, FailUpdate
    <3> QED
      BY <1>2, <1>3, <3>1, WritesKeepTypes
  <2>3. CASE CachePending(o) \/ CacheQueued(o) \/ FailCache(o)
    <3>1. PICK s, r : /\ s \in {"pending", "queued", readBack[o]}
                      /\ CacheSet(o, s, r) /\ UNCHANGED db
      BY <2>3 DEF CachePending, CacheQueued, FailCache
    <3> QED
      BY <1>2, <1>3, <3>1, WritesKeepTypes
  <2> QED
    BY <2>1, <2>2, <2>3
    DEF Creating, RequestStep, HandlerStep, Receive, AuthorizePayment,
        ReserveInventory, EnqueueJob, FailRead, RequestTimeout
<1>5. QueueTypeOK'
  <2>1. CASE UNCHANGED queueVars
    BY <1>2, <2>1 DEF QueueTypeOK, queueVars
  <2>2. CASE EnqueueJob(o)
    <3>1. PICK r \in PushResults(live[o]), fail \in Simulations :
            Enqueue([order |-> o, copy |-> 0, attempt |-> 1,
                     failShipping |-> fail], r.copies)
      BY <2>2 DEF EnqueueJob
    <3> QED
      BY <1>2, <3>1, PushResultIs, FirstJobIsJob, PushesKeepTypes
  <2> QED
    BY <2>1, <2>2
    DEF Creating, RequestStep, HandlerStep, Receive, Persist, CachePending,
        AuthorizePayment, ReserveInventory, MarkQueued, CacheQueued,
        FailUpdate, FailRead, FailCache, RequestTimeout
<1>6. RequestTypeOK'
  <2> USE <1>2 DEF RequestTypeOK, requestVars, Goto, Ends, Continue, Steps,
                   Active, Forward, Failing, Answers
  <2>1. CASE Receive(o) \/ Persist(o) \/ CachePending(o)
    BY <2>1 DEF Receive, Persist, CachePending
  <2>2. CASE AuthorizePayment(o) \/ ReserveInventory(o)
    BY <2>2 DEF AuthorizePayment, ReserveInventory
  <2>3. CASE EnqueueJob(o)
    BY <2>3 DEF EnqueueJob
  <2>4. CASE MarkQueued(o) \/ CacheQueued(o) \/ FailUpdate(o)
    BY <2>4 DEF MarkQueued, CacheQueued, FailUpdate
  <2>5. CASE FailRead(o) \/ FailCache(o) \/ RequestTimeout(o)
    BY <2>5 DEF FailRead, FailCache, RequestTimeout, Entry, StoreTypeOK
  <2> QED
    BY <2>1, <2>2, <2>3, <2>4, <2>5 DEF Creating, RequestStep, HandlerStep
<1> QED
  BY <1>1, <1>4, <1>5, <1>6 DEF TypeInv, TypeOK

(* No step of the worker disturbs the types.                                *)
LEMMA WorkerKeepsTypes ==
  ASSUME TypeInv, Fulfilling
  PROVE  TypeInv'
<1>1. RequestTypeOK' /\ ReaderTypeOK'
  BY DEF Fulfilling, TypeInv, TypeOK, RequestTypeOK, ReaderTypeOK, requestVars,
         readerVars
<1>2. StoreTypeOK /\ QueueTypeOK /\ WorkerTypeOK /\ WorkerShape
      /\ process \in ProcessState
  BY DEF TypeInv, TypeOK
<1>3. wstep \in Holding => /\ held \in Job /\ held.order \in Orders
                           /\ Id(held) \in Copies
  BY <1>2, IdIsCopy, NoJobAssumption DEF WorkerShape, WorkerTypeOK
<1>4. StoreTypeOK'
  <2>1. CASE UNCHANGED storeVars
    BY <1>2, <2>1 DEF StoreTypeOK, storeVars
  <2>2. CASE UpdateResult
    <3>1. PICK r : WriteRow(held.order, verdict, r) /\ UNCHANGED cache
      BY <2>2 DEF UpdateResult
    <3>2. verdict \in Entry /\ held.order \in Orders
      BY <1>2, <1>3, <2>2 DEF UpdateResult, WorkerTypeOK, WorkerShape, Holding,
                              Persisting, Entry, OrderStatus
    <3> QED
      BY <1>2, <3>1, <3>2, WritesKeepTypes
  <2>3. CASE CacheResult
    <3>1. PICK r : CacheSet(held.order, wread, r) /\ UNCHANGED db
      BY <2>3 DEF CacheResult
    <3>2. wread \in Entry /\ held.order \in Orders
      BY <1>2, <1>3, <2>3 DEF CacheResult, WorkerTypeOK, Holding
    <3> QED
      BY <1>2, <3>1, <3>2, WritesKeepTypes
  <2> QED
    BY <2>1, <2>2, <2>3
    DEF Fulfilling, WorkerStep, JobStep, Poll, PopJob, PopEmpty, PopFails,
        PopRepeats, Load, Book, Retry, ReadResult, DeadLetter
<1>5. QueueTypeOK'
  <2>1. CASE UNCHANGED queueVars
    BY <1>2, <2>1 DEF QueueTypeOK, queueVars
  <2>2. CASE Dequeue
    BY <1>2, <2>2, PopsKeepTypes
  <2>3. CASE Retry
    <3>1. PICK r \in PushResults(ContextLive) : Enqueue(RetryJob(held), r.copies)
      BY <2>3 DEF Retry
    <3>2. RetryJob(held) \in Job
      BY <1>2, <1>3, <2>3, RetryJobIsJob DEF Retry, WorkerShape, ShouldRetry, Holding
    <3> QED
      BY <1>2, <3>1, <3>2, PushResultIs, PushesKeepTypes
  <2>4. CASE DeadLetter
    <3>1. PICK r \in PushResults(ContextLive) : SendToDLQ(held, r.copies)
      BY <2>4 DEF DeadLetter
    <3> QED
      BY <1>2, <1>3, <2>4, <3>1, PushResultIs, PushesKeepTypes DEF DeadLetter, Holding
  <2> QED
    BY <2>1, <2>2, <2>3, <2>4
    DEF Fulfilling, WorkerStep, JobStep, Poll, PopJob, PopEmpty, PopFails,
        PopRepeats, Load, Book, UpdateResult, ReadResult, CacheResult
<1>6. WorkerTypeOK' /\ WorkerShape' /\ process' \in ProcessState
  <2> USE <1>2, <1>3, NoJobAssumption
      DEF WorkerTypeOK, WorkerShape, history, Holding, Persisting, WorkerSteps,
          Idle, Entry
  <2>1. CASE Poll \/ PopEmpty
    BY <2>1 DEF Poll, PopEmpty
  <2>2. CASE PopJob
    <3>1. held' \in Job
      BY <2>2, PopsKeepTypes DEF PopJob
    <3> QED
      BY <2>2, <3>1 DEF PopJob
  <2>3. CASE PopFails
    BY <2>3 DEF PopFails, ProcessState
  <2>4. CASE PopRepeats
    BY <2>4 DEF PopRepeats, workerVars
  <2>5. CASE Load
    BY <2>5 DEF Load
  <2>6. CASE Book
    <3>1. held \in Job /\ held.order \in Orders /\ Id(held) \in Copies
      BY <2>6 DEF Book
    <3>2. tries' \in [Copies -> Nat] /\ booked' \in [Orders -> Nat]
      BY <2>6, <3>1 DEF Book
    <3>3. /\ wstep' = "retry" => ShouldRetry(held) /\ verdict' = verdict
          /\ wstep' # "retry" => wstep' = "update" /\ verdict' \in {"fulfilled", "failed"}
      BY <2>6 DEF Book, Verdict
    <3>4. /\ wstep = "book" /\ wstep' \in {"retry", "update"} /\ held' = held
          /\ wread' = wread /\ settled' = settled /\ process' = process
      BY <2>6 DEF Book, Verdict
    <3> QED
      BY <3>1, <3>2, <3>3, <3>4 DEF ShouldRetry
  <2>7. CASE Retry \/ DeadLetter
    <3>1. held \in Job /\ CopiesInherit /\ Idle("poll") /\ process' = process
      BY <2>7 DEF Retry, DeadLetter
    <3>2. tries' \in [Copies -> Nat] /\ booked' = booked
          /\ settled' \in [Copies -> {"none", "fulfilled", "failed"}]
      BY <1>2, <3>1, InheritedIs
    <3> QED
      BY <3>1, <3>2
  <2>8. CASE UpdateResult
    <3>1. /\ settled' = settled \/ settled' = [settled EXCEPT ![Id(held)] = verdict]
          /\ UNCHANGED <<tries, booked, process>>
          /\ \/ wstep' = "read" /\ UNCHANGED <<held, verdict, wread>>
             \/ Idle("poll")
      BY <2>8 DEF UpdateResult
    <3>2. wstep = "update"
      BY <2>8 DEF UpdateResult
    <3> QED
      BY <3>1, <3>2
  <2>9. CASE ReadResult
    <3>1. db[held.order] \in Entry
      BY <2>9 DEF ReadResult, StoreTypeOK
    <3> QED
      BY <2>9, <3>1 DEF ReadResult
  <2>10. CASE CacheResult
    BY <2>10 DEF CacheResult
  <2> QED
    BY <2>1, <2>2, <2>3, <2>4, <2>5, <2>6, <2>7, <2>8, <2>9, <2>10
    DEF Fulfilling, WorkerStep, JobStep
<1> QED
  BY <1>1, <1>4, <1>5, <1>6 DEF TypeInv, TypeOK

(* Neither a reader, an expiry, the arrival of a late write nor an event of *)
(* the process does.                                                        *)
LEMMA OthersKeepTypes ==
  ASSUME TypeInv,
         \/ \E c \in Readers : Reading(c)
         \/ \E o \in Orders : Expiring(o)
         \/ \E w \in Write : Arriving(w)
         \/ Proceeding \/ Stopping \/ Exit \/ Crash \/ Start
  PROVE  TypeInv'
<1> USE DEF TypeInv, TypeOK, QueueTypeOK, RequestTypeOK, WorkerTypeOK,
            WorkerShape, queueVars, requestVars, workerVars, history
<1>1. CASE \E c \in Readers : Reading(c)
  <2>1. PICK c \in Readers : Reading(c)
    BY <1>1
  <2>2. CASE Miss(c)
    BY <2>1, <2>2 DEF Reading, Miss, StoreTypeOK, storeVars, ReaderTypeOK
  <2>3. CASE LoadRow(c)
    <3>1. db[target[c]] \in Entry
      BY DEF StoreTypeOK, ReaderTypeOK
    <3>2. /\ rread' = rread \/ rread' = [rread EXCEPT ![c] = db[target[c]]]
          /\ \/ rstep' = [rstep EXCEPT ![c] = "fill"]
             \/ rstep' = [rstep EXCEPT ![c] = "idle"]
          /\ UNCHANGED <<target, db, cache, late>>
      BY <2>3 DEF LoadRow, storeVars
    <3>3. rread' \in [Readers -> Entry]
      <4>1. CASE rread' = rread
        BY <4>1 DEF ReaderTypeOK
      <4>2. CASE rread' = [rread EXCEPT ![c] = db[target[c]]]
        BY <3>1, <4>2 DEF ReaderTypeOK
      <4> QED BY <3>2, <4>1, <4>2
    <3>4. rstep' \in [Readers -> {"idle", "load", "fill"}]
      <4>1. CASE rstep' = [rstep EXCEPT ![c] = "fill"]
        BY <4>1 DEF ReaderTypeOK
      <4>2. CASE rstep' = [rstep EXCEPT ![c] = "idle"]
        BY <4>2 DEF ReaderTypeOK
      <4> QED BY <3>2, <4>1, <4>2
    <3> QED BY <2>1, <3>2, <3>3, <3>4 DEF Reading, StoreTypeOK, ReaderTypeOK
  <2>4. CASE FillCache(c)
    <3>1. PICK r : CacheSet(target[c], rread[c], r) /\ UNCHANGED db
      BY <2>4 DEF FillCache
    <3>2. target[c] \in Orders /\ rread[c] \in Entry /\ StoreTypeOK
      BY DEF ReaderTypeOK
    <3>3. StoreTypeOK'
      BY <3>1, <3>2, WritesKeepTypes
    <3>4. ReaderTypeOK'
      BY <2>4 DEF FillCache, ReaderTypeOK, Entry
    <3> QED
      BY <2>1, <3>3, <3>4 DEF Reading
  <2> QED
    BY <2>1, <2>2, <2>3, <2>4 DEF Reading, ReaderStep
<1>2. CASE \E o \in Orders : Expiring(o)
  BY <1>2 DEF Expiring, Expire, StoreTypeOK, ReaderTypeOK, readerVars, Entry
<1>3. CASE \E w \in Write : Arriving(w)
  <2>1. StoreTypeOK'
    BY <1>3, Arrived DEF Arriving
  <2> QED
    BY <1>3, <2>1 DEF Arriving, ReaderTypeOK, readerVars
<1>4. CASE Proceeding \/ Stopping
  BY <1>4 DEF Proceeding, Stopping, Listen, Stop, BeginShutdown, ProcessState,
              StoreTypeOK, storeVars, ReaderTypeOK, readerVars
<1>5. CASE Exit \/ Crash
  <2>1. Halt
    BY <1>5 DEF Exit, Crash
  <2> QED
    BY <2>1 DEF Halt, Idle, Steps, ProcessState, WorkerSteps, Holding, Persisting,
                StoreTypeOK, storeVars, ReaderTypeOK, Entry
<1>6. CASE Start
  BY <1>6 DEF Start, Idle, ProcessState, WorkerSteps, Holding, Persisting,
              StoreTypeOK, storeVars, ReaderTypeOK, readerVars, Entry
<1> QED
  BY <1>1, <1>2, <1>3, <1>4, <1>5, <1>6

(* TypeInv is an invariant.                                                 *)
THEOREM TypesInvariant == Spec => []TypeInv
<1>1. Init => TypeInv
  BY LimitIsPositive, RepeatsAssumption, LateAssumption
  DEF Init, TypeInv, TypeOK, StoreInit, StoreTypeOK, QueueInit, QueueTypeOK,
      ProcessInit, ProcessState, RequestInit, RequestTypeOK, WorkerInit,
      WorkerTypeOK, ReaderInit, ReaderTypeOK, WorkerShape, Entry, Steps,
      Answers, WorkerSteps, Holding, Persisting
<1>2. TypeInv /\ [Next]_vars => TypeInv'
  <2> SUFFICES ASSUME TypeInv, [Next]_vars
               PROVE  TypeInv'
    OBVIOUS
  <2>1. CASE \E o \in Orders : Creating(o)
    BY <2>1, RequestsKeepTypes
  <2>2. CASE Fulfilling
    BY <2>2, WorkerKeepsTypes
  <2>3. CASE \/ \E c \in Readers : Reading(c)
             \/ \E o \in Orders : Expiring(o)
             \/ \E w \in Write : Arriving(w)
             \/ Proceeding \/ Stopping \/ Exit \/ Crash \/ Start
    BY <2>3, OthersKeepTypes
  <2>4. CASE UNCHANGED vars
    BY <2>4 DEF TypeInv, TypeOK, StoreTypeOK, QueueTypeOK, RequestTypeOK,
                WorkerTypeOK, ReaderTypeOK, WorkerShape, vars, storeVars,
                queueVars, requestVars, workerVars, readerVars
  <2> QED
    BY <2>1, <2>2, <2>3, <2>4 DEF Next
<1> QED
  BY <1>1, <1>2, PTL DEF Spec

(* Every variable always has its type.                                      *)
THEOREM TypeCorrect == Spec => []TypeOK
<1>1. TypeInv => TypeOK
  BY DEF TypeInv
<1> QED
  BY <1>1, TypesInvariant, PTL
-------------------------------------------------------------------------------
(* What was paid, what was sent and what may be read of it.                 *)

(* Only a status that is quiet is written of an order that was not sent.    *)
LEMMA WritesStayQuiet ==
  ASSUME StoreTypeOK, StoreIsQuiet, NEW o \in Orders, NEW status \in Entry, NEW r,
         \/ WriteRow(o, status, r) /\ UNCHANGED cache
         \/ CacheSet(o, status, r) /\ UNCHANGED db,
         o \in sent \/ Quiet(status), UNCHANGED sent
  PROVE  StoreIsQuiet'
<1>1. \A w \in Write : late'[w] > 0 =>
        late[w] > 0 \/ (w.order = o /\ w.status = status)
  BY RowWritten, CacheWritten DEF Delays
<1>2. \A u \in Orders \ sent : Quiet(db'[u]) /\ Quiet(cache'[u])
  BY RowWritten, CacheWritten DEF StoreTypeOK, StoreIsQuiet
<1> QED
  BY <1>1, <1>2 DEF StoreIsQuiet

(* The elements a push leaves in a list are of orders that were sent.       *)
LEMMA PushesOnlySent ==
  ASSUME QueueTypeOK, NEW list \in Seq(Job), NEW job \in Job, NEW n \in Nat,
         CountCopies(job, n), job.order \in sent' \/ n = 0, sent \subseteq sent',
         \A i \in 1..Len(list) : list[i].order \in sent
  PROVE  \A i \in 1..Len(Pushed(list, job, n)) : Pushed(list, job, n)[i].order \in sent'
<1> SUFFICES ASSUME NEW i \in 1..Len(Pushed(list, job, n))
             PROVE  Pushed(list, job, n)[i].order \in sent'
  OBVIOUS
<1>1. CASE i \in 1..Len(list) /\ Pushed(list, job, n)[i] = list[i]
  BY <1>1
<1>2. CASE \E k \in 1..n : i = Len(list) + k /\ Pushed(list, job, n)[i] = Copied(job, k)
  <2>1. PICK k \in 1..n : Pushed(list, job, n)[i] = Copied(job, k)
    BY <1>2
  <2>2. n # 0 /\ Copied(job, k).order = job.order
    BY <2>1, CopiedIs
  <2> QED
    BY <2>1, <2>2
<1> QED
  BY <1>1, <1>2, PushedElements

(* The handler of a request keeps the order of its own steps, and stores no *)
(* status beyond pending or failed before it has sent the job.              *)
LEMMA RequestsKeepSafety ==
  ASSUME SafetyInv, NEW o \in Orders, Creating(o)
  PROVE  RequestShape' /\ OnlySent' /\ UnsentIsQuiet'
<1>1. UNCHANGED <<held, tries, target, rread>>
  BY DEF Creating, workerVars, readerVars
<1>2. /\ StoreTypeOK /\ QueueTypeOK /\ RequestTypeOK
      /\ RequestShape /\ OnlySent /\ StoreIsQuiet /\ ReadIsQuiet
  BY DEF SafetyInv, TypeInv, TypeOK, UnsentIsQuiet
<1>3. CASE EnqueueJob(o)
  <2>1. PICK r \in PushResults(live[o]), fail \in Simulations :
          /\ Enqueue([order |-> o, copy |-> 0, attempt |-> 1,
                      failShipping |-> fail], r.copies)
          /\ sent' = IF r.copies > 0 THEN sent \cup {o} ELSE sent
          /\ Continue(o, r.ok, "markQueued", "500")
    BY <1>3 DEF EnqueueJob
  <2> DEFINE job == [order |-> o, copy |-> 0, attempt |-> 1, failShipping |-> fail]
  <2>2. job \in Job /\ job.order = o
    BY FirstJobIsJob
  <2>3. r.copies \in Nat /\ (r.ok => r.copies >= 1)
    BY PushResultIs
  <2>4. queue' = Pushed(queue, job, r.copies) /\ dlq' = dlq /\ CountCopies(job, r.copies)
    BY <2>1 DEF Enqueue
  <2> HIDE DEF job
  <2>5. sent \subseteq sent' /\ (o \in sent' \/ r.copies = 0)
    BY <2>1, <2>3
  <2>6. \A i \in 1..Len(queue') : queue'[i].order \in sent'
    BY <1>2, <2>2, <2>3, <2>4, <2>5, PushesOnlySent DEF OnlySent, QueueTypeOK
  <2>7. OnlySent'
    BY <1>1, <1>2, <2>4, <2>5, <2>6 DEF OnlySent
  <2>8. RequestShape'
    BY <1>2, <1>3, <2>1, <2>3
    DEF EnqueueJob, Continue, Goto, Ends, RequestTypeOK, RequestShape,
        BeforeEnqueue, AfterEnqueue, AfterInventory, AfterPayment, Forward
  <2>9. UnsentIsQuiet'
    BY <1>1, <1>2, <1>3, <2>5
    DEF EnqueueJob, UnsentIsQuiet, StoreIsQuiet, ReadIsQuiet, storeVars
  <2> QED
    BY <2>7, <2>8, <2>9
<1>4. CASE ~EnqueueJob(o)
  <2>1. UNCHANGED <<sent, queueVars>>
    BY <1>4 DEF Creating, RequestStep, HandlerStep, Receive, Persist,
                CachePending, AuthorizePayment, ReserveInventory, MarkQueued,
                CacheQueued, FailUpdate, FailRead, FailCache, RequestTimeout
  <2>2. OnlySent'
    BY <1>1, <1>2, <2>1 DEF OnlySent, queueVars
  <2>3. RequestShape'
    <3> USE <1>2 DEF RequestTypeOK, RequestShape, Goto, Ends, Continue,
                     BeforeEnqueue, AfterEnqueue, AfterInventory, AfterPayment,
                     Forward
    <3>1. CASE Receive(o) \/ Persist(o) \/ CachePending(o)
      BY <3>1 DEF Receive, Persist, CachePending
    <3>2. CASE AuthorizePayment(o) \/ ReserveInventory(o)
      BY <3>2 DEF AuthorizePayment, ReserveInventory, TookEffect
    <3>3. CASE MarkQueued(o) \/ CacheQueued(o)
      BY <3>3 DEF MarkQueued, CacheQueued
    <3>4. CASE FailUpdate(o) \/ FailRead(o) \/ FailCache(o) \/ RequestTimeout(o)
      BY <3>4 DEF FailUpdate, FailRead, FailCache, RequestTimeout
    <3> QED
      BY <1>4, <3>1, <3>2, <3>3, <3>4 DEF Creating, RequestStep, HandlerStep
  <2>4. ReadIsQuiet'
    <3>1. /\ \A u \in Orders : u # o => readBack'[u] = readBack[u]
          /\ readBack'[o] \in {readBack[o], db[o], "absent"}
      BY <1>2, <1>4
      DEF RequestTypeOK, Creating, RequestStep, HandlerStep, Receive, Persist,
          CachePending, AuthorizePayment, ReserveInventory, MarkQueued,
          CacheQueued, FailUpdate, FailRead, FailCache, RequestTimeout
    <3> QED
      BY <1>1, <1>2, <2>1, <3>1 DEF ReadIsQuiet, StoreIsQuiet, Quiet
  <2>5. StoreIsQuiet'
    <3>1. CASE UNCHANGED storeVars
      BY <1>2, <2>1, <3>1 DEF StoreIsQuiet, storeVars
    <3>2. CASE Persist(o) \/ MarkQueued(o) \/ FailUpdate(o)
      <4>1. PICK s, r :
              /\ s \in {"pending", "queued", "failed"}
              /\ WriteRow(o, s, r) /\ UNCHANGED cache
              /\ s = "queued" => o \in sent
        BY <1>2, <3>2 DEF Persist, MarkQueued, FailUpdate, RequestShape, AfterEnqueue
      <4>2. s \in Entry /\ (o \in sent \/ Quiet(s))
        BY <4>1 DEF Entry, OrderStatus, Quiet
      <4> QED
        BY <1>2, <2>1, <4>1, <4>2, WritesStayQuiet
    <3>3. CASE CachePending(o) \/ CacheQueued(o) \/ FailCache(o)
      <4>1. PICK s, r :
              /\ s \in {"pending", "queued", readBack[o]}
              /\ CacheSet(o, s, r) /\ UNCHANGED db
              /\ s = "pending" \/ o \in sent \/ s = readBack[o]
        BY <1>2, <3>3 DEF CachePending, CacheQueued, FailCache, RequestShape,
                          AfterEnqueue
      <4>2. s \in Entry /\ (o \in sent \/ Quiet(s))
        BY <1>2, <4>1 DEF Entry, OrderStatus, Quiet, RequestTypeOK, ReadIsQuiet
      <4> QED
        BY <1>2, <2>1, <4>1, <4>2, WritesStayQuiet
    <3> QED
      BY <1>4, <3>1, <3>2, <3>3
      DEF Creating, RequestStep, HandlerStep, Receive, AuthorizePayment,
          ReserveInventory, FailRead, RequestTimeout
  <2> QED
    BY <2>2, <2>3, <2>4, <2>5 DEF UnsentIsQuiet
<1> QED
  BY <1>3, <1>4

(* The worker processes, writes and caches only orders whose job was sent.  *)
LEMMA WorkerKeepsSafety ==
  ASSUME SafetyInv, Fulfilling
  PROVE  RequestShape' /\ OnlySent' /\ UnsentIsQuiet'
<1>1. RequestShape' /\ UNCHANGED <<sent, readBack, target, rread>>
  BY DEF Fulfilling, SafetyInv, RequestShape, requestVars, readerVars
<1>2. /\ StoreTypeOK /\ QueueTypeOK /\ WorkerTypeOK /\ WorkerShape
      /\ OnlySent /\ StoreIsQuiet /\ ReadIsQuiet
  BY DEF SafetyInv, TypeInv, TypeOK, UnsentIsQuiet
<1>3. wstep \in Holding => /\ held \in Job /\ held.order \in Orders \cap sent
                           /\ Id(held) \in Copies /\ Id(held)[1] = held.order
  BY <1>2, IdIsCopy, NoJobAssumption DEF WorkerShape, WorkerTypeOK, OnlySent
<1>4. ReadIsQuiet'
  BY <1>1, <1>2 DEF ReadIsQuiet
<1>5. StoreIsQuiet'
  <2>1. CASE UNCHANGED storeVars
    BY <1>1, <1>2, <2>1 DEF StoreIsQuiet, storeVars
  <2>2. CASE UpdateResult
    <3>1. PICK r : WriteRow(held.order, verdict, r) /\ UNCHANGED cache
      BY <2>2 DEF UpdateResult
    <3>2. verdict \in Entry /\ held.order \in Orders \cap sent
      BY <1>2, <1>3, <2>2 DEF UpdateResult, WorkerTypeOK, WorkerShape, Holding,
                              Persisting, Entry, OrderStatus
    <3> QED
      BY <1>1, <1>2, <3>1, <3>2, WritesStayQuiet
  <2>3. CASE CacheResult
    <3>1. PICK r : CacheSet(held.order, wread, r) /\ UNCHANGED db
      BY <2>3 DEF CacheResult
    <3>2. wread \in Entry /\ held.order \in Orders \cap sent
      BY <1>2, <1>3, <2>3 DEF CacheResult, WorkerTypeOK, Holding
    <3> QED
      BY <1>1, <1>2, <3>1, <3>2, WritesStayQuiet
  <2> QED
    BY <2>1, <2>2, <2>3
    DEF Fulfilling, WorkerStep, JobStep, Poll, PopJob, PopEmpty, PopFails,
        PopRepeats, Load, Book, Retry, ReadResult, DeadLetter
<1>6. OnlySent'
  <2>1. CASE UNCHANGED <<queueVars, held, tries>>
    BY <1>1, <1>2, <2>1 DEF OnlySent, queueVars
  <2>2. CASE Dequeue /\ tries' = tries /\ held' \in {held, Head(queue)}
    <3>1. /\ queue \in Seq(Job) /\ queue # <<>> /\ queue' = Tail(queue)
          /\ dlq' = dlq
      BY <1>2, <2>2 DEF Dequeue, QueueTypeOK
    <3>2. \A i \in 1..Len(queue') : queue'[i].order \in sent
      BY <1>2, <3>1, PoppedElements DEF OnlySent
    <3>3. held' # NoJob => held'.order \in sent
      BY <1>2, <2>2, <3>1, PoppedElements DEF OnlySent
    <3> QED
      BY <1>1, <1>2, <2>2, <3>1, <3>2, <3>3 DEF OnlySent
  <2>3. CASE Book
    <3>1. /\ tries' = [tries EXCEPT ![Id(held)] = @ + 1] /\ held' = held
          /\ UNCHANGED <<queue, dlq>> /\ Id(held)[1] \in sent
      BY <1>3, <2>3 DEF Book, queueVars, Holding
    <3> QED
      BY <1>1, <1>2, <3>1 DEF OnlySent, WorkerTypeOK
  <2>4. CASE Retry \/ DeadLetter
    <3>1. held \in Job /\ held.order \in sent /\ CopiesInherit /\ held' = NoJob
      BY <1>3, <2>4 DEF Retry, DeadLetter, Idle, Holding
    <3>2. \A c \in Copies : tries'[c] > 0 => c[1] \in sent
      <4>1. SUFFICES ASSUME NEW c \in Copies, tries'[c] > 0, c \in NewCopies(held.order)
                     PROVE  c[1] \in sent
        BY <1>2, <3>1, InheritedIs DEF OnlySent
      <4> QED
        BY <3>1, <4>1 DEF NewCopies
    <3>3. PICK r \in PushResults(ContextLive) :
            \/ Retry /\ Enqueue(RetryJob(held), r.copies)
            \/ SendToDLQ(held, r.copies)
      BY <2>4 DEF Retry, DeadLetter
    <3>4. r.copies \in Nat /\ queue \in Seq(Job) /\ dlq \in Seq(Job)
      BY <1>2, PushResultIs DEF QueueTypeOK
    <3>5. CASE Retry /\ Enqueue(RetryJob(held), r.copies)
      <4>1. /\ queue' = Pushed(queue, RetryJob(held), r.copies) /\ dlq' = dlq
            /\ CountCopies(RetryJob(held), r.copies)
        BY <3>5 DEF Enqueue
      <4>2. RetryJob(held) \in Job /\ RetryJob(held).order \in sent'
        BY <1>1, <1>2, <3>1, <3>5, RetryJobIsJob DEF Retry, WorkerShape, ShouldRetry
      <4>3. \A i \in 1..Len(queue') : queue'[i].order \in sent'
        BY <1>1, <1>2, <3>4, <4>1, <4>2, PushesOnlySent DEF OnlySent
      <4> QED
        BY <1>1, <1>2, <3>1, <3>2, <4>1, <4>3 DEF OnlySent
    <3>6. CASE SendToDLQ(held, r.copies)
      <4>1. /\ dlq' = Pushed(dlq, held, r.copies) /\ queue' = queue
            /\ CountCopies(held, r.copies)
        BY <3>6 DEF SendToDLQ
      <4>2. \A i \in 1..Len(dlq') : dlq'[i].order \in sent'
        BY <1>1, <1>2, <3>1, <3>4, <4>1, PushesOnlySent DEF OnlySent
      <4> QED
        BY <1>1, <1>2, <3>1, <3>2, <4>1, <4>2 DEF OnlySent
    <3> QED
      BY <3>3, <3>5, <3>6
  <2>5. CASE Load \/ UpdateResult \/ ReadResult \/ CacheResult
    <3>1. UNCHANGED <<queue, dlq, tries>> /\ held' \in {held, NoJob}
      BY <2>5 DEF Load, UpdateResult, ReadResult, CacheResult, Idle, queueVars, history
    <3> QED
      BY <1>1, <1>2, <3>1 DEF OnlySent
  <2> QED
    BY <2>1, <2>2, <2>3, <2>4, <2>5
    DEF Fulfilling, WorkerStep, JobStep, Poll, PopJob, PopEmpty, PopFails,
        PopRepeats, history, workerVars
<1> QED
  BY <1>1, <1>4, <1>5, <1>6 DEF UnsentIsQuiet

(* A reader copies the row of its order to the cache, a late write is one   *)
(* that was quiet already, and the rest only forgets.                       *)
LEMMA OthersKeepSafety ==
  ASSUME SafetyInv,
         \/ \E c \in Readers : Reading(c)
         \/ \E o \in Orders : Expiring(o)
         \/ \E w \in Write : Arriving(w)
         \/ Proceeding \/ Stopping \/ Exit \/ Crash \/ Start
  PROVE  RequestShape' /\ OnlySent' /\ UnsentIsQuiet'
<1>1. /\ StoreTypeOK /\ ReaderTypeOK /\ RequestTypeOK
      /\ RequestShape /\ OnlySent /\ StoreIsQuiet /\ ReadIsQuiet
  BY DEF SafetyInv, TypeInv, TypeOK, UnsentIsQuiet
<1> USE <1>1 DEF RequestShape, OnlySent, UnsentIsQuiet, queueVars, requestVars,
                 workerVars, history
<1>2. CASE \E c \in Readers : Reading(c)
  <2>1. PICK c \in Readers : Reading(c)
    BY <1>2
  <2>2. RequestShape' /\ OnlySent' /\ UNCHANGED <<sent, readBack, target, db>>
    BY <2>1 DEF Reading, ReaderStep, Miss, LoadRow, FillCache, storeVars
  <2>3. CASE Miss(c)
    BY <2>2, <2>3 DEF Miss, StoreIsQuiet, ReadIsQuiet, storeVars
  <2>4. CASE LoadRow(c)
    BY <2>2, <2>4 DEF LoadRow, StoreIsQuiet, ReadIsQuiet, storeVars, ReaderTypeOK
  <2>5. CASE FillCache(c)
    <3>1. PICK r : CacheSet(target[c], rread[c], r) /\ UNCHANGED db
      BY <2>5 DEF FillCache
    <3>2. /\ target[c] \in Orders /\ rread[c] \in Entry
          /\ target[c] \in sent \/ Quiet(rread[c])
      BY DEF ReaderTypeOK, ReadIsQuiet
    <3>3. StoreIsQuiet'
      BY <2>2, <3>1, <3>2, WritesStayQuiet
    <3>4. ReadIsQuiet'
      BY <2>2, <2>5 DEF FillCache, ReadIsQuiet, ReaderTypeOK, Quiet
    <3> QED
      BY <2>2, <3>3, <3>4
  <2> QED
    BY <2>1, <2>3, <2>4, <2>5 DEF Reading, ReaderStep
<1>3. CASE \E o \in Orders : Expiring(o)
  BY <1>3 DEF Expiring, Expire, StoreIsQuiet, ReadIsQuiet, readerVars, Quiet,
              StoreTypeOK
<1>4. CASE \E w \in Write : Arriving(w)
  <2>1. PICK w \in Write : Arriving(w)
    BY <1>4
  <2>2. /\ UNCHANGED <<queueVars, requestVars, workerVars, readerVars>> /\ Arrive(w)
    BY <2>1 DEF Arriving
  <2>3. /\ w.order \in Orders /\ late[w] > 0
        /\ \A v \in Write : late'[v] > 0 => late[v] > 0
        /\ \/ cache' = cache /\ db' = [db EXCEPT ![w.order] = w.status]
           \/ db' = db /\ cache' = [cache EXCEPT ![w.order] = w.status]
    BY <2>2, Arrived
  <2>4. StoreIsQuiet'
    BY <2>2, <2>3 DEF StoreIsQuiet, StoreTypeOK
  <2> QED
    BY <2>2, <2>4 DEF ReadIsQuiet, readerVars
<1>5. CASE Proceeding \/ Stopping
  BY <1>5 DEF Proceeding, Stopping, StoreIsQuiet, ReadIsQuiet, storeVars, readerVars
<1>6. CASE Exit \/ Crash
  <2>1. Halt
    BY <1>6 DEF Exit, Crash
  <2>2. \A o \in Orders : step'[o] = IF step[o] \in Active THEN "gone" ELSE step[o]
    BY <2>1 DEF Halt
  <2>3. RequestShape'
    BY <2>1, <2>2 DEF Halt, Forward, BeforeEnqueue, AfterPayment,
                      AfterInventory, AfterEnqueue
  <2> QED
    BY <2>1, <2>3 DEF Halt, Idle, StoreIsQuiet, ReadIsQuiet, storeVars, Quiet
<1>7. CASE Start
  BY <1>7 DEF Start, Idle, StoreIsQuiet, ReadIsQuiet, storeVars, readerVars
<1> QED
  BY <1>2, <1>3, <1>4, <1>5, <1>6, <1>7

(* SafetyInv is an invariant.                                               *)
THEOREM SafetyInvariant == Spec => []SafetyInv
<1>1. Init => RequestShape /\ OnlySent /\ UnsentIsQuiet
  BY DEF Init, StoreInit, QueueInit, RequestInit, WorkerInit, ReaderInit,
         RequestShape, OnlySent, UnsentIsQuiet, StoreIsQuiet, ReadIsQuiet, Quiet,
         BeforeEnqueue, AfterPayment, AfterInventory, AfterEnqueue
<1>2. SafetyInv /\ [Next]_vars => RequestShape' /\ OnlySent' /\ UnsentIsQuiet'
  <2> SUFFICES ASSUME SafetyInv, [Next]_vars
               PROVE  RequestShape' /\ OnlySent' /\ UnsentIsQuiet'
    OBVIOUS
  <2>1. CASE \E o \in Orders : Creating(o)
    BY <2>1, RequestsKeepSafety
  <2>2. CASE Fulfilling
    BY <2>2, WorkerKeepsSafety
  <2>3. CASE \/ \E c \in Readers : Reading(c)
             \/ \E o \in Orders : Expiring(o)
             \/ \E w \in Write : Arriving(w)
             \/ Proceeding \/ Stopping \/ Exit \/ Crash \/ Start
    BY <2>3, OthersKeepSafety
  <2>4. CASE UNCHANGED vars
    BY <2>4 DEF SafetyInv, RequestShape, OnlySent, UnsentIsQuiet, StoreIsQuiet,
                ReadIsQuiet, vars, storeVars, queueVars, requestVars, workerVars,
                readerVars
  <2> QED
    BY <2>1, <2>2, <2>3, <2>4 DEF Next
<1> QED
  BY <1>1, <1>2, TypesInvariant, PTL DEF Spec, SafetyInv

(* Nothing is shipped that was not paid for and reserved, whatever fails.   *)
THEOREM PaidBeforeShipping == Spec => []ShipsOnlyPaid
<1>1. SafetyInv => ShipsOnlyPaid
  BY DEF SafetyInv, RequestShape, OnlySent, ShipsOnlyPaid, Copies
<1> QED
  BY <1>1, SafetyInvariant, PTL

(* A refused order is not shipped, nor shown as queued or fulfilled.        *)
THEOREM RefusalIsFinal == Spec => []RefusedStaysRefused
<1>1. SafetyInv => RefusedStaysRefused
  <2> SUFFICES ASSUME SafetyInv, NEW o \in Orders, answer[o] \in {"400", "502"}
               PROVE  /\ ~Listed(queue, o)
                      /\ \A c \in Copies : c[1] = o => tries[c] = 0
                      /\ StatusesSeen(o) \cap {"queued", "fulfilled"} = {}
    BY DEF RefusedStaysRefused
  <2>1. o \notin sent
    BY DEF SafetyInv, RequestShape
  <2>2. ~Listed(queue, o) /\ \A c \in Copies : c[1] = o => tries[c] = 0
    BY <2>1 DEF SafetyInv, OnlySent, Listed, TypeInv, TypeOK, WorkerTypeOK
  <2>3. ~(held # NoJob /\ held.order = o)
    BY <2>1 DEF SafetyInv, OnlySent
  <2>4. /\ Quiet(db[o]) /\ Quiet(cache[o]) /\ Quiet(readBack[o])
        /\ \A c \in Readers : target[c] = o => Quiet(rread[c])
    BY <2>1 DEF SafetyInv, UnsentIsQuiet, StoreIsQuiet, ReadIsQuiet
  <2>5. \A s \in StatusesSeen(o) : Quiet(s)
    BY <2>3, <2>4 DEF StatusesSeen
  <2> QED
    BY <2>2, <2>5 DEF Quiet
<1> QED
  BY <1>1, SafetyInvariant, PTL
-------------------------------------------------------------------------------
(* "fulfilled" is nowhere, stored, on its way, read or about to be stored,  *)
(* before the booking it stands for.                                        *)
StoredIsBooked ==
  \A o \in Orders : booked[o] = 0 =>
    /\ db[o] # "fulfilled" /\ cache[o] # "fulfilled"
    /\ \A w \in Write : late[w] > 0 /\ w.order = o => w.status # "fulfilled"

ReadIsBooked ==
  /\ \A o \in Orders : booked[o] = 0 =>
       /\ readBack[o] # "fulfilled"
       /\ \A c \in Readers : target[c] = o => rread[c] # "fulfilled"
  /\ held # NoJob /\ "fulfilled" \in {verdict, wread} => booked[held.order] # 0

(* A write of "pending" that was given up ended its request's way to 201,   *)
(* and if it was the row's, the job of that order is never sent.            *)
LateIsPending ==
  \A w \in Write : late[w] > 0 /\ w.status = "pending" =>
    /\ step[w.order] \in Failing \cup {"done", "gone"}
    /\ answer[w.order] \notin {"none", "201"}
    /\ w.store = "row" => w.order \notin sent /\ step[w.order] \notin Failing

(* "pending" is written before the job is sent and by nobody afterwards: the *)
(* request has overwritten it when it answers 201, the worker when it reads  *)
(* its verdict back, and readers begin only after the answer.                *)
StoredIsPending ==
  /\ \A o \in Orders :
       /\ step[o] = "cacheQueued" => db[o] # "pending"
       /\ Answered(o, "201") => db[o] # "pending" /\ cache[o] # "pending"
  /\ wstep = "read" => db[held.order] # "pending"

ReadIsPending ==
  /\ \A o \in Orders :
       /\ step[o] \in Failing => answer[o] \notin {"none", "201"}
       /\ step[o] # "failCache" => readBack[o] = "absent"
  /\ \A c \in Readers :
       rread[c] # "absent" => Answered(target[c], "201") /\ rread[c] # "pending"
  /\ wread # "pending"

StatusInv == /\ StoredIsBooked /\ ReadIsBooked
             /\ LateIsPending /\ StoredIsPending /\ ReadIsPending
-------------------------------------------------------------------------------
(* "fulfilled" is written only of an order that was booked.                 *)
LEMMA WritesStayBooked ==
  ASSUME StoreTypeOK, StoredIsBooked, NEW o \in Orders, NEW status \in Entry, NEW r,
         \/ WriteRow(o, status, r) /\ UNCHANGED cache
         \/ CacheSet(o, status, r) /\ UNCHANGED db,
         status = "fulfilled" => booked[o] # 0, UNCHANGED booked
  PROVE  StoredIsBooked'
<1>1. \A w \in Write : late'[w] > 0 =>
        late[w] > 0 \/ (w.order = o /\ w.status = status)
  BY RowWritten, CacheWritten DEF Delays
<1>2. \A u \in Orders : booked[u] = 0 => db'[u] # "fulfilled" /\ cache'[u] # "fulfilled"
  BY RowWritten, CacheWritten DEF StoreTypeOK, StoredIsBooked
<1> QED
  BY <1>1, <1>2 DEF StoredIsBooked

(* A write that is not of "pending" adds no "pending" to those on their way.*)
LEMMA WritesNotPending ==
  ASSUME StoreTypeOK, LateIsPending, NEW o \in Orders, NEW status \in Entry, NEW r,
         WriteRow(o, status, r) \/ CacheSet(o, status, r), status # "pending"
  PROVE  \A w \in Write : late'[w] > 0 /\ w.status = "pending" => late[w] > 0
  BY RowWritten, CacheWritten DEF Delays

(* A request writes "pending" before the job is sent, and never "fulfilled" *)
(* but what failOrder read back.                                            *)
LEMMA RequestsKeepStatus ==
  ASSUME SafetyInv, StatusInv, NEW o \in Orders, Creating(o)
  PROVE  StatusInv'
<1>1. UNCHANGED <<wstep, held, verdict, wread, booked, target, rread>>
  BY DEF Creating, workerVars, readerVars
<1>2. /\ StoreTypeOK /\ RequestTypeOK /\ RequestShape /\ StoredIsBooked
      /\ ReadIsBooked /\ LateIsPending /\ StoredIsPending /\ ReadIsPending
  BY DEF SafetyInv, TypeInv, TypeOK, StatusInv
<1>3. readBack[o] \in Entry /\ {"pending", "queued", "failed"} \subseteq Entry
  BY <1>2 DEF RequestTypeOK, Entry, OrderStatus
<1>4. /\ \A u \in Orders : u # o => /\ readBack'[u] = readBack[u]
                                    /\ step'[u] = step[u] /\ answer'[u] = answer[u]
      /\ \A u \in Orders : u # o => (u \in sent' <=> u \in sent)
  BY <1>2
  DEF RequestTypeOK, Creating, RequestStep, HandlerStep, Receive, Persist,
      CachePending, AuthorizePayment, ReserveInventory, EnqueueJob, MarkQueued,
      CacheQueued, FailUpdate, FailRead, FailCache, RequestTimeout, Continue,
      Goto, Ends
<1>5. StoredIsBooked'
  <2>1. CASE UNCHANGED storeVars
    BY <1>1, <1>2, <2>1 DEF StoredIsBooked, storeVars
  <2>2. CASE Persist(o) \/ MarkQueued(o) \/ FailUpdate(o)
    <3>1. PICK s, r : /\ s \in {"pending", "queued", "failed"}
                      /\ WriteRow(o, s, r) /\ UNCHANGED cache
      BY <2>2 DEF Persist, MarkQueued, FailUpdate
    <3> QED
      BY <1>1, <1>2, <1>3, <3>1, WritesStayBooked
  <2>3. CASE CachePending(o) \/ CacheQueued(o) \/ FailCache(o)
    <3>1. PICK s, r : /\ s \in {"pending", "queued", readBack[o]}
                      /\ CacheSet(o, s, r) /\ UNCHANGED db
      BY <2>3 DEF CachePending, CacheQueued, FailCache
    <3>2. s = "fulfilled" => booked[o] # 0
      BY <1>2, <3>1 DEF ReadIsBooked
    <3> QED
      BY <1>1, <1>2, <1>3, <3>1, <3>2, WritesStayBooked
  <2> QED
    BY <2>1, <2>2, <2>3
    DEF Creating, RequestStep, HandlerStep, Receive, AuthorizePayment,
        ReserveInventory, EnqueueJob, FailRead, RequestTimeout
<1>6. ReadIsBooked'
  <2>1. readBack'[o] \in {readBack[o], db[o], "absent"}
    BY <1>2
    DEF RequestTypeOK, Creating, RequestStep, HandlerStep, Receive, Persist,
        CachePending, AuthorizePayment, ReserveInventory, EnqueueJob, MarkQueued,
        CacheQueued, FailUpdate, FailRead, FailCache, RequestTimeout
  <2> QED
    BY <1>1, <1>2, <1>4, <2>1 DEF ReadIsBooked, StoredIsBooked
<1>7. ReadIsPending'
  <2>1. /\ step'[o] \in Failing => answer'[o] \notin {"none", "201"}
        /\ step'[o] # "failCache" => readBack'[o] = "absent"
    <3> USE <1>2 DEF RequestTypeOK, ReadIsPending, Goto, Ends, Continue, Failing
    <3>1. CASE Receive(o) \/ Persist(o) \/ CachePending(o)
      BY <3>1 DEF Receive, Persist, CachePending
    <3>2. CASE AuthorizePayment(o) \/ ReserveInventory(o) \/ EnqueueJob(o)
      BY <3>2 DEF AuthorizePayment, ReserveInventory, EnqueueJob
    <3>3. CASE MarkQueued(o) \/ CacheQueued(o)
      BY <3>3 DEF MarkQueued, CacheQueued
    <3>4. CASE FailUpdate(o) \/ FailRead(o) \/ FailCache(o) \/ RequestTimeout(o)
      BY <3>4 DEF FailUpdate, FailRead, FailCache, RequestTimeout
    <3> QED
      BY <3>1, <3>2, <3>3, <3>4 DEF Creating, RequestStep, HandlerStep
  <2>2. Answered(o, "201") => Answered(o, "201")'
    BY <1>2
    DEF RequestTypeOK, RequestShape, Answered, Creating, RequestStep,
        HandlerStep, Receive, Persist, CachePending, AuthorizePayment,
        ReserveInventory, EnqueueJob, MarkQueued, CacheQueued, FailUpdate,
        FailRead, FailCache, RequestTimeout
  <2>3. \A c \in Readers : target[c] \in Orders
    BY DEF SafetyInv, TypeInv, TypeOK, ReaderTypeOK
  <2> QED
    BY <1>1, <1>2, <1>4, <2>1, <2>2, <2>3 DEF ReadIsPending, Answered
<1>8. LateIsPending' /\ StoredIsPending'
  <2>1. ASSUME NEW w \in Write, late[w] > 0, w.status = "pending"
        PROVE  /\ step'[w.order] \in Failing \cup {"done", "gone"}
               /\ answer'[w.order] \notin {"none", "201"}
               /\ w.store = "row" =>
                    w.order \notin sent' /\ step'[w.order] \notin Failing
    <3>1. w.order \in Orders
      BY DEF Write
    <3>2. CASE w.order # o
      BY <1>2, <1>4, <2>1, <3>1, <3>2 DEF LateIsPending
    <3>3. CASE w.order = o
      <4>1. /\ step[o] \in Failing \cup {"done", "gone"}
            /\ answer[o] \notin {"none", "201"}
            /\ w.store = "row" => o \notin sent /\ step[o] \notin Failing
        BY <1>2, <2>1, <3>3 DEF LateIsPending
      <4>2. \/ FailUpdate(o) \/ FailRead(o) \/ FailCache(o)
            \/ RequestTimeout(o) /\ step[o] \in Failing
        BY <4>1 DEF Creating, RequestStep, HandlerStep, Receive, Persist,
                    CachePending, AuthorizePayment, ReserveInventory, EnqueueJob,
                    MarkQueued, CacheQueued, RequestTimeout, Failing, Active, Forward
      <4> QED
        BY <1>2, <3>3, <4>1, <4>2
        DEF FailUpdate, FailRead, FailCache, RequestTimeout, RequestTypeOK,
            Goto, Failing
    <3> QED
      BY <3>2, <3>3
  <2>2. ASSUME \A w \in Write : late'[w] > 0 /\ w.status = "pending" => late[w] > 0
        PROVE  LateIsPending'
    BY <2>1, <2>2 DEF LateIsPending
  <2>3. wstep = "read" => held # NoJob /\ held.order \in Orders \cap sent
    BY IdIsCopy DEF SafetyInv, TypeInv, TypeOK, WorkerTypeOK, WorkerShape,
                    Holding, OnlySent
  <2> USE <1>1, <1>2, <1>3, <1>4, <2>3
      DEF StoredIsPending, Answered, RequestTypeOK, Goto, Ends, Continue
  <2>4. CASE UNCHANGED storeVars
    <3>1. LateIsPending'
      BY <2>2, <2>4 DEF storeVars
    <3>2. StoredIsPending'
      <4>1. Receive(o) \/ AuthorizePayment(o) \/ ReserveInventory(o) \/ EnqueueJob(o)
              \/ MarkQueued(o) \/ CacheQueued(o) \/ Persist(o) \/ CachePending(o)
              \/ FailUpdate(o) \/ FailRead(o) \/ FailCache(o) \/ RequestTimeout(o)
        BY DEF Creating, RequestStep, HandlerStep
      <4>2. CASE Receive(o) \/ Persist(o) \/ CachePending(o) \/ FailUpdate(o)
                   \/ FailRead(o) \/ FailCache(o) \/ RequestTimeout(o)
        BY <2>4, <4>2 DEF Receive, Persist, CachePending, FailUpdate, FailRead,
                          FailCache, RequestTimeout, storeVars, RequestShape,
                          Forward, Failing, ReadIsPending
      <4>3. CASE AuthorizePayment(o) \/ ReserveInventory(o) \/ EnqueueJob(o)
        <5>1. /\ step'[o] \in {"inventory", "enqueue", "markQueued", "failUpdate"}
              /\ UNCHANGED <<db, cache>>
          BY <2>4, <4>3 DEF AuthorizePayment, ReserveInventory, EnqueueJob, storeVars
        <5> QED
          BY <5>1
      <4>4. CASE MarkQueued(o)
        BY <2>4, <4>4, RowWritten DEF MarkQueued, storeVars, RequestShape, Forward,
                                      TookEffect, StoreTypeOK
      <4>5. CASE CacheQueued(o)
        BY <2>4, <4>5, CacheWritten DEF CacheQueued, storeVars, RequestShape, Forward,
                                        TookEffect, StoreTypeOK
      <4> QED
        BY <4>1, <4>2, <4>3, <4>4, <4>5
    <3> QED
      BY <3>1, <3>2
  <2>5. CASE Persist(o)
    <3>1. PICK r : /\ WriteRow(o, "pending", r) /\ UNCHANGED <<cache, sent>>
                   /\ IF r = "ok" THEN Goto(o, "cache") ELSE Ends(o, "done", "500")
      BY <2>5 DEF Persist
    <3>2. /\ step[o] = "persist" /\ answer[o] = "none" /\ o \notin sent
      BY <2>5 DEF Persist, RequestShape, BeforeEnqueue, Forward
    <3>3. /\ db' = IF TookEffect(r) THEN [db EXCEPT ![o] = "pending"] ELSE db
          /\ \A w \in Write : late'[w] > 0 =>
               late[w] > 0 \/ (w.store = "row" /\ w.order = o)
          /\ r # "late" => late' = late
      BY <3>1, RowWritten DEF Delays
    <3>4. LateIsPending'
      <4>1. CASE r # "late"
        BY <2>2, <3>3, <4>1
      <4>2. CASE r = "late"
        <5>1. step'[o] = "done" /\ answer'[o] = "500" /\ o \notin sent'
          BY <3>1, <3>2, <4>2
        <5> QED
          BY <2>1, <3>3, <5>1 DEF LateIsPending, Failing
      <4> QED
        BY <4>1, <4>2
    <3>5. StoredIsPending'
      BY <3>1, <3>2, <3>3 DEF StoreTypeOK
    <3> QED
      BY <3>4, <3>5
  <2>6. CASE CachePending(o)
    <3>1. PICK r : /\ CacheSet(o, "pending", r) /\ UNCHANGED <<db, sent>>
                   /\ Continue(o, r = "ok", "payment", "500")
      BY <2>6 DEF CachePending
    <3>2. step[o] = "cache" /\ answer[o] = "none"
      BY <2>6 DEF CachePending, RequestShape, Forward
    <3>3. /\ cache' = IF TookEffect(r) THEN [cache EXCEPT ![o] = "pending"] ELSE cache
          /\ \A w \in Write : late'[w] > 0 =>
               late[w] > 0 \/ (w.store = "cache" /\ w.order = o)
          /\ r # "late" => late' = late
      BY <3>1, CacheWritten DEF Delays
    <3>4. LateIsPending'
      <4>1. CASE r # "late"
        BY <2>2, <3>3, <4>1
      <4>2. CASE r = "late"
        <5>1. step'[o] = "failUpdate" /\ answer'[o] = "500"
          BY <3>1, <3>2, <4>2
        <5> QED
          BY <2>1, <3>3, <5>1 DEF LateIsPending, Failing
      <4> QED
        BY <4>1, <4>2
    <3>5. StoredIsPending'
      BY <3>1, <3>2, <3>3 DEF StoreTypeOK
    <3> QED
      BY <3>4, <3>5
  <2>7. CASE MarkQueued(o) \/ FailUpdate(o)
    <3>1. PICK s, r : /\ s \in {"queued", "failed"}
                      /\ WriteRow(o, s, r) /\ UNCHANGED cache
                      /\ step[o] = "markQueued" =>
                           Continue(o, r = "ok", "cacheQueued", "500") /\ s = "queued"
      BY <2>7 DEF MarkQueued, FailUpdate
    <3>2. LateIsPending'
      BY <2>2, <3>1, WritesNotPending
    <3>3. db' = IF TookEffect(r) THEN [db EXCEPT ![o] = s] ELSE db
      BY <3>1, RowWritten
    <3>4. /\ step'[o] = "cacheQueued" => db'[o] # "pending"
          /\ step'[o] = "done" => answer'[o] # "201"
      BY <2>7, <3>1, <3>3 DEF MarkQueued, FailUpdate, TookEffect, StoreTypeOK,
                              ReadIsPending, Failing
    <3> QED
      BY <3>1, <3>2, <3>3, <3>4 DEF StoreTypeOK
  <2>8. CASE CacheQueued(o)
    <3>1. PICK r : /\ CacheSet(o, "queued", r) /\ UNCHANGED db
                   /\ IF r = "ok" THEN Ends(o, "done", "201")
                                  ELSE Ends(o, "failUpdate", "500")
      BY <2>8 DEF CacheQueued
    <3>2. LateIsPending'
      BY <2>2, <3>1, WritesNotPending
    <3>3. cache' = IF TookEffect(r) THEN [cache EXCEPT ![o] = "queued"] ELSE cache
      BY <3>1, CacheWritten
    <3>4. step[o] = "cacheQueued"
      BY <2>8 DEF CacheQueued
    <3> QED
      BY <3>1, <3>2, <3>3, <3>4 DEF StoreTypeOK, TookEffect
  <2>9. CASE FailCache(o)
    <3>1. PICK r : CacheSet(o, readBack[o], r) /\ UNCHANGED <<db, sent>>
      BY <2>9 DEF FailCache
    <3>2. /\ step'[o] = "done" /\ answer'[o] = answer[o]
          /\ answer[o] \notin {"none", "201"}
      BY <2>9 DEF FailCache, ReadIsPending, Failing
    <3>3. /\ cache' = IF TookEffect(r) THEN [cache EXCEPT ![o] = readBack[o]] ELSE cache
          /\ \A w \in Write : late'[w] > 0 =>
               late[w] > 0 \/ (w.store = "cache" /\ w.order = o)
      BY <3>1, CacheWritten DEF Delays
    <3>4. LateIsPending'
      BY <2>1, <3>2, <3>3 DEF LateIsPending
    <3> QED
      BY <3>1, <3>2, <3>3, <3>4 DEF StoreTypeOK
  <2> QED
    BY <2>4, <2>5, <2>6, <2>7, <2>8, <2>9
    DEF Creating, RequestStep, HandlerStep, Receive, AuthorizePayment,
        ReserveInventory, EnqueueJob, FailRead, RequestTimeout
<1> QED
  BY <1>5, <1>6, <1>7, <1>8 DEF StatusInv

(* The worker writes its verdict, reads the row back after that, and caches *)
(* what it read.                                                            *)
LEMMA WorkerKeepsStatus ==
  ASSUME SafetyInv, StatusInv, Fulfilling
  PROVE  StatusInv'
<1>1. UNCHANGED <<step, answer, readBack, sent, target, rread>>
  BY DEF Fulfilling, requestVars, readerVars
<1>2. /\ StoreTypeOK /\ WorkerTypeOK /\ WorkerShape /\ StoredIsBooked
      /\ ReadIsBooked /\ LateIsPending /\ StoredIsPending /\ ReadIsPending
  BY DEF SafetyInv, TypeInv, TypeOK, StatusInv
<1>3. wstep \in Holding => held # NoJob /\ held.order \in Orders
  BY <1>2, IdIsCopy DEF WorkerShape, WorkerTypeOK
<1>4. ASSUME UNCHANGED storeVars, wstep' # "read"
      PROVE  LateIsPending' /\ StoredIsPending'
  BY <1>1, <1>2, <1>4 DEF LateIsPending, StoredIsPending, Answered, storeVars
<1>5. ASSUME UNCHANGED <<storeVars, booked>>
      PROVE  StoredIsBooked'
  BY <1>2, <1>5 DEF StoredIsBooked, storeVars
<1>6. ASSUME UNCHANGED booked, wread' \in {wread, "absent"},
             \/ held' = held /\ verdict' = verdict
             \/ verdict' # "fulfilled" /\ wread' = "absent"
      PROVE  ReadIsBooked' /\ ReadIsPending'
  BY <1>1, <1>2, <1>6 DEF ReadIsBooked, ReadIsPending, Answered
<1>7. CASE Poll \/ PopEmpty \/ PopFails \/ PopRepeats
  BY <1>4, <1>5, <1>6, <1>7 DEF Poll, PopEmpty, PopFails, PopRepeats, workerVars,
                                history, StatusInv
<1>8. CASE PopJob
  <2>1. verdict' # "fulfilled" /\ wread' = "absent"
    BY <1>2, <1>8 DEF PopJob, WorkerShape, Persisting
  <2> QED
    BY <1>2, <1>4, <1>5, <1>6, <1>8, <2>1 DEF PopJob, history, StatusInv
<1>9. CASE Load
  BY <1>4, <1>5, <1>6, <1>9 DEF Load, Idle, history, StatusInv
<1>10. CASE Book
  <2>1. PICK r \in ShippingResults :
          /\ booked' = IF TookEffect(r)
                       THEN [booked EXCEPT ![held.order] = @ + 1] ELSE booked
          /\ IF r # "ok" /\ ShouldRetry(held)
             THEN wstep' = "retry" /\ UNCHANGED verdict
             ELSE wstep' = "update" /\ verdict' = Verdict(r)
    BY <1>10 DEF Book
  <2>2. UNCHANGED <<held, wread, storeVars>> /\ held.order \in Orders /\ wstep = "book"
    BY <1>3, <1>10 DEF Book, Holding
  <2>3. /\ \A o \in Orders : booked'[o] = 0 => booked[o] = 0
        /\ verdict' = "fulfilled" => booked'[held.order] # 0
    BY <1>2, <2>1, <2>2 DEF WorkerTypeOK, WorkerShape, Persisting, Verdict, TookEffect
  <2>4. StoredIsBooked' /\ ReadIsBooked'
    BY <1>1, <1>2, <2>2, <2>3 DEF StoredIsBooked, ReadIsBooked, storeVars, WorkerShape
  <2>5. ReadIsPending'
    BY <1>1, <1>2, <2>2 DEF ReadIsPending, Answered
  <2> QED
    BY <1>4, <2>1, <2>2, <2>4, <2>5 DEF StatusInv
<1>11. CASE Retry \/ DeadLetter
  BY <1>4, <1>5, <1>6, <1>11 DEF Retry, DeadLetter, CopiesInherit, Idle, StatusInv
<1>12. CASE UpdateResult
  <2>1. PICK r \in UpdateResults(held.order, ContextLive) :
          /\ WriteRow(held.order, verdict, r)
          /\ IF r = "ok" THEN wstep' = "read" /\ UNCHANGED <<held, verdict, wread>>
                         ELSE Idle("poll")
    BY <1>12 DEF UpdateResult
  <2>2. /\ held # NoJob /\ held.order \in Orders /\ UNCHANGED <<cache, booked>>
        /\ verdict \in {"fulfilled", "failed"} /\ verdict \in Entry
    BY <1>2, <1>3, <1>12 DEF UpdateResult, WorkerShape, WorkerTypeOK, Holding,
                             Persisting, Entry, OrderStatus
  <2>3. StoredIsBooked'
    BY <1>2, <2>1, <2>2, WritesStayBooked DEF ReadIsBooked
  <2>4. ReadIsBooked' /\ ReadIsPending'
    BY <1>6, <2>1, <2>2 DEF Idle
  <2>5. LateIsPending'
    <3>1. \A w \in Write : late'[w] > 0 /\ w.status = "pending" => late[w] > 0
      BY <1>2, <2>1, <2>2, WritesNotPending
    <3> QED
      BY <1>1, <1>2, <3>1 DEF LateIsPending
  <2>6. db' = IF TookEffect(r) THEN [db EXCEPT ![held.order] = verdict] ELSE db
    BY <1>2, <2>1, <2>2, RowWritten
  <2>7. StoredIsPending'
    BY <1>1, <1>2, <2>1, <2>2, <2>6
    DEF StoredIsPending, Answered, StoreTypeOK, TookEffect, Idle
  <2> QED
    BY <2>3, <2>4, <2>5, <2>7 DEF StatusInv
<1>13. CASE ReadResult
  <2>1. /\ UNCHANGED <<storeVars, booked>> /\ wstep = "read"
        /\ \/ wread' = db[held.order] /\ UNCHANGED <<held, verdict>> /\ wstep' = "cacheSet"
           \/ Idle("poll")
    BY <1>13 DEF ReadResult, history
  <2>2. held # NoJob /\ held.order \in Orders
    BY <1>3, <2>1 DEF Holding
  <2>3. ReadIsBooked' /\ ReadIsPending'
    BY <1>1, <1>2, <2>1, <2>2 DEF ReadIsBooked, ReadIsPending, StoredIsBooked,
                                  StoredIsPending, Answered, Idle
  <2> QED
    BY <1>4, <1>5, <2>1, <2>3 DEF StatusInv, Idle
<1>14. CASE CacheResult
  <2>1. PICK r : /\ CacheSet(held.order, wread, r) /\ UNCHANGED <<db, booked>>
                 /\ wstep' \in {"deadLetter", "poll"}
                 /\ UNCHANGED <<held, verdict, wread>> \/ Idle("poll")
    BY <1>14 DEF CacheResult, history, Idle
  <2>2. held # NoJob /\ held.order \in Orders /\ wread \in Entry
    BY <1>2, <1>3, <1>14 DEF CacheResult, Holding, WorkerTypeOK
  <2>3. StoredIsBooked'
    BY <1>2, <2>1, <2>2, WritesStayBooked DEF ReadIsBooked
  <2>4. ReadIsBooked' /\ ReadIsPending'
    BY <1>6, <2>1, <2>2 DEF Idle
  <2>5. LateIsPending'
    <3>1. \A w \in Write : late'[w] > 0 /\ w.status = "pending" => late[w] > 0
      BY <1>2, <2>1, <2>2, WritesNotPending DEF ReadIsPending
    <3> QED
      BY <1>1, <1>2, <3>1 DEF LateIsPending
  <2>6. cache' = IF TookEffect(r) THEN [cache EXCEPT ![held.order] = wread] ELSE cache
    BY <1>2, <2>1, <2>2, CacheWritten
  <2>7. StoredIsPending'
    BY <1>1, <1>2, <2>1, <2>2, <2>6
    DEF StoredIsPending, ReadIsPending, Answered, StoreTypeOK
  <2> QED
    BY <2>3, <2>4, <2>5, <2>7 DEF StatusInv
<1> QED
  BY <1>7, <1>8, <1>9, <1>10, <1>11, <1>12, <1>13, <1>14
  DEF Fulfilling, WorkerStep, JobStep

(* A reader begins after the 201 and stores what it read, a late write is   *)
(* one that was allowed already, and the rest forgets.                      *)
LEMMA OthersKeepStatus ==
  ASSUME SafetyInv, StatusInv,
         \/ \E c \in Readers : Reading(c)
         \/ \E o \in Orders : Expiring(o)
         \/ \E w \in Write : Arriving(w)
         \/ Proceeding \/ Stopping \/ Exit \/ Crash \/ Start
  PROVE  StatusInv'
<1>1. /\ StoreTypeOK /\ ReaderTypeOK /\ RequestTypeOK /\ StoredIsBooked
      /\ ReadIsBooked /\ LateIsPending /\ StoredIsPending /\ ReadIsPending
      /\ wstep = "read" => held # NoJob /\ held.order \in sent
  BY DEF SafetyInv, TypeInv, TypeOK, StatusInv, WorkerShape, Holding, OnlySent
<1>2. CASE \E c \in Readers : Reading(c)
  <2>1. PICK c \in Readers : Reading(c)
    BY <1>2
  <2>2. /\ UNCHANGED <<requestVars, workerVars, target, db>>
        /\ Answered(target[c], "201") /\ target[c] \in Orders
    BY <1>1, <2>1 DEF Reading, ReaderStep, Miss, LoadRow, FillCache, storeVars,
                      ReaderTypeOK
  <2>3. ReadIsBooked' /\ ReadIsPending'
    <3>1. /\ \A d \in Readers : d # c => rread'[d] = rread[d]
          /\ rread'[c] \in {rread[c], db[target[c]], "absent"}
      BY <1>1, <2>1 DEF Reading, ReaderStep, Miss, LoadRow, FillCache, ReaderTypeOK
    <3> QED
      BY <1>1, <2>2, <3>1 DEF ReadIsBooked, ReadIsPending, StoredIsBooked,
                              StoredIsPending, Answered, requestVars, workerVars
  <2>4. CASE Miss(c) \/ LoadRow(c)
    <3>1. UNCHANGED storeVars
      BY <2>4 DEF Miss, LoadRow
    <3> QED
      BY <1>1, <2>2, <2>3, <3>1
      DEF StatusInv, StoredIsBooked, LateIsPending, StoredIsPending, Answered,
          storeVars, requestVars, workerVars
  <2>5. CASE FillCache(c)
    <3>1. PICK r : CacheSet(target[c], rread[c], r) /\ UNCHANGED db
      BY <2>5 DEF FillCache
    <3>2. /\ rread[c] \in Entry /\ rread[c] # "pending"
          /\ rread[c] = "fulfilled" => booked[target[c]] # 0
      BY <1>1, <2>2 DEF ReaderTypeOK, ReadIsPending, ReadIsBooked
    <3>3. StoredIsBooked'
      BY <1>1, <2>2, <3>1, <3>2, WritesStayBooked DEF workerVars
    <3>4. \A w \in Write : late'[w] > 0 /\ w.status = "pending" => late[w] > 0
      BY <1>1, <2>2, <3>1, <3>2, WritesNotPending
    <3>5. LateIsPending'
      BY <1>1, <2>2, <3>4 DEF LateIsPending, requestVars
    <3>6. cache' = IF TookEffect(r) THEN [cache EXCEPT ![target[c]] = rread[c]] ELSE cache
      BY <1>1, <2>2, <3>1, <3>2, CacheWritten
    <3>7. StoredIsPending'
      BY <1>1, <2>2, <3>2, <3>6
      DEF StoredIsPending, Answered, StoreTypeOK, requestVars, workerVars
    <3> QED
      BY <2>3, <3>3, <3>5, <3>7 DEF StatusInv
  <2> QED
    BY <2>1, <2>4, <2>5 DEF Reading, ReaderStep
<1>3. CASE \E w \in Write : Arriving(w)
  <2>1. PICK w \in Write : Arriving(w)
    BY <1>3
  <2>2. /\ UNCHANGED <<requestVars, workerVars, readerVars>> /\ Arrive(w)
    BY <2>1 DEF Arriving
  <2>3. /\ w.order \in Orders /\ late[w] > 0
        /\ \A v \in Write : late'[v] > 0 => late[v] > 0
        /\ \/ /\ w.store = "row" /\ cache' = cache
              /\ db' = [db EXCEPT ![w.order] = w.status]
           \/ /\ w.store = "cache" /\ db' = db
              /\ cache' = [cache EXCEPT ![w.order] = w.status]
    BY <1>1, <2>2, Arrived
  <2>4. ReadIsBooked' /\ ReadIsPending' /\ LateIsPending'
    BY <1>1, <2>2, <2>3 DEF ReadIsBooked, ReadIsPending, LateIsPending, Answered,
                            requestVars, workerVars, readerVars
  <2>5. StoredIsBooked'
    BY <1>1, <2>2, <2>3 DEF StoredIsBooked, StoreTypeOK, workerVars
  <2>6. StoredIsPending'
    <3>1. w.status = "pending" => /\ step[w.order] # "cacheQueued"
                                  /\ ~Answered(w.order, "201")
                                  /\ w.store = "row" => w.order \notin sent
      BY <1>1, <2>3 DEF LateIsPending, Answered, Failing
    <3> QED
      <4>1. ASSUME NEW o \in Orders
            PROVE  /\ step[o] = "cacheQueued" => db'[o] # "pending"
                   /\ Answered(o, "201") => db'[o] # "pending" /\ cache'[o] # "pending"
        BY <1>1, <2>3, <3>1 DEF StoredIsPending, StoreTypeOK
      <4>2. wstep = "read" => db'[held.order] # "pending"
        BY <1>1, <2>3, <3>1 DEF StoredIsPending, StoreTypeOK, RequestTypeOK
      <4> QED
        BY <2>2, <4>1, <4>2 DEF StoredIsPending, Answered, requestVars, workerVars
  <2> QED
    BY <2>4, <2>5, <2>6 DEF StatusInv
<1> USE <1>1 DEF StatusInv, StoredIsBooked, ReadIsBooked, LateIsPending,
                 StoredIsPending, ReadIsPending, Answered, storeVars, requestVars,
                 workerVars, readerVars, history
<1>4. CASE \E o \in Orders : Expiring(o)
  BY <1>4 DEF Expiring, Expire, StoreTypeOK
<1>5. CASE Proceeding \/ Stopping
  BY <1>5 DEF Proceeding, Stopping
<1>6. CASE Exit \/ Crash
  <2>1. Halt
    BY <1>6 DEF Exit, Crash
  <2>2. /\ \A o \in Orders : step'[o] = IF step[o] \in Active THEN "gone" ELSE step[o]
        /\ UNCHANGED <<storeVars, answer, sent, booked>>
        /\ wread' = "absent" /\ verdict' = "none" /\ wstep' = "exited"
        /\ readBack' = [o \in Orders |-> "absent"]
        /\ rread' = [c \in Readers |-> "absent"]
    BY <2>1 DEF Halt, Idle
  <2>3. LateIsPending'
    <3>1. \A w \in Write : w.order \in Orders
      BY DEF Write
    <3> QED
      BY <2>2, <3>1 DEF Active, Failing, Forward
  <2> QED
    BY <2>2, <2>3 DEF Active, Forward, Failing
<1>7. CASE Start
  BY <1>7 DEF Start, Idle
<1> QED
  BY <1>2, <1>3, <1>4, <1>5, <1>6, <1>7

(* StatusInv is an invariant.                                               *)
THEOREM StatusInvariant == Spec => []StatusInv
<1>1. Init => StatusInv
  BY DEF Init, StoreInit, RequestInit, WorkerInit, ReaderInit, StatusInv,
         StoredIsBooked, ReadIsBooked, LateIsPending, StoredIsPending,
         ReadIsPending, Answered, Failing
<1>2. SafetyInv /\ StatusInv /\ [Next]_vars => StatusInv'
  <2> SUFFICES ASSUME SafetyInv, StatusInv, [Next]_vars
               PROVE  StatusInv'
    OBVIOUS
  <2>1. CASE \E o \in Orders : Creating(o)
    BY <2>1, RequestsKeepStatus
  <2>2. CASE Fulfilling
    BY <2>2, WorkerKeepsStatus
  <2>3. CASE \/ \E c \in Readers : Reading(c)
             \/ \E o \in Orders : Expiring(o)
             \/ \E w \in Write : Arriving(w)
             \/ Proceeding \/ Stopping \/ Exit \/ Crash \/ Start
    BY <2>3, OthersKeepStatus
  <2>4. CASE UNCHANGED vars
    BY <2>4 DEF StatusInv, StoredIsBooked, ReadIsBooked, LateIsPending,
                StoredIsPending, ReadIsPending, Answered, vars, storeVars,
                requestVars, workerVars, readerVars
  <2> QED
    BY <2>1, <2>2, <2>3, <2>4 DEF Next
<1> QED
  BY <1>1, <1>2, SafetyInvariant, PTL DEF Spec

(* No copy of the status says fulfilled of an order shipping did not book.  *)
THEOREM FulfilledMeansShipped == Spec => []FulfilledWasShipped
<1>1. SafetyInv /\ StatusInv => FulfilledWasShipped
  <2> SUFFICES ASSUME SafetyInv, StatusInv, NEW o \in Orders,
                      "fulfilled" \in StatusesSeen(o), booked[o] = 0
               PROVE  FALSE
    BY DEF FulfilledWasShipped, SafetyInv, TypeInv, TypeOK, WorkerTypeOK
  <2> QED BY DEF StatusesSeen, StatusInv, StoredIsBooked, ReadIsBooked
<1> QED
  BY <1>1, SafetyInvariant, StatusInvariant, PTL

(* After the answer 201 no copy of the status says pending.                 *)
THEOREM NeverPendingAfterCreated == Spec => []CreatedIsNotPending
<1>1. StatusInv => CreatedIsNotPending
  <2> SUFFICES ASSUME StatusInv, NEW o \in Orders, Answered(o, "201"),
                      "pending" \in StatusesSeen(o)
               PROVE  FALSE
    BY DEF CreatedIsNotPending
  <2>1. readBack[o] = "absent"
    BY DEF StatusInv, ReadIsPending, Answered
  <2> QED BY <2>1 DEF StatusesSeen, StatusInv, StoredIsPending, ReadIsPending
<1> QED
  BY <1>1, StatusInvariant, PTL
===============================================================================
