--------------------------- MODULE DeliveryProofs ---------------------------
(***************************************************************************)
(* Proofs about the jobs of the order pipeline, for any orders, limits and *)
(* faults, the pushes that the Redis client repeats among them: the copies *)
(* of a job are accounted for, each is tried as often as it says, settled  *)
(* once, and delivered as Delivery promises.                               *)
(***************************************************************************)
EXTENDS OrderProofs

(* The copies of an order's job that there are, or have been.               *)
Made(c) == c[1] \in sent /\ c[2] <= repeats[c[1]]

(* A waiting job has an attempt to spend and no verdict; a dead one has     *)
(* spent them all.                                                          *)
Waiting(job) == job.attempt = tries[Id(job)] + 1 /\ settled[Id(job)] = "none"
Dead(job) == /\ job.attempt = MaxAttempts
             /\ tries[Id(job)] = MaxAttempts /\ settled[Id(job)] = "failed"

ListsMatch == /\ \A i \in 1..Len(queue) : Waiting(queue[i])
              /\ \A i \in 1..Len(dlq) : Dead(dlq[i])

(* The same of the job in the worker's hands, step by step.                 *)
HeldMatches ==
  /\ wstep \in {"load", "book"} => held.attempt = tries[Id(held)] + 1
  /\ wstep \in Holding \ {"load", "book"} => held.attempt = tries[Id(held)]
  /\ wstep \in {"load", "book", "retry", "update"} => settled[Id(held)] = "none"
  /\ wstep \in {"read", "cacheSet", "deadLetter"} => settled[Id(held)] = verdict
  /\ verdict = "failed" => held.attempt = MaxAttempts
  /\ wstep = "deadLetter" => verdict = "failed"

(* A copy that was not made has no past, and an order that was not sent has *)
(* no copies.                                                               *)
Bounded == /\ \A c \in Copies : tries[c] <= MaxAttempts
           /\ \A c \in Copies : ~Made(c) => tries[c] = 0 /\ settled[c] = "none"
           /\ \A o \in Orders : o \notin sent => repeats[o] = 0

JobInv == JobsAccountedFor /\ ListsMatch /\ HeldMatches /\ Bounded
-------------------------------------------------------------------------------
(* Facts about lists that hold a copy of a job once at most.                *)

(* The copies a push makes, and the elements that carry them.               *)
LEMMA CopiedIds ==
  ASSUME QueueTypeOK, NEW job \in Job, NEW n \in Nat, CountCopies(job, n),
         job.copy <= repeats[job.order]
  PROVE  /\ \A k \in 1..n : \/ k = 1 /\ Id(Copied(job, k)) = Id(job)
                            \/ k > 1 /\ Id(Copied(job, k)) \in NewCopies(job.order)
         /\ \A k, l \in 1..n : Id(Copied(job, k)) = Id(Copied(job, l)) => k = l
         /\ \A c \in NewCopies(job.order) : \E k \in 1..n : Id(Copied(job, k)) = c
         /\ n <= 1 => NewCopies(job.order) = {}
         /\ \A c \in NewCopies(job.order) : c \in Copies /\ c[1] = job.order
                                            /\ c[2] > repeats[job.order]
<1> DEFINE o == job.order
<1>1. /\ o \in Orders /\ repeats[o] \in 0..MaxRepeats /\ MaxRepeats \in Nat
      /\ job.copy \in 0..MaxRepeats /\ Id(job) = <<o, job.copy>>
  BY RepeatsAssumption DEF QueueTypeOK, Job, Id
<1>2. /\ repeats'[o] = repeats[o] + Extra(n) /\ repeats'[o] \in 0..MaxRepeats
      /\ \A k \in 1..n : Id(Copied(job, k)) =
           <<o, IF k = 1 THEN job.copy ELSE repeats[o] + k - 1>>
  <2>1. /\ o \in Orders /\ repeats' \in [Orders -> 0..MaxRepeats]
        /\ \A p \in Orders : repeats'[p] =
             IF p = o THEN repeats[p] + Extra(n) ELSE repeats[p]
        /\ \A k \in 1..n : /\ Copied(job, k).order = o
                           /\ Copied(job, k).copy =
                                IF k = 1 THEN job.copy ELSE repeats[o] + k - 1
    BY CopiedIs
  <2> QED
    BY <2>1 DEF Id
<1> HIDE DEF o
<1>3. \A c : c \in NewCopies(o) <=>
        c \in Copies /\ c[1] = o /\ c[2] > repeats[o] /\ c[2] <= repeats'[o]
  BY DEF NewCopies
<1>4. ASSUME NEW k \in 1..n, k # 1
      PROVE  Id(Copied(job, k)) \in NewCopies(o)
  <2>1. /\ repeats[o] + k - 1 \in 0..MaxRepeats /\ repeats[o] + k - 1 > repeats[o]
        /\ repeats[o] + k - 1 <= repeats'[o]
    BY <1>1, <1>2, <1>4 DEF Extra
  <2> QED
    BY <1>1, <1>2, <1>3, <1>4, <2>1 DEF Copies
<1>5. ASSUME NEW c \in NewCopies(o)
      PROVE  \E k \in 1..n : Id(Copied(job, k)) = c
  <2>1. /\ c = <<c[1], c[2]>> /\ c[1] = o /\ c[2] \in Nat
        /\ c[2] > repeats[o] /\ c[2] <= repeats[o] + Extra(n)
    BY <1>1, <1>2, <1>3 DEF Copies
  <2>2. /\ c[2] - repeats[o] + 1 \in 1..n /\ c[2] - repeats[o] + 1 # 1
        /\ repeats[o] + (c[2] - repeats[o] + 1) - 1 = c[2]
    BY <1>1, <2>1 DEF Extra
  <2> QED
    BY <1>2, <2>1, <2>2
<1>6. ASSUME NEW k \in 1..n, NEW l \in 1..n, Id(Copied(job, k)) = Id(Copied(job, l))
      PROVE  k = l
  BY <1>1, <1>2, <1>6 DEF o
<1>7. n <= 1 => NewCopies(o) = {}
  <2>1. \A c \in Copies : c[2] \in Nat
    BY DEF Copies
  <2> QED
    BY <1>1, <1>2, <1>3, <2>1 DEF Extra
<1>8. \A k \in 1..n : \/ k = 1 /\ Id(Copied(job, k)) = Id(job)
                      \/ k > 1 /\ Id(Copied(job, k)) \in NewCopies(o)
  BY <1>1, <1>2, <1>4
<1> QED
  BY <1>3, <1>5, <1>6, <1>7, <1>8 DEF o

(* A push of a copy that the list does not have.                            *)
LEMMA PushedOnce ==
  ASSUME QueueTypeOK, NEW list \in Seq(Job), NEW job \in Job, NEW n \in Nat,
         CountCopies(job, n), job.copy <= repeats[job.order],
         OneEach(list), ~Has(list, Id(job)),
         \A c \in Copies : Has(list, c) => c[2] <= repeats[c[1]]
  PROVE  /\ OneEach(Pushed(list, job, n))
         /\ \A c \in Copies : Has(Pushed(list, job, n), c) <=>
              Has(list, c) \/ (n > 0 /\ c = Id(job)) \/ c \in NewCopies(job.order)
<1> DEFINE new == Pushed(list, job, n)
<1>1. /\ new \in Seq(Job) /\ Len(new) = Len(list) + n /\ Len(list) \in Nat
      /\ \A i \in 1..Len(list) : new[i] = list[i]
      /\ \A k \in 1..n : new[Len(list) + k] = Copied(job, k)
  BY PushedIs
<1>2. \A i \in 1..Len(new) :
        \/ i \in 1..Len(list) /\ new[i] = list[i]
        \/ \E k \in 1..n : i = Len(list) + k /\ new[i] = Copied(job, k)
  BY PushedElements
<1> HIDE DEF new
<1>3. /\ \A k \in 1..n : \/ k = 1 /\ Id(Copied(job, k)) = Id(job)
                         \/ k > 1 /\ Id(Copied(job, k)) \in NewCopies(job.order)
      /\ \A k, l \in 1..n : Id(Copied(job, k)) = Id(Copied(job, l)) => k = l
      /\ \A c \in NewCopies(job.order) : \E k \in 1..n : Id(Copied(job, k)) = c
      /\ \A c \in NewCopies(job.order) : c \in Copies /\ c[1] = job.order
                                         /\ c[2] > repeats[job.order]
  BY CopiedIds
<1>4. \A i \in 1..Len(list) : Id(list[i]) \in Copies /\ Has(list, Id(list[i]))
  <2>1. \A i \in 1..Len(list) : list[i] \in Job
    OBVIOUS
  <2> QED
    BY <2>1, IdIsCopy DEF Has
<1>5. \A i \in 1..Len(list), k \in 1..n : Id(list[i]) # Id(Copied(job, k))
  <2>1. /\ repeats \in [Orders -> 0..MaxRepeats] /\ job.order \in Orders
        /\ repeats[job.order] \in Int
    BY RepeatsAssumption DEF QueueTypeOK, Job
  <2>2. \A c \in NewCopies(job.order) : ~Has(list, c)
    <3>1. \A c \in Copies : c[2] \in Nat
      BY DEF Copies
    <3> QED
      BY <1>3, <2>1, <3>1
  <2> QED
    BY <1>3, <1>4, <2>2
<1>6. OneEach(new)
  <2> SUFFICES ASSUME NEW i \in 1..Len(new), NEW j \in 1..Len(new), Id(new[i]) = Id(new[j])
               PROVE  i = j
    BY DEF OneEach
  <2>1. CASE i \in 1..Len(list) /\ new[i] = list[i]
    <3>1. ~(\E k \in 1..n : new[j] = Copied(job, k))
      BY <1>5, <2>1
    <3> QED
      BY <1>2, <2>1, <3>1 DEF OneEach
  <2>2. CASE \E k \in 1..n : i = Len(list) + k /\ new[i] = Copied(job, k)
    <3>1. PICK k \in 1..n : i = Len(list) + k /\ new[i] = Copied(job, k)
      BY <2>2
    <3>2. ~(j \in 1..Len(list) /\ new[j] = list[j])
      BY <1>5, <3>1
    <3>3. PICK l \in 1..n : j = Len(list) + l /\ new[j] = Copied(job, l)
      BY <1>2, <3>2
    <3> QED
      BY <1>3, <3>1, <3>3
  <2> QED
    BY <1>2, <2>1, <2>2
<1>7. ASSUME NEW c \in Copies
      PROVE  Has(new, c) <=>
               Has(list, c) \/ (n > 0 /\ c = Id(job)) \/ c \in NewCopies(job.order)
  <2>1. ASSUME Has(new, c)
        PROVE  Has(list, c) \/ (n > 0 /\ c = Id(job)) \/ c \in NewCopies(job.order)
    <3>1. PICK i \in 1..Len(new) : Id(new[i]) = c
      BY <2>1 DEF Has
    <3>2. CASE i \in 1..Len(list) /\ new[i] = list[i]
      BY <3>1, <3>2 DEF Has
    <3>3. CASE \E k \in 1..n : new[i] = Copied(job, k)
      <4>1. PICK k \in 1..n : new[i] = Copied(job, k)
        BY <3>3
      <4> QED
        BY <1>3, <3>1, <4>1
    <3> QED
      BY <1>2, <3>2, <3>3
  <2>2. ASSUME Has(list, c)
        PROVE  Has(new, c)
    <3>1. PICK i \in 1..Len(list) : Id(list[i]) = c
      BY <2>2 DEF Has
    <3>2. i \in 1..Len(new) /\ new[i] = list[i]
      BY <1>1
    <3> QED
      BY <3>1, <3>2 DEF Has
  <2>3. ASSUME (n > 0 /\ c = Id(job)) \/ c \in NewCopies(job.order)
        PROVE  Has(new, c)
    <3>1. PICK k \in 1..n : Id(Copied(job, k)) = c
      BY <1>3, <2>3
    <3>2. Len(list) + k \in 1..Len(new) /\ new[Len(list) + k] = Copied(job, k)
      BY <1>1
    <3> QED
      BY <3>1, <3>2 DEF Has
  <2> QED
    BY <2>1, <2>2, <2>3
<1> QED
  BY <1>6, <1>7 DEF new

(* A pop takes the one element that is its copy.                            *)
LEMMA PoppedOnce ==
  ASSUME NEW list \in Seq(Job), list # <<>>, OneEach(list)
  PROVE  /\ OneEach(Tail(list))
         /\ \A c \in Copies : Has(Tail(list), c) <=> Has(list, c) /\ c # Id(Head(list))
         /\ Id(Head(list)) \in Copies /\ Has(list, Id(Head(list)))
<1> DEFINE rest == Tail(list)
<1>1. /\ Head(list) = list[1] /\ Len(rest) = Len(list) - 1 /\ Head(list) \in Job
      /\ 1 \in 1..Len(list)
      /\ \A i \in 1..Len(rest) : i + 1 \in 1..Len(list) /\ rest[i] = list[i + 1]
      /\ Len(list) \in Nat
  BY PoppedElements
<1> HIDE DEF rest
<1>2. OneEach(rest)
  <2> SUFFICES ASSUME NEW i \in 1..Len(rest), NEW j \in 1..Len(rest),
                      Id(rest[i]) = Id(rest[j])
               PROVE  i = j
    BY DEF OneEach
  <2>1. i + 1 = j + 1
    BY <1>1 DEF OneEach
  <2> QED
    BY <1>1, <2>1
<1>3. ASSUME NEW c \in Copies
      PROVE  Has(rest, c) <=> Has(list, c) /\ c # Id(Head(list))
  <2>1. ASSUME Has(rest, c)
        PROVE  Has(list, c) /\ c # Id(Head(list))
    <3>1. PICK i \in 1..Len(rest) : Id(rest[i]) = c
      BY <2>1 DEF Has
    <3>2. i + 1 \in 1..Len(list) /\ Id(list[i + 1]) = c /\ i + 1 # 1
      BY <1>1, <3>1
    <3> QED
      BY <1>1, <3>2 DEF Has, OneEach
  <2>2. ASSUME Has(list, c), c # Id(Head(list))
        PROVE  Has(rest, c)
    <3>1. PICK i \in 1..Len(list) : Id(list[i]) = c
      BY <2>2 DEF Has
    <3>2. i # 1 /\ i - 1 \in 1..Len(rest) /\ (i - 1) + 1 = i
      BY <1>1, <2>2, <3>1
    <3>3. rest[i - 1] = list[i]
      BY <1>1, <3>2
    <3> QED
      BY <3>1, <3>2, <3>3 DEF Has
  <2> QED
    BY <2>1, <2>2
<1>4. Id(Head(list)) \in Copies /\ Has(list, Id(Head(list)))
  BY <1>1, IdIsCopy DEF Has
<1> QED
  BY <1>2, <1>3, <1>4 DEF rest

(* The copies that a list's jobs are are those it has.                      *)
LEMMA ListedCopies ==
  ASSUME NEW list \in Seq(Job), NEW i \in 1..Len(list)
  PROVE  Id(list[i]) \in Copies /\ Has(list, Id(list[i]))
<1>1. list[i] \in Job
  OBVIOUS
<1> QED
  BY <1>1, IdIsCopy DEF Has
-------------------------------------------------------------------------------
(* Facts about a push of a job that is in no list.                          *)

(* The elements of a pushed list: the old ones, and copies of the job.      *)
LEMMA PushedCopies ==
  ASSUME QueueTypeOK, NEW list \in Seq(Job), NEW job \in Job, NEW n \in Nat,
         CountCopies(job, n), job.copy <= repeats[job.order],
         NEW i \in 1..Len(Pushed(list, job, n))
  PROVE  \/ i \in 1..Len(list) /\ Pushed(list, job, n)[i] = list[i]
         \/ /\ Pushed(list, job, n)[i].attempt = job.attempt
            /\ Pushed(list, job, n)[i].failShipping = job.failShipping
            /\ \/ Id(Pushed(list, job, n)[i]) = Id(job)
               \/ Id(Pushed(list, job, n)[i]) \in NewCopies(job.order)
  BY PushedElements, CopiedIs, CopiedIds

(* It leaves the copies accounted for.                                      *)
LEMMA PushAccounts ==
  ASSUME QueueTypeOK, JobsAccountedFor, NEW job \in Job, NEW l,
         NEW r \in PushResults(l),
         job.copy <= repeats[job.order], ~Has(queue, Id(job)), ~Has(dlq, Id(job)),
         Enqueue(job, r.copies) \/ SendToDLQ(job, r.copies),
         sent \subseteq sent', job.order \in sent' \/ r.copies = 0,
         held' = NoJob \/ (held' = held /\ (held # NoJob => held.order # job.order))
  PROVE  JobsAccountedFor'
<1> DEFINE n == r.copies
           new == NewCopies(job.order)
           d == Id(job)
<1>1. n \in Nat /\ (n > 1 => "lost" \in Outcomes /\ Sends > 1) /\ CountCopies(job, n)
  BY SendsAssumption DEF PushResults, Enqueue, SendToDLQ
<1>2. /\ job.order \in Orders /\ repeats' \in [Orders -> 0..MaxRepeats]
      /\ repeats \in [Orders -> 0..MaxRepeats]
      /\ \A o \in Orders : repeats'[o] =
           IF o = job.order THEN repeats[o] + Extra(n) ELSE repeats[o]
  BY <1>1, CopiedIs DEF QueueTypeOK
<1>3. /\ n <= 1 => new = {}
      /\ \A c \in new : c \in Copies /\ c[1] = job.order /\ c[2] > repeats[job.order]
                        /\ c[2] <= repeats'[job.order]
      /\ d \in Copies /\ d[1] = job.order /\ d[2] = job.copy
  BY <1>1, CopiedIds, IdIsCopy DEF NewCopies
<1>4. \A o \in Orders : repeats[o] \in Nat /\ repeats'[o] \in Nat /\ repeats[o] <= repeats'[o]
  BY <1>1, <1>2, RepeatsAssumption DEF Extra
<1>5. /\ OneEach(queue) /\ OneEach(dlq) /\ queue \in Seq(Job) /\ dlq \in Seq(Job)
      /\ \A c \in Copies : c[1] \in Orders /\ c[2] \in Nat
      /\ \A c \in Copies : Has(queue, c) \/ Has(dlq, c) \/ InHand(c) =>
                             c[1] \in sent /\ c[2] <= repeats[c[1]]
      /\ \A c \in Copies : /\ ~(Has(queue, c) /\ Has(dlq, c))
                           /\ InHand(c) => ~Has(queue, c) /\ ~Has(dlq, c)
  BY DEF JobsAccountedFor, QueueTypeOK, Copies
<1> DEFINE added(c) == (n > 0 /\ c = d) \/ c \in new
<1>6. \/ /\ OneEach(queue') /\ dlq' = dlq
         /\ \A c \in Copies : Has(queue', c) <=> Has(queue, c) \/ added(c)
      \/ /\ OneEach(dlq') /\ queue' = queue
         /\ \A c \in Copies : Has(dlq', c) <=> Has(dlq, c) \/ added(c)
  <2>1. CASE Enqueue(job, n)
    BY <1>1, <1>5, <2>1, PushedOnce DEF Enqueue
  <2>2. CASE SendToDLQ(job, n)
    BY <1>1, <1>5, <2>2, PushedOnce DEF SendToDLQ
  <2> QED
    BY <2>1, <2>2
<1>7. \A c \in Copies : added(c) =>
        /\ ~Has(queue, c) /\ ~Has(dlq, c) /\ c[1] = job.order
        /\ c[1] \in sent' /\ c[2] <= repeats'[c[1]]
  <2>1. ASSUME NEW c \in new
        PROVE  ~Has(queue, c) /\ ~Has(dlq, c) /\ c[1] = job.order
               /\ n > 0 /\ c[2] <= repeats'[c[1]]
    BY <1>1, <1>2, <1>3, <1>4, <1>5
  <2>2. d[2] <= repeats'[d[1]]
    BY <1>2, <1>3, <1>4, <1>5
  <2> QED
    BY <1>3, <2>1, <2>2
<1>8. \A c \in Copies : InHand(c)' => InHand(c) /\ ~added(c)
  BY <1>5, <1>7 DEF InHand, Id
<1> HIDE DEF added, new, n, d
<1>9. \A c \in Copies : c[1] \in sent /\ c[2] <= repeats[c[1]] =>
        c[1] \in sent' /\ c[2] <= repeats'[c[1]]
  BY <1>4, <1>5
<1>10. \A c \in Copies :
         /\ ~(Has(queue', c) /\ Has(dlq', c))
         /\ InHand(c)' => ~Has(queue', c) /\ ~Has(dlq', c)
         /\ Has(queue', c) \/ Has(dlq', c) \/ InHand(c)' =>
              c[1] \in sent' /\ c[2] <= repeats'[c[1]]
  BY <1>5, <1>6, <1>7, <1>8, <1>9
<1>11. \A o \in Orders : repeats'[o] > 0 => "lost" \in Outcomes /\ Sends > 1
  BY <1>1, <1>2 DEF JobsAccountedFor, Extra
<1>12. OneEach(queue') /\ OneEach(dlq')
  BY <1>5, <1>6
<1> QED
  BY <1>10, <1>11, <1>12 DEF JobsAccountedFor

(* What a step keeps that changes none of the lists and drops no more than  *)
(* the job in hand.                                                         *)
LEMMA StaysAccounted ==
  ASSUME JobsAccountedFor, UNCHANGED <<queueVars, sent>>, held' \in {held, NoJob}
  PROVE  JobsAccountedFor'
<1>1. \A c \in Copies : InHand(c)' => InHand(c)
  BY DEF InHand
<1>2. UNCHANGED <<queue, dlq, repeats, sent>>
  BY DEF queueVars
<1> QED
  BY <1>1, <1>2 DEF JobsAccountedFor, OneEach, Has

(* The job in the worker's hands.                                           *)
LEMMA HeldIs ==
  ASSUME SafetyInv, JobInv, held # NoJob
  PROVE  /\ held \in Job /\ held.order \in Orders /\ held.order \in sent
         /\ Id(held) \in Copies /\ Id(held)[1] = held.order /\ Id(held)[2] = held.copy
         /\ held.copy <= repeats[held.order] /\ Made(Id(held)) /\ InHand(Id(held))
         /\ ~Has(queue, Id(held)) /\ ~Has(dlq, Id(held))
         /\ held.attempt \in 1..MaxAttempts
<1>1. held \in Job /\ held.attempt \in 1..MaxAttempts
  BY DEF SafetyInv, TypeInv, TypeOK, WorkerTypeOK, Job
<1>2. /\ Id(held) \in Copies /\ Id(held)[1] = held.order /\ Id(held)[2] = held.copy
      /\ held.order \in Orders
  BY <1>1, IdIsCopy
<1>3. InHand(Id(held))
  BY DEF InHand
<1> QED
  BY <1>1, <1>2, <1>3 DEF JobInv, JobsAccountedFor, Made

(* The copies in the lists were made.                                       *)
LEMMA ListedIsMade ==
  ASSUME QueueTypeOK, JobsAccountedFor
  PROVE  /\ \A i \in 1..Len(queue) : /\ Id(queue[i]) \in Copies /\ Made(Id(queue[i]))
                                     /\ Has(queue, Id(queue[i]))
         /\ \A i \in 1..Len(dlq) : /\ Id(dlq[i]) \in Copies /\ Made(Id(dlq[i]))
                                   /\ Has(dlq, Id(dlq[i]))
<1>1. queue \in Seq(Job) /\ dlq \in Seq(Job)
  BY DEF QueueTypeOK
<1> QED
  BY <1>1, ListedCopies DEF JobsAccountedFor, Made

(* What the copies of the job in hand inherit, and what the others keep.    *)
LEMMA InheritKeeps ==
  ASSUME WorkerTypeOK, QueueTypeOK, held \in Job, held.copy <= repeats[held.order],
         CopiesInherit
  PROVE  /\ \A c \in Copies : c[2] <= repeats[c[1]] \/ c \notin NewCopies(held.order) =>
              tries'[c] = tries[c] /\ settled'[c] = settled[c]
         /\ \A c \in NewCopies(held.order) \cup {Id(held)} :
              /\ c \in Copies
              /\ tries'[c] = tries[Id(held)] /\ settled'[c] = settled[Id(held)]
<1>1. /\ Id(held) \in Copies /\ Id(held)[1] = held.order /\ Id(held)[2] = held.copy
      /\ held.order \in Orders /\ repeats[held.order] \in Nat
      /\ \A c \in Copies : c[2] \in Nat
  BY IdIsCopy, RepeatsAssumption DEF QueueTypeOK, Copies
<1>2. \A c \in NewCopies(held.order) : /\ c \in Copies /\ c[1] = held.order
                                       /\ c[2] > repeats[held.order]
  BY DEF NewCopies
<1>3. \A c \in Copies :
        /\ tries'[c] = IF c \in NewCopies(held.order) THEN tries[Id(held)] ELSE tries[c]
        /\ settled'[c] = IF c \in NewCopies(held.order)
                         THEN settled[Id(held)] ELSE settled[c]
  BY InheritedIs
<1>4. \A c \in Copies : c[2] <= repeats[c[1]] => c \notin NewCopies(held.order)
  BY <1>1, <1>2
<1> QED
  BY <1>1, <1>2, <1>3, <1>4
-------------------------------------------------------------------------------
(* The jobs, one lemma per part of the system.                              *)

(* A request sends one job, of an order that has none.                      *)
LEMMA RequestsKeepJobs ==
  ASSUME SafetyInv, JobInv, NEW o \in Orders, Creating(o)
  PROVE  JobInv'
<1>1. UNCHANGED <<wstep, held, verdict, tries, settled>>
  BY DEF Creating, workerVars
<1>2. QueueTypeOK /\ WorkerTypeOK
  BY DEF SafetyInv, TypeInv, TypeOK
<1>3. CASE UNCHANGED <<queueVars, sent>>
  <2>1. JobsAccountedFor'
    BY <1>1, <1>3, StaysAccounted DEF JobInv
  <2> QED
    BY <1>1, <1>3, <2>1 DEF JobInv, ListsMatch, Waiting, Dead, HeldMatches, Bounded,
                            Made, queueVars
<1>4. CASE EnqueueJob(o)
  <2>1. PICK r \in PushResults(live[o]), fail \in Simulations :
          /\ Enqueue([order |-> o, copy |-> 0, attempt |-> 1,
                      failShipping |-> fail], r.copies)
          /\ sent' = IF r.copies > 0 THEN sent \cup {o} ELSE sent
    BY <1>4 DEF EnqueueJob
  <2> DEFINE job == [order |-> o, copy |-> 0, attempt |-> 1, failShipping |-> fail]
             n == r.copies
  <2>2. job \in Job /\ job.order = o /\ job.attempt = 1 /\ job.copy = 0
        /\ Id(job) = <<o, 0>> /\ n \in Nat
    BY FirstJobIsJob, PushResultIs DEF Id
  <2>3. Enqueue(job, n) /\ sent' = IF n > 0 THEN sent \cup {o} ELSE sent
    BY <2>1
  <2> HIDE DEF job
  <2>4. o \notin sent /\ repeats[o] = 0 /\ repeats \in [Orders -> 0..MaxRepeats]
    BY <1>2, <1>4 DEF EnqueueJob, SafetyInv, RequestShape, BeforeEnqueue, JobInv,
                      Bounded, QueueTypeOK
  <2>5. /\ ~Has(queue, Id(job)) /\ ~Has(dlq, Id(job))
        /\ held # NoJob => held.order # job.order
        /\ Id(job) \in Copies
    BY <2>2, <2>4, IdIsCopy DEF SafetyInv, OnlySent, JobInv, JobsAccountedFor
  <2>6. \A c \in Copies : c[1] = o => tries[c] = 0 /\ settled[c] = "none"
    BY <2>4 DEF JobInv, Bounded, Made
  <2>7. JobsAccountedFor'
    BY <1>1, <1>2, <2>2, <2>3, <2>4, <2>5, PushAccounts DEF JobInv
  <2>8. CountCopies(job, n) /\ queue' = Pushed(queue, job, n) /\ dlq' = dlq
    BY <2>3 DEF Enqueue
  <2>9. ListsMatch'
    <3>1. ASSUME NEW i \in 1..Len(queue')
          PROVE  Waiting(queue[i])'
      <4>1. \/ i \in 1..Len(queue) /\ queue'[i] = queue[i]
            \/ /\ queue'[i].attempt = 1
               /\ Id(queue'[i]) \in {Id(job)} \cup NewCopies(o)
        <5>1. job.copy <= repeats[job.order] /\ queue \in Seq(Job)
          BY <1>2, <2>2, <2>4 DEF QueueTypeOK
        <5>2. i \in 1..Len(Pushed(queue, job, n))
          BY <2>8
        <5> QED
          BY <1>2, <2>2, <2>8, <5>1, <5>2, PushedCopies
      <4>2. CASE i \in 1..Len(queue) /\ queue'[i] = queue[i]
        BY <1>1, <4>2 DEF JobInv, ListsMatch, Waiting
      <4>3. CASE /\ queue'[i].attempt = 1
                 /\ Id(queue'[i]) \in {Id(job)} \cup NewCopies(o)
        <5>1. Id(queue'[i]) \in Copies /\ Id(queue'[i])[1] = o
          BY <2>2, <2>5, <4>3 DEF NewCopies
        <5> QED
          BY <1>1, <2>6, <4>3, <5>1 DEF Waiting
      <4> QED
        BY <4>1, <4>2, <4>3
    <3> QED
      BY <1>1, <2>8, <3>1 DEF JobInv, ListsMatch, Dead
  <2>10. Bounded'
    <3>1. \A p \in Orders : repeats'[p] =
            IF p = o THEN repeats[p] + Extra(n) ELSE repeats[p]
      BY <1>2, <2>2, <2>8, CopiedIs
    <3>2. \A c \in Copies : c[1] \in Orders /\ c[2] \in Nat
      BY DEF Copies
    <3>3. \A c \in Copies : ~Made(c)' => ~Made(c)
      BY <2>3, <2>4, <3>1, <3>2 DEF Made
    <3>4. \A p \in Orders : p \notin sent' => repeats'[p] = 0
      BY <2>2, <2>3, <2>4, <3>1 DEF JobInv, Bounded, Extra
    <3> QED
      BY <1>1, <3>3, <3>4 DEF JobInv, Bounded
  <2> QED
    BY <1>1, <2>7, <2>9, <2>10 DEF JobInv, HeldMatches
<1> QED
  BY <1>3, <1>4
  DEF Creating, RequestStep, HandlerStep, Receive, Persist, CachePending,
      AuthorizePayment, ReserveInventory, MarkQueued, CacheQueued, FailUpdate,
      FailRead, FailCache, RequestTimeout

(* A step of the worker that changes neither the lists nor the history.     *)
LEMMA WorkerKeepsLists ==
  ASSUME JobInv, UNCHANGED <<queueVars, sent, tries, settled>>, held' \in {held, NoJob}
  PROVE  JobsAccountedFor' /\ ListsMatch' /\ Bounded'
<1>1. JobsAccountedFor'
  BY StaysAccounted DEF JobInv
<1> QED
  BY <1>1 DEF JobInv, ListsMatch, Waiting, Dead, Bounded, Made, queueVars

(* A pop, to the worker's hands or to nowhere.                              *)
LEMMA PopKeepsJobs ==
  ASSUME SafetyInv, JobInv, Dequeue, held = NoJob, UNCHANGED <<sent, tries, settled>>,
         held' \in {NoJob, Head(queue)}
  PROVE  /\ JobsAccountedFor' /\ ListsMatch' /\ Bounded' /\ Waiting(Head(queue))
         /\ Head(queue) \in Job
<1>1. /\ queue \in Seq(Job) /\ queue # <<>> /\ queue' = Tail(queue)
      /\ UNCHANGED <<dlq, repeats>> /\ dlq \in Seq(Job)
  BY DEF SafetyInv, TypeInv, TypeOK, QueueTypeOK, Dequeue
<1>2. /\ Head(queue) = queue[1] /\ 1 \in 1..Len(queue) /\ Head(queue) \in Job
      /\ \A i \in 1..Len(queue') : i + 1 \in 1..Len(queue) /\ queue'[i] = queue[i + 1]
  BY <1>1, PoppedElements
<1> DEFINE d == Id(Head(queue))
<1>3. /\ OneEach(queue') /\ d \in Copies /\ Has(queue, d)
      /\ \A c \in Copies : Has(queue', c) <=> Has(queue, c) /\ c # d
  BY <1>1, PoppedOnce DEF JobInv, JobsAccountedFor
<1>4. \A c \in Copies : InHand(c)' => c = d
  BY DEF InHand
<1> HIDE DEF d
<1>5. JobsAccountedFor'
  <2>1. \A c \in Copies : Has(dlq, c)' <=> Has(dlq, c)
    BY <1>1 DEF Has
  <2>2. \A c \in Copies :
          /\ ~(Has(queue', c) /\ Has(dlq', c))
          /\ InHand(c)' => ~Has(queue', c) /\ ~Has(dlq', c)
          /\ Has(queue', c) \/ Has(dlq', c) \/ InHand(c)' =>
               c[1] \in sent' /\ c[2] <= repeats'[c[1]]
    BY <1>1, <1>3, <1>4 DEF JobInv, JobsAccountedFor
  <2> QED
    BY <1>1, <1>3, <2>2 DEF JobInv, JobsAccountedFor
<1>6. ListsMatch' /\ Bounded'
  BY <1>1, <1>2 DEF JobInv, ListsMatch, Waiting, Dead, Bounded, Made
<1>7. Waiting(Head(queue))
  BY <1>2 DEF JobInv, ListsMatch
<1> QED
  BY <1>2, <1>5, <1>6, <1>7

(* The job in hand is pushed, with the copies that inherit its past.        *)
LEMMA PushKeepsJobs ==
  ASSUME SafetyInv, JobInv, held # NoJob, Idle("poll"), UNCHANGED sent,
         CopiesInherit, NEW l, NEW r \in PushResults(l),
         \/ wstep = "retry" /\ Enqueue(RetryJob(held), r.copies)
         \/ wstep = "deadLetter" /\ SendToDLQ(held, r.copies)
  PROVE  JobInv'
<1> DEFINE n == r.copies
           d == Id(held)
<1>1. /\ held \in Job /\ held.order \in sent /\ d \in Copies /\ d[1] = held.order
      /\ d[2] = held.copy /\ held.copy <= repeats[held.order]
      /\ ~Has(queue, d) /\ ~Has(dlq, d) /\ n \in Nat
  BY HeldIs, PushResultIs
<1>2. QueueTypeOK /\ WorkerTypeOK /\ queue \in Seq(Job) /\ dlq \in Seq(Job)
      /\ repeats \in [Orders -> 0..MaxRepeats] /\ MaxRepeats \in Nat
  BY RepeatsAssumption DEF SafetyInv, TypeInv, TypeOK, QueueTypeOK
<1>3. wstep = "retry" => /\ RetryJob(held) \in Job /\ Id(RetryJob(held)) = d
                         /\ RetryJob(held).order = held.order
                         /\ RetryJob(held).copy = held.copy
                         /\ RetryJob(held).attempt = held.attempt + 1
  BY <1>1, RetryJobIsJob DEF SafetyInv, TypeInv, WorkerShape, ShouldRetry, Id
<1>4. PICK job \in Job :
        /\ Id(job) = d /\ job.order = held.order /\ job.copy = held.copy
        /\ \/ wstep = "retry" /\ Enqueue(job, n) /\ job.attempt = held.attempt + 1
           \/ wstep = "deadLetter" /\ SendToDLQ(job, n) /\ job.attempt = held.attempt
  BY <1>1, <1>3
<1>5. JobsAccountedFor'
  BY <1>1, <1>2, <1>4, PushAccounts DEF Idle, JobInv
<1>6. CountCopies(job, n)
  BY <1>4 DEF Enqueue, SendToDLQ
<1>7. /\ \A c \in Copies : c[2] <= repeats[c[1]] \/ c \notin NewCopies(held.order) =>
           tries'[c] = tries[c] /\ settled'[c] = settled[c]
      /\ \A c \in NewCopies(held.order) \cup {d} :
           c \in Copies /\ tries'[c] = tries[d] /\ settled'[c] = settled[d]
  BY <1>1, <1>2, InheritKeeps
<1>8. \A i \in 1..Len(queue) : Waiting(queue[i]) => (queue[i].attempt
        = tries'[Id(queue[i])] + 1 /\ settled'[Id(queue[i])] = "none")
  BY <1>2, <1>7, ListedIsMade DEF Waiting, Made, JobInv
<1>9. \A i \in 1..Len(dlq) : Dead(dlq[i]) =>
        /\ dlq[i].attempt = MaxAttempts /\ tries'[Id(dlq[i])] = MaxAttempts
        /\ settled'[Id(dlq[i])] = "failed"
  BY <1>2, <1>7, ListedIsMade DEF Dead, Made, JobInv
<1>10. held.attempt = tries[d]
  BY <1>4 DEF JobInv, HeldMatches, Holding
<1>11. ListsMatch'
  <2>1. CASE wstep = "retry" /\ Enqueue(job, n) /\ job.attempt = held.attempt + 1
    <3>1. queue' = Pushed(queue, job, n) /\ dlq' = dlq /\ settled[d] = "none"
      BY <2>1 DEF Enqueue, JobInv, HeldMatches
    <3>2. ASSUME NEW i \in 1..Len(queue')
          PROVE  Waiting(queue[i])'
      <4>1. \/ i \in 1..Len(queue) /\ queue'[i] = queue[i]
            \/ /\ queue'[i].attempt = job.attempt
               /\ Id(queue'[i]) \in NewCopies(held.order) \cup {d}
        <5>1. job.copy <= repeats[job.order] /\ i \in 1..Len(Pushed(queue, job, n))
          BY <1>1, <1>4, <3>1
        <5>2. n \in Nat
          BY <1>1
        <5> HIDE DEF n, d
        <5>3. \/ i \in 1..Len(queue) /\ Pushed(queue, job, n)[i] = queue[i]
              \/ /\ Pushed(queue, job, n)[i].attempt = job.attempt
                 /\ \/ Id(Pushed(queue, job, n)[i]) = Id(job)
                    \/ Id(Pushed(queue, job, n)[i]) \in NewCopies(job.order)
          BY <1>2, <1>6, <5>1, <5>2, PushedCopies
        <5> QED
          BY <1>4, <3>1, <5>3
      <4>2. CASE i \in 1..Len(queue) /\ queue'[i] = queue[i]
        BY <1>8, <4>2 DEF JobInv, ListsMatch, Waiting
      <4>3. CASE /\ queue'[i].attempt = job.attempt
                 /\ Id(queue'[i]) \in NewCopies(held.order) \cup {d}
        BY <1>7, <1>10, <2>1, <3>1, <4>3 DEF Waiting
      <4> QED
        BY <4>1, <4>2, <4>3
    <3> QED
      BY <1>9, <3>1, <3>2 DEF JobInv, ListsMatch, Dead
  <2>2. CASE wstep = "deadLetter" /\ SendToDLQ(job, n) /\ job.attempt = held.attempt
    <3>1. /\ dlq' = Pushed(dlq, job, n) /\ queue' = queue /\ settled[d] = "failed"
          /\ held.attempt = MaxAttempts
      BY <2>2 DEF SendToDLQ, JobInv, HeldMatches
    <3>2. ASSUME NEW i \in 1..Len(dlq')
          PROVE  Dead(dlq[i])'
      <4>1. \/ i \in 1..Len(dlq) /\ dlq'[i] = dlq[i]
            \/ /\ dlq'[i].attempt = job.attempt
               /\ Id(dlq'[i]) \in NewCopies(held.order) \cup {d}
        <5>1. job.copy <= repeats[job.order] /\ i \in 1..Len(Pushed(dlq, job, n))
          BY <1>1, <1>4, <3>1
        <5>2. n \in Nat
          BY <1>1
        <5> HIDE DEF n, d
        <5>3. \/ i \in 1..Len(dlq) /\ Pushed(dlq, job, n)[i] = dlq[i]
              \/ /\ Pushed(dlq, job, n)[i].attempt = job.attempt
                 /\ \/ Id(Pushed(dlq, job, n)[i]) = Id(job)
                    \/ Id(Pushed(dlq, job, n)[i]) \in NewCopies(job.order)
          BY <1>2, <1>6, <5>1, <5>2, PushedCopies
        <5> QED
          BY <1>4, <3>1, <5>3
      <4>2. CASE i \in 1..Len(dlq) /\ dlq'[i] = dlq[i]
        BY <1>9, <4>2 DEF JobInv, ListsMatch, Dead
      <4>3. CASE /\ dlq'[i].attempt = job.attempt
                 /\ Id(dlq'[i]) \in NewCopies(held.order) \cup {d}
        BY <1>7, <1>10, <2>2, <3>1, <4>3 DEF Dead
      <4> QED
        BY <4>1, <4>2, <4>3
    <3> QED
      BY <1>8, <3>1, <3>2 DEF JobInv, ListsMatch, Waiting
  <2> QED
    BY <1>4, <2>1, <2>2
<1>12. Bounded'
  <2>0. n \in Nat
    BY <1>1
  <2> HIDE DEF n, d
  <2>1. /\ \A o \in Orders : repeats'[o] =
             IF o = held.order THEN repeats[o] + Extra(n) ELSE repeats[o]
        /\ held.order \in Orders
    BY <1>1, <1>2, <1>4, <1>6, <2>0, CopiedIs
  <2>2. \A c \in Copies : c[1] \in Orders /\ c[2] \in Nat
    BY DEF Copies
  <2>3. \A c \in NewCopies(held.order) : Made(c)'
    BY <1>1, <2>1 DEF NewCopies, Made
  <2>4. \A c \in Copies : Made(c) => Made(c)'
    <3>1. \A o \in Orders : repeats[o] \in Nat /\ repeats'[o] \in Nat
                            /\ repeats[o] <= repeats'[o]
      BY <1>2, <2>0, <2>1 DEF Extra
    <3> QED
      BY <2>2, <3>1 DEF Made
  <2>5. ASSUME NEW c \in Copies
        PROVE  tries'[c] <= MaxAttempts /\ (~Made(c)' => tries'[c] = 0 /\ settled'[c] = "none")
    BY <1>1, <1>7, <2>3, <2>4, <2>5 DEF JobInv, Bounded
  <2>6. \A o \in Orders : o \notin sent' => repeats'[o] = 0
    BY <1>1, <2>1 DEF JobInv, Bounded
  <2> QED
    BY <2>5, <2>6 DEF Bounded
<1>13. HeldMatches'
  BY DEF Idle, HeldMatches, Holding
<1> QED
  BY <1>5, <1>11, <1>12, <1>13 DEF JobInv

(* The worker moves the job it pops: to its own hands, back to the queue,   *)
(* to the dead letters, or nowhere.                                         *)
LEMMA WorkerKeepsJobs ==
  ASSUME SafetyInv, JobInv, Fulfilling
  PROVE  JobInv'
<1>1. UNCHANGED sent
  BY DEF Fulfilling, requestVars
<1>2. QueueTypeOK /\ WorkerTypeOK /\ WorkerShape /\ (wstep \in Holding <=> held # NoJob)
  BY DEF SafetyInv, TypeInv, TypeOK, WorkerShape
<1>3. Idle("poll") => HeldMatches'
  BY DEF Idle, HeldMatches, Holding
<1>4. CASE Poll \/ PopEmpty
  <2>1. HeldMatches' /\ UNCHANGED <<queueVars, tries, settled, held>>
    BY <1>2, <1>4 DEF Poll, PopEmpty, HeldMatches, Holding, history, WorkerShape,
                      Persisting
  <2> QED
    BY <1>1, <2>1, WorkerKeepsLists DEF JobInv
<1>5. CASE PopJob
  <2>1. /\ Dequeue /\ held' = Head(queue) /\ held = NoJob
        /\ wstep' = "load" /\ UNCHANGED <<tries, settled, verdict>>
        /\ verdict = "none"
    BY <1>2, <1>5 DEF PopJob, Holding, WorkerShape, Persisting, history
  <2>2. JobsAccountedFor' /\ ListsMatch' /\ Bounded' /\ Waiting(Head(queue))
    BY <1>1, <2>1, PopKeepsJobs
  <2>3. HeldMatches'
    BY <2>1, <2>2 DEF HeldMatches, Waiting, Holding
  <2> QED
    BY <2>2, <2>3 DEF JobInv
<1>6. CASE PopFails \/ PopRepeats
  <2>1. /\ UNCHANGED queueVars \/ Dequeue
        /\ UNCHANGED <<held, tries, settled, verdict>>
        /\ held = NoJob /\ verdict = "none" /\ wstep' \in {"exited", "popping"}
    BY <1>2, <1>6 DEF PopFails, PopRepeats, workerVars, history, Holding,
                      WorkerShape, Persisting
  <2>2. HeldMatches'
    BY <2>1 DEF HeldMatches, Holding
  <2>3. JobsAccountedFor' /\ ListsMatch' /\ Bounded'
    BY <1>1, <2>1, WorkerKeepsLists, PopKeepsJobs
  <2> QED
    BY <2>2, <2>3 DEF JobInv
<1>7. CASE Load \/ ReadResult \/ CacheResult
  <2>1. /\ UNCHANGED <<queueVars, tries, settled>> /\ held' \in {held, NoJob}
        /\ \/ Idle("poll")
           \/ wstep = "load" /\ wstep' = "book" /\ UNCHANGED <<held, verdict>>
           \/ wstep = "read" /\ wstep' = "cacheSet" /\ UNCHANGED <<held, verdict>>
           \/ /\ wstep = "cacheSet" /\ wstep' = "deadLetter" /\ verdict = "failed"
              /\ UNCHANGED <<held, verdict>>
    BY <1>7 DEF Load, ReadResult, CacheResult, Idle, history
  <2>2. HeldMatches'
    BY <1>3, <2>1 DEF JobInv, HeldMatches, Holding
  <2> QED
    BY <1>1, <2>1, <2>2, WorkerKeepsLists DEF JobInv
<1>8. CASE Book
  <2>1. /\ held # NoJob /\ UNCHANGED <<held, queueVars, settled>>
        /\ tries' = [tries EXCEPT ![Id(held)] = @ + 1]
        /\ held.attempt = tries[Id(held)] + 1
        /\ settled[Id(held)] = "none"
    BY <1>2, <1>8 DEF Book, JobInv, HeldMatches, Holding
  <2>2. /\ wstep' \in {"retry", "update"}
        /\ verdict' # "failed" \/ ~ShouldRetry(held)
    BY <1>2, <1>8 DEF Book, Verdict, WorkerShape, Persisting
  <2>3. /\ held \in Job /\ held.attempt \in 1..MaxAttempts /\ Id(held) \in Copies
        /\ Made(Id(held)) /\ ~Has(queue, Id(held)) /\ ~Has(dlq, Id(held))
    BY <2>1, HeldIs
  <2>4. /\ tries'[Id(held)] = held.attempt
        /\ \A c \in Copies : c # Id(held) => tries'[c] = tries[c]
    BY <1>2, <2>1, <2>3 DEF WorkerTypeOK
  <2>5. HeldMatches'
    BY <2>1, <2>2, <2>3, <2>4, LimitIsPositive DEF HeldMatches, ShouldRetry, Holding
  <2>6. Bounded'
    <3>1. held.attempt <= MaxAttempts
      BY <2>3
    <3>2. \A c \in Copies : Made(c)' <=> Made(c)
      BY <1>1, <2>1 DEF Made, queueVars
    <3> QED
      BY <1>1, <2>1, <2>3, <2>4, <3>1, <3>2 DEF JobInv, Bounded, queueVars
  <2>7. ListsMatch'
    <3>1. /\ \A i \in 1..Len(queue) : tries'[Id(queue[i])] = tries[Id(queue[i])]
          /\ \A i \in 1..Len(dlq) : tries'[Id(dlq[i])] = tries[Id(dlq[i])]
      BY <1>2, <2>3, <2>4, ListedIsMade DEF JobInv
    <3> QED
      BY <2>1, <3>1 DEF JobInv, ListsMatch, Waiting, Dead, queueVars
  <2>8. JobsAccountedFor'
    BY <1>1, <2>1, StaysAccounted DEF JobInv
  <2> QED
    BY <2>5, <2>6, <2>7, <2>8 DEF JobInv
<1>9. CASE Retry \/ DeadLetter
  <2>1. PICK r \in PushResults(ContextLive) :
          \/ wstep = "retry" /\ Enqueue(RetryJob(held), r.copies)
          \/ wstep = "deadLetter" /\ SendToDLQ(held, r.copies)
    BY <1>9 DEF Retry, DeadLetter
  <2>2. held # NoJob /\ Idle("poll") /\ CopiesInherit
    BY <1>2, <1>9 DEF Retry, DeadLetter, Holding
  <2> QED
    BY <1>1, <2>1, <2>2, PushKeepsJobs
<1>10. CASE UpdateResult
  <2>1. /\ held # NoJob /\ UNCHANGED <<queueVars, tries>> /\ wstep = "update"
        /\ held' \in {held, NoJob} /\ settled[Id(held)] = "none"
        /\ \/ settled' = settled
           \/ settled' = [settled EXCEPT ![Id(held)] = verdict]
    BY <1>2, <1>10 DEF UpdateResult, Idle, Holding, JobInv, HeldMatches
  <2>2. \/ Idle("poll")
        \/ /\ wstep' = "read" /\ UNCHANGED <<held, verdict>>
           /\ settled' = [settled EXCEPT ![Id(held)] = verdict]
    BY <1>10 DEF UpdateResult, TookEffect
  <2>3. /\ held \in Job /\ Id(held) \in Copies /\ Made(Id(held))
        /\ ~Has(queue, Id(held)) /\ ~Has(dlq, Id(held))
    BY <2>1, HeldIs
  <2>4. \A c \in Copies : c # Id(held) => settled'[c] = settled[c]
    <3>1. settled \in [Copies -> {"none", "fulfilled", "failed"}]
      BY <1>2 DEF WorkerTypeOK
    <3> QED
      BY <2>1, <3>1
  <2>5. HeldMatches'
    <3>1. CASE /\ wstep' = "read" /\ UNCHANGED <<held, verdict>>
               /\ settled' = [settled EXCEPT ![Id(held)] = verdict]
      <4>1. settled'[Id(held)] = verdict
        BY <1>2, <2>3, <3>1 DEF WorkerTypeOK
      <4> QED
        BY <2>1, <3>1, <4>1 DEF JobInv, HeldMatches, Holding
    <3> QED
      BY <1>3, <2>2, <3>1
  <2>6. Bounded'
    <3>1. \A c \in Copies : Made(c)' <=> Made(c)
      BY <1>1, <2>1 DEF Made, queueVars
    <3> QED
      BY <1>1, <2>1, <2>3, <2>4, <3>1 DEF JobInv, Bounded, queueVars
  <2>7. ListsMatch'
    <3>1. /\ \A i \in 1..Len(queue) : settled'[Id(queue[i])] = settled[Id(queue[i])]
          /\ \A i \in 1..Len(dlq) : settled'[Id(dlq[i])] = settled[Id(dlq[i])]
      BY <1>2, <2>3, <2>4, ListedIsMade DEF JobInv
    <3> QED
      BY <2>1, <3>1 DEF JobInv, ListsMatch, Waiting, Dead, queueVars
  <2>8. JobsAccountedFor'
    BY <1>1, <2>1, StaysAccounted DEF JobInv
  <2> QED
    BY <2>5, <2>6, <2>7, <2>8 DEF JobInv
<1> QED
  BY <1>4, <1>5, <1>6, <1>7, <1>8, <1>9, <1>10 DEF Fulfilling, WorkerStep, JobStep

(* Nothing else touches a job, but a halt makes the worker drop its own.    *)
LEMMA OthersKeepJobs ==
  ASSUME JobInv,
         \/ \E c \in Readers : Reading(c)
         \/ \E o \in Orders : Expiring(o)
         \/ \E w \in Write : Arriving(w)
         \/ Proceeding \/ Stopping \/ Exit \/ Crash \/ Start
         \/ UNCHANGED vars
  PROVE  JobInv'
<1>1. /\ UNCHANGED <<queueVars, sent, tries, settled>>
      /\ \/ UNCHANGED <<wstep, held, verdict>>
         \/ held' = NoJob /\ verdict' = "none" /\ wstep' \in {"exited", "poll"}
  BY DEF Reading, Expiring, Arriving, Proceeding, Stopping, Exit, Crash, Halt,
         Start, Idle, requestVars, workerVars, history, vars
<1>2. JobsAccountedFor' /\ ListsMatch' /\ Bounded'
  BY <1>1, WorkerKeepsLists
<1>3. HeldMatches'
  BY <1>1 DEF JobInv, HeldMatches, Holding
<1> QED
  BY <1>2, <1>3 DEF JobInv

(* JobInv is an invariant.                                                  *)
THEOREM JobsInvariant == Spec => []JobInv
<1>1. Init => JobInv
  <2> SUFFICES ASSUME Init
               PROVE  JobInv
    OBVIOUS
  <2>1. /\ queue = <<>> /\ dlq = <<>> /\ held = NoJob /\ wstep = "poll"
        /\ verdict = "none" /\ repeats = [o \in Orders |-> 0]
        /\ tries = [c \in Copies |-> 0] /\ settled = [c \in Copies |-> "none"]
    BY DEF Init, QueueInit, WorkerInit
  <2>2. \A c : ~Has(queue, c) /\ ~Has(dlq, c) /\ ~InHand(c)
    BY <2>1 DEF Has, InHand
  <2> QED
    BY <2>1, <2>2, LimitIsPositive
    DEF JobInv, JobsAccountedFor, OneEach, ListsMatch, HeldMatches, Bounded, Holding
<1>2. JobInv /\ SafetyInv /\ [Next]_vars => JobInv'
  <2> SUFFICES ASSUME JobInv, SafetyInv, [Next]_vars
               PROVE  JobInv'
    OBVIOUS
  <2>1. CASE \E o \in Orders : Creating(o)
    BY <2>1, RequestsKeepJobs
  <2>2. CASE Fulfilling
    BY <2>2, WorkerKeepsJobs
  <2>3. CASE \/ \E c \in Readers : Reading(c)
             \/ \E o \in Orders : Expiring(o)
             \/ \E w \in Write : Arriving(w)
             \/ Proceeding \/ Stopping \/ Exit \/ Crash \/ Start
             \/ UNCHANGED vars
    BY <2>3, OthersKeepJobs
  <2> QED
    BY <2>1, <2>2, <2>3 DEF Next
<1> QED
  BY <1>1, <1>2, SafetyInvariant, PTL DEF Spec

(* Every job is in one place, and the copies of an order's job are no more  *)
(* than the repeated pushes account for.                                    *)
THEOREM JobsAreAccountedFor == Spec => []JobsAccountedFor
<1>1. JobInv => JobsAccountedFor
  BY DEF JobInv
<1> QED
  BY <1>1, JobsInvariant, PTL

(* A job's Attempt counts its bookings, and stays within the limit.         *)
THEOREM AttemptsAreCounted == Spec => []AttemptsCounted
<1>1. JobInv /\ SafetyInv => AttemptsCounted
  BY DEF JobInv, ListsMatch, Waiting, HeldMatches, Bounded, AttemptsCounted,
         Unprocessed, JobsIn
<1> QED
  BY <1>1, JobsInvariant, SafetyInvariant, PTL

(* A dead letter has spent its attempts, and its order was marked failed.   *)
THEOREM DeadLettersSpent == Spec => []DeadLettersAreFailed
<1>1. JobInv => DeadLettersAreFailed
  BY DEF JobInv, ListsMatch, Dead, DeadLettersAreFailed, JobsIn
<1> QED
  BY <1>1, JobsInvariant, PTL
-------------------------------------------------------------------------------
(* The worker gives one verdict on a copy, and only the first verdict on    *)
(* another one replaces it, once the request and the late writes are over.  *)
THEOREM VerdictIsFinal == Spec => VerdictStands
<1> DEFINE Stands ==
             /\ \A c \in Copies : settled[c] # "none" => settled'[c] = settled[c]
             /\ \A o \in Orders : Over(o) /\ RowIsSettled(o) /\ db'[o] # db[o] =>
                  \E c \in Copies : /\ c[1] = o
                                   /\ settled[c] = "none" /\ settled'[c] = db'[o]
<1>1. JobInv /\ SafetyInv /\ [Next]_vars => [Stands]_vars
  <2> SUFFICES ASSUME JobInv, SafetyInv, Next
               PROVE  Stands
    OBVIOUS
  <2>0. StoreTypeOK /\ WorkerTypeOK /\ QueueTypeOK
    BY DEF SafetyInv, TypeInv, TypeOK
  <2>1. CASE \E o \in Orders : Creating(o)
    <3>1. PICK o \in Orders : Creating(o)
      BY <2>1
    <3>2. settled' = settled
      BY <3>1 DEF Creating, workerVars
    <3>3. \/ db' = db
          \/ ~Over(o) /\ \E status : db' = [db EXCEPT ![o] = status]
      BY <3>1 DEF Creating, RequestStep, HandlerStep, Receive, Persist, CachePending,
           AuthorizePayment, ReserveInventory, EnqueueJob, MarkQueued, CacheQueued,
           FailUpdate, FailRead, FailCache, RequestTimeout, WriteRow, storeVars, Over
    <3>4. \A p \in Orders : db'[p] # db[p] => ~Over(p)
      BY <2>0, <3>3 DEF StoreTypeOK
    <3> QED
      BY <3>2, <3>4
  <2>2. CASE Fulfilling
    <3>1. CASE UpdateResult
      <4>1. /\ held # NoJob /\ settled[Id(held)] = "none"
            /\ Id(held) \in Copies /\ Id(held)[1] = held.order
        BY <3>1, HeldIs DEF UpdateResult, SafetyInv, TypeInv, WorkerShape, Holding,
                            JobInv, HeldMatches
      <4>2. \/ UNCHANGED <<db, settled>>
            \/ /\ db' = [db EXCEPT ![held.order] = verdict]
               /\ settled' = [settled EXCEPT ![Id(held)] = verdict]
        BY <3>1 DEF UpdateResult, WriteRow
      <4>3. CASE /\ db' = [db EXCEPT ![held.order] = verdict]
                 /\ settled' = [settled EXCEPT ![Id(held)] = verdict]
        <5>1. /\ settled'[Id(held)] = verdict
              /\ \A c \in Copies : c # Id(held) => settled'[c] = settled[c]
          BY <2>0, <4>1, <4>3 DEF WorkerTypeOK
        <5>2. \A o \in Orders : db'[o] # db[o] => o = held.order /\ db'[o] = verdict
          BY <2>0, <4>3 DEF StoreTypeOK
        <5> QED
          BY <4>1, <5>1, <5>2
      <4> QED
        BY <4>2, <4>3
    <3>2. CASE Retry \/ DeadLetter
      <4>1. held # NoJob /\ CopiesInherit /\ db' = db
        BY <3>2 DEF Retry, DeadLetter, storeVars, SafetyInv, TypeInv, WorkerShape, Holding
      <4>2. held \in Job /\ held.copy <= repeats[held.order]
        BY <4>1, HeldIs
      <4>3. \A c \in Copies : c \notin NewCopies(held.order) => settled'[c] = settled[c]
        BY <2>0, <4>1, <4>2, InheritKeeps
      <4>4. \A c \in NewCopies(held.order) : settled[c] = "none"
        <5>1. \A c \in Copies : c[2] \in Nat
          BY DEF Copies
        <5>2. held.order \in Orders /\ repeats[held.order] \in Nat
          BY <2>0, <4>2, RepeatsAssumption DEF QueueTypeOK, Job
        <5> QED
          BY <5>1, <5>2 DEF NewCopies, JobInv, Bounded, Made
      <4> QED
        BY <4>1, <4>3, <4>4
    <3>3. CASE ~UpdateResult /\ ~Retry /\ ~DeadLetter
      BY <2>2, <3>3 DEF Fulfilling, WorkerStep, JobStep, Poll, PopJob, PopEmpty,
           PopFails, PopRepeats, Load, Book, ReadResult, CacheResult, storeVars,
           history, workerVars
    <3> QED
      BY <3>1, <3>2, <3>3
  <2>3. CASE \E w \in Write : Arriving(w)
    <3>1. PICK w \in Write : Arriving(w)
      BY <2>3
    <3>2. /\ settled' = settled /\ late[w] > 0 /\ w.order \in Orders
          /\ \/ db' = db
             \/ w.store = "row" /\ db' = [db EXCEPT ![w.order] = w.status]
      BY <2>0, <3>1, Arrived DEF Arriving, workerVars
    <3>3. \A o \in Orders : db'[o] # db[o] => o = w.order /\ w.store = "row"
      BY <2>0, <3>2 DEF StoreTypeOK
    <3>4. late[w] # 0
      BY <2>0, <3>2, LateAssumption DEF StoreTypeOK
    <3> QED
      BY <3>2, <3>3, <3>4 DEF RowIsSettled
  <2>4. CASE \/ \E c \in Readers : Reading(c)
             \/ \E o \in Orders : Expiring(o)
             \/ Proceeding \/ Stopping \/ Exit \/ Crash \/ Start
    BY <2>4 DEF Reading, ReaderStep, Miss, LoadRow, FillCache, Expiring, Expire,
         Proceeding, Stopping, Exit, Crash, Halt, Start, storeVars, workerVars, history
  <2> QED
    BY <2>1, <2>2, <2>3, <2>4 DEF Next
<1>2. Spec => [][Stands]_vars
  BY <1>1, JobsInvariant, SafetyInvariant, PTL DEF Spec
<1> QED
  BY <1>2 DEF VerdictStands
-------------------------------------------------------------------------------
(* The pipeline implements Delivery.                                        *)

(* The place of a copy does not change when nothing does that tells it.     *)
LEMMA PlaceStays ==
  ASSUME NEW c \in Copies, QueueTypeOK, QueueTypeOK',
         Made(c)' <=> Made(c),
         Has(queue', c) <=> Has(queue, c), Has(dlq', c) <=> Has(dlq, c),
         InHand(c)' <=> InHand(c), settled'[c] = settled[c]
  PROVE  PlaceOf(c)' = PlaceOf(c)
<1>1. Has(queue, c)' = Has(queue', c) /\ Has(dlq, c)' = Has(dlq', c)
  BY DEF Has
<1>2. /\ Made(c) <=> ~(c[1] \notin sent \/ c[2] > repeats[c[1]])
      /\ Made(c)' <=> ~(c[1] \notin sent' \/ c[2] > repeats'[c[1]])
  <2>1. c[2] \in Nat /\ repeats[c[1]] \in Nat /\ repeats'[c[1]] \in Nat
    BY RepeatsAssumption DEF Copies, QueueTypeOK
  <2> QED
    BY <2>1 DEF Made
<1> HIDE DEF Has, InHand, Made
<1> QED
  BY <1>1, <1>2 DEF PlaceOf

(* What Delivery may make of a step.                                        *)
Abstractly == AtMostOnce!Next \/ UNCHANGED <<place, tries>>

LEMMA Stutters ==
  ASSUME tries' = tries, \A c \in Copies : PlaceOf(c)' = PlaceOf(c)
  PROVE  Abstractly
  BY DEF Abstractly, place

(* A step that moves one copy.                                              *)
LEMMA MovesOne ==
  ASSUME NEW c \in Copies, NEW from, NEW to, PlaceOf(c) = from, PlaceOf(c)' = to,
         tries' = tries, \A d \in Copies \ {c} : PlaceOf(d)' = PlaceOf(d)
  PROVE  AtMostOnce!Move(c, from, to)
<1>1. place' = [place EXCEPT ![c] = to]
  BY DEF place
<1> QED
  BY <1>1 DEF AtMostOnce!Move, place

(* A step that Delivery may take of a copy is one of its steps.             *)
LEMMA OneOf ==
  ASSUME NEW c \in Copies,
         \/ AtMostOnce!Deliver(c) \/ AtMostOnce!Try(c)
         \/ AtMostOnce!Finish(c) \/ AtMostOnce!Lose(c)
  PROVE  Abstractly
  BY DEF Abstractly, AtMostOnce!Next, AtMostOnce!Copies, Copies

LEMMA OnePush ==
  ASSUME NEW c \in Copies, NEW S \in SUBSET Copies,
         \/ AtMostOnce!Send(c[1], S) \/ AtMostOnce!Redeliver(c, S)
         \/ AtMostOnce!Bury(c, S)
  PROVE  Abstractly
<1>1. S \in SUBSET {d \in Copies : place[d] = "unsent"}
  BY DEF AtMostOnce!Send, AtMostOnce!Redeliver, AtMostOnce!Bury, AtMostOnce!Push,
         AtMostOnce!Unsent, AtMostOnce!Copies, Copies
<1> QED
  BY <1>1 DEF Abstractly, AtMostOnce!Next, AtMostOnce!Copies, Copies

(* Where a push leaves the copies of the job, and all others.               *)
LEMMA PushPlaces ==
  ASSUME QueueTypeOK, JobsAccountedFor, NEW job \in Job, NEW n \in Nat, n > 0,
         \/ Enqueue(job, n)
         \/ SendToDLQ(job, n) /\ held' = NoJob,
         job.copy <= repeats[job.order], ~Has(queue, Id(job)), ~Has(dlq, Id(job)),
         sent' = sent \cup {job.order},
         job.order \in sent \/ (job.copy = 0 /\ repeats[job.order] = 0),
         \A c \in Copies : c \notin {Id(job)} \cup NewCopies(job.order) =>
                             (InHand(c)' <=> InHand(c)) /\ settled'[c] = settled[c]
  PROVE  /\ \A c \in {Id(job)} \cup NewCopies(job.order) :
              /\ c \in Copies /\ c[1] = job.order
              /\ PlaceOf(c)' = IF dlq' = dlq THEN "queued" ELSE "buried"
         /\ \A c \in Copies : c \notin {Id(job)} \cup NewCopies(job.order) =>
              PlaceOf(c)' = PlaceOf(c)
         /\ \A c \in NewCopies(job.order) : PlaceOf(c) = "unsent"
<1> DEFINE S == {Id(job)} \cup NewCopies(job.order)
<1>1. CountCopies(job, n) /\ queue \in Seq(Job) /\ dlq \in Seq(Job)
  BY DEF Enqueue, SendToDLQ, QueueTypeOK
<1>2. /\ \A c \in NewCopies(job.order) : c \in Copies /\ c[1] = job.order
                                         /\ c[2] > repeats[job.order]
      /\ Id(job) \in Copies /\ Id(job)[1] = job.order /\ Id(job)[2] = job.copy
  BY <1>1, CopiedIds, IdIsCopy
<1>3. /\ job.order \in Orders
      /\ repeats \in [Orders -> 0..MaxRepeats] /\ repeats' \in [Orders -> 0..MaxRepeats]
      /\ \A o \in Orders : repeats[o] \in Nat /\ repeats'[o] \in Nat
      /\ \A o \in Orders : repeats[o] <= repeats'[o]
      /\ \A o \in Orders \ {job.order} : repeats[o] = repeats'[o]
      /\ \A c \in Copies : c[1] \in Orders /\ c[2] \in Nat
  <2>1. /\ job.order \in Orders /\ repeats' \in [Orders -> 0..MaxRepeats]
        /\ \A o \in Orders : repeats'[o] =
             IF o = job.order THEN repeats[o] + Extra(n) ELSE repeats[o]
    BY <1>1, CopiedIs
  <2>2. repeats \in [Orders -> 0..MaxRepeats] /\ MaxRepeats \in Nat
    BY RepeatsAssumption DEF QueueTypeOK
  <2> QED
    BY <2>1, <2>2 DEF Extra, Copies
<1>4. QueueTypeOK'
  BY PushesKeepTypes
<1>5. \A c \in Copies : Made(c)' <=> Made(c) \/ c \in S
  <2>1. \A c \in S : Made(c)'
    BY <1>2, <1>3 DEF Made, NewCopies
  <2>2. \A c \in Copies : Made(c) => Made(c)'
    BY <1>3 DEF Made
  <2>3. ASSUME NEW c \in Copies, Made(c)', ~Made(c)
        PROVE  c \in S
    <3>1. c[1] = job.order
      BY <1>3, <2>3 DEF Made
    <3>2. CASE c[2] > repeats[job.order]
      BY <2>3, <3>1, <3>2 DEF Made, NewCopies
    <3>3. CASE ~(c[2] > repeats[job.order])
      <4>1. c[2] <= repeats[job.order]
        BY <1>3, <3>3
      <4>2. job.order \notin sent /\ job.copy = 0 /\ repeats[job.order] = 0
        BY <2>3, <3>1, <4>1 DEF Made
      <4>3. c[2] = 0 /\ c = <<c[1], c[2]>>
        BY <1>3, <4>1, <4>2 DEF Copies
      <4> QED
        BY <3>1, <4>2, <4>3 DEF Id
    <3> QED
      BY <3>2, <3>3
  <2> QED
    BY <2>1, <2>2, <2>3
<1>6. \A c \in S : c \in Copies /\ ~Has(queue, c) /\ ~Has(dlq, c)
  <2>1. \A c \in NewCopies(job.order) : c \in Copies /\ ~Has(queue, c) /\ ~Has(dlq, c)
    BY <1>2, <1>3 DEF JobsAccountedFor
  <2> QED
    BY <1>2, <2>1
<1>7. \A c \in Copies : Has(queue, c) \/ Has(dlq, c) => c[2] <= repeats[c[1]]
  BY DEF JobsAccountedFor
<1>8. CASE Enqueue(job, n)
  <2>1. /\ dlq' = dlq
        /\ \A c \in Copies : Has(queue', c) <=> Has(queue, c) \/ c \in S
    BY <1>1, <1>7, <1>8, PushedOnce DEF Enqueue, JobsAccountedFor
  <2>2. ASSUME NEW c \in S
        PROVE  PlaceOf(c)' = "queued"
    <3>1. Made(c)' /\ Has(queue, c)'
      BY <1>5, <1>6, <2>1 DEF Has
    <3>2. ~(c[1] \notin sent' \/ c[2] > repeats'[c[1]])
      BY <1>2, <1>3, <3>1 DEF Made
    <3> QED
      BY <3>1, <3>2 DEF PlaceOf
  <2>3. \A c \in Copies : c \notin S => PlaceOf(c)' = PlaceOf(c)
    BY <1>4, <1>5, <2>1, PlaceStays
  <2>4. \A c \in NewCopies(job.order) : PlaceOf(c) = "unsent"
    BY <1>2 DEF PlaceOf
  <2> QED
    BY <1>2, <2>1, <2>2, <2>3, <2>4
<1>9. CASE SendToDLQ(job, n) /\ held' = NoJob
  <2>1. /\ queue' = queue
        /\ \A c \in Copies : Has(dlq', c) <=> Has(dlq, c) \/ c \in S
    BY <1>1, <1>7, <1>9, PushedOnce DEF SendToDLQ, JobsAccountedFor
  <2>2. dlq' # dlq
    BY <1>6, <2>1
  <2>3. ASSUME NEW c \in S
        PROVE  PlaceOf(c)' = "buried"
    <3>1. Made(c)' /\ ~Has(queue, c)' /\ Has(dlq, c)' /\ ~InHand(c)'
      BY <1>5, <1>6, <1>9, <2>1 DEF Has, InHand
    <3>2. ~(c[1] \notin sent' \/ c[2] > repeats'[c[1]])
      BY <1>2, <1>3, <3>1 DEF Made
    <3> QED
      BY <3>1, <3>2 DEF PlaceOf
  <2>4. \A c \in Copies : c \notin S => PlaceOf(c)' = PlaceOf(c)
    BY <1>4, <1>5, <2>1, PlaceStays
  <2>5. \A c \in NewCopies(job.order) : PlaceOf(c) = "unsent"
    BY <1>2 DEF PlaceOf
  <2> QED
    BY <1>2, <2>2, <2>3, <2>4, <2>5
<1> QED
  BY <1>8, <1>9

(* A request sends one job: its copies go from "unsent" to "queued".        *)
LEMMA RequestsSend ==
  ASSUME SafetyInv, JobInv, NEW o \in Orders, Creating(o)
  PROVE  \/ tries' = tries /\ \A c \in Copies : PlaceOf(c)' = PlaceOf(c)
         \/ \E S \in SUBSET Copies : /\ AtMostOnce!Send(o, S) /\ <<o, 0>> \in Copies
                                     /\ \A c \in Copies : PlaceOf(c)' # "lost"
                                                          \/ PlaceOf(c) = "lost"
<1>1. UNCHANGED <<held, tries, settled>>
  BY DEF Creating, workerVars
<1>2. QueueTypeOK /\ (UNCHANGED queueVars => QueueTypeOK')
  BY DEF SafetyInv, TypeInv, TypeOK, QueueTypeOK, queueVars
<1>3. ASSUME UNCHANGED <<queueVars, sent>>
      PROVE  tries' = tries /\ \A c \in Copies : PlaceOf(c)' = PlaceOf(c)
  BY <1>1, <1>2, <1>3, PlaceStays DEF queueVars, Made, InHand
<1>4. CASE EnqueueJob(o)
  <2>1. PICK r \in PushResults(live[o]), fail \in Simulations :
          /\ Enqueue([order |-> o, copy |-> 0, attempt |-> 1,
                      failShipping |-> fail], r.copies)
          /\ sent' = IF r.copies > 0 THEN sent \cup {o} ELSE sent
    BY <1>4 DEF EnqueueJob
  <2> DEFINE job == [order |-> o, copy |-> 0, attempt |-> 1, failShipping |-> fail]
             n == r.copies
             S == {Id(job)} \cup NewCopies(o)
  <2>2. /\ job \in Job /\ job.order = o /\ job.copy = 0 /\ Id(job) = <<o, 0>>
        /\ Id(job) \in Copies /\ n \in Nat
    BY FirstJobIsJob, IdIsCopy, PushResultIs DEF Id
  <2>3. Enqueue(job, n) /\ sent' = IF n > 0 THEN sent \cup {o} ELSE sent
    BY <2>1
  <2> HIDE DEF job, n
  <2>4. o \notin sent /\ repeats[o] = 0
    BY <1>4 DEF EnqueueJob, SafetyInv, RequestShape, BeforeEnqueue, JobInv, Bounded
  <2>5. ~Has(queue, Id(job)) /\ ~Has(dlq, Id(job))
    BY <2>2, <2>4 DEF JobInv, JobsAccountedFor
  <2>6. CASE n = 0
    <3>1. queue' = queue /\ dlq' = dlq /\ repeats' = repeats /\ sent' = sent
      <4>1. queue \in Seq(Job)
        BY <1>2 DEF QueueTypeOK
      <4>2. Pushed(queue, job, n) = queue
        BY <2>6, <4>1 DEF Pushed
      <4> QED
        BY <2>3, <2>6, <4>2 DEF Enqueue, CountCopies
    <3> QED
      BY <1>3, <3>1 DEF queueVars
  <2>7. CASE n > 0
    <3>1. /\ \A c \in S : /\ c \in Copies /\ c[1] = o
                          /\ PlaceOf(c)' = IF dlq' = dlq THEN "queued" ELSE "buried"
          /\ \A c \in Copies : c \notin S => PlaceOf(c)' = PlaceOf(c)
      <4>1. sent' = sent \cup {job.order} /\ job.copy <= repeats[job.order]
        BY <2>2, <2>3, <2>4, <2>7
      <4> QED
        BY <1>1, <1>2, <2>2, <2>3, <2>4, <2>5, <2>7, <4>1, PushPlaces
        DEF JobInv, InHand
    <3>2. dlq' = dlq
      BY <2>3 DEF Enqueue
    <3>3. \A c \in Copies : c[1] = o => PlaceOf(c) = "unsent"
      BY <2>4 DEF PlaceOf
    <3>4. AtMostOnce!Send(o, S)
      <4>1. place' = [c \in Copies |-> IF c \in S THEN "queued" ELSE place[c]]
        BY <3>1, <3>2 DEF place
      <4>2. AtMostOnce!Unsent(o, S)
        BY <3>1, <3>3 DEF AtMostOnce!Unsent, AtMostOnce!Copies, Copies, place
      <4>3. \A c \in Copies : c[1] = o => place[c] = "unsent"
        BY <3>3 DEF place
      <4>4. <<o, 0>> \in S
        BY <2>2
      <4> QED
        BY <1>1, <4>1, <4>2, <4>3, <4>4 DEF AtMostOnce!Send, AtMostOnce!Copies, Copies
    <3>5. S \in SUBSET Copies
      BY <3>1
    <3>6. \A c \in Copies : PlaceOf(c)' # "lost" \/ PlaceOf(c) = "lost"
      BY <3>1, <3>2
    <3> HIDE DEF S
    <3> QED
      BY <2>2, <3>4, <3>5, <3>6
  <2> QED
    BY <2>2, <2>6, <2>7
<1> QED
  BY <1>3, <1>4
  DEF Creating, RequestStep, HandlerStep, Receive, Persist, CachePending,
      AuthorizePayment, ReserveInventory, MarkQueued, CacheQueued, FailUpdate,
      FailRead, FailCache, RequestTimeout

LEMMA RequestsDeliver ==
  ASSUME SafetyInv, JobInv, NEW o \in Orders, Creating(o)
  PROVE  Abstractly
<1>1. CASE tries' = tries /\ \A c \in Copies : PlaceOf(c)' = PlaceOf(c)
  BY <1>1, Stutters
<1>2. CASE \E S \in SUBSET Copies : AtMostOnce!Send(o, S) /\ <<o, 0>> \in Copies
  <2>1. PICK S \in SUBSET Copies : AtMostOnce!Send(o, S) /\ <<o, 0>> \in Copies
    BY <1>2
  <2>2. <<o, 0>>[1] = o
    OBVIOUS
  <2> QED
    BY <2>1, <2>2, OnePush
<1> QED
  BY <1>1, <1>2, RequestsSend

(* Where the job is that the worker holds, and where when it drops it.      *)
LEMMA HeldIsHeld ==
  ASSUME SafetyInv, JobInv, held # NoJob
  PROVE  PlaceOf(Id(held)) = "held"
<1>1. /\ Made(Id(held)) /\ InHand(Id(held)) /\ ~Has(queue, Id(held))
      /\ Id(held)[2] \in Nat /\ repeats[Id(held)[1]] \in Nat
  <2>1. QueueTypeOK
    BY DEF SafetyInv, TypeInv, TypeOK
  <2> QED
    BY <2>1, HeldIs, RepeatsAssumption DEF QueueTypeOK, Copies
<1> QED
  BY <1>1 DEF PlaceOf, Made

LEMMA DroppedPlaces ==
  ASSUME SafetyInv, JobInv, held # NoJob, held' = NoJob,
         UNCHANGED <<queue, dlq, repeats, sent>>, NEW d, d = Id(held),
         \A c \in Copies : c # d => settled'[c] = settled[c]
  PROVE  /\ \A c \in Copies \ {d} : PlaceOf(c)' = PlaceOf(c)
         /\ PlaceOf(d)' = IF settled'[d] = "fulfilled" THEN "finished" ELSE "lost"
<1>1. /\ d \in Copies /\ Made(d) /\ ~Has(queue, d) /\ ~Has(dlq, d)
      /\ QueueTypeOK /\ QueueTypeOK'
  BY HeldIs DEF SafetyInv, TypeInv, TypeOK, QueueTypeOK
<1>2. ASSUME NEW c \in Copies, c # d
      PROVE  PlaceOf(c)' = PlaceOf(c)
  <2>1. InHand(c)' <=> InHand(c)
    BY <1>2 DEF InHand
  <2> QED
    BY <1>1, <1>2, <2>1, PlaceStays DEF Made
<1>3. PlaceOf(d)' = IF settled'[d] = "fulfilled" THEN "finished" ELSE "lost"
  <2>1. d[2] \in Nat /\ repeats[d[1]] \in Nat
    BY <1>1, RepeatsAssumption DEF QueueTypeOK, Copies
  <2>2. ~Has(queue, d)' /\ ~Has(dlq, d)' /\ ~InHand(d)'
    BY <1>1 DEF Has, InHand
  <2>3. ~(d[1] \notin sent' \/ d[2] > repeats'[d[1]])
    BY <1>1, <2>1 DEF Made
  <2> QED
    BY <2>2, <2>3 DEF PlaceOf
<1> QED
  BY <1>2, <1>3

LEMMA DroppedIsOver ==
  ASSUME SafetyInv, JobInv, held # NoJob, held' = NoJob,
         UNCHANGED <<queue, dlq, repeats, sent, tries>>,
         \/ settled' = settled
         \/ wstep = "update" /\ settled' = [settled EXCEPT ![Id(held)] = verdict]
  PROVE  Abstractly
<1>1. PICK d : d = Id(held)
  OBVIOUS
<1>2. d \in Copies /\ PlaceOf(d) = "held" /\ held \in Job
  BY <1>1, HeldIs, HeldIsHeld
<1>3. settled \in [Copies -> {"none", "fulfilled", "failed"}] /\ tries \in [Copies -> Nat]
  BY DEF SafetyInv, TypeInv, TypeOK, WorkerTypeOK
<1>4. \A c \in Copies : c # d => settled'[c] = settled[c]
  BY <1>1, <1>3
<1>5. /\ \A c \in Copies \ {d} : PlaceOf(c)' = PlaceOf(c)
      /\ PlaceOf(d)' = IF settled'[d] = "fulfilled" THEN "finished" ELSE "lost"
  BY <1>1, <1>4, DroppedPlaces
<1>6. CASE settled'[d] = "fulfilled"
  <2>1. wstep \in {"update", "read", "cacheSet", "deadLetter"}
    BY <1>1, <1>6 DEF JobInv, HeldMatches, SafetyInv, TypeInv, WorkerShape, Holding
  <2>2. held.attempt = tries[d] /\ held.attempt \in 1..MaxAttempts
    BY <1>1, <1>2, <2>1 DEF JobInv, HeldMatches, Holding, Job
  <2>3. tries[d] > 0
    BY <2>2, LimitIsPositive
  <2>4. AtMostOnce!Move(d, "held", "finished")
    BY <1>2, <1>5, <1>6, MovesOne
  <2> QED
    BY <1>2, <2>3, <2>4, OneOf DEF AtMostOnce!Finish
<1>7. CASE settled'[d] # "fulfilled"
  <2>1. AtMostOnce!Move(d, "held", "lost")
    BY <1>2, <1>5, <1>7, MovesOne
  <2> QED
    BY <1>2, <2>1, OneOf DEF AtMostOnce!Lose
<1> QED
  BY <1>6, <1>7

(* A verdict on a copy in hand moves nothing yet.                           *)
LEMMA KeptPlaces ==
  ASSUME SafetyInv, JobInv, UNCHANGED <<queue, dlq, repeats, sent, held>>,
         \A c \in Copies : \/ settled'[c] = settled[c]
                           \/ held # NoJob /\ c = Id(held)
  PROVE  \A c \in Copies : PlaceOf(c)' = PlaceOf(c)
<1>0. QueueTypeOK /\ QueueTypeOK'
  BY DEF SafetyInv, TypeInv, TypeOK, QueueTypeOK
<1>1. ASSUME NEW c \in Copies
      PROVE  PlaceOf(c)' = PlaceOf(c)
  <2>1. CASE settled'[c] = settled[c]
    BY <1>0, <2>1, PlaceStays DEF Made, InHand
  <2>2. CASE held # NoJob /\ c = Id(held)
    <3>1. /\ Made(c) /\ InHand(c) /\ ~Has(queue, c)
          /\ c[2] \in Nat /\ repeats[c[1]] \in Nat
      BY <1>0, <2>2, HeldIs, RepeatsAssumption DEF QueueTypeOK, Copies
    <3>2. ~Has(queue, c)' /\ InHand(c)'
      BY <3>1 DEF Has, InHand
    <3> QED
      BY <3>1, <3>2 DEF PlaceOf, Made
  <2> QED
    BY <1>1, <2>1, <2>2
<1> QED
  BY <1>1

(* A pop: to the worker's hands, or nowhere.                                *)
LEMMA PopPlaces ==
  ASSUME SafetyInv, JobInv, held = NoJob, Dequeue,
         UNCHANGED <<sent, settled>>, held' \in {NoJob, Head(queue)},
         NEW d, d = Id(Head(queue))
  PROVE  /\ d \in Copies /\ PlaceOf(d) = "queued"
         /\ PlaceOf(d)' = IF held' = NoJob THEN "lost" ELSE "held"
         /\ \A c \in Copies \ {d} : PlaceOf(c)' = PlaceOf(c)
<1>1. /\ QueueTypeOK /\ queue \in Seq(Job) /\ queue # <<>> /\ queue' = Tail(queue)
      /\ UNCHANGED <<dlq, repeats>>
  BY DEF SafetyInv, TypeInv, TypeOK, QueueTypeOK, Dequeue
<1>2. QueueTypeOK'
  BY <1>1, PoppedElements DEF QueueTypeOK
<1>3. /\ d \in Copies /\ Has(queue, d)
      /\ \A c \in Copies : Has(queue', c) <=> Has(queue, c) /\ c # d
  BY <1>1, PoppedOnce DEF JobInv, JobsAccountedFor
<1>4. /\ ~Has(dlq, d) /\ d[1] \in sent /\ d[2] <= repeats[d[1]]
      /\ d[2] \in Nat /\ repeats[d[1]] \in Nat
  BY <1>1, <1>3, RepeatsAssumption DEF JobInv, JobsAccountedFor, QueueTypeOK, Copies
<1>5. PlaceOf(d) = "queued"
  BY <1>3, <1>4 DEF PlaceOf
<1>6. Head(queue) \in Job /\ Head(queue) = queue[1] /\ 1 \in 1..Len(queue)
  BY <1>1, PoppedElements
<1>7. settled[d] = "none"
  BY <1>6 DEF JobInv, ListsMatch, Waiting
<1>8. PlaceOf(d)' = IF held' = NoJob THEN "lost" ELSE "held"
  <2>1. ~Has(queue, d)' /\ ~Has(dlq, d)'
    BY <1>1, <1>3, <1>4 DEF Has
  <2>2. InHand(d)' <=> held' # NoJob
    BY DEF InHand
  <2>3. ~(d[1] \notin sent' \/ d[2] > repeats'[d[1]])
    BY <1>1, <1>4
  <2> QED
    BY <1>7, <2>1, <2>2, <2>3 DEF PlaceOf
<1>9. \A c \in Copies \ {d} : PlaceOf(c)' = PlaceOf(c)
  <2>1. \A c \in Copies \ {d} : InHand(c)' <=> InHand(c)
    BY DEF InHand
  <2> QED
    BY <1>1, <1>2, <1>3, <2>1, PlaceStays DEF Made
<1> QED
  BY <1>3, <1>5, <1>8, <1>9

LEMMA PopDelivers ==
  ASSUME SafetyInv, JobInv, held = NoJob, Dequeue,
         UNCHANGED <<sent, tries, settled>>, held' \in {NoJob, Head(queue)}
  PROVE  Abstractly
<1>1. PICK d : d = Id(Head(queue))
  OBVIOUS
<1>2. /\ d \in Copies /\ PlaceOf(d) = "queued"
      /\ PlaceOf(d)' = IF held' = NoJob THEN "lost" ELSE "held"
      /\ \A c \in Copies \ {d} : PlaceOf(c)' = PlaceOf(c)
  BY <1>1, PopPlaces
<1>3. \/ AtMostOnce!Move(d, "queued", "lost")
      \/ AtMostOnce!Move(d, "queued", "held")
  BY <1>2, MovesOne
<1> QED
  BY <1>2, <1>3, OneOf DEF AtMostOnce!Lose, AtMostOnce!Deliver

(* The job in hand is pushed: back to the queue, or to the dead letters.    *)
LEMMA PushDelivers ==
  ASSUME SafetyInv, JobInv, held # NoJob, Idle("poll"), UNCHANGED sent,
         CopiesInherit, NEW l, NEW r \in PushResults(l),
         \/ wstep = "retry" /\ Enqueue(RetryJob(held), r.copies)
         \/ wstep = "deadLetter" /\ SendToDLQ(held, r.copies)
  PROVE  /\ Abstractly
         /\ r.copies > 0 => \A c \in Copies : PlaceOf(c)' # "lost" \/ PlaceOf(c) = "lost"
<1>1. PICK n : n = r.copies
  OBVIOUS
<1>2. PICK d : d = Id(held)
  OBVIOUS
<1>3. /\ held \in Job /\ held.order \in sent /\ d \in Copies /\ d[1] = held.order
      /\ held.copy <= repeats[held.order] /\ PlaceOf(d) = "held"
      /\ ~Has(queue, d) /\ ~Has(dlq, d) /\ n \in Nat /\ held' = NoJob
      /\ held.attempt \in 1..MaxAttempts
  BY <1>1, <1>2, HeldIs, HeldIsHeld, PushResultIs DEF Idle
<1>4. /\ QueueTypeOK /\ WorkerTypeOK /\ queue \in Seq(Job) /\ dlq \in Seq(Job)
      /\ JobsAccountedFor /\ tries \in [Copies -> Nat]
  BY DEF SafetyInv, TypeInv, TypeOK, QueueTypeOK, WorkerTypeOK, JobInv
<1>5. wstep = "retry" => /\ RetryJob(held) \in Job /\ Id(RetryJob(held)) = d
                         /\ RetryJob(held).order = held.order
                         /\ RetryJob(held).copy = held.copy
                         /\ held.attempt < MaxAttempts
  BY <1>2, <1>3, RetryJobIsJob DEF SafetyInv, TypeInv, WorkerShape, ShouldRetry, Id
<1>6. PICK job \in Job :
        /\ Id(job) = d /\ job.order = held.order /\ job.copy = held.copy
        /\ \/ wstep = "retry" /\ Enqueue(job, n)
           \/ wstep = "deadLetter" /\ SendToDLQ(job, n)
  BY <1>1, <1>2, <1>3, <1>5
<1>7. CountCopies(job, n)
  BY <1>6 DEF Enqueue, SendToDLQ
<1> DEFINE S == {d} \cup NewCopies(held.order)
<1>8. /\ \A c \in Copies : c \notin NewCopies(held.order) =>
           tries'[c] = tries[c] /\ settled'[c] = settled[c]
      /\ \A c \in NewCopies(held.order) : c \in Copies /\ tries'[c] = tries[d]
  BY <1>2, <1>3, <1>4, InheritKeeps
<1>9. tries' = [c \in Copies |-> IF c \in S THEN tries[d] ELSE tries[c]]
  <2>1. tries' = [c \in Copies |-> IF c \in NewCopies(held.order)
                                   THEN tries[d] ELSE tries[c]]
    BY <1>2 DEF CopiesInherit, Inherited
  <2> QED
    BY <2>1
<1>10. held.attempt = tries[d]
  BY <1>2, <1>6 DEF JobInv, HeldMatches, Holding
<1>11. CASE n = 0
  <2>1. Pushed(queue, job, n) = queue /\ Pushed(dlq, job, n) = dlq
    BY <1>4, <1>11 DEF Pushed
  <2>2. UNCHANGED <<queue, dlq, repeats>>
    BY <1>6, <1>11, <2>1 DEF Enqueue, SendToDLQ, CountCopies
  <2>3. NewCopies(held.order) = {}
    <3>1. job.copy <= repeats[job.order]
      BY <1>3, <1>6
    <3>2. n <= 1 => NewCopies(job.order) = {}
      BY <1>3, <1>4, <1>7, <3>1, CopiedIds
    <3> QED
      BY <1>6, <1>11, <3>2
  <2>4. tries' = tries /\ settled' = settled
    BY <1>4, <2>3 DEF CopiesInherit, Inherited, WorkerTypeOK
  <2> QED
    BY <1>1, <1>3, <1>11, <2>2, <2>4, DroppedIsOver
<1>12. CASE n > 0
  <2>1. /\ \A c \in S : /\ c \in Copies /\ c[1] = held.order
                        /\ PlaceOf(c)' = IF dlq' = dlq THEN "queued" ELSE "buried"
        /\ \A c \in Copies : c \notin S => PlaceOf(c)' = PlaceOf(c)
        /\ \A c \in NewCopies(held.order) : PlaceOf(c) = "unsent"
    <3>1. sent' = sent \cup {job.order} /\ job.copy <= repeats[job.order]
      BY <1>3, <1>6
    <3>2. \A c \in Copies : c # d => (InHand(c)' <=> InHand(c))
      BY <1>2, <1>3 DEF InHand
    <3> QED
      BY <1>3, <1>4, <1>6, <1>8, <1>12, <3>1, <3>2, PushPlaces
  <2>2. S \in SUBSET Copies /\ \A c \in S : c[1] = held.order
    BY <2>1
  <2>3. AtMostOnce!Unsent(d[1], NewCopies(held.order))
    BY <1>3, <2>1 DEF AtMostOnce!Unsent, AtMostOnce!Copies, Copies, place
  <2>4. ASSUME NEW to, \A c \in S : PlaceOf(c)' = to
        PROVE  AtMostOnce!Push(d, NewCopies(held.order), to)
    <3>1. place' = [c \in Copies |-> IF c \in NewCopies(held.order) \cup {d}
                                     THEN to ELSE place[c]]
      BY <2>1, <2>4 DEF place
    <3>2. place[d] = "held"
      BY <1>3 DEF place
    <3>3. tries' = [c \in Copies |-> IF c \in NewCopies(held.order)
                                     THEN tries[d] ELSE tries[c]]
      BY <1>2 DEF CopiesInherit, Inherited
    <3> QED
      BY <2>3, <3>1, <3>2, <3>3 DEF AtMostOnce!Push, AtMostOnce!Copies, Copies
  <2>5. CASE wstep = "retry" /\ Enqueue(job, n)
    <3>1. dlq' = dlq
      BY <2>5 DEF Enqueue
    <3>2. AtMostOnce!Push(d, NewCopies(held.order), "queued")
      BY <2>1, <2>4, <3>1
    <3>3. tries[d] \in 1..(MaxAttempts - 1)
      BY <1>3, <1>5, <1>10, <2>5, LimitIsPositive
    <3>4. AtMostOnce!Redeliver(d, NewCopies(held.order))
      BY <3>2, <3>3 DEF AtMostOnce!Redeliver
    <3> QED
      BY <1>3, <2>1, <2>2, <3>4, OnePush
  <2>6. CASE wstep = "deadLetter" /\ SendToDLQ(job, n)
    <3>1. dlq' # dlq
      <4>1. Len(dlq') = Len(dlq) + n /\ Len(dlq) \in Nat
        BY <1>3, <1>4, <1>6, <1>7, <2>6, PushedIs DEF SendToDLQ
      <4> QED
        BY <1>3, <1>12, <4>1
    <3>2. AtMostOnce!Push(d, NewCopies(held.order), "buried")
      BY <2>1, <2>4, <3>1
    <3>3. tries[d] = MaxAttempts
      BY <1>10, <2>6 DEF JobInv, HeldMatches
    <3>4. AtMostOnce!Bury(d, NewCopies(held.order))
      BY <3>2, <3>3 DEF AtMostOnce!Bury
    <3> QED
      BY <1>3, <2>1, <2>2, <3>4, OnePush
  <2> QED
    BY <1>6, <2>5, <2>6
<1> QED
  BY <1>3, <1>11, <1>12

(* The worker is handed a job, tries it, and puts it back, buries it,       *)
(* finishes it or drops it.                                                 *)
LEMMA WorkerDelivers ==
  ASSUME SafetyInv, JobInv, Fulfilling
  PROVE  Abstractly
<1>1. sent' = sent
  BY DEF Fulfilling, requestVars
<1>2. WorkerShape /\ WorkerTypeOK /\ (wstep \in Holding <=> held # NoJob)
  BY DEF SafetyInv, TypeInv, TypeOK, WorkerShape
<1>3. ASSUME UNCHANGED <<queueVars, tries, settled>>, held' = held \/ held' = NoJob
      PROVE  Abstractly
  <2>1. CASE held' = held
    BY <1>1, <1>3, <2>1, KeptPlaces, Stutters DEF queueVars
  <2>2. CASE held' # held
    BY <1>1, <1>3, <2>2, DroppedIsOver DEF queueVars
  <2> QED
    BY <2>1, <2>2
<1>4. CASE Poll \/ PopEmpty
  BY <1>3, <1>4 DEF Poll, PopEmpty, history
<1>5. CASE PopJob
  <2>1. held = NoJob
    BY <1>2, <1>5 DEF PopJob, Holding
  <2> QED
    BY <1>1, <1>5, <2>1, PopDelivers DEF PopJob, history
<1>6. CASE PopFails \/ PopRepeats
  <2>1. /\ UNCHANGED queueVars \/ Dequeue
        /\ UNCHANGED <<held, tries, settled>> /\ held = NoJob
    BY <1>2, <1>6 DEF PopFails, PopRepeats, workerVars, history, Holding
  <2> QED
    BY <1>1, <1>3, <2>1, PopDelivers
<1>7. CASE Load \/ ReadResult \/ CacheResult
  BY <1>3, <1>7 DEF Load, ReadResult, CacheResult, history, Idle
<1>8. CASE Book
  <2>1. held # NoJob /\ UNCHANGED <<held, settled, queueVars>>
    BY <1>2, <1>8 DEF Book, Holding
  <2>2. PICK d : d = Id(held)
    OBVIOUS
  <2>3. tries' = [tries EXCEPT ![d] = @ + 1]
    BY <1>8, <2>2 DEF Book
  <2>4. \A c \in Copies : PlaceOf(c)' = PlaceOf(c)
    BY <1>1, <2>1, KeptPlaces DEF queueVars
  <2>5. /\ PlaceOf(d) = "held" /\ tries[d] + 1 = held.attempt /\ d \in Copies
        /\ held.attempt \in 1..MaxAttempts /\ tries[d] \in Nat
    BY <1>2, <1>8, <2>1, <2>2, HeldIs, HeldIsHeld
    DEF Book, JobInv, HeldMatches, WorkerTypeOK
  <2>6. tries[d] < MaxAttempts
    BY <2>5, LimitIsPositive
  <2>7. AtMostOnce!Try(d)
    BY <2>3, <2>4, <2>5, <2>6 DEF AtMostOnce!Try, place
  <2> QED
    BY <2>5, <2>7, OneOf
<1>9. CASE Retry \/ DeadLetter
  <2>1. PICK r \in PushResults(ContextLive) :
          \/ wstep = "retry" /\ Enqueue(RetryJob(held), r.copies)
          \/ wstep = "deadLetter" /\ SendToDLQ(held, r.copies)
    BY <1>9 DEF Retry, DeadLetter
  <2>2. held # NoJob /\ Idle("poll") /\ CopiesInherit
    BY <1>2, <1>9 DEF Retry, DeadLetter, Holding
  <2> QED
    BY <1>1, <2>1, <2>2, PushDelivers
<1>10. CASE UpdateResult
  <2>1. /\ wstep = "update" /\ held # NoJob
        /\ UNCHANGED <<queue, dlq, repeats, tries>>
        /\ \/ settled' = settled
           \/ settled' = [settled EXCEPT ![Id(held)] = verdict]
        /\ held' = held \/ held' = NoJob
    BY <1>2, <1>10 DEF UpdateResult, Idle, Holding, queueVars
  <2>2. \A c \in Copies : settled'[c] = settled[c] \/ c = Id(held)
    <3>1. settled \in [Copies -> {"none", "fulfilled", "failed"}]
      BY <1>2 DEF WorkerTypeOK
    <3> QED
      BY <2>1, <3>1
  <2>3. CASE held' = held
    BY <1>1, <2>1, <2>2, <2>3, KeptPlaces, Stutters
  <2>4. CASE held' = NoJob
    BY <1>1, <2>1, <2>4, DroppedIsOver
  <2> QED
    BY <2>1, <2>3, <2>4
<1> QED
  BY <1>4, <1>5, <1>6, <1>7, <1>8, <1>9, <1>10 DEF Fulfilling, WorkerStep, JobStep

(* What neither a request nor the worker does to the jobs.                  *)
LEMMA OthersKeepPlaces ==
  ASSUME \/ \E c \in Readers : Reading(c)
         \/ \E o \in Orders : Expiring(o)
         \/ \E w \in Write : Arriving(w)
         \/ Proceeding \/ Stopping \/ Exit \/ Crash \/ Start
         \/ UNCHANGED vars
  PROVE  /\ UNCHANGED <<queue, dlq, repeats, sent, tries, settled>>
         /\ held' = held \/ held' = NoJob
  BY DEF Reading, Expiring, Arriving, Proceeding, Stopping, Exit, Crash, Halt,
         Start, Idle, queueVars, requestVars, workerVars, history, vars

(* Through every fault of the pipeline its jobs are delivered as Delivery   *)
(* says: each copy to one worker at a time, as often as allowed at most,    *)
(* and for good.                                                            *)
THEOREM PipelineDelivers == Spec => DeliversAtMostOnce
<1>1. Init => AtMostOnce!Init
  <2> SUFFICES ASSUME Init
               PROVE  AtMostOnce!Init
    OBVIOUS
  <2>1. sent = {} /\ tries = [c \in Copies |-> 0]
    BY DEF Init, RequestInit, WorkerInit
  <2>2. place = [c \in Copies |-> "unsent"]
    BY <2>1 DEF place, PlaceOf, Copies
  <2> QED
    BY <2>1, <2>2 DEF AtMostOnce!Init, AtMostOnce!Copies, Copies
<1>2. JobInv /\ SafetyInv /\ [Next]_vars => Abstractly
  <2> SUFFICES ASSUME JobInv, SafetyInv, [Next]_vars
               PROVE  Abstractly
    OBVIOUS
  <2>1. CASE \E o \in Orders : Creating(o)
    BY <2>1, RequestsDeliver
  <2>2. CASE Fulfilling
    BY <2>2, WorkerDelivers
  <2>3. CASE \/ \E c \in Readers : Reading(c)
             \/ \E o \in Orders : Expiring(o)
             \/ \E w \in Write : Arriving(w)
             \/ Proceeding \/ Stopping \/ Exit \/ Crash \/ Start
             \/ UNCHANGED vars
    <3>1. /\ UNCHANGED <<queue, dlq, repeats, sent, tries, settled>>
          /\ held' = held \/ held' = NoJob
      BY <2>3, OthersKeepPlaces
    <3>2. CASE held' = held
      BY <3>1, <3>2, KeptPlaces, Stutters
    <3>3. CASE held' # held
      BY <3>1, <3>3, DroppedIsOver
    <3> QED
      BY <3>2, <3>3
  <2> QED
    BY <2>1, <2>2, <2>3 DEF Next
<1>3. JobInv /\ SafetyInv /\ [Next]_vars => [AtMostOnce!Next]_<<place, tries>>
  BY <1>2 DEF Abstractly
<1> QED
  BY <1>1, <1>3, JobsInvariant, SafetyInvariant, PTL
  DEF Spec, DeliversAtMostOnce, AtMostOnce!Spec
-------------------------------------------------------------------------------
(* What loses a copy of a job.                                              *)
Losing(c) == PlaceOf(c) # "lost" /\ PlaceOf(c)' = "lost"

Excused(c) ==
  \/ /\ PlaceOf(c) = "held"
     /\ \/ process' = "down" \/ ~ContextLive
        \/ Outcomes # {"ok"} /\ wstep # "book"
  \/ /\ PlaceOf(c) = "queued" /\ "lost" \in Outcomes
     /\ wstep = "popping" /\ held' = NoJob

(* A step of the worker that keeps the lists loses what it held, if any.    *)
LEMMA KeepingLoses ==
  ASSUME SafetyInv, JobInv, UNCHANGED <<queue, dlq, repeats, sent>>,
         held' \in {held, NoJob},
         \A c \in Copies : \/ settled'[c] = settled[c]
                           \/ held # NoJob /\ c = Id(held),
         NEW c \in Copies, Losing(c)
  PROVE  PlaceOf(c) = "held" /\ c = Id(held) /\ held # NoJob /\ held' = NoJob
<1>1. CASE held' = held
  BY <1>1, KeptPlaces DEF Losing
<1>2. CASE held' # held
  <2>1. held # NoJob /\ held' = NoJob
    BY <1>2
  <2>2. PICK d : d = Id(held)
    OBVIOUS
  <2>3. \A p \in Copies \ {d} : PlaceOf(p)' = PlaceOf(p)
    BY <2>1, <2>2, DroppedPlaces
  <2> QED
    BY <2>1, <2>2, <2>3, HeldIsHeld DEF Losing
<1> QED
  BY <1>1, <1>2

LEMMA PopLoses ==
  ASSUME SafetyInv, JobInv, Fulfilling, PopJob \/ PopFails \/ PopRepeats,
         NEW c \in Copies, Losing(c)
  PROVE  /\ PlaceOf(c) = "queued" /\ "lost" \in Outcomes
         /\ wstep = "popping" /\ held' = NoJob
<1>1. UNCHANGED <<sent, settled>> /\ wstep = "popping"
  BY DEF Fulfilling, requestVars, PopJob, PopFails, PopRepeats, history, workerVars
<1>2. held = NoJob /\ QueueTypeOK
  BY <1>1 DEF SafetyInv, TypeInv, TypeOK, WorkerShape, Holding
<1>3. CASE PopJob
  <2>1. held' = Head(queue) /\ Head(queue) # NoJob /\ Dequeue
    BY <1>2, <1>3, PoppedElements, NoJobAssumption DEF PopJob, Dequeue, QueueTypeOK
  <2>2. PICK d : d = Id(Head(queue))
    OBVIOUS
  <2>3. PlaceOf(d)' = "held" /\ \A p \in Copies \ {d} : PlaceOf(p)' = PlaceOf(p)
    BY <1>1, <1>2, <2>1, <2>2, PopPlaces
  <2> QED
    BY <2>3 DEF Losing
<1>4. CASE PopFails \/ PopRepeats
  <2>1. held' = NoJob
    BY <1>2, <1>4 DEF PopFails, PopRepeats, workerVars
  <2>2. CASE UNCHANGED queueVars
    BY <1>1, <1>2, <2>1, <2>2, KeptPlaces DEF queueVars, Losing
  <2>3. CASE ~UNCHANGED queueVars
    <3>1. Dequeue /\ "lost" \in Outcomes
      BY <1>4, <2>3 DEF PopFails, PopRepeats, Results
    <3>2. PICK d : d = Id(Head(queue))
      OBVIOUS
    <3>3. PlaceOf(d) = "queued" /\ \A p \in Copies \ {d} : PlaceOf(p)' = PlaceOf(p)
      BY <1>1, <1>2, <2>1, <3>1, <3>2, PopPlaces
    <3> QED
      BY <1>1, <2>1, <3>1, <3>3 DEF Losing
  <2> QED
    BY <2>2, <2>3
<1> QED
  BY <1>3, <1>4

(* A push loses the job in hand, if it adds nothing.                        *)
LEMMA PushLoses ==
  ASSUME SafetyInv, JobInv, Fulfilling, Retry \/ DeadLetter,
         NEW c \in Copies, Losing(c)
  PROVE  /\ PlaceOf(c) = "held"
         /\ \E r \in PushResults(ContextLive) : r.copies = 0
<1>1. WorkerTypeOK /\ QueueTypeOK /\ (wstep \in Holding <=> held # NoJob)
      /\ UNCHANGED sent
  BY DEF SafetyInv, TypeInv, TypeOK, WorkerShape, Fulfilling, requestVars
<1>2. PICK r \in PushResults(ContextLive) :
        \/ wstep = "retry" /\ Enqueue(RetryJob(held), r.copies)
        \/ wstep = "deadLetter" /\ SendToDLQ(held, r.copies)
  BY DEF Retry, DeadLetter
<1>3. held # NoJob /\ Idle("poll") /\ CopiesInherit
  BY <1>1 DEF Retry, DeadLetter, Holding
<1>4. r.copies = 0
  <2>1. ~(r.copies > 0)
    BY <1>1, <1>2, <1>3, PushDelivers DEF Losing
  <2> QED
    BY <1>2, <2>1 DEF PushResults
<1>5. UNCHANGED <<queue, dlq, repeats>>
  <2>1. \A job : Pushed(queue, job, 0) = queue /\ Pushed(dlq, job, 0) = dlq
    BY <1>1 DEF Pushed, QueueTypeOK
  <2> QED
    BY <1>2, <1>4, <2>1 DEF Enqueue, SendToDLQ, CountCopies
<1>6. UNCHANGED settled
  <2>1. \A p \in Copies : p[2] \in Nat /\ repeats[p[1]] \in Nat
    BY <1>1, RepeatsAssumption DEF Copies, QueueTypeOK
  <2>2. NewCopies(held.order) = {}
    BY <1>5, <2>1 DEF NewCopies
  <2> QED
    BY <1>1, <1>3, <2>2 DEF CopiesInherit, Inherited, WorkerTypeOK
<1> QED
  BY <1>1, <1>2, <1>3, <1>4, <1>5, <1>6, KeepingLoses DEF Idle

(* The worker loses the job in its hands, and that not at its booking, or   *)
(* the one whose reply is lost.                                             *)
LEMMA WorkerLoses ==
  ASSUME SafetyInv, JobInv, Fulfilling, NEW c \in Copies, Losing(c)
  PROVE  \/ PlaceOf(c) = "held" /\ wstep # "book"
         \/ /\ PlaceOf(c) = "queued" /\ "lost" \in Outcomes
            /\ wstep = "popping" /\ held' = NoJob
<1>1. /\ WorkerTypeOK /\ (wstep \in Holding <=> held # NoJob) /\ UNCHANGED sent
  BY DEF SafetyInv, TypeInv, TypeOK, WorkerShape, Fulfilling, requestVars
<1>2. CASE Poll \/ PopEmpty \/ Book
  <2>1. UNCHANGED <<queueVars, settled, held>>
    BY <1>2 DEF Poll, PopEmpty, Book, history
  <2> QED
    BY <1>1, <2>1, KeptPlaces DEF queueVars, Losing
<1>3. CASE PopJob \/ PopFails \/ PopRepeats
  BY <1>3, PopLoses
<1>4. CASE Load \/ ReadResult \/ CacheResult
  <2>1. /\ UNCHANGED <<queueVars, settled>> /\ held' \in {held, NoJob} /\ wstep # "book"
    BY <1>4 DEF Load, ReadResult, CacheResult, history, Idle
  <2> QED
    BY <1>1, <2>1, KeepingLoses DEF queueVars
<1>5. CASE UpdateResult
  <2>1. /\ wstep = "update" /\ held # NoJob /\ UNCHANGED queueVars
        /\ held' \in {held, NoJob}
        /\ settled' = settled \/ settled' = [settled EXCEPT ![Id(held)] = verdict]
    BY <1>1, <1>5 DEF UpdateResult, Holding, Idle
  <2>2. \A p \in Copies : settled'[p] = settled[p] \/ (held # NoJob /\ p = Id(held))
    BY <1>1, <2>1 DEF WorkerTypeOK
  <2> QED
    BY <1>1, <2>1, <2>2, KeepingLoses DEF queueVars
<1>6. CASE Retry \/ DeadLetter
  BY <1>6, PushLoses DEF Retry, DeadLetter
<1> QED
  BY <1>2, <1>3, <1>4, <1>5, <1>6 DEF Fulfilling, WorkerStep, JobStep

(* All others lose nothing, but the end of the process what the worker held.*)
LEMMA OthersLose ==
  ASSUME SafetyInv, JobInv,
         \/ \E r \in Readers : Reading(r)
         \/ \E o \in Orders : Expiring(o)
         \/ \E w \in Write : Arriving(w)
         \/ Proceeding \/ Stopping \/ Exit \/ Crash \/ Start
         \/ UNCHANGED vars,
         NEW c \in Copies, Losing(c)
  PROVE  PlaceOf(c) = "held" /\ (process' = "down" \/ ~ContextLive)
<1>1. /\ UNCHANGED <<queue, dlq, repeats, sent, tries, settled>>
      /\ held' = held \/ held' = NoJob
  BY OthersKeepPlaces
<1>2. PlaceOf(c) = "held" /\ held' # held
  BY <1>1, KeepingLoses
<1>3. process' = "down" \/ ~ContextLive
  BY <1>2
  DEF Reading, Expiring, Arriving, Proceeding, Stopping, Exit, Crash, Halt, Start,
      ContextLive, workerVars, vars
<1> QED
  BY <1>2, <1>3
-------------------------------------------------------------------------------
(* While no call fails of itself, but contexts end and processes die.       *)

(* No write is late then, and an order that was sent has its row.           *)
RowsExist ==
  /\ \A w \in Write : late[w] = 0
  /\ \A o \in Orders : o \in sent \/ step[o] \in Forward \ {"persist"} =>
                         db[o] # "absent"

(* What a call may then do.                                                 *)
LEMMA NoneFails ==
  ASSUME Outcomes = {"ok"}
  PROVE  /\ \A l : WriteResults(l) = IF l THEN {"ok"} ELSE {"error"}
         /\ \A l : Results(l) = IF l THEN {"ok"} ELSE {"error"}
         /\ \A o, l : UpdateResults(o, l) \subseteq {"ok", "error"}
         /\ \A o, l : db[o] # "absent" /\ l =>
                        RowResults(o, l) = {"ok"} /\ UpdateResults(o, l) = {"ok"}
         /\ ReadOutcomes \cup WriteResults(TRUE) \subseteq {"ok", "error"}
         /\ \A l : \A r \in PushResults(l) : l => r.copies > 0
         /\ \A o : RowResults(o, FALSE) = {"error"}
  BY DEF WriteResults, Results, UpdateResults, RowResults, ReadOutcomes, PushResults

LEMMA RequestsKeepRows ==
  ASSUME Outcomes = {"ok"}, SafetyInv, RowsExist, NEW o \in Orders, Creating(o)
  PROVE  RowsExist'
<1> USE DEF Goto, Ends, Continue, Forward, TookEffect
<1>1. StoreTypeOK /\ RequestTypeOK
  BY DEF SafetyInv, TypeInv, TypeOK
<1>2. ASSUME UNCHANGED <<late, db, sent>>,
             \A p \in Orders : step'[p] \in Forward \ {"persist"} =>
                                 step[p] \in Forward \ {"persist"}
      PROVE  RowsExist'
  BY <1>2 DEF RowsExist
<1>3. CASE Receive(o) \/ RequestTimeout(o) \/ FailRead(o)
  BY <1>1, <1>2, <1>3 DEF Receive, RequestTimeout, FailRead, storeVars, RequestTypeOK
<1>4. CASE AuthorizePayment(o) \/ ReserveInventory(o)
  BY <1>1, <1>2, <1>4 DEF AuthorizePayment, ReserveInventory, storeVars, RequestTypeOK
<1>5. CASE CachePending(o) \/ CacheQueued(o) \/ FailCache(o)
  <2>1. UNCHANGED <<late, db, sent>>
    BY <1>5, NoneFails DEF CachePending, CacheQueued, FailCache, CacheSet, Delay
  <2>2. \A p \in Orders : step'[p] \in Forward \ {"persist"} =>
                            step[p] \in Forward \ {"persist"}
    BY <1>1, <1>5 DEF CachePending, CacheQueued, FailCache, RequestTypeOK
  <2> QED
    BY <1>2, <2>1, <2>2
<1>6. CASE Persist(o) \/ MarkQueued(o) \/ FailUpdate(o)
  <2>1. PICK r \in {"ok", "error"}, status \in OrderStatus :
          /\ WriteRow(o, status, r) /\ sent' = sent
          /\ \/ r = "ok" \/ step'[o] \notin Forward
          /\ \A p \in Orders \ {o} : step'[p] = step[p]
    BY <1>1, <1>6, NoneFails
    DEF Persist, MarkQueued, FailUpdate, RequestTypeOK, OrderStatus
  <2>2. /\ late' = late
        /\ db' = IF r = "ok" THEN [db EXCEPT ![o] = status] ELSE db
        /\ status # "absent"
    BY <2>1 DEF WriteRow, Delay, OrderStatus
  <2> QED
    BY <1>1, <2>1, <2>2 DEF RowsExist, StoreTypeOK
<1>7. CASE EnqueueJob(o)
  <2>1. /\ UNCHANGED <<late, db>> /\ db[o] # "absent"
        /\ sent' = sent \/ sent' = sent \cup {o}
        /\ \A p \in Orders \ {o} : step'[p] = step[p]
    BY <1>1, <1>7 DEF EnqueueJob, storeVars, RowsExist, RequestTypeOK
  <2> QED
    BY <2>1 DEF RowsExist
<1> QED
  BY <1>3, <1>4, <1>5, <1>6, <1>7 DEF Creating, RequestStep, HandlerStep

LEMMA WorkerKeepsRows ==
  ASSUME Outcomes = {"ok"}, SafetyInv, RowsExist, Fulfilling
  PROVE  RowsExist'
<1>1. StoreTypeOK /\ UNCHANGED <<step, sent>>
  BY DEF SafetyInv, TypeInv, TypeOK, Fulfilling, requestVars
<1>2. CASE UpdateResult
  <2>1. verdict # "absent" /\ verdict \in {"none", "fulfilled", "failed"}
    BY DEF SafetyInv, TypeInv, TypeOK, WorkerTypeOK
  <2>2. /\ late' = late
        /\ db' = db \/ db' = [db EXCEPT ![held.order] = verdict]
    BY <1>2, NoneFails DEF UpdateResult, WriteRow, Delay
  <2> QED
    BY <1>1, <2>1, <2>2 DEF RowsExist, StoreTypeOK
<1>3. CASE ~UpdateResult
  <2>1. UNCHANGED <<late, db>>
    BY <1>3, NoneFails
    DEF Fulfilling, WorkerStep, JobStep, Poll, PopJob, PopEmpty, PopFails, PopRepeats,
        Load, Book, Retry, ReadResult, CacheResult, DeadLetter, CacheSet, Delay, storeVars
  <2> QED
    BY <1>1, <2>1 DEF RowsExist
<1> QED
  BY <1>2, <1>3

LEMMA OthersKeepRows ==
  ASSUME Outcomes = {"ok"}, SafetyInv, RowsExist,
         \/ \E c \in Readers : Reading(c)
         \/ \E o \in Orders : Expiring(o)
         \/ \E w \in Write : Arriving(w)
         \/ Proceeding \/ Stopping \/ Exit \/ Crash \/ Start
         \/ UNCHANGED vars
  PROVE  RowsExist'
<1>1. ~\E w \in Write : Arriving(w)
  BY DEF Arriving, Arrive, RowsExist
<1>2. UNCHANGED <<db, late, sent>>
  BY <1>1, NoneFails
  DEF Reading, ReaderStep, Miss, LoadRow, FillCache, CacheSet, Delay, Expiring,
      Expire, Proceeding, Stopping, Exit, Crash, Halt, Start, requestVars, storeVars,
      vars
<1>3. \A o \in Orders : step'[o] \in Forward => step'[o] = step[o]
  BY <1>1
  DEF Reading, Expiring, Proceeding, Stopping, Exit, Crash, Halt, Start, requestVars,
      vars, Forward
<1> QED
  BY <1>2, <1>3 DEF RowsExist

LEMMA RowsInvariant ==
  ASSUME Outcomes = {"ok"}
  PROVE  Spec => []RowsExist
<1>1. Init => RowsExist
  BY DEF Init, StoreInit, RequestInit, RowsExist, Forward
<1>2. SafetyInv /\ RowsExist /\ [Next]_vars => RowsExist'
  BY RequestsKeepRows, WorkerKeepsRows, OthersKeepRows DEF Next
<1> QED
  BY <1>1, <1>2, SafetyInvariant, PTL DEF Spec

(* The worker then loses a job only to the end of its context.              *)
LEMMA WorkerLosesLate ==
  ASSUME Outcomes = {"ok"}, SafetyInv, JobInv, RowsExist, Fulfilling, ContextLive,
         NEW c \in Copies, Losing(c)
  PROVE  FALSE
<1>1. /\ WorkerShape /\ WorkerTypeOK /\ (wstep \in Holding <=> held # NoJob)
      /\ UNCHANGED sent
  BY DEF SafetyInv, TypeInv, TypeOK, WorkerShape, Fulfilling, requestVars
<1>2. held # NoJob => db[held.order] # "absent"
  BY HeldIs DEF RowsExist
<1>3. PlaceOf(c) = "held" /\ wstep # "book"
  BY WorkerLoses
<1>4. CASE Poll \/ PopEmpty \/ Load \/ ReadResult
  <2>1. UNCHANGED <<queueVars, settled, held>>
    BY <1>1, <1>2, <1>4, NoneFails
    DEF Poll, PopEmpty, Load, ReadResult, Holding, history
  <2> QED
    BY <1>1, <2>1, KeptPlaces DEF queueVars, Losing
<1>5. CASE PopJob \/ PopFails \/ PopRepeats
  BY <1>3, <1>5, PopLoses
<1>6. CASE CacheResult
  <2>1. held # NoJob /\ UNCHANGED <<queueVars, settled>> /\ held' \in {held, NoJob}
    BY <1>1, <1>6 DEF CacheResult, Holding, history, Idle
  <2>2. held' = held \/ verdict # "failed"
    BY <1>6, NoneFails DEF CacheResult
  <2>3. settled[Id(held)] = verdict /\ verdict \in {"fulfilled", "failed"}
    BY <1>1, <1>6 DEF CacheResult, JobInv, HeldMatches, WorkerShape, Persisting,
                      WorkerTypeOK
  <2>4. held' = NoJob /\ c = Id(held)
    BY <1>1, <2>1, KeepingLoses DEF queueVars
  <2>5. PlaceOf(c)' = "finished"
    BY <1>1, <2>1, <2>2, <2>3, <2>4, DroppedPlaces DEF queueVars
  <2> QED
    BY <2>5 DEF Losing
<1>7. CASE UpdateResult
  <2>1. /\ held # NoJob /\ UNCHANGED queueVars /\ held' = held
        /\ settled' = [settled EXCEPT ![Id(held)] = verdict]
    BY <1>1, <1>2, <1>7, NoneFails DEF UpdateResult, Holding, TookEffect
  <2>2. \A p \in Copies : settled'[p] = settled[p] \/ p = Id(held)
    BY <1>1, <2>1 DEF WorkerTypeOK
  <2> QED
    BY <1>1, <2>1, <2>2, KeptPlaces DEF queueVars, Losing
<1>8. CASE Retry \/ DeadLetter
  <2>1. PICK r \in PushResults(ContextLive) : r.copies = 0
    BY <1>8, PushLoses
  <2>2. r.copies > 0
    BY NoneFails
  <2> QED
    BY <2>1, <2>2
<1> QED
  BY <1>3, <1>4, <1>5, <1>6, <1>7, <1>8 DEF Fulfilling, WorkerStep, JobStep, Book

LEMMA StepLoses ==
  ASSUME SafetyInv, JobInv, Outcomes = {"ok"} => RowsExist, [Next]_vars,
         NEW c \in Copies, Losing(c)
  PROVE  Excused(c)
<1>1. CASE \E o \in Orders : Creating(o)
  BY <1>1, RequestsSend DEF Losing
<1>2. CASE Fulfilling
  <2>1. Outcomes = {"ok"} => ~ContextLive
    BY <1>2, WorkerLosesLate
  <2> QED
    BY <1>2, <2>1, WorkerLoses DEF Excused
<1>3. CASE \/ \E r \in Readers : Reading(r)
           \/ \E o \in Orders : Expiring(o)
           \/ \E w \in Write : Arriving(w)
           \/ Proceeding \/ Stopping \/ Exit \/ Crash \/ Start
           \/ UNCHANGED vars
  BY <1>3, OthersLose DEF Excused
<1> QED
  BY <1>1, <1>2, <1>3 DEF Next

(* Whatever fails, a waiting job is lost only to a lost reply and the one   *)
(* in hand only to the end of the process or of its context or to a call    *)
(* that fails: where none fails of itself, to the first two alone.          *)
THEOREM OnlyHeldJobsAreLost == Spec => OnlyTheHeldIsLost
<1> DEFINE Loses == \A c \in Copies : place[c] # "lost" /\ place'[c] = "lost" =>
                      \/ /\ place[c] = "held"
                         /\ \/ process' = "down" \/ ~ContextLive
                            \/ Outcomes # {"ok"} /\ wstep # "book"
                      \/ /\ place[c] = "queued" /\ "lost" \in Outcomes
                         /\ wstep = "popping" /\ held' = NoJob
<1>1. ASSUME SafetyInv, JobInv, Outcomes = {"ok"} => RowsExist, [Next]_vars
      PROVE  Loses
  <2>1. \A c \in Copies : place[c] = PlaceOf(c) /\ place'[c] = PlaceOf(c)'
    BY DEF place
  <2> QED
    BY <1>1, <2>1, StepLoses DEF Losing, Excused
<1>2. CASE Outcomes = {"ok"}
  <2>1. Spec => []RowsExist
    BY <1>2, RowsInvariant
  <2>2. SafetyInv /\ JobInv /\ RowsExist /\ [Next]_vars => [Loses]_vars
    BY <1>1
  <2>3. Spec => [][Loses]_vars
    BY <2>1, <2>2, JobsInvariant, SafetyInvariant, PTL DEF Spec
  <2> QED
    BY <2>3 DEF OnlyTheHeldIsLost
<1>3. CASE Outcomes # {"ok"}
  <2>1. SafetyInv /\ JobInv /\ [Next]_vars => [Loses]_vars
    BY <1>1, <1>3
  <2>2. Spec => [][Loses]_vars
    BY <2>1, JobsInvariant, SafetyInvariant, PTL DEF Spec
  <2> QED
    BY <2>2 DEF OnlyTheHeldIsLost
<1> QED
  BY <1>2, <1>3
-------------------------------------------------------------------------------
(* While nothing fails.                                                     *)
Healthy == Outcomes = {"ok"} /\ Events = {}

(* The process stays up and has no job before it listens, so shipping fails *)
(* only on demand.                                                          *)
HealthyInv ==
  /\ process \in {"starting", "serving"}
  /\ process = "starting" => \A o \in Orders : step[o] = "idle"
  /\ verdict = "failed" => held.failShipping
  /\ \A i \in 1..Len(dlq) : dlq[i].failShipping
  /\ NoJobLost

(* A step that keeps the process up loses no copy.                          *)
LEMMA LosesNone ==
  ASSUME Healthy, SafetyInv, JobInv, RowsExist, HealthyInv, [Next]_vars,
         process' \in {"starting", "serving"}
  PROVE  NoJobLost'
<1>1. \A c \in Copies : PlaceOf(c) # "lost"
  BY DEF HealthyInv, NoJobLost, place
<1>2. \A c \in Copies : PlaceOf(c)' # "lost"
  BY <1>1, StepLoses DEF Losing, Excused, Healthy, HealthyInv, ContextLive
<1> QED
  BY <1>2 DEF NoJobLost, place

LEMMA RequestsStayHealthy ==
  ASSUME Healthy, SafetyInv, JobInv, RowsExist, HealthyInv, NEW o \in Orders, Creating(o)
  PROVE  HealthyInv'
<1>1. UNCHANGED <<process, held, verdict>>
  BY DEF Creating, workerVars
<1>2. dlq' = dlq /\ process # "starting"
  BY DEF Creating, RequestStep, HandlerStep, Receive, Persist, CachePending,
         AuthorizePayment, ReserveInventory, EnqueueJob, Enqueue, MarkQueued,
         CacheQueued, FailUpdate, FailRead, FailCache, RequestTimeout, queueVars,
         HealthyInv, Listening, Active, Forward, Failing
<1>3. NoJobLost'
  BY <1>1, LosesNone DEF HealthyInv, Next
<1> QED
  BY <1>1, <1>2, <1>3 DEF HealthyInv

LEMMA WorkerStaysHealthy ==
  ASSUME Healthy, SafetyInv, JobInv, RowsExist, HealthyInv, Fulfilling
  PROVE  HealthyInv'
<1>1. /\ WorkerShape /\ QueueTypeOK /\ (wstep \in Holding <=> held # NoJob)
      /\ UNCHANGED <<step, sent>> /\ ContextLive
  BY DEF SafetyInv, TypeInv, TypeOK, WorkerShape, Fulfilling, requestVars, HealthyInv,
         ContextLive
<1>2. held # NoJob => process = "serving" /\ held \in Job
  <2>1. held # NoJob => held.order \in sent /\ held.order \in Orders /\ held \in Job
    BY HeldIs
  <2> QED
    BY <2>1 DEF HealthyInv, SafetyInv, RequestShape, BeforeEnqueue
<1>3. process' = process
  BY <1>1, NoneFails
  DEF Fulfilling, WorkerStep, JobStep, Poll, PopJob, PopEmpty, PopFails, PopRepeats,
      Load, Book, Retry, UpdateResult, ReadResult, CacheResult, DeadLetter, Healthy
<1>4. NoJobLost'
  BY <1>3, LosesNone DEF HealthyInv, Next
<1>5. verdict' = "failed" => held'.failShipping
  <2>1. CASE Book
    <3>1. ~held.failShipping => ShippingResults = {"ok"}
      BY <1>1, <1>2, <2>1 DEF Book, ShippingResults, Listening, Healthy, Holding
    <3> QED
      BY <2>1, <3>1 DEF Book, Verdict, WorkerShape, Persisting, SafetyInv, TypeInv
  <2>2. CASE PopJob
    BY <1>1, <2>2 DEF PopJob, WorkerShape, Persisting
  <2>3. CASE ~Book /\ ~PopJob
    BY <2>3
    DEF Fulfilling, WorkerStep, JobStep, Poll, PopEmpty, PopFails, PopRepeats, Load,
        Retry, UpdateResult, ReadResult, CacheResult, DeadLetter, Idle, workerVars,
        HealthyInv
  <2> QED
    BY <2>1, <2>2, <2>3
<1>6. ASSUME NEW i \in 1..Len(dlq')
      PROVE  dlq'[i].failShipping
  <2>1. CASE DeadLetter
    <3>1. PICK r \in PushResults(ContextLive) : SendToDLQ(held, r.copies)
      BY <2>1 DEF DeadLetter
    <3>2. /\ held \in Job /\ held.failShipping /\ dlq \in Seq(Job)
          /\ r.copies \in Nat /\ held.copy <= repeats[held.order]
          /\ CountCopies(held, r.copies) /\ dlq' = Pushed(dlq, held, r.copies)
      BY <1>1, <2>1, <3>1, HeldIs, PushResultIs
      DEF DeadLetter, SendToDLQ, Holding, JobInv, HeldMatches, HealthyInv, QueueTypeOK
    <3>3. PICK n : n = r.copies
      OBVIOUS
    <3>4. \/ i \in 1..Len(dlq) /\ Pushed(dlq, held, n)[i] = dlq[i]
          \/ Pushed(dlq, held, n)[i].failShipping = held.failShipping
      BY <1>1, <1>6, <3>2, <3>3, PushedCopies
    <3> QED
      BY <3>2, <3>3, <3>4 DEF HealthyInv
  <2>2. CASE ~DeadLetter
    <3>1. dlq' = dlq
      BY <2>2
      DEF Fulfilling, WorkerStep, JobStep, Poll, PopJob, PopEmpty, PopFails, PopRepeats,
          Dequeue, Load, Book, Retry, Enqueue, UpdateResult, ReadResult, CacheResult,
          queueVars
    <3> QED
      BY <1>6, <3>1 DEF HealthyInv
  <2> QED
    BY <2>1, <2>2
<1> QED
  BY <1>1, <1>3, <1>4, <1>5, <1>6 DEF HealthyInv

LEMMA OthersStayHealthy ==
  ASSUME Healthy, SafetyInv, JobInv, RowsExist, HealthyInv,
         \/ \E c \in Readers : Reading(c)
         \/ \E o \in Orders : Expiring(o)
         \/ \E w \in Write : Arriving(w)
         \/ Proceeding \/ Stopping \/ Exit \/ Crash \/ Start
         \/ UNCHANGED vars
  PROVE  HealthyInv'
<1>1. ~(Stopping \/ Exit \/ Crash \/ Start)
  BY DEF HealthyInv, Healthy, Stopping, Stop, Exit, Crash, Start
<1>2. /\ UNCHANGED <<dlq, step, held, verdict>>
      /\ process' = process \/ process' = "serving"
  BY <1>1 DEF Reading, Expiring, Arriving, Proceeding, Listen, BeginShutdown,
     HealthyInv, queueVars, requestVars, workerVars, vars
<1>3. process' \in {"starting", "serving"}
  BY <1>2 DEF HealthyInv
<1>4. NoJobLost'
  BY <1>3, LosesNone DEF Next
<1> QED
  BY <1>2, <1>3, <1>4 DEF HealthyInv

LEMMA HealthyInvariant ==
  ASSUME Healthy
  PROVE  Spec => []HealthyInv
<1>1. Init => HealthyInv
  <2> SUFFICES ASSUME Init
               PROVE  HealthyInv
    OBVIOUS
  <2>1. \A c \in Copies : place[c] = "unsent"
    BY DEF Init, RequestInit, place, PlaceOf, Copies
  <2> QED
    BY <2>1 DEF Init, ProcessInit, RequestInit, QueueInit, WorkerInit, HealthyInv, NoJobLost
<1>2. SafetyInv /\ JobInv /\ RowsExist /\ HealthyInv /\ [Next]_vars => HealthyInv'
  BY RequestsStayHealthy, WorkerStaysHealthy, OthersStayHealthy DEF Next
<1>3. Spec => []RowsExist
  BY RowsInvariant DEF Healthy
<1> QED
  BY <1>1, <1>2, <1>3, JobsInvariant, SafetyInvariant, PTL DEF Spec

(* While nothing fails, no job is lost between its pop and its verdict.     *)
THEOREM HealthyLosesNoJob ==
  ASSUME Healthy
  PROVE  Spec => []NoJobLost
<1>1. HealthyInv => NoJobLost
  BY DEF HealthyInv
<1> QED
  BY <1>1, HealthyInvariant, PTL

(* While nothing fails, only the jobs that were asked to fail are dead.     *)
THEOREM HealthyBuriesDoomed ==
  ASSUME Healthy
  PROVE  Spec => []OnlyDoomedJobsDie
<1>1. HealthyInv => OnlyDoomedJobsDie
  BY DEF HealthyInv, OnlyDoomedJobsDie, JobsIn
<1> QED
  BY <1>1, HealthyInvariant, PTL
===============================================================================
