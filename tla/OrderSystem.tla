---------------------------- MODULE OrderSystem -----------------------------
(***************************************************************************)
(* The order pipeline as one process runs it: concurrent POST and GET      *)
(* requests, the fulfilment worker, and the start, shutdown and death of   *)
(* the process, over the PostgreSQL and Redis that outlive it.             *)
(***************************************************************************)
EXTENDS CreateOrder, ProcessFulfillment, GetOrder

vars == <<storeVars, queueVars, process, requestVars, workerVars, readerVars>>

Init == /\ StoreInit /\ QueueInit /\ ProcessInit
        /\ RequestInit /\ WorkerInit /\ ReaderInit

Creating(o) == /\ RequestStep(o)
               /\ UNCHANGED <<process, workerVars, readerVars>>

Fulfilling == WorkerStep /\ UNCHANGED <<requestVars, readerVars>>

(* Only the client that was answered 201 learns the order's identifier.     *)
Reading(c) == /\ ReaderStep(c)
              /\ Answered(target[c], "201")
              /\ UNCHANGED <<queueVars, process, requestVars, workerVars>>

Expiring(o) == /\ Expire(o)
               /\ UNCHANGED <<queueVars, process, requestVars, workerVars,
                              readerVars>>

Arriving(w) == /\ Arrive(w)
               /\ UNCHANGED <<queueVars, process, requestVars, workerVars,
                              readerVars>>

(* What main itself does, and what the environment does to it.              *)
Proceeding == /\ Listen \/ BeginShutdown
              /\ UNCHANGED <<storeVars, queueVars, requestVars, workerVars,
                             readerVars>>

Stopping == Stop /\ UNCHANGED <<storeVars, queueVars, requestVars, workerVars,
                               readerVars>>
-------------------------------------------------------------------------------
(* Everything in memory goes; the database and Redis keep what they have.   *)
Halt == /\ process' = "down"
        /\ step' = [o \in Orders |-> IF step[o] \in Active THEN "gone" ELSE step[o]]
        /\ readBack' = [o \in Orders |-> "absent"]
        /\ Idle("exited")
        /\ rstep' = [c \in Readers |-> "idle"]
        /\ rread' = [c \in Readers |-> "absent"]
        /\ UNCHANGED <<storeVars, queueVars, live, answer, paid, reserved, sent,
                       history, target>>

(* Server.Shutdown waits for the requests in flight, SHUTDOWN_TIMEOUT at    *)
(* most; nothing waits for the worker.                                      *)
RequestsDrained == /\ \A o \in Orders : step[o] \notin Active
                   /\ \A c \in Readers : rstep[c] = "idle"

Exit == /\ process = "draining"
        /\ RequestsDrained \/ "timeout" \in Events
        /\ Halt

Crash == "crash" \in Events /\ process # "down" /\ Halt

StartNoWorker ==                \* mutant: the worker's goroutine is not started
  /\ process = "down"
  /\ process' = "starting"
  /\ Idle("exited")
  /\ UNCHANGED <<storeVars, queueVars, requestVars, history, readerVars>>

(* The process is started again: bootstrap.New, then the worker and the     *)
(* server in goroutines of their own.                                       *)
Start == /\ process = "down"
         /\ process' = "starting"
         /\ Idle("poll")
         /\ UNCHANGED <<storeVars, queueVars, requestVars, history, readerVars>>

Next == \/ \E o \in Orders : Creating(o) \/ Expiring(o)
        \/ \E w \in Write : Arriving(w)
        \/ \E c \in Readers : Reading(c)
        \/ Fulfilling
        \/ Proceeding \/ Stopping \/ Exit \/ Crash \/ Start

Spec == Init /\ [][Next]_vars

(* The Go scheduler runs every goroutine that can go on, every call ends,   *)
(* and expiry is by a TTL that is not zero.  Clients need not send anything *)
(* and no event of the environment has to happen.                           *)
Fairness ==
  /\ \A o \in Orders :
       /\ WF_vars(Creating(o) /\ HandlerStep(o))
       /\ WF_vars(Expiring(o))
  /\ \A c \in Readers :
       WF_vars(Reading(c) /\ rstep[c] # "idle")
  /\ WF_vars(Fulfilling)
  /\ WF_vars(Proceeding) /\ WF_vars(Exit) /\ WF_vars(Start)

FairSpec == Spec /\ Fairness
===============================================================================
