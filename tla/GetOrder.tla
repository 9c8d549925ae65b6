------------------------------ MODULE GetOrder ------------------------------
(***************************************************************************)
(* GetOrderUseCase.Execute behind GET /api/v1/orders/{id}: a cache-aside   *)
(* read.  A hit answers at once and changes nothing, so that step of the   *)
(* code is a stutter here; a miss reads the row and fills the cache with   *)
(* what it read, however old that is by then.                              *)
(***************************************************************************)
EXTENDS OrderStore, Process

CONSTANT Readers        \* the clients that poll an order

VARIABLES rstep,        \* where a reader's GET is
          target,       \* the order it polls
          rread         \* the row its GET read, while it holds one

readerVars == <<rstep, target, rread>>

ReaderTypeOK == /\ rstep \in [Readers -> {"idle", "load", "fill"}]
                /\ target \in [Readers -> Orders]
                /\ rread \in [Readers -> Entry]

ReaderInit == /\ rstep = [c \in Readers |-> "idle"]
              /\ target \in [Readers -> Orders]
              /\ rread = [c \in Readers |-> "absent"]

(* A read error of the cache is taken for a miss.  One caused by the        *)
(* request's timeout is left out: every call after it fails as well.        *)
CacheMisses(o) == cache[o] = "absent" \/ Outcomes # {"ok"}

(* A request's context is its own: only its timeout makes its calls fail.   *)
ReadOutcomes == Outcomes \cup (IF "timeout" \in Events THEN {"error"} ELSE {})

Miss(c) == /\ rstep[c] = "idle"
           /\ Listening
           /\ CacheMisses(target[c])
           /\ rstep' = [rstep EXCEPT ![c] = "load"]
           /\ UNCHANGED <<target, rread, storeVars>>

LoadRow(c) ==
  /\ rstep[c] = "load"
  /\ \E r \in IF db[target[c]] = "absent" THEN {"error"} ELSE ReadOutcomes :
       IF r = "ok" THEN /\ rread' = [rread EXCEPT ![c] = db[target[c]]]
                        /\ rstep' = [rstep EXCEPT ![c] = "fill"]
                   ELSE /\ rstep' = [rstep EXCEPT ![c] = "idle"]
                        /\ UNCHANGED rread
  /\ UNCHANGED <<target, storeVars>>

FillCache(c) == /\ rstep[c] = "fill"
                /\ \E r \in ReadOutcomes \cup WriteResults(TRUE) :
                     CacheSet(target[c], rread[c], r)
                /\ rstep' = [rstep EXCEPT ![c] = "idle"]
                /\ rread' = [rread EXCEPT ![c] = "absent"]
                /\ UNCHANGED <<target, db>>

ReaderStep(c) == Miss(c) \/ LoadRow(c) \/ FillCache(c)
===============================================================================
