----------------------------- MODULE OrderStore -----------------------------
(***************************************************************************)
(* What PostgreSQL and Redis hold of an order, the status in its row of    *)
(* the orders table and the status in its cached copy, and the operations  *)
(* the use cases make on them.  A write whose caller gave up on it, its    *)
(* context done or its connection broken, may still be on its way.         *)
(***************************************************************************)
EXTENDS Domain, Naturals

CONSTANT MaxLate        \* bound: equal writes on their way at a time, or 0

ASSUME LateAssumption == MaxLate \in Nat

VARIABLES db,           \* the row's status, "absent" while there is no row
          cache,        \* the cached status, "absent" when there is no entry
          late          \* how often a write that was given up is on its way

storeVars == <<db, cache, late>>

Entry == OrderStatus \cup {"absent"}
Write == [store: {"row", "cache"}, order: Orders, status: Entry]

StoreTypeOK == /\ db \in [Orders -> Entry] /\ cache \in [Orders -> Entry]
               /\ late \in [Write -> 0..MaxLate]

StoreInit == /\ db = [o \in Orders |-> "absent"]
             /\ cache = [o \in Orders |-> "absent"]
             /\ late = [w \in Write |-> 0]

(* The outcomes of a write: "late" is an error to its caller, and takes     *)
(* effect afterwards, if ever.                                              *)
WriteResults(live) ==
  Results(live) \cup IF live /\ "lost" \in Outcomes THEN {"late"} ELSE {}

(* GetByID and UpdateStatus need the row: no row is the not-found error.    *)
RowResults(o, live) == IF db[o] = "absent" THEN {"error"} ELSE Results(live)
UpdateResults(o, live) ==
  IF db[o] = "absent" THEN {"error"} ELSE WriteResults(live)

Delay(w, r) == /\ r = "late" => late[w] < MaxLate
               /\ late' = IF r = "late" THEN [late EXCEPT ![w] = @ + 1] ELSE late

(* Create and UpdateStatus both leave the status they were given.           *)
WriteRow(o, status, r) ==
  /\ db' = IF TookEffect(r) THEN [db EXCEPT ![o] = status] ELSE db
  /\ Delay([store |-> "row", order |-> o, status |-> status], r)

CacheSet(o, status, r) ==
  /\ cache' = IF TookEffect(r) THEN [cache EXCEPT ![o] = status] ELSE cache
  /\ Delay([store |-> "cache", order |-> o, status |-> status], r)

(* A write on its way arrives, whoever is alive and whatever it overtakes.  *)
Arrive(w) == /\ late[w] > 0
             /\ late' = [late EXCEPT ![w] = @ - 1]
             /\ \/ /\ w.store = "row"
                   /\ db' = [db EXCEPT ![w.order] = w.status]
                   /\ UNCHANGED cache
                \/ /\ w.store = "cache"
                   /\ cache' = [cache EXCEPT ![w.order] = w.status]
                   /\ UNCHANGED db

(* No UPDATE or INSERT of the order is on its way.                          *)
RowIsSettled(o) ==
  \A w \in Write : w.store = "row" /\ w.order = o => late[w] = 0

NeverExpire(o) == FALSE /\ UNCHANGED storeVars  \* mutant: a TTL of zero

(* The entry's TTL runs out, or Redis evicts it.                            *)
Expire(o) == /\ cache[o] # "absent"
             /\ cache' = [cache EXCEPT ![o] = "absent"]
             /\ UNCHANGED <<db, late>>
===============================================================================
