# go-otel-app in TLA+

`go-otel-app` is one Go process: an HTTP API that creates and reads orders, a
fulfilment worker in a goroutine of the same process, PostgreSQL for the orders,
Redis for a cache of them and for the job queue, three simulated dependencies
(payment, inventory, shipping) that are *routes of the same HTTP server*, and an
OpenTelemetry set-up around all of it. This directory specifies

* the order pipeline, from the request to the dead letter;
* the schema migration that every instance runs when it starts;
* the life of the process's resources, from `bootstrap.New` to the end of `main`;
* the span envelope: the copy of a span within a byte budget, and the way of that
  copy through a bounded queue to the collector.

TLC checks each on small instances; TLAPS proves the safety of all of them for every
value of the constants.

Source paths below are relative to the repository (`src/` in `PROJECT.json`).

## 1. Inventory

| component | code | state | operations | what makes it correct |
|---|---|---|---|---|
| order creation | `internal/application/create_order.go`, `internal/adapters/http/api_handler.go` | none but the request's locals | `Execute`: persist, cache, payment, inventory, enqueue, mark queued, cache; `failOrder` | a refused order never ships and reads failed; a created one is settled by the worker |
| fulfilment processing | `internal/application/process_fulfillment.go` | the popped job | `Execute`, `shouldRetry`, `persistResult` | one verdict per order; attempts counted; dead letters only after the last attempt |
| worker loop | `internal/adapters/worker/worker.go` | none | `Run` | it keeps serving the queue until its context ends |
| order lookup | `internal/application/get_order.go` | none | cache-aside `Execute` | never says more than was true: no `fulfilled` before shipping, no `pending` after 201 |
| repository | `internal/adapters/postgres` | table `orders` | `Create`, `GetByID`, `UpdateStatus` | each statement is atomic |
| cache | `internal/adapters/redis/cache.go` | keys with a TTL | `Set`, `Get` | converges to the row |
| queue and DLQ | `internal/adapters/redis/queue.go` | two lists | `Enqueue`, `Dequeue`, `SendToDLQ`, `Depth` | FIFO; each job it holds is delivered at most once |
| simulators | `internal/adapters/simulator`, `internal/adapters/http/simulator_handler.go` | none | authorize, reserve, book | fail as the client asked, never block a shutdown |
| lifecycle | `cmd/api/main.go` | the signal context, the server, the worker goroutine | start, stop, drain, exit | a stop ends the process |
| bootstrap | `internal/platform/bootstrap` | the open clients, a clean-up stack | `New`, `shutdownOnError`, `Shutdown` | what was opened is released once, and in an order in which nothing uses what is gone |
| migration | `internal/platform/database` | `schema_migrations` | `Migrate` | each version takes effect once, in order, whoever races for it; an instance serves only on its schema |
| span envelope | `internal/platform/observability/envelope.go` | a byte budget, `closed`, `rejected` | copy of a span within the budget, `OnEnd`, `Shutdown` | the copy equals its source, the budget is never exceeded, nothing is handed on after shutdown |
| telemetry | `internal/platform/observability/telemetry.go` | exporters, providers, globals | `New`, `Shutdown`, `Disabled` | a partly built set-up is released; telemetry never stops orders |
| privacy filter | `internal/platform/observability/privacy.go` | none | what of a span is exported | of the attributes only short values of allowed names, no event, link or description; everything else of the span passes |
| configuration, ports | `internal/platform/config`, `internal/ports` | none | lookups, interfaces | stateless |

How they interact. A POST runs in its own goroutine and calls, one after the
other, PostgreSQL, Redis, two simulators, Redis again, PostgreSQL again and
Redis again, all under the request's context (the router gives it
`REQUEST_TIMEOUT`). Its `LPUSH` hands a job to the worker, which pops it with
`BRPOP`, loads the row, books shipping and writes the verdict to the row, then
to the cache. GETs read the cache and fill it from the row. The worker's calls
run under the context that a signal cancels; the requests' do not. Nothing
locks an order, no write is conditional, and no two stores are updated together.

Before any of that, `bootstrap.New` sets telemetry up, opens PostgreSQL, migrates
its schema and opens Redis; other instances of the service, perhaps of another
release, do the same to the same PostgreSQL. Every request and every job ends
spans inside its own goroutine; the copies go to a queue that one goroutine of the
SDK empties. After a signal `main` drains the server and releases everything
through `App.Shutdown`, while the worker may still be at a job.

The hard parts, each listed with its line in `PROJECT.json` under `hazards`:

* three writers of the same row and cache key (request, worker, GET fill), none
  of them conditional: lost updates and stale fills;
* `BRPOP` removes a job before it is processed: any error, cancellation or crash
  after that loses it;
* calls whose effect happened but whose reply was lost, so the caller takes the
  error path; a Redis client that silently repeats an `LPUSH` or a `BRPOP`; a write that
  its caller has given up and that lands after a later one;
* error paths that run under the context whose end caused the error;
* errors halfway through `persistResult` and `failOrder`;
* a shutdown that drains requests which call the closed listener, and that does
  not wait for the worker; a worker that starts before the listener its shipping
  calls need;
* several instances that migrate one database: all read what is applied before any
  has committed, a `COMMIT` may lose its reply, a dead instance leaves a transaction
  behind that still holds its locks;
* a start that fails halfway and must release exactly what it has opened, in three
  places (`observability.New`, `openDatabase`, the stack of `New`) that must not
  overlap, under a context that a signal may have ended; an end whose drain may run
  out of time while requests use the clients;
* in the span envelope, a work stack whose finishing jobs must run after their
  children, a byte budget tested at its boundary, a trace state that is read
  forwards and rebuilt backwards;
* spans that end while `Shutdown` runs, and a collector that never answers.

## 2. Modules

```
Domain -> OrderStore, FulfillmentQueue                Process
   CreateOrder         = OrderStore + FulfillmentQueue + Process
   ProcessFulfillment  = OrderStore + FulfillmentQueue + Process
   GetOrder            = OrderStore + Process
OrderSystem (composes the three)   Delivery (abstract)
   OrderProperties = OrderSystem + INSTANCE Delivery
      MCOrderSystem (TLC)     OrderProofs -> DeliveryProofs (TLAPS)

Schema (abstract)
   Migrate = INSTANCE Schema
      MCMigrate (TLC)         MigrateProofs (TLAPS)

Telemetry -> Bootstrap (TLC)               BootstrapProofs (TLAPS)

Budget                                     BudgetProofs (TLAPS)
   Envelope       MCEnvelope (TLC)         EnvelopeProofs
   DetachedSpan   MCDetachedSpan (TLC)     DetachedSpanProofs
SpanProcessor     MCSpanProcessor (TLC)    SpanProcessorProofs (TLAPS)
```

| module | code | contents |
|---|---|---|
| `Domain` | `internal/domain` | orders, statuses, the outcomes of a call |
| `OrderStore` | `internal/adapters/postgres`, `redis/cache.go` | `db`, `cache`, `late`; `WriteRow`, `CacheSet`, `Arrive`, `Expire` |
| `FulfillmentQueue` | `redis/queue.go`, `app.go:194-221` | `queue`, `dlq`, `repeats`; `PushResults`, `Enqueue`, `Dequeue`, `SendToDLQ` |
| `Process` | `cmd/api/main.go` | `process`; start, stop, shutdown |
| `CreateOrder` | `create_order.go` | one action per call of `Execute` and `failOrder` |
| `ProcessFulfillment` | `process_fulfillment.go`, `worker.go` | one action per call of the worker |
| `GetOrder` | `get_order.go` | the three steps of a cache miss |
| `OrderSystem` | all of the above | composition, exit, crash, restart, fairness |
| `Delivery` | | what the pipeline promises of each copy of a job |
| `OrderProperties` | | every property of the pipeline, with what it is about |
| `Migrate` | `database/migrate.go`, `migrations/*.sql` | one action per statement an instance sends, the faults, the transactions left behind |
| `Schema` | | what starting the service promises of the schema |
| `Telemetry` | `observability/telemetry.go` | the constructors of `New` and what each failure releases; `Disabled` |
| `Bootstrap` | `bootstrap/app.go`, `cmd/api/main.go` | `New` step by step, its clean-up stack, requests and worker at the end, `App.Shutdown` |
| `Budget` | `envelope.go:23-52` | `take`, `items`, `text` |
| `Envelope` | `envelope.go:54-190` | one action per iteration of `attributes` and `value`; its properties, and what a value costs |
| `DetachedSpan` | `envelope.go:192-351` | one action per field of a span, entry by entry where a field has a loop |
| `SpanProcessor` | `envelope.go:353-404`, `privacy.go` | `OnEnd` against `Shutdown`, the batch processor behind them, the private exporter |
| `MC...` | | the small instances |
| `...Proofs` | | theorems and their proofs (section 5) |

### Granularity and data

A step of the model is one call that leaves the process, together with the code
up to the next one. Between two such calls a handler touches nothing shared, so
any finer interleaving shows nothing new. `step[o]` (the request that made order
`o`) and `wstep` (the worker) name the call about to be made, so a crash "between
two steps" is a crash between two calls.

An order is a model value; its row and its cached copy are reduced to their
status, because no property tells the other columns apart. A job keeps its order,
its `Attempt` and `FailShipping`; a dead letter is the job without the reason.
The list that Redis fills from the left and pops from the right is a sequence
that is appended to and read at its head.

### Outcomes

A call ends `ok`, `error` (no effect) or `lost` (it took effect and an error came
back: a lost reply, or a context that ended while the call was in flight). Which
of them a run allows is the constant `Outcomes`; a call under a context that is
already done can only end in `error` (`Results`).

*Late writes.* With lost replies a write of a row or of a cached copy may also end
`late`: an error to its caller, and its effect is still on its way. `late` counts such
writes, and `Arrive` lands one at any time after, over whatever was written since, even
when the process that sent it is gone, or never: a write that no `Arrive` takes is one
that was lost on its way.

*Repeated commands.* go-redis repeats a command whose reply it has lost, three times by
default, and `openRedis` (`app.go:195`) does not turn that off. So an `LPUSH` adds
between no element and `Sends` (four) and its caller is told of success or of an error:
`PushResults`. The elements of one order's job are told apart by a number, `copy`, that
no action reads; `repeats[o]` is how many there are beyond the first. A copy that is
made of a retry or a dead letter inherits what has been done for the job it copies
(`CopiesInherit`), since it carries that job's `Attempt`. A repeated `BRPOP` drops the
element whose reply was lost (`PopRepeats`); one that is not repeated, or not any more,
ends the worker (`PopFails`).

A payload that does not decode leaves `Dequeue` with an error after the pop: it
is the `lost` outcome of `PopFails`.

### Variables that are not in the code

`paid`, `reserved` and `booked` are the external effects of the simulators;
`sent`, `tries`, `settled` and `repeats` are history (what entered the queue, and of
each copy of a job how often shipping was asked for it and the worker's last verdict).
No guard reads them but the bound `MaxRepeats`. They exist so
that properties can relate what is stored to what was done.

### Process

`starting -> serving -> cancelled -> draining -> down -> starting`. `Listening`
is true in `serving` and `cancelled`: a listener that failed to bind is not told
apart from one that a signal is about to close, which only adds behaviours.
`Halt` forgets everything in memory; the row, the cache and both lists stay.
`Exit` needs the requests to have drained or `SHUTDOWN_TIMEOUT` to expire;
nothing waits for the worker, as in `main`.

### Migration

`Migrate` has instances of different releases (`Embedded[i]` is how many migrations
a binary has) over one table. `phase[i]` is the next statement an instance sends.
What a transaction has done and not committed is seen by other instances only as
what they must wait for or fail at (`Holds`): the row a second `INSERT` of the same
version waits for, and the catalogue entry a second `CREATE TABLE` waits for
(`Locking`; the second embedded migration need not be of that kind). `orphans` are
transactions whose client is gone and that PostgreSQL has not yet ended: they go on
holding what they hold, and one that was sent its `COMMIT` may still commit. `applied`
counts how often the effects of a migration were committed, not whether: applying one
twice is what must not happen. `Fault` covers a failing call, a lost reply (of
`COMMIT` above all), the death of the instance and its stop.

### Bootstrap and telemetry

`open` is the set of resources that have been constructed and not released, and
`twice` remembers a release of something that was not open. Every constructor has two
branches, and the failing one releases what the code releases there (`Build`'s
`onError`). `cleanup` is the stack of `New`; `todo` is what is still to be released by
`shutdownOnError` or by `App.Shutdown`, one resource per step, since requests and the
worker may run in between. The errors `App.Shutdown` joins do not matter to what is
released. An exporter, the batch processor and the meter provider release what they have
whatever their `Shutdown` returns. The tracer provider does not: under a context that is
done it returns before it has shut its processors down (`Reached`). A signal during the
start makes that happen in `InstrumentsFail` and in `shutdownOnError`, both of which use
the start's context; the three seconds of `Telemetry.Shutdown`, which the meter provider
may use up, and the deadline of `App.Shutdown` make it happen elsewhere (`expired`). So
`EndLeavesNothing` has one exception, the span pipeline released under a done context,
and that the exception is needed is what TLC found. `sql.DB.Close` does not wait for
connections in use, which is why a late request can meet a closed client (`met`).
`met` and `timedOut` are read by no guard.

### Span processor

`span[s]` is where the goroutine that ends `s` is between the look at `closed`, the
copy, the look of the batch processor at its own flag, and the attempt to enqueue.
`fate[s]` is what became of the span. The batch processor is the SDK's: a bounded
queue that drops, a goroutine that takes up to `MaxBatch` spans and exports them, and
drains the queue once it notices that it was stopped. It is modelled from how
`telemetry.go` configures it (no `WithBlocking`) and marked external where the code is
not in this repository.

`source[s]` is what the containers of the span hold, which their owner may put to
another use once `End` has returned (`Reuse`); `copy[s]` is what `detachedSpan` has
copied, which is half of it when it fails half-way (`Halves`). What a span carries is a
set of attributes with their names and lengths, how many events, links and descriptions
it has, and its `context`, one value that stands for name, parent, trace state,
resource and scope. `Private` is what `privateSpan` shows of the copy: it embeds the
span, so the context passes as it is, up to the whole envelope; only attributes, events,
links and the description are filtered.

### Envelope

`attributes` and `value` run in one goroutine, on data no other touches: the
difficulty is the algorithm. An attribute value is a record of its type and of the
strings, numbers and nested values it holds; a string is its length and whether it
is UTF-8. `jobs` is the stack `value` keeps, its top first; `job` and `texts` are
the local state between popping a job and writing or expanding it. The code's `out`
pointers point into arrays that the finishing job turns into a container: a job
carries the path of its node instead, `cells` maps paths to what has been written
there, and a container is built from the cells of its children, which read `Empty`
until they are written. A charge returns what is left of the budget or `Exhausted`,
and every action that charges either goes on or rejects (`Charged`), as the early
returns do. `int` is 64 bits wide and every product is bounded by the budget
(`items` divides first), so no width is modelled.

`given`, the budget on entry, is read by properties only: a span's other fields are
charged before and between its attribute lists, so a list may find any budget.

`Cost`, `Valid` and `Height` are what a value costs, whether it can be copied and how
deep it nests, defined on the value as a whole and not on the stack that takes it
apart: `AcceptsWhatFits` relates the two. `Height` is a constant because a value that
the program can hold nests to some finite height, which nothing else says of the
elements of an arbitrary set `Values`; `HeightAssumption` defines it completely (none
for a value with nothing in it, one more than the highest otherwise) and excludes
only values that contain themselves, which an `attribute.Value` cannot.

`DetachedSpan` copies the rest of the span around such lists. There a list is
`[count, cost, valid]` and copying it is one charge of its whole cost:
`Envelope`'s `AcceptsWhatFits` and `CopyIsExact`, both proved, are what justifies that:
a list is copied exactly when it is well formed and its cost fits, and then leaves what
`Attributes` leaves. A list costs at least 64 an
attribute (`ListsAssumption`), as `Enter` charges. Values copied without a charge and
without a loop (identifiers, flags, times) are left out. The checks of a trace
state's keys and values for line breaks and length are modelled although a trace
state that the SDK parsed or built always passes them.

## 3. Runs

The three runs of the pipeline and the four violation runs use `MCOrderSystem`.
Their bounds are the numbers of orders and readers, `WorkerMaxAttempts`, `MaxRepeats`
(how many copies of one order's job repeated pushes may leave beyond the first) and
`MaxLate` (how many equal writes may be on their way at a time); every
other value is finite by itself. Crashes, restarts, expiries and lookups are
unbounded. Two more modules cap a counter in a guard and name the bound: `MaxFaults` in
`Migrate` and `MaxRequests` in `Bootstrap`. `late` is a function of numbers and not a
set so that it can be bounded per write: with `MaxLate = 1` row and cache may still
have every one of their writes on its way at once.

| run | bounds and faults | distinct states | checks |
|---|---|---|---|
| `every_fault` | 1 order, 1 reader, every outcome, pushes and pops repeated (1 copy), late writes (1), stop, crash, timeout, 2 attempts | 2 784 720 | `TypeOK`, `ShipsOnlyPaid`, `RefusedStaysRefused`, `FulfilledWasShipped`, `CreatedIsNotPending`, `VerdictStands` |
| `deliveries` | 1 order, 1 reader, 2 attempts, errors and lost replies everywhere, pushes and pops repeated (1 copy), stop, crash; fair | 247 280 | `JobsAccountedFor`, `AttemptsCounted`, `DeadLettersAreFailed`, `DeliversAtMostOnce`, `OnlyTheHeldIsLost`, `QueueIsServed`, `ShutdownEnds`, `CacheConverges` |
| `healthy` | 2 orders, 1 reader, 2 attempts, no fault; fair | 79 552 | `OnlyDoomedJobsDie`, `CreatedIsSettled`, `DoomedJobDies` |
| `migrations` | an instance that embeds 1 migration and two that embed 2, 2 faults; fair | 12 736 | `TypeOK`, `RecordedIffApplied`, `KeepsPromise`, `AllStart` |
| `bootstrap` | 2 requests in flight at a time, every step may fail, every release run out of time; fair | 426 | `EndLeavesNothing`, `ReleasedOnce`, `TelemetryOutlivesClients`, `GlobalsAreOurs`, `ClosedOnlyUnderTheLate`, `SignalEnds` |
| `envelope` | lists of at most 2 attributes, values of every type nested up to one level deeper than the limit 2, a slice of 6; fair | 99 464 | `TypeOK`, `CopyIsExact`, `AcceptsWhatFits`, `StackWithinBudget`, `AlwaysReturns` |
| `detached_span` | six shapes of span, each padded in each of its parts up to 32 KiB and one byte about | 6 768 | `CopyIsExact`, `AcceptsWhatFits`, `AllocatedIsPaid` |
| `spans` | 4 spans (two that fit, a huge one, an unsampled one), one of them reused by its owner, queue of 1, batches of 2, 2 callers of `Shutdown`; fair | 302 790 | `TypeOK`, `CollectorSeesOnlyAdmitted`, `DrainLeavesNothing`, `EndNeverBlocks`, `ShutdownReturns` |
| `shipped_stays_queued`, `failed_not_dead`, `refused_stays_pending`, `rejected_but_shipped` | 1 order, the one fault each needs (the first: none) | | one claim of the documentation or tests each, violated |

Why the bounds are enough.

*Pipeline.* Rows, cache keys and requests of different orders never
meet; the orders share only the FIFO queue, the worker and the process. A second
order can therefore do to the first only what the queue allows: delay its job and
interleave its retries with another's, which `healthy` has; with faults, the proofs
below cover any number of orders. One reader per order suffices because fills of the
same key do not read the cache they write: a second one adds only a second stale value
of the same kind. Two attempts have a retry and a last attempt; the theorems hold for
any limit. One copy beyond the first is enough for a job and its copy to be anywhere
together (both queued, one in hand and one queued, one dead and one in hand), and for
the copy to be made by any of the three pushes; what two copies do to one another they
would do to a third. The theorems hold for any `MaxRepeats` and any `Sends`. A row or
cache write that lands late lands over any write that came after it; a second equal one
would land the same status again. `every_fault` has every fault of the model at once and
checks safety only. `deliveries` leaves out the late writes and the request's timeout,
which multiply the states: what a job does depends on neither, and the theorems about
jobs have both.

*Migration.* Three instances of two releases have a race of two for the same version,
a third that finds it done or half done, and an old release that must not be held up
by a migration it does not know. Two faults suffice for one transaction left behind
before its `COMMIT` and another with it; `MigrateProofs` has no bound.

*Bootstrap.* Two requests are one that ends within the drain and one that does not.
There is one process, so nothing else is bounded.

*Envelope.* The run copies 363 lists under 34 budgets: the exact costs of 14 kinds of
lists and those of a list's first charges, each with one byte less, so that both sides
of the comparisons in the charges occur. A depth limit of 2 instead of 64 has values
within, at and beyond it. What it does to a value depends on its depth and its type
only. `detached_span` uses the real limits (32 KiB, 32 entries, 256 bytes) and fills a
span up to them in each of its parts, exactly and by one byte more and less; trace
states of 32 entries, entries of 256 bytes, invalid UTF-8, broken lists and more events
or links than the budget holds are among them (the SDK builds no larger trace state).
The proofs have
none of these bounds.

*Spans.* With a queue of one and four spans the queue is full, empties and fills again,
and a batch of two is full and not full. Two callers of `Shutdown` are the first and
any later one.

Deadlock is checked in the passing runs of the pipeline (the process can always go
on or be started again), not in the others, whose processes end: a copy returns, all
instances have started, the process has exited, all spans have ended.

### Fairness

*Pipeline.* `FairSpec` assumes weak fairness of what runs by itself: a handler in flight
(`HandlerStep`: the Go scheduler runs it, and each of its calls ends by success,
error or timeout), the worker, a GET in flight, `main` itself, the restart by
whoever supervises the process, and expiry of cache entries (Redis does it when
`CACHE_TTL` is positive, five minutes by default). No client has to send a
request (`Receive` and `Miss` are not fair), and no event of the environment has
to happen. Weak fairness suffices because nothing disables a handler's or the
worker's next step but the end of the process.

`every_fault` checks safety only and assumes no fairness. `QueueIsServed` has the
premise that the process stays up from some point on
(`<>[](process = "serving")`): without it a crash could always come first.
`CacheConverges` needs no premise about late writers, which is the point: the request's
second cache write and a reader's stale fill may both overwrite the worker's verdict,
and only the TTL repairs that. Nothing makes a late write land (`Arriving` is not fair):
it may be lost. `CacheConverges` is checked without late writes (`MaxLate = 0`): one
that lands in the cache expires like any other entry, and one that lands in the row is
one more write of it.

*Migration.* Statements return, a supervisor starts an instance that has panicked,
and PostgreSQL ends the transactions of clients that are gone. Faults are finite in
number and none has to happen. `AllStart` shows that the errors instances cause one
another (a `CREATE TABLE` overtaken, a duplicate `INSERT`) are not such faults: they
need no bound, each of them is some other instance's progress.

*Bootstrap.* `WF(Main /\ ~live)`: once the context of `signal.NotifyContext` is done,
every call of the start returns (they all get that context or one with a timeout), and
the waits of the end have `SHUTDOWN_TIMEOUT`. Before a signal nothing is fair: a start
may hang on its database, and a request for ever.

*Span processor.* A goroutine that has begun to end a span goes on. A caller of
`Shutdown` goes on too, and its wait for the batch processor ends when that has drained
or else when its context is done: `Telemetry.Shutdown` sets three seconds
(`telemetry.go:171`). Nothing is assumed of the exporter, of the batch processor's
goroutine, or that anybody calls `Shutdown`, so `EndNeverBlocks` and `ShutdownReturns`
hold with a collector that never answers.

*Envelope.* Weak fairness of `Next` says that a goroutine in a loop goes on.
`DetachedSpan` has no liveness property and no fairness: each of its loops is over a
finite sequence that only grows shorter.

### Mutants

Each property of a passing run has a mutant, a small change of one definition that
a slip in the Go code would make: an error not tested (`ContinueAnyway`), a missing
return (`AnswerAndContinue`), `<=` for `<` (`ShouldRetryOnceMore`), an increment left
out (`RetryUncounted`), a peek for a pop (`Peek`), list names swapped
(`EnqueueInDLQ`), a TTL of zero (`NeverExpire`), the worker not started
(`StartNoWorker`), a statement sent outside its transaction (`StatementOutside`), the
error of `Commit` ignored (`CommitUnchecked`), the clean-up unwound first to last
(`InOrder`), an exporter forgotten on an error path (`MetricExporterLeaks`), a queue
that blocks (`EnqueueBlocking`), and so on. They are defined next to what they mutate, marked
`mutant:`.

## 4. What the documentation says and the code does not do

1. **A shipped order can stay `queued` for ever** (`CreatedIsFulfilled`). The job is
   pushed at `create_order.go:163`, the row is marked queued at `:168`, without a
   condition. A worker that is done in between is overwritten. Nothing fails in
   this run. README.md:144, :179 and the integration test
   (`app_integration_test.go:113`) expect `fulfilled`.
2. **A failed order need not reach the DLQ** (`FailedIsDead`): `persistResult` may
   fail after writing `failed`, and its error returns before `SendToDLQ`
   (`process_fulfillment.go:66-72`). README.md:181.
3. **A refused order may stay `pending`** (`RefusedIsFailed`): `failOrder` uses the
   context that has just ended. `create_order_test.go:82`, `:114`.
4. **An order answered 500 may ship and read `fulfilled`** (`ErrorIsNotFulfilled`):
   an error of `LPUSH` does not mean the job was not pushed.
   `create_order_test.go:178`.

## 5. Proofs

All theorems hold for every value of the constants, from the assumptions named in the
modules, which say no more than what the constants are. Each safety property was
model-checked before it was proved.

**Pipeline** (`OrderProofs`, `DeliveryProofs`): every set of orders and
readers, every limit of attempts, every choice of outcomes and events.

* `TypeCorrect`: `TypeOK` is inductive once `held` is tied to `wstep` and the
  attempt to the limit; the limit enters through the queue's type
  (`attempt \in 1..MaxAttempts`), so this is also the proof that `ShouldRetry`
  never lets a job exceed it.
* `PaidBeforeShipping`, `RefusalIsFinal`: both follow from `SafetyInv`, which ties
  the place of a request to what it has done (past payment means paid), and the
  presence of a job anywhere (queue, worker, dead letters) to a request that got as
  far as `enqueue`, and a 400 or 502 to a request that did not. `ShipsOnlyPaid`
  alone says nothing of the jobs that wait, so it is not inductive.
* `JobsAreAccountedFor`, `AttemptsAreCounted`, `DeadLettersSpent`, `VerdictIsFinal`:
  from `JobInv`, for any number of copies that repeated pushes leave. `JobInv` says that
  a copy is in one place, that `copy` numbers run from 0 to `repeats[o]` and are all of
  an order that was sent, what `tries` is while a copy waits (`ListsMatch`) and while it
  is processed (`HeldMatches`), that a copy with a verdict has no live job, and that
  what does not exist yet has no past (`Bounded`). A push makes the copies numbered
  from `repeats[o] + 1` on, which is why none of them can be in a list already; the
  lemmas about `Pushed` are about exactly that. `VerdictIsFinal` is an action property
  proved from the same invariant; it speaks of a row that no late write is on its way
  to, since one that is may change it at any time.
* `PipelineDelivers`: the pipeline implements `Delivery`, whatever the client repeats.
  Initial states map to initial states; each step of a request, of the worker and of
  the process is the abstract send, try, push, settle, bury or loss, of a set of
  copies where a push makes several, or a stutter. Most of it is showing from `JobInv`
  which abstract step a push, a pop or a crash is.
* `OnlyHeldJobsAreLost`: for every choice of outcomes and events, and without an
  assumption. It goes through the steps by which a copy may stop being anywhere: a pop
  whose reply is lost (`PopLoses`), a worker that gives up the job in its hands
  (`WorkerLoses`), and the end of the context or the process; `PushLoses` and
  `OthersLose` show that no other step does. Where no call fails of itself
  (`Outcomes = {"ok"}`) `RowsExist` says that no write is late and that an order that
  was sent has its row, so that the worker can lose a job only to its context or to the
  process.
* `HealthyLosesNoJob`, `HealthyBuriesDoomed`: with `Outcomes` equal to `{"ok"}` and no
  events, from `HealthyInv`. The first is in no run; `OnlyTheHeldIsLost` says more.
  What the two properties need is that every job's row is there and that a failed
  verdict means a doomed job: the
  worker that starts before the listener finds the queue empty, since nothing has
  been created yet.
* `FulfilledMeansShipped`, `NeverPendingAfterCreated`: from `StatusInv`, which follows
  a status through everything that holds a copy of it (row, cache, what the worker, the
  request and each reader have read and are about to write).

**Migration** (`MigrateProofs`): every number of instances, releases, migrations and
faults. `MigrateInv` adds to the properties that of the transactions that have inserted
a version's row, orphans included, there is at most one, and only while the version is
not recorded (`SoleCommitter`), and that
behind whatever an instance has passed everything earlier is recorded. From it:
`AppliedOnce`, `AppliedInOrder` (`RunsAfterEarlier`), `StartsOnItsSchema`
(`StartedIsMigrated`), and the refinement `MigrateImplementsSchema`.

**Span processor** (`SpanProcessorProofs`): any goroutines, queue, batch and callers.
`SpanInv` orders the flags (`stopped` only after `closed`, `drained` only after the
worker ended) and says that a span whose `OnEnd` had returned when `Shutdown` began is
not in the queue any more once the worker has had its last look; `CountInv` adds the
cardinalities, and `CopiedWhole` that what was handed on is the whole copy of what the span
was when it ended. From them the invariants. `ClosedStaysClosed` and
`EveryRejectionCounted` are proved and in no run: on a small instance they show nothing
that a glance at `Begin` does not, and what races with a `Shutdown` is the matter of
`DrainLeavesNothing` and `ShutdownReturns`.
`OnlyAdmittedExported` says of the context only that it is unchanged: the privacy filter
does not look at it.

**Bootstrap** (`BootstrapProofs`): every number of requests. One invariant gives all five
properties. `Account` says what is open: during the start what the step at work has in
hand (`InHand`) and what the clean-up stack names, afterwards what `todo` still names. No
name is there twice, so each resource is released once (`EachReleasedOnce`), and when
`todo` is empty nothing is left but what a release under a done context did not reach
(`Left`): `NothingIsLeft`. `Order` says which stacks there are and that telemetry is the
last name of `todo` (`TelemetryGoesLast`). `Late` says who may still run when something
has been released: a request only after the drain's deadline, the worker only after the
signal (`OnlyTheLateMeetClosed`). `GlobalsAreTheApps` follows from `Account`, which counts
the parts of telemetry by what the globals are set to. None of the five is inductive: each
speaks of an end that depends on what the stack held when it began.

**Envelope** (`BudgetProofs`, `EnvelopeProofs`, `DetachedSpanProofs`): every set of
texts, values and spans, every budget and depth limit.

* `EnvelopeTypeCorrect` includes that the budget left is never negative in a copy
  that goes on.
* `BudgetBoundsStack`: with the limit of 32 KiB the stack never exceeds 1025 jobs.
  The property is not inductive, because expanding a container pushes jobs without
  charging anything: `StackInv` adds what the popped job still owes the stack
  (`Owed`), which `ChargeBounds` shows was paid when it was popped.
* `CopyOfListIsExact`: what `value` returns equals what it was given, however it nests.
  `Copying` is the invariant of the work stack: whatever a job will need when its
  turn comes (a finishing job its children, the caller the whole value) is written
  already or will be by a job above it (`Awaited`); whoever writes at a path that is
  wanted writes what is wanted there (`Consistent`); and nobody works below a node that
  has not been expanded (`Alone`). `Removed` and `Expanded` show that finishing a job
  and expanding a container keep it.
* `ListsAcceptedExactly`: a list is copied exactly when it is well formed and fits.
  `AcceptInv` is a ledger: what is left of the budget and the list's total cost differ
  from the budget on entry by what is still to be charged, on the stack, in the job at
  work and in the attributes to come (`Pending`, `Ahead`); and the attribute at work is
  well formed if and only if what is left of it is. When a charge fails, what is left
  does not cover even what is pending, so the total did not fit from the start.
* `BudgetBoundsWork`: every iteration lowers `StepsLeft`, a natural number that is
  `given + 2` when the copy begins. It is the part of `AlwaysReturns` that needs no
  fairness: the work stack cannot go on for ever, however values nest.
* `AllocationIsPaid`: the slices of events and links are allocated only after 128 bytes
  an element were charged.
* `CopyOfSpanIsExact`: what has been copied of the events and of the links is a prefix
  of them (`Pre`), what `Insert` has rebuilt of a trace state is an end of it (`Ends`).
* `AcceptsExactly`: a span is handed on exactly when it is well formed and the sum of all
  its charges fits 32 KiB. `Ledger` says that what is left and what is due of each field
  (`Due`) add up to the budget, `Checked` that what has been copied was well formed.

These last results are about sums over lists and recursion over nested values, and need
two inductions. The library's induction theorems take a predicate as a parameter, which
the provers cannot instantiate, so `BudgetProofs` states induction for a *set* of
naturals (`Induction`, from the least member of a set that is not empty) and uses it
with the set of the numbers for which a statement holds. From it come the existence and
the steps of a sum (`SumsExist`, `TotalStep`) and, over `Height`, that a recursive
definition on values has a solution and only one (`RecursionDefines`,
`RecursionIsUnique`); with these `CostIs` and `ValidIs` unfold `Cost` and `Valid` at one
node.

Only model-checked: the liveness properties (`AlwaysReturns`, `AllStart`, `SignalEnds`,
`EndNeverBlocks`, `ShutdownReturns`, `QueueIsServed`, `ShutdownEnds`, `CreatedIsSettled`,
`DoomedJobDies`, `CacheConverges`), since fairness and `ENABLED` are beyond the prover.
Every other property that a passing run checks is a theorem.

## 6. Not modelled

* Configuration: read once, before anything else; the values that matter (attempts,
  TTL, timeouts) are constants or events of the models.
* Columns of an order other than its status. An order whose `Quantity` does not fit
  the column's 32 bits fails in the `INSERT`, which is one of the errors of `Persist`.
* Durations: a simulator's latency, and the worker's, which `time.Duration` may
  overflow, are steps that take arbitrarily long or none.
* `Ping`, `Depth`, `healthz`, `readyz`, metrics, log lines and the texts of errors: they
  change nothing the properties speak of. Which endpoint `safeEndpoint` refuses is one
  failing branch of `Checks`.
* `ForceFlush` delegates to the batch processor, and nothing but a test calls it.
  `validateSnapshotSDK` compares constants, so `newEnvelopeProcessor` cannot fail where
  `New` has checked the same before.
* What cannot be told from what is modelled: an `LPUSH` that lands late is one that
  was pushed and whose job was popped late, a late booking one that took effect before.
* A `SET` that the client repeats and that its own earlier copy overtakes: both write the
  same status, and `late` has one that lands after any other write. A `BRPOP` left behind
  by a host that dies without closing its connections, which pops one more job for
  nobody: Redis would have to hear of nothing until its keep-alive ends.
* That the PostgreSQL and Redis servers lose data. Both are taken to keep what they
  acknowledged.

## 7. Plan

1. *(done)* The pipeline: stores, queue, process, the three use cases, their
   composition, the abstract delivery and the refinement, runs and proofs.
2. *(done)* The envelope: budget, attribute lists, whole spans, the processor.
3. *(done)* Migration, its abstract promise, and the refinement.
4. *(done)* Bootstrap, telemetry, the end of `main`.
5. *(done)* The safety of `Bootstrap`, and what the envelope accepts, as theorems.
6. *(left)* The step bound of `DetachedSpan`, as `BudgetBoundsWork` has it for a list;
   the composition of `Bootstrap`'s end with `SpanProcessor`'s `Shutdown`.
