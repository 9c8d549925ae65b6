---------------------------- MODULE SpanProcessor ----------------------------
(***************************************************************************)
(* The way of a span from its End to the collector: envelopeProcessor      *)
(* copies it (envelope.go), the SDK's batch processor queues it, and       *)
(* privateExporter strips it (privacy.go).  Goroutines end spans while     *)
(* others shut the processor down.                                         *)
(*                                                                         *)
(* The batch processor and the exporter behind it are the SDK's: its queue *)
(* is bounded and drops, one goroutine takes spans out of it and exports   *)
(* them in batches.  In which order it takes them matters to no property,  *)
(* so fate alone says where a span is.                                     *)
(***************************************************************************)
EXTENDS Naturals, FiniteSets

CONSTANTS Spans,
          Sampled,      \* those whose context is sampled
          Fitting,      \* those detachedSpan copies; of the others it returns
                        \* an error, or panics and is recovered
          Content,      \* what a span carries when it ends: its context (name,
                        \* parent, trace state, resource and scope), its
                        \* attributes, and how many events, links and descriptions
          Borrowed,     \* those whose owner puts the containers it gave them
                        \* to another use once they have ended
          Reused,       \* what these containers hold then
          SafeKeys,     \* the attribute names safeAttribute lets through
          MaxValue,     \* 256, the length up to which it does
          MaxQueue, MaxBatch,
          Closers       \* callers of Shutdown

ASSUME SpansAssumption ==
  /\ IsFiniteSet(Spans)
  /\ Sampled \subseteq Spans /\ Fitting \subseteq Spans
  /\ Borrowed \subseteq Spans
ASSUME ContentAssumption ==
  /\ DOMAIN Content = Spans
  /\ \A c \in {Content[s] : s \in Spans} \cup {Reused} :
       c.attributes \subseteq [key : STRING, len : Nat]
ASSUME BoundsAssumption == MaxQueue \in Nat /\ MaxBatch \in Nat \ {0}

VARIABLES span,         \* where the goroutine that ends a span is
          fate,         \* what became of the span
          closed, rejected,     \* of envelopeProcessor
          closer,       \* where each caller of Shutdown is
          stopped, worker,      \* of the batch processor
          source,       \* what the containers of each span hold
          copy,         \* what detachedSpan has copied of each span
          collector,    \* what was exported
          ended, begun  \* history: the spans whose OnEnd had returned, and
                        \* those whose OnEnd had begun, when Shutdown began

history == <<ended, begun>>
endVars == <<span, fate, source, copy>>
vars == <<endVars, closed, rejected, closer, stopped, worker, collector, history>>

Blank == [context |-> "none", attributes |-> {}, events |-> 0, links |-> 0,
          description |-> 0]

Fates == {"none", "late", "unsampled", "rejected", "refused", "dropped",
          "queued", "batched", "exported", "failed"}
Queue == {s \in Spans : fate[s] = "queued"}
Batch == {s \in Spans : fate[s] = "batched"}

Init == /\ span = [s \in Spans |-> "live"]
        /\ fate = [s \in Spans |-> "none"]
        /\ source = Content /\ copy = [s \in Spans |-> Blank]
        /\ closed = FALSE /\ rejected = 0
        /\ closer = [c \in Closers |-> "idle"]
        /\ stopped = FALSE /\ worker = "running"
        /\ collector = {} /\ ended = {} /\ begun = {}

Goto(s, p) == span' = [span EXCEPT ![s] = p] /\ UNCHANGED fate

Returns(s, f) == /\ span' = [span EXCEPT ![s] = "returned"]
                 /\ fate' = [fate EXCEPT ![s] = f]
-------------------------------------------------------------------------------
(* OnEnd looks at closed once, before it does anything else.                *)
Begin(s) ==
  /\ span[s] = "live"
  /\ IF closed THEN Returns(s, "late") ELSE Goto(s, "begun")
  /\ UNCHANGED <<source, copy, closed, rejected, closer, stopped, worker, collector, history>>

(* As far as detachedSpan may have come when it fails: the parts come in    *)
(* the order of the fields, the attributes one after the other.             *)
Halves(s) == {[Blank EXCEPT !.context = source[s].context, !.attributes = A] :
                A \in SUBSET source[s].attributes}

Copies(s, c) == copy' = [copy EXCEPT ![s] = c]

NotSampled(s) == /\ s \notin Sampled /\ Returns(s, "unsampled")
                 /\ UNCHANGED <<copy, rejected>>

HalfHandedOn(s) ==              \* mutant: the error of the copy is not looked at
  /\ s \in Sampled \ Fitting /\ Goto(s, "copied")
  /\ \E half \in Halves(s) : Copies(s, half)
  /\ UNCHANGED rejected

(* An error and a panic come to the same: counted, and not handed on.       *)
Reject(s) == /\ s \in Sampled \ Fitting /\ Returns(s, "rejected")
             /\ \E half \in Halves(s) : Copies(s, half)
             /\ rejected' = rejected + 1

Complete(s) == /\ s \in Sampled \cap Fitting /\ Goto(s, "copied")
               /\ Copies(s, source[s])
               /\ UNCHANGED rejected

Copy(s) == /\ span[s] = "begun"
           /\ NotSampled(s) \/ Reject(s) \/ Complete(s)
           /\ UNCHANGED <<source, closed, closer, stopped, worker, collector, history>>

(* The batch processor's OnEnd looks at its own flag, and enqueues later.   *)
HandOn(s) ==
  /\ span[s] = "copied"
  /\ IF stopped THEN Returns(s, "refused") ELSE Goto(s, "offered")
  /\ UNCHANGED <<source, copy, closed, rejected, closer, stopped, worker, collector, history>>

EnqueueAlways(s) ==             \* mutant: the queue has no bound
  /\ span[s] = "offered" /\ Returns(s, "queued")
  /\ UNCHANGED <<source, copy, closed, rejected, closer, stopped, worker, collector, history>>

EnqueueBlocking(s) ==           \* mutant: the option WithBlocking is set
  /\ span[s] = "offered" /\ Cardinality(Queue) < MaxQueue
  /\ Returns(s, "queued")
  /\ UNCHANGED <<source, copy, closed, rejected, closer, stopped, worker, collector, history>>

Enqueue(s) ==
  /\ span[s] = "offered"
  /\ Returns(s, IF Cardinality(Queue) < MaxQueue THEN "queued" ELSE "dropped")
  /\ UNCHANGED <<source, copy, closed, rejected, closer, stopped, worker, collector, history>>

OnEnd(s) == Begin(s) \/ Copy(s) \/ HandOn(s) \/ Enqueue(s)

(* Once its End has returned, the owner of a span may put the containers it *)
(* gave it to another use: the copy must not share them.                    *)
Reuse(s) ==
  /\ s \in Borrowed /\ span[s] = "returned"
  /\ source' = [source EXCEPT ![s] = Reused]
  /\ UNCHANGED <<span, fate, copy, closed, rejected, closer, stopped, worker,
                 collector, history>>
-------------------------------------------------------------------------------
(* Shutdown: the first caller closes, every other one returns nil at once,  *)
(* although the first may be at it still.                                   *)
Close(c) ==
  /\ closer[c] = "idle"
  /\ IF closed
     THEN /\ closer' = [closer EXCEPT ![c] = "returned"]
          /\ UNCHANGED <<closed, history>>
     ELSE /\ closer' = [closer EXCEPT ![c] = "closing"]
          /\ closed' = TRUE
          /\ ended' = {s \in Spans : span[s] = "returned"}
          /\ begun' = {s \in Spans : span[s] # "live"}
  /\ UNCHANGED <<endVars, rejected, stopped, worker, collector>>

(* next.Shutdown waits for its worker, or for the context to be done.       *)
StopBatcher(c) ==
  /\ closer[c] = "closing"
  /\ stopped' = TRUE
  /\ closer' = [closer EXCEPT ![c] = "waiting"]
  /\ UNCHANGED <<endVars, closed, rejected, worker, collector, history>>

ExpireNever(c) == FALSE         \* mutant: Telemetry.Shutdown sets no deadline

Expire(c) ==
  /\ closer[c] = "waiting"
  /\ closer' = [closer EXCEPT ![c] = "expired"]
  /\ UNCHANGED <<endVars, closed, rejected, stopped, worker, collector, history>>

Drained(c) ==
  /\ closer[c] = "waiting" /\ worker = "ended"
  /\ closer' = [closer EXCEPT ![c] = "drained"]
  /\ UNCHANGED <<endVars, closed, rejected, stopped, worker, collector, history>>

Shutdown(c) == Close(c) \/ StopBatcher(c) \/ Expire(c) \/ Drained(c)
-------------------------------------------------------------------------------
SafeAttribute(a) == a.key \in SafeKeys /\ a.len <= MaxValue

Shallow(s) == source[s]         \* mutant: SpanStubFromReadOnlySpan was used

(* What the batch processor reads of a span: the copy it was handed.        *)
Snapshot(s) == copy[s]

(* privateSpan: the allowed attributes, and neither events nor links nor    *)
(* the description of the status.  All the rest is the embedded span's:     *)
(* what is in the context passes as it is.                                  *)
Private(s) ==
  [span |-> s, context |-> Snapshot(s).context,
   attributes |-> {a \in Snapshot(s).attributes : SafeAttribute(a)},
   events |-> 0, links |-> 0, description |-> 0]

Take(s) == /\ worker \in {"running", "draining"}
           /\ fate[s] = "queued" /\ Cardinality(Batch) < MaxBatch
           /\ fate' = [fate EXCEPT ![s] = "batched"]
           /\ UNCHANGED <<span, source, copy, worker, collector>>

(* A batch is exported when it is full, when its timer fires, or at the end.*)
Export ==
  /\ \/ worker = "running" /\ Batch # {} /\ UNCHANGED worker
     \/ worker = "draining" /\ Cardinality(Batch) = MaxBatch /\ UNCHANGED worker
     \/ worker = "finishing" /\ worker' = "ended"
  /\ \E f \in {"exported", "failed"} :
       /\ fate' = [s \in Spans |-> IF s \in Batch THEN f ELSE fate[s]]
       /\ collector' = IF f = "exported"
                       THEN collector \cup {Private(s) : s \in Batch}
                       ELSE collector
  /\ UNCHANGED <<span, source, copy>>

Notice == /\ worker = "running" /\ stopped
          /\ worker' = "draining"
          /\ UNCHANGED <<endVars, collector>>

NoDrain ==                      \* mutant: the worker ends without a last look
  /\ worker = "draining"
  /\ worker' = "finishing"
  /\ UNCHANGED <<endVars, collector>>

LastLook == /\ worker = "draining" /\ Queue = {} /\ Cardinality(Batch) < MaxBatch
            /\ worker' = "finishing"
            /\ UNCHANGED <<endVars, collector>>

Exporting == /\ (\E s \in Spans : Take(s)) \/ Export \/ Notice \/ LastLook
             /\ UNCHANGED <<closed, rejected, closer, stopped, history>>

Next == \/ \E s \in Spans : OnEnd(s) \/ Reuse(s)
        \/ \E c \in Closers : Shutdown(c)
        \/ Exporting

Spec == Init /\ [][Next]_vars

(* The goroutines that end spans, and the callers of Shutdown, go on; the   *)
(* wait for the worker ends, at the latest when the three seconds are over  *)
(* that Telemetry.Shutdown allows.  Nothing is assumed of the exporter: the *)
(* collector may never answer.                                              *)
Fairness == /\ \A s \in Spans : WF_vars(OnEnd(s) /\ span[s] # "live")
            /\ \A c \in Closers : /\ WF_vars(StopBatcher(c))
                                  /\ WF_vars(Expire(c) \/ Drained(c))

FairSpec == Spec /\ Fairness
-------------------------------------------------------------------------------
TypeOK ==
  /\ span \in [Spans -> {"live", "begun", "copied", "offered", "returned"}]
  /\ fate \in [Spans -> Fates]
  /\ closed \in BOOLEAN /\ stopped \in BOOLEAN
  /\ rejected \in Nat
  /\ Cardinality(Queue) <= MaxQueue /\ Cardinality(Batch) <= MaxBatch
  /\ closer \in [Closers -> {"idle", "closing", "waiting", "returned", "expired",
                             "drained"}]
  /\ worker \in {"running", "draining", "finishing", "ended"}
  /\ ended \subseteq Spans /\ begun \subseteq Spans

(* What reaches the collector is of a sampled span within the envelope, is  *)
(* whole, and is what the span was when it ended, whoever failed half-way   *)
(* through a copy and whatever its owner did with the containers meanwhile: *)
(* the context unchanged, the short values of the allowed names and no      *)
(* other attribute, and no event, link or description.                      *)
CollectorSeesOnlyAdmitted ==
  \A r \in collector :
    /\ r.span \in Sampled \cap Fitting
    /\ r.context = Content[r.span].context
    /\ r.attributes = {a \in Content[r.span].attributes : SafeAttribute(a)}
    /\ r.events = 0 /\ r.links = 0 /\ r.description = 0

(* A span that ends after Shutdown began is not handed on, even while the   *)
(* batch processor still takes spans.                                       *)
NothingAfterClosed ==
  closed => \A s \in Spans \ begun : fate[s] \in {"none", "late"}

(* A Shutdown that drained in time leaves behind no span whose OnEnd had    *)
(* returned before it: only ends that race with it can be stranded.         *)
DrainLeavesNothing ==
  \A c \in Closers : closer[c] = "drained" =>
    \A s \in ended : fate[s] \notin {"queued", "batched"}

(* Every span that was refused a copy, by an error or by a panic half-way   *)
(* through it, is counted once, and no other.                               *)
RejectionsCounted == rejected = Cardinality({s \in Spans : fate[s] = "rejected"})

(* Ending a span never waits for the collector: the queue drops.            *)
EndNeverBlocks == \A s \in Spans : span[s] = "begun" ~> span[s] = "returned"

(* A Shutdown that has begun returns, although the collector hangs and the  *)
(* worker of the batch processor with it.                                   *)
ShutdownReturns ==
  \A c \in Closers : closer[c] = "closing" ~> closer[c] \in {"expired", "drained"}
===============================================================================
