------------------------- MODULE SpanProcessorProofs -------------------------
(***************************************************************************)
(* For any number of goroutines that end spans or shut down, any queue and *)
(* any batch: what reaches the collector, and what a shutdown may strand.  *)
(***************************************************************************)
EXTENDS SpanProcessor, FiniteSetTheorems, TLAPS

Admitted == Sampled \cap Fitting
OnTheirWay == {"live", "begun", "copied", "offered"}
Taken == {"refused", "dropped", "queued", "batched", "exported", "failed"}

Types ==
  /\ span \in [Spans -> OnTheirWay \cup {"returned"}]
  /\ fate \in [Spans -> Fates]
  /\ closed \in BOOLEAN /\ stopped \in BOOLEAN /\ rejected \in Nat
  /\ closer \in [Closers -> {"idle", "closing", "waiting", "returned", "expired",
                             "drained"}]
  /\ worker \in {"running", "draining", "finishing", "ended"}
  /\ ended \subseteq Spans /\ begun \subseteq Spans
  /\ DOMAIN source = Spans /\ DOMAIN copy = Spans

(* A span has a fate once its OnEnd has returned, and is handed on only     *)
(* after it was copied.                                                     *)
FateFollows ==
  \A s \in Spans :
    /\ span[s] \in OnTheirWay => fate[s] = "none"
    /\ span[s] \in {"copied", "offered"} => s \in Admitted
    /\ fate[s] \in Taken => s \in Admitted

(* Until its owner has it back a span holds what it ended with, and that is *)
(* what the copy of a span holds that was, or is about to be, handed on.    *)
CopiedWhole ==
  \A s \in Spans :
    /\ span[s] \in OnTheirWay => source[s] = Content[s]
    /\ span[s] \in {"copied", "offered"} => copy[s] = Content[s]
    /\ fate[s] \in Taken => copy[s] = Content[s]

(* What may be exported of a span: this and nothing else.                   *)
Exportable(s) ==
  [span |-> s, context |-> Content[s].context,
   attributes |-> {a \in Content[s].attributes : SafeAttribute(a)},
   events |-> 0, links |-> 0, description |-> 0]

CollectorClean == collector \subseteq {Exportable(s) : s \in Admitted}

(* What has been closed before what: the batch processor stops after the    *)
(* envelope has closed, and its worker leaves its loop after that.          *)
ClosedFirst ==
  /\ stopped => closed
  /\ worker # "running" => stopped
  /\ \A c \in Closers : /\ closer[c] \in {"closing", "waiting"} => closed
                        /\ closer[c] = "drained" => worker = "ended"

LateStayOut ==
  closed => \A s \in Spans \ begun : /\ span[s] \in {"live", "returned"}
                                     /\ fate[s] \in {"none", "late"}

(* The last look at the queue finds all the spans that had been handed on.  *)
EndedAreServed ==
  /\ closed => \A s \in ended : span[s] = "returned"
  /\ worker \in {"finishing", "ended"} => \A s \in ended : fate[s] # "queued"
  /\ worker = "ended" => Batch = {}

SpanInv == /\ Types /\ FateFollows /\ CopiedWhole /\ CollectorClean /\ ClosedFirst
           /\ LateStayOut /\ EndedAreServed
-------------------------------------------------------------------------------
LEMMA SpanInit == Init => SpanInv
<1> SUFFICES ASSUME Init PROVE SpanInv
  OBVIOUS
<1>1. closed \in BOOLEAN /\ stopped \in BOOLEAN /\ closed = FALSE /\ stopped = FALSE
  BY DEF Init
<1>2. /\ \A s \in Spans : span[s] = "live" /\ fate[s] = "none"
      /\ \A c \in Closers : closer[c] = "idle"
      /\ worker = "running" /\ collector = {}
  BY DEF Init
<1>3. Types
  <2>1. /\ span \in [Spans -> OnTheirWay \cup {"returned"}]
        /\ fate \in [Spans -> Fates] /\ rejected \in Nat
        /\ closer \in [Closers -> {"idle", "closing", "waiting", "returned", "expired",
                                   "drained"}]
        /\ ended \subseteq Spans /\ begun \subseteq Spans
    BY DEF Init, OnTheirWay, Fates
  <2>2. DOMAIN source = Spans /\ DOMAIN copy = Spans
    BY ContentAssumption DEF Init
  <2> QED
    BY <1>1, <1>2, <2>1, <2>2 DEF Types
<1>4. FateFollows /\ CollectorClean /\ LateStayOut /\ EndedAreServed
  BY <1>1, <1>2 DEF FateFollows, CollectorClean, LateStayOut, EndedAreServed, OnTheirWay,
                    Taken
<1>5. ClosedFirst
  BY <1>1, <1>2 DEF ClosedFirst
<1>6. CopiedWhole
  BY <1>2 DEF Init, CopiedWhole, Taken
<1> QED
  BY <1>3, <1>4, <1>5, <1>6 DEF SpanInv

(* What a step of OnEnd copies: a span that goes on to be handed on was     *)
(* copied whole, and once copied it stays so.                               *)
LEMMA EndStepCopies ==
  ASSUME SpanInv, NEW s \in Spans, OnEnd(s)
  PROVE  /\ UNCHANGED source /\ DOMAIN copy' = Spans
         /\ \A t \in Spans \ {s} : copy'[t] = copy[t]
         /\ span'[s] \in {"copied", "offered"} \/ fate'[s] \in Taken
              => copy'[s] = Content[s]
<1>1. /\ span[s] \in OnTheirWay => source[s] = Content[s] /\ fate[s] = "none"
      /\ span[s] \in {"copied", "offered"} => copy[s] = Content[s]
      /\ DOMAIN copy = Spans /\ span \in [Spans -> OnTheirWay \cup {"returned"}]
      /\ fate \in [Spans -> Fates]
  BY DEF SpanInv, Types, FateFollows, CopiedWhole
<1>2. CASE Begin(s)
  BY <1>1, <1>2 DEF Begin, Goto, Returns, OnTheirWay, Taken
<1>3. CASE Copy(s)
  <2>1. span[s] = "begun" /\ UNCHANGED source
    BY <1>3 DEF Copy
  <2>2. CASE NotSampled(s)
    BY <1>1, <2>1, <2>2 DEF NotSampled, Returns, Taken
  <2>3. CASE Reject(s)
    BY <1>1, <2>1, <2>3 DEF Reject, Returns, Copies, Taken
  <2>4. CASE Complete(s)
    BY <1>1, <2>1, <2>4 DEF Complete, Goto, Copies, OnTheirWay
  <2> QED
    BY <1>3, <2>2, <2>3, <2>4 DEF Copy
<1>4. CASE HandOn(s) \/ Enqueue(s)
  BY <1>1, <1>4 DEF HandOn, Enqueue, OnTheirWay
<1> QED
  BY <1>2, <1>3, <1>4 DEF OnEnd

(* The steps of OnEnd: one span moves on, and nothing else does.            *)
LEMMA EndStepKeeps ==
  ASSUME SpanInv, NEW s \in Spans, OnEnd(s)
  PROVE  SpanInv'
<1>1. /\ UNCHANGED <<closed, closer, stopped, worker, collector, ended, begun>>
      /\ rejected' \in Nat
  BY DEF OnEnd, Begin, Copy, NotSampled, Reject, Complete, HandOn, Enqueue, history,
         SpanInv, Types
<1>2. PICK p \in OnTheirWay \cup {"returned"}, f \in Fates :
        /\ span' = [span EXCEPT ![s] = p]
        /\ fate' = [fate EXCEPT ![s] = f]
        /\ span[s] \in OnTheirWay
        /\ p \in OnTheirWay => f = "none" /\ p # "live"
        /\ p \in {"copied", "offered"} \/ f \in Taken => s \in Admitted
        /\ f # "batched"
        /\ span[s] = "live" /\ closed => p = "returned" /\ f = "late"
  <2>0. /\ fate = [fate EXCEPT ![s] = fate[s]]
        /\ span[s] \in OnTheirWay => fate[s] = "none"
        /\ span[s] \in {"copied", "offered"} => s \in Admitted
    BY DEF SpanInv, Types, FateFollows
  <2>1. CASE Begin(s)
    <3>1. CASE closed
      BY <2>1, <3>1 DEF Begin, Returns, OnTheirWay, Fates, Taken
    <3>2. CASE ~closed
      BY <2>0, <2>1, <3>2 DEF Begin, Goto, OnTheirWay, Fates, Taken
    <3> QED
      BY <3>1, <3>2
  <2>2. CASE Copy(s)
    BY <2>0, <2>2 DEF Copy, NotSampled, Reject, Complete, Goto, Returns, OnTheirWay, Fates,
                      Taken, Admitted
  <2>3. CASE HandOn(s)
    BY <2>0, <2>3 DEF HandOn, Goto, Returns, OnTheirWay, Fates, Taken
  <2>4. CASE Enqueue(s)
    BY <2>0, <2>4 DEF Enqueue, Returns, OnTheirWay, Fates, Taken
  <2> QED
    BY <2>1, <2>2, <2>3, <2>4 DEF OnEnd
<1>3. \A t \in Spans : /\ span'[t] = IF t = s THEN p ELSE span[t]
                       /\ fate'[t] = IF t = s THEN f ELSE fate[t]
  BY <1>2 DEF SpanInv, Types
<1>4. Types'
  BY <1>1, <1>2, EndStepCopies DEF SpanInv, Types
<1>5. FateFollows'
  BY <1>2, <1>3 DEF SpanInv, FateFollows
<1>6. CollectorClean' /\ ClosedFirst'
  BY <1>1 DEF SpanInv, CollectorClean, ClosedFirst, Exportable
<1>9. CopiedWhole'
  <2>1. /\ UNCHANGED source /\ \A t \in Spans \ {s} : copy'[t] = copy[t]
        /\ span'[s] \in {"copied", "offered"} \/ fate'[s] \in Taken
             => copy'[s] = Content[s]
    BY EndStepCopies
  <2>2. ASSUME NEW t \in Spans
        PROVE  /\ span'[t] \in OnTheirWay => source'[t] = Content[t]
               /\ span'[t] \in {"copied", "offered"} => copy'[t] = Content[t]
               /\ fate'[t] \in Taken => copy'[t] = Content[t]
    BY <1>2, <1>3, <2>1 DEF SpanInv, CopiedWhole
  <2> QED
    BY <2>2 DEF CopiedWhole
<1>7. LateStayOut'
  BY <1>1, <1>2, <1>3 DEF SpanInv, LateStayOut, OnTheirWay
<1>8. EndedAreServed'
  <2>1. closed /\ s \in ended => FALSE
    BY <1>2 DEF SpanInv, EndedAreServed, OnTheirWay
  <2>2. worker \in {"finishing", "ended"} => closed
    BY DEF SpanInv, ClosedFirst
  <2>3. Batch' \subseteq Batch
    BY <1>2, <1>3 DEF Batch
  <2> QED
    <3>1. ended' = ended /\ ended \subseteq Spans /\ closed' = closed /\ worker' = worker
      BY <1>1 DEF SpanInv, Types
    <3>2. ASSUME closed, NEW t \in ended
          PROVE  span'[t] = span[t] /\ fate'[t] = fate[t]
      BY <3>1, <3>2, <1>3, <2>1
    <3>3. worker' = "ended" => Batch' = {}
      BY <3>1, <2>3 DEF SpanInv, EndedAreServed
    <3> QED
      BY <3>1, <3>2, <3>3, <2>2 DEF SpanInv, EndedAreServed
<1> QED
  BY <1>4, <1>5, <1>6, <1>7, <1>8, <1>9 DEF SpanInv

(* Reuse touches only what the copy does not share.                         *)
LEMMA ReuseKeeps ==
  ASSUME SpanInv, NEW s \in Spans, Reuse(s)
  PROVE  SpanInv'
<1>1. /\ UNCHANGED <<span, fate, copy, closed, rejected, closer, stopped, worker, collector,
                     ended, begun>>
      /\ span[s] = "returned" /\ source' = [source EXCEPT ![s] = Reused]
  BY DEF Reuse, history
<1>2. Types' /\ FateFollows'
  BY <1>1 DEF SpanInv, Types, FateFollows
<1>3. CopiedWhole'
  BY <1>1 DEF SpanInv, Types, CopiedWhole, OnTheirWay
<1>4. CollectorClean' /\ ClosedFirst' /\ LateStayOut' /\ EndedAreServed'
  BY <1>1 DEF SpanInv, CollectorClean, Exportable, ClosedFirst, LateStayOut, EndedAreServed,
              Batch
<1> QED
  BY <1>2, <1>3, <1>4 DEF SpanInv

LEMMA ShutdownKeeps ==
  ASSUME SpanInv, NEW c \in Closers, Shutdown(c)
  PROVE  SpanInv'
<1>1. /\ UNCHANGED <<span, fate, source, copy, rejected, worker, collector>>
      /\ closed => closed' /\ UNCHANGED <<ended, begun>>
      /\ closed' \in BOOLEAN /\ stopped' \in BOOLEAN
  BY DEF Shutdown, Close, StopBatcher, Expire, Drained, endVars, history, SpanInv, Types
<1>2. Types'
  <2>1. closer' \in [Closers -> {"idle", "closing", "waiting", "returned", "expired",
                                 "drained"}]
    BY DEF Shutdown, Close, StopBatcher, Expire, Drained, SpanInv, Types
  <2>2. ended' \subseteq Spans /\ begun' \subseteq Spans
    BY DEF Shutdown, Close, StopBatcher, Expire, Drained, history, SpanInv, Types
  <2> QED
    BY <1>1, <2>1, <2>2 DEF SpanInv, Types
<1>3. FateFollows' /\ CopiedWhole' /\ CollectorClean'
  BY <1>1 DEF SpanInv, FateFollows, CopiedWhole, CollectorClean, Exportable
<1>4. ClosedFirst'
  BY <1>1 DEF Shutdown, Close, StopBatcher, Expire, Drained, SpanInv, ClosedFirst, Types
<1>5. CASE closed
  <2>1. closed' /\ UNCHANGED <<ended, begun, span, fate, worker>>
    BY <1>1, <1>5
  <2> QED
    BY <1>2, <1>3, <1>4, <1>5, <2>1 DEF SpanInv, LateStayOut, EndedAreServed, Batch
<1>6. CASE ~closed
  <2>1. Close(c) /\ worker = "running"
    BY <1>6 DEF Shutdown, StopBatcher, Expire, Drained, SpanInv, ClosedFirst, Types
  <2>2. /\ ended' = {s \in Spans : span[s] = "returned"}
        /\ begun' = {s \in Spans : span[s] # "live"}
    BY <1>6, <2>1 DEF Close
  <2>3. LateStayOut'
    BY <1>1, <2>2 DEF SpanInv, LateStayOut, FateFollows, OnTheirWay
  <2>4. EndedAreServed'
    BY <1>1, <2>1, <2>2 DEF EndedAreServed
  <2> QED
    BY <1>2, <1>3, <1>4, <2>3, <2>4 DEF SpanInv
<1> QED
  BY <1>5, <1>6

LEMMA ExportingKeeps ==
  ASSUME SpanInv, Exporting
  PROVE  SpanInv'
<1>1. UNCHANGED <<span, source, copy, closed, rejected, closer, stopped, ended, begun>>
  BY DEF Exporting, Take, Export, Notice, LastLook, endVars, history
<1>2. CASE \E s \in Spans : Take(s)
  <2>1. PICK s \in Spans : Take(s)
    BY <1>2
  <2>2. /\ UNCHANGED <<worker, collector>> /\ worker \in {"running", "draining"}
        /\ fate' = [fate EXCEPT ![s] = "batched"] /\ fate[s] = "queued"
    BY <2>1 DEF Take
  <2>3. \A t \in Spans : fate'[t] = IF t = s THEN "batched" ELSE fate[t]
    BY <2>2 DEF SpanInv, Types
  <2>4. Types' /\ FateFollows'
    BY <1>1, <2>2, <2>3 DEF SpanInv, Types, FateFollows, Fates, OnTheirWay, Taken
  <2>5. CollectorClean' /\ ClosedFirst'
    BY <1>1, <2>2 DEF SpanInv, CollectorClean, Exportable, ClosedFirst
  <2>7. CopiedWhole'
    BY <1>1, <2>2, <2>3 DEF SpanInv, CopiedWhole, Taken
  <2>6. LateStayOut' /\ EndedAreServed'
    BY <1>1, <2>2, <2>3 DEF SpanInv, LateStayOut, EndedAreServed
  <2> QED
    BY <2>4, <2>5, <2>6, <2>7 DEF SpanInv
<1>3. CASE Export
  <2>1. PICK f \in {"exported", "failed"} :
          /\ fate' = [s \in Spans |-> IF s \in Batch THEN f ELSE fate[s]]
          /\ collector' = IF f = "exported"
                          THEN collector \cup {Private(s) : s \in Batch}
                          ELSE collector
    BY <1>3 DEF Export
  <2>2. /\ worker' \in {worker, "ended"}
        /\ worker' = "ended" => worker \in {"finishing", "ended"}
        /\ worker' \in {"running", "draining", "finishing", "ended"}
        /\ worker = "ended" => FALSE
    BY <1>3 DEF Export, SpanInv, Types
  <2>3. Batch \subseteq Admitted
    BY DEF Batch, SpanInv, FateFollows, Taken
  <2>4. Batch' = {}
    BY <2>1 DEF Batch
  <2>5. Types' /\ FateFollows'
    BY <1>1, <2>1, <2>2, <2>3 DEF SpanInv, Types, FateFollows, Fates, OnTheirWay, Taken, Batch
  <2>6. CollectorClean'
    <3>1. ASSUME NEW s \in Batch PROVE Private(s) = Exportable(s) /\ s \in Admitted
      <4>1. copy[s] = Content[s]
        BY DEF Batch, SpanInv, CopiedWhole, Taken
      <4> QED
        BY <4>1, <2>3 DEF Private, Snapshot, Exportable
    <3>2. {Private(s) : s \in Batch} \subseteq {Exportable(s) : s \in Admitted}
      BY <3>1
    <3>3. collector \subseteq {Exportable(s) : s \in Admitted}
      BY DEF SpanInv, CollectorClean
    <3>4. collector' \subseteq {Exportable(s) : s \in Admitted}
      BY <2>1, <3>2, <3>3
    <3> QED
      BY <3>4 DEF CollectorClean, Exportable
  <2>10. CopiedWhole'
    BY <1>1, <2>1 DEF SpanInv, CopiedWhole, Batch, Taken
  <2>7. ClosedFirst'
    BY <1>1, <2>2 DEF SpanInv, ClosedFirst
  <2>8. LateStayOut'
    BY <1>1, <2>1 DEF SpanInv, LateStayOut, Batch
  <2>9. EndedAreServed'
    BY <1>1, <2>1, <2>2, <2>4 DEF SpanInv, EndedAreServed, Types
  <2> QED
    BY <2>5, <2>6, <2>7, <2>8, <2>9, <2>10 DEF SpanInv
<1>4. CASE Notice \/ LastLook
  <2>1. /\ UNCHANGED <<fate, collector>> /\ worker \in {"running", "draining"}
        /\ worker' \in {"draining", "finishing"}
        /\ worker = "running" => stopped
        /\ worker' = "finishing" => Queue = {}
    BY <1>4 DEF Notice, LastLook, endVars
  <2>2. Types' /\ FateFollows' /\ CopiedWhole' /\ CollectorClean' /\ LateStayOut'
    BY <1>1, <2>1 DEF SpanInv, Types, FateFollows, CopiedWhole, CollectorClean, Exportable,
                      LateStayOut
  <2>3. ClosedFirst'
    BY <1>1, <2>1 DEF SpanInv, ClosedFirst
  <2>4. EndedAreServed'
    BY <1>1, <2>1 DEF SpanInv, EndedAreServed, Queue, Types
  <2> QED
    BY <2>2, <2>3, <2>4 DEF SpanInv
<1> QED
  BY <1>2, <1>3, <1>4 DEF Exporting

LEMMA SpanStutter == SpanInv /\ UNCHANGED vars => SpanInv'
BY DEF vars, endVars, history, SpanInv, Types, FateFollows, CopiedWhole, CollectorClean,
       Exportable, ClosedFirst, LateStayOut, EndedAreServed, Batch

(* The invariant of the span pipeline holds in every reachable state.       *)
THEOREM SpanInvariant == Spec => []SpanInv
<1>1. SpanInv /\ [Next]_vars => SpanInv'
  BY EndStepKeeps, ReuseKeeps, ShutdownKeeps, ExportingKeeps, SpanStutter DEF Next
<1> QED
  BY SpanInit, <1>1, PTL DEF Spec
-------------------------------------------------------------------------------
(* Whatever ends, fails half-way, is reused or is shut down: what the       *)
(* collector gets is of a sampled span within the envelope, whole, with the *)
(* context the span ended with, exactly the short values of the allowed     *)
(* attributes it ended with, and no event, link or description.             *)
THEOREM OnlyAdmittedExported == Spec => []CollectorSeesOnlyAdmitted
<1>1. SpanInv => CollectorSeesOnlyAdmitted
  BY DEF SpanInv, CollectorClean, CollectorSeesOnlyAdmitted, Exportable, Admitted
<1> QED
  BY <1>1, SpanInvariant, PTL

(* A span that ends after Shutdown began is never handed on.                *)
THEOREM ClosedStaysClosed == Spec => []NothingAfterClosed
<1>1. SpanInv => NothingAfterClosed
  BY DEF SpanInv, LateStayOut, NothingAfterClosed
<1> QED
  BY <1>1, SpanInvariant, PTL

(* A Shutdown that drained strands no span that had ended before it.        *)
THEOREM DrainIsComplete == Spec => []DrainLeavesNothing
<1>1. SpanInv => DrainLeavesNothing
  BY DEF SpanInv, ClosedFirst, EndedAreServed, DrainLeavesNothing, Batch, Types
<1> QED
  BY <1>1, SpanInvariant, PTL
-------------------------------------------------------------------------------
With(f) == {s \in Spans : fate[s] = f}

(* One span gets a fate: the sets of spans with that fate and with the one  *)
(* it had change by one element.                                            *)
LEMMA FateCounts ==
  ASSUME Types, NEW s \in Spans, NEW f \in Fates, fate' = [fate EXCEPT ![s] = f]
  PROVE  \A g \in Fates :
           /\ IsFiniteSet(With(g)) /\ IsFiniteSet(With(g)')
           /\ Cardinality(With(g)) \in Nat /\ Cardinality(With(g)') \in Nat
           /\ g # f => Cardinality(With(g)') <= Cardinality(With(g))
           /\ g # f /\ fate[s] # g => With(g)' = With(g)
           /\ g = f /\ fate[s] # g => Cardinality(With(g)') = Cardinality(With(g)) + 1
<1> TAKE g \in Fates
<1>1. \A t \in Spans : fate'[t] = IF t = s THEN f ELSE fate[t]
  BY DEF Types
<1>2. /\ IsFiniteSet(With(g)) /\ IsFiniteSet(With(g)')
      /\ Cardinality(With(g)) \in Nat /\ Cardinality(With(g)') \in Nat
  <2>1. With(g) \subseteq Spans /\ With(g)' \subseteq Spans
    BY DEF With
  <2> QED
    BY <2>1, SpansAssumption, FS_Subset, FS_CardinalityType
<1>3. g # f => With(g)' \subseteq With(g)
  BY <1>1 DEF With
<1>4. g # f => Cardinality(With(g)') <= Cardinality(With(g))
  BY <1>2, <1>3, FS_Subset
<1>5. g # f /\ fate[s] # g => With(g)' = With(g)
  BY <1>1 DEF With
<1>6. ASSUME g = f, fate[s] # g
      PROVE  Cardinality(With(g)') = Cardinality(With(g)) + 1
  <2>1. With(g)' = With(g) \cup {s} /\ s \notin With(g)
    BY <1>1, <1>6 DEF With
  <2> QED
    BY <2>1, <1>2, FS_AddElement
<1> QED
  BY <1>2, <1>4, <1>5, <1>6

CountInv == /\ SpanInv
            /\ rejected = Cardinality(With("rejected"))
            /\ Cardinality(With("queued")) <= MaxQueue
            /\ Cardinality(With("batched")) <= MaxBatch

LEMMA CountInit == Init => CountInv
<1> SUFFICES ASSUME Init PROVE CountInv
  OBVIOUS
<1>1. With("rejected") = {} /\ With("queued") = {} /\ With("batched") = {}
  BY DEF Init, With
<1>2. rejected = 0
  BY DEF Init
<1> QED
  BY <1>1, <1>2, SpanInit, FS_EmptySet, BoundsAssumption DEF CountInv

LEMMA CountEnd ==
  ASSUME CountInv, NEW s \in Spans, OnEnd(s)
  PROVE  CountInv'
<1>0. Types /\ SpanInv' /\ (span[s] \in OnTheirWay => fate[s] = "none")
  BY EndStepKeeps DEF CountInv, SpanInv, FateFollows
<1>1. CASE UNCHANGED <<fate, rejected>>
  BY <1>0, <1>1 DEF CountInv, With
<1>2. ASSUME NEW f \in {"late", "unsampled", "refused", "dropped"}, Returns(s, f),
             UNCHANGED rejected, span[s] \in OnTheirWay
      PROVE  CountInv'
  <2>1. /\ \A g \in {"rejected", "queued", "batched"} : With(g)' = With(g)
    <3>1. f \in Fates /\ {"rejected", "queued", "batched"} \subseteq Fates
      BY <1>2 DEF Fates
    <3> QED
      BY <1>0, <1>2, <3>1, FateCounts DEF Returns
  <2> QED
    BY <1>0, <1>2, <2>1 DEF CountInv
<1>3. CASE span[s] = "begun" /\ Returns(s, "rejected") /\ rejected' = rejected + 1
  <2>1. /\ Cardinality(With("rejected")') = Cardinality(With("rejected")) + 1
        /\ With("queued")' = With("queued") /\ With("batched")' = With("batched")
    BY <1>0, <1>3, FateCounts DEF Returns, Fates, OnTheirWay
  <2> QED
    BY <1>0, <1>3, <2>1 DEF CountInv
<1>4. CASE /\ span[s] = "offered" /\ Returns(s, "queued") /\ UNCHANGED rejected
           /\ Cardinality(Queue) < MaxQueue
  <2>1. /\ Cardinality(With("queued")') = Cardinality(With("queued")) + 1
        /\ Cardinality(With("queued")) \in Nat
        /\ With("rejected")' = With("rejected") /\ With("batched")' = With("batched")
    BY <1>0, <1>4, FateCounts DEF Returns, Fates, OnTheirWay
  <2>2. Cardinality(With("queued")) < MaxQueue
    BY <1>4 DEF Queue, With
  <2> QED
    BY <1>0, <1>4, <2>1, <2>2, BoundsAssumption DEF CountInv
<1>5. CASE Begin(s)
  BY <1>1, <1>2, <1>5 DEF Begin, Goto, OnTheirWay
<1>6. CASE Copy(s)
  BY <1>1, <1>2, <1>3, <1>6
     DEF Copy, NotSampled, Reject, Complete, Goto, OnTheirWay
<1>7. CASE HandOn(s)
  BY <1>1, <1>2, <1>7 DEF HandOn, Goto, OnTheirWay
<1>8. CASE Enqueue(s)
  BY <1>2, <1>4, <1>8 DEF Enqueue, OnTheirWay
<1> QED
  BY <1>5, <1>6, <1>7, <1>8 DEF OnEnd

LEMMA CountExporting ==
  ASSUME CountInv, Exporting
  PROVE  CountInv'
<1>0. Types /\ SpanInv' /\ UNCHANGED rejected
  BY ExportingKeeps DEF CountInv, SpanInv, Exporting
<1>1. CASE \E s \in Spans : Take(s)
  <2>1. PICK s \in Spans : Take(s)
    BY <1>1
  <2>2. /\ fate' = [fate EXCEPT ![s] = "batched"] /\ fate[s] = "queued"
        /\ Cardinality(With("batched")) < MaxBatch
    BY <2>1 DEF Take, Batch, With
  <2>3. /\ Cardinality(With("batched")') = Cardinality(With("batched")) + 1
        /\ Cardinality(With("batched")) \in Nat
        /\ Cardinality(With("queued")') <= Cardinality(With("queued"))
        /\ Cardinality(With("queued")) \in Nat /\ Cardinality(With("queued")') \in Nat
        /\ With("rejected")' = With("rejected")
    BY <1>0, <2>2, FateCounts DEF Fates
  <2> QED
    BY <1>0, <2>2, <2>3, BoundsAssumption DEF CountInv
<1>2. CASE Export
  <2>1. PICK f \in {"exported", "failed"} :
          fate' = [s \in Spans |-> IF s \in Batch THEN f ELSE fate[s]]
    BY <1>2 DEF Export
  <2>2. /\ With("rejected")' = With("rejected") /\ With("queued")' = With("queued")
        /\ With("batched")' = {}
    BY <2>1 DEF With, Batch
  <2> QED
    BY <1>0, <2>2, FS_EmptySet, BoundsAssumption DEF CountInv
<1>3. CASE UNCHANGED fate
  BY <1>0, <1>3 DEF CountInv, With
<1> QED
  BY <1>1, <1>2, <1>3 DEF Exporting, Notice, LastLook, endVars

LEMMA CountInvariant == Spec => []CountInv
<1>1. CountInv /\ [Next]_vars => CountInv'
  <2> SUFFICES ASSUME CountInv, [Next]_vars PROVE CountInv'
    OBVIOUS
  <2>1. ASSUME UNCHANGED <<fate, rejected>>, SpanInv' PROVE CountInv'
    BY <2>1 DEF CountInv, With
  <2>2. ASSUME NEW c \in Closers, Shutdown(c) PROVE CountInv'
    BY <2>1, <2>2, ShutdownKeeps
       DEF CountInv, Shutdown, Close, StopBatcher, Expire, Drained, endVars
  <2>4. ASSUME NEW s \in Spans, Reuse(s) PROVE CountInv'
    BY <2>1, <2>4, ReuseKeeps DEF CountInv, Reuse
  <2>3. CASE UNCHANGED vars
    BY <2>1, <2>3, SpanStutter DEF CountInv, vars, endVars
  <2> QED
    BY <2>2, <2>3, <2>4, CountEnd, CountExporting DEF Next
<1> QED
  BY CountInit, <1>1, PTL DEF Spec

(* The pipeline keeps its types, its queue and its batch their bounds.      *)
THEOREM SpanTypeCorrect == Spec => []TypeOK
<1>1. CountInv => TypeOK
  BY DEF CountInv, SpanInv, Types, TypeOK, OnTheirWay, Queue, Batch, With
<1> QED
  BY <1>1, CountInvariant, PTL

(* The counter of rejections is the number of spans that were refused,      *)
(* however many goroutines end spans, fail or panic at the same time.       *)
THEOREM EveryRejectionCounted == Spec => []RejectionsCounted
<1>1. CountInv => RejectionsCounted
  BY DEF CountInv, RejectionsCounted, With
<1> QED
  BY <1>1, CountInvariant, PTL
===============================================================================
