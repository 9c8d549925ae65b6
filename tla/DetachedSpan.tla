---------------------------- MODULE DetachedSpan ----------------------------
(***************************************************************************)
(* How detachedSpan copies a whole span within the envelope's budget:      *)
(* field after field, and entry by entry where a field has a loop of its   *)
(* own (spanContext, the events, the links) (envelope.go).                 *)
(*                                                                         *)
(* What is copied by value and charged nothing is left out: identifiers,   *)
(* flags, times, kinds, counters. A span context is its trace state, a     *)
(* status its description. An attribute list is [count, cost, valid], and  *)
(* copying it is one charge: module Envelope checks that attributes copies *)
(* a list exactly when it is well formed and its whole cost fits.          *)
(***************************************************************************)
EXTENDS Budget

CONSTANTS Texts,        \* strings: [len |-> its bytes, valid |-> is it UTF-8]
          Lists,        \* attribute lists: [count, cost, valid]
          Spans         \* the spans that end

spanEnvelopeLimit == 32 * 1024
MaxEntries == 32        \* what spanContext accepts of a trace state
MaxText == 256

EmptyText == [len |-> 0, valid |-> TRUE]
EmptyList == [count |-> 0, cost |-> 0, valid |-> TRUE]
NoResource == [schema |-> EmptyText, attributes |-> EmptyList, nil |-> TRUE]
EmptyResource == [NoResource EXCEPT !.nil = FALSE]

(* An entry is plain if it holds no line break; those of a parsed or built  *)
(* trace state always are.                                                  *)
Contexts == Seq([key : Texts, value : Texts, plain : BOOLEAN])
SpanType ==
  [name : Texts, context : Contexts, parent : Contexts, attributes : Lists,
   resource : [schema : Texts, attributes : Lists, nil : BOOLEAN],
   scope : [name : Texts, version : Texts, schema : Texts, attributes : Lists],
   status : Texts, events : Seq([name : Texts, attributes : Lists]),
   links : Seq([context : Contexts, attributes : Lists])]

ASSUME TextsAssumption == \A t \in Texts : t.len \in Nat /\ t.valid \in BOOLEAN
ASSUME ListsAssumption ==
  \A a \in Lists : /\ a.count \in Nat /\ a.cost \in Nat /\ a.valid \in BOOLEAN
                   /\ a.cost >= 64 * a.count
ASSUME SpansAssumption == Spans \subseteq SpanType
ASSUME EmptyAssumption == EmptyText \in Texts /\ EmptyList \in Lists

VARIABLES span,         \* the SDK's span
          at,           \* the field that is copied next, or the end
          inside,       \* spanContext has been entered for that field
          entries,      \* what it has collected of the trace state
          state,        \* what it has rebuilt of it
          value,        \* the copy
          left          \* of the budget

vars == <<span, at, inside, entries, state, value, left>>

Init == /\ span \in Spans /\ at = "called"
        /\ inside = FALSE /\ entries = <<>> /\ state = <<>>
        /\ value = [name |-> EmptyText, context |-> <<>>, parent |-> <<>>,
                    attributes |-> EmptyList, resource |-> NoResource,
                    scope |-> [name |-> EmptyText, version |-> EmptyText,
                               schema |-> EmptyText, attributes |-> EmptyList],
                    status |-> EmptyText, events |-> <<>>, links |-> <<>>]
        /\ left = spanEnvelopeLimit

(* A charge, and the early return of every charge that does not fit.        *)
Charged(b, next) == left' = b /\ at' = IF b = Exhausted THEN "rejected" ELSE next

(* attributes, by what module Envelope shows of it.                         *)
Attributes(b, a) == IF a.cost > b \/ ~a.valid THEN Exhausted ELSE b - a.cost

NotInContext == UNCHANGED <<span, inside, entries, state>>

(* One field of the span that is not a span context.                        *)
Copy(field, b, v, next) == /\ at = field
                           /\ Charged(b, next)
                           /\ value' = [value EXCEPT ![field] = v]
                           /\ NotInContext

Call == /\ at = "called"
        /\ Charged(Take(left, 512), "name")
        /\ UNCHANGED value /\ NotInContext

CopyName == Copy("name", Text(left, span.name), span.name, "context")
-------------------------------------------------------------------------------
InContext == at \in {"context", "parent", "link"}

Link == span.links[Len(value.links) + 1]

(* The trace state that spanContext is called with.                         *)
Source == IF at = "link" THEN Link.context ELSE span[at]

EnterContext == /\ InContext /\ ~inside
                /\ at = "link" => Len(value.links) < Len(span.links)
                /\ Charged(Take(left, 64), at)
                /\ inside' = TRUE /\ entries' = <<>> /\ state' = <<>>
                /\ UNCHANGED <<span, value>>

FullOneEarly(n, e) == n >= MaxEntries - 1       \* mutant: one entry too few

Refused(n, e) == \/ n = MaxEntries
                 \/ e.key.len > MaxText \/ e.value.len > MaxText \/ ~e.plain

(* One step of Walk: from the first entry to the last.                      *)
WalkEntry ==
  /\ InContext /\ inside /\ Len(entries) < Len(Source)
  /\ LET e == Source[Len(entries) + 1]
     IN  /\ Charged(IF Refused(Len(entries), e) THEN Exhausted
                    ELSE Text(Text(left, e.key), e.value), at)
         /\ entries' = Append(entries, e)
  /\ UNCHANGED <<span, inside, state, value>>

Walked == InContext /\ inside /\ Len(entries) = Len(Source)

InsertForwards ==       \* mutant: from the first entry to the last
  /\ Walked /\ Len(state) < Len(entries)
  /\ state' = <<entries[Len(state) + 1]>> \o state
  /\ UNCHANGED <<span, at, inside, entries, value, left>>

(* Insert prepends: the entries go in from the last to the first.           *)
InsertEntry ==
  /\ Walked /\ Len(state) < Len(entries)
  /\ state' = <<entries[Len(entries) - Len(state)]>> \o state
  /\ UNCHANGED <<span, at, inside, entries, value, left>>

ReturnContext ==
  /\ Walked /\ Len(state) = Len(entries)
  /\ inside' = FALSE
  /\ IF at = "link" THEN UNCHANGED value
                    ELSE value' = [value EXCEPT ![at] = state]
  /\ at' = IF at = "context" THEN "parent"
           ELSE IF at = "parent" THEN "attributes" ELSE "linkAttributes"
  /\ UNCHANGED <<span, entries, state, left>>
-------------------------------------------------------------------------------
CopyAttributes == Copy("attributes", Attributes(left, span.attributes),
                       span.attributes, "resource")

ChargeResource(b, r) ==
  LET b2 == Take(b, 128)
  IN  IF r.nil THEN b
      ELSE IF r.attributes.count > b2 \div 64 THEN Exhausted
      ELSE Attributes(Text(b2, r.schema), r.attributes)

Detached(r) == IF r.nil THEN EmptyResource ELSE r

CopyResource == Copy("resource", ChargeResource(left, span.resource),
                     Detached(span.resource), "scope")

ChargeScope(b, s) ==
  LET b2 == Text(Text(Text(Take(b, 128), s.name), s.version), s.schema)
  IN  IF s.attributes.count > b2 \div 64 THEN Exhausted
      ELSE Attributes(b2, s.attributes)

CopyScope == Copy("scope", ChargeScope(left, span.scope), span.scope, "status")

CopyStatus == Copy("status", Text(left, span.status), span.status, "events")
-------------------------------------------------------------------------------
EnterEventsUnpaid ==            \* mutant: the slice of events is not charged
  /\ at = "events"
  /\ Charged(left, "event")
  /\ UNCHANGED value /\ NotInContext

EnterEvents == /\ at = "events"
               /\ Charged(Items(left, Len(span.events), 128), "event")
               /\ UNCHANGED value /\ NotInContext

CopyEvent ==
  /\ at = "event" /\ Len(value.events) < Len(span.events)
  /\ LET e == span.events[Len(value.events) + 1]
     IN  /\ Charged(Attributes(Text(left, e.name), e.attributes), "event")
         /\ value' = [value EXCEPT !.events = Append(@, e)]
  /\ NotInContext

EndEvents == /\ at = "event" /\ Len(value.events) = Len(span.events)
             /\ at' = "links"
             /\ UNCHANGED <<value, left>> /\ NotInContext

EnterLinks == /\ at = "links"
              /\ Charged(Items(left, Len(span.links), 128), "link")
              /\ UNCHANGED value /\ NotInContext

CopyLink ==
  /\ at = "linkAttributes"
  /\ Charged(Attributes(left, Link.attributes), "link")
  /\ value' = [value EXCEPT !.links =
                 Append(@, [context |-> state, attributes |-> Link.attributes])]
  /\ NotInContext

Return == /\ at = "link" /\ ~inside /\ Len(value.links) = Len(span.links)
          /\ at' = "copied"
          /\ UNCHANGED <<value, left>> /\ NotInContext

spanContext == EnterContext \/ WalkEntry \/ InsertEntry \/ ReturnContext

Next == \/ Call \/ CopyName \/ spanContext \/ CopyAttributes \/ CopyResource
        \/ CopyScope \/ CopyStatus \/ EnterEvents \/ CopyEvent \/ EndEvents
        \/ EnterLinks \/ CopyLink \/ Return

Spec == Init /\ [][Next]_vars
-------------------------------------------------------------------------------
(* What a span takes of the budget in all.                                  *)
EntryCosts(c) == [i \in 1..Len(c) |-> Bytes(c[i].key) + Bytes(c[i].value)]
ContextCost(c) == 64 + Total(EntryCosts(c), Len(c))
ResourceCost(r) == IF r.nil THEN 0 ELSE 128 + Bytes(r.schema) + r.attributes.cost
ScopeCost(s) == 128 + Bytes(s.name) + Bytes(s.version) + Bytes(s.schema)
                    + s.attributes.cost
EventCosts(s) == [i \in 1..Len(s.events) |->
                    Bytes(s.events[i].name) + s.events[i].attributes.cost]
LinkCosts(s) == [i \in 1..Len(s.links) |->
                   ContextCost(s.links[i].context) + s.links[i].attributes.cost]
Cost(s) ==
  512 + Bytes(s.name) + ContextCost(s.context) + ContextCost(s.parent)
    + s.attributes.cost + ResourceCost(s.resource) + ScopeCost(s.scope)
    + Bytes(s.status) + 128 * Len(s.events) + Total(EventCosts(s), Len(s.events))
    + 128 * Len(s.links) + Total(LinkCosts(s), Len(s.links))

(* Every string is UTF-8, every list copies, and no trace state is longer,  *)
(* or has longer entries, than spanContext accepts.                         *)
EntryIsSound(e) == /\ e.key.len <= 256 /\ e.key.valid
                   /\ e.value.len <= 256 /\ e.value.valid
                   /\ e.plain
Passes(c) == Len(c) <= 32 /\ \A i \in 1..Len(c) : EntryIsSound(c[i])
ResourceIsSound(r) == r.nil \/ (r.schema.valid /\ r.attributes.valid)
ScopeIsSound(s) ==
  s.name.valid /\ s.version.valid /\ s.schema.valid /\ s.attributes.valid
EventIsSound(e) == e.name.valid /\ e.attributes.valid
LinkIsSound(k) == Passes(k.context) /\ k.attributes.valid
WellFormed(s) ==
  /\ s.name.valid /\ Passes(s.context) /\ Passes(s.parent) /\ s.attributes.valid
  /\ ResourceIsSound(s.resource) /\ ScopeIsSound(s.scope) /\ s.status.valid
  /\ \A i \in 1..Len(s.events) : EventIsSound(s.events[i])
  /\ \A i \in 1..Len(s.links) : LinkIsSound(s.links[i])

Stages == {"called", "name", "context", "parent", "attributes", "resource",
           "scope", "status", "events", "event", "links", "link",
           "linkAttributes", "copied", "rejected"}

TypeOK == /\ span \in Spans /\ at \in Stages /\ inside \in BOOLEAN
          /\ entries \in Contexts /\ state \in Contexts
          /\ value \in SpanType
          /\ left \in Int /\ left >= Exhausted
          /\ at # "rejected" => left >= 0

(* The copy holds every field as it was, the trace states in their order,   *)
(* the events and the links with what belongs to each; only a resource that *)
(* is missing becomes the empty one.                                        *)
CopyIsExact ==
  at = "copied" => value = [span EXCEPT !.resource = Detached(@)]

(* make([]Event, n) and make([]Link, n) allocate only what has been paid,   *)
(* 128 each, before an event or a link is looked at.                        *)
AllocatedIsPaid ==
  /\ at \in {"event", "links", "link", "linkAttributes", "copied"} =>
       128 * Len(span.events) <= spanEnvelopeLimit - left
  /\ at \in {"link", "linkAttributes", "copied"} =>
       128 * (Len(span.events) + Len(span.links)) <= spanEnvelopeLimit - left

(* A span is copied exactly when all of it is well formed and what it costs *)
(* fits the limit, in whatever order it is charged; and the size that       *)
(* detachedSpan returns is that cost.                                       *)
AcceptsWhatFits ==
  /\ at \in {"copied", "rejected"} =>
       (at = "copied" <=> WellFormed(span) /\ Cost(span) <= spanEnvelopeLimit)
  /\ at = "copied" => spanEnvelopeLimit - left = Cost(span)
===============================================================================
