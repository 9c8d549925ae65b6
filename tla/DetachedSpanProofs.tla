------------------------- MODULE DetachedSpanProofs -------------------------
(***************************************************************************)
(* The copy of a span is exact, what it allocates is paid for, and it is   *)
(* made exactly of the spans that are well formed and fit, for every span: *)
(* any texts and attribute lists, any number of events, links and entries  *)
(* of their trace states.                                                  *)
(***************************************************************************)
EXTENDS DetachedSpan, BudgetProofs

Entries == [key : Texts, value : Texts, plain : BOOLEAN]
Events == [name : Texts, attributes : Lists]
Links == [context : Contexts, attributes : Lists]

LEMMA SpanFields ==
  ASSUME NEW s \in SpanType
  PROVE  /\ s.name \in Texts /\ s.status \in Texts
         /\ s.context \in Contexts /\ s.parent \in Contexts
         /\ s.attributes \in Lists
         /\ s.resource \in [schema : Texts, attributes : Lists, nil : BOOLEAN]
         /\ s.scope \in [name : Texts, version : Texts, schema : Texts,
                         attributes : Lists]
         /\ s.events \in Seq(Events) /\ s.links \in Seq(Links)
BY DEF SpanType, Events, Links

LEMMA SpanIsRecord ==
  ASSUME NEW s \in SpanType
  PROVE  s = [name |-> s.name, context |-> s.context, parent |-> s.parent,
              attributes |-> s.attributes, resource |-> s.resource,
              scope |-> s.scope, status |-> s.status, events |-> s.events,
              links |-> s.links]
BY DEF SpanType
-------------------------------------------------------------------------------
(* What every charge returns: a rejection, or no more than there was.       *)
Fits(b, r) == /\ r \in Int /\ r >= Exhausted
              /\ r # Exhausted => r >= 0 /\ r <= b

LEMMA TakeFits ==
  ASSUME NEW b \in Int, b >= Exhausted, NEW n \in Nat
  PROVE  Fits(b, Take(b, n))
BY TakeBounds DEF Fits, Exhausted

LEMMA TextFits ==
  ASSUME NEW b \in Int, b >= Exhausted, NEW t \in Texts
  PROVE  Fits(b, Text(b, t))
BY TextBounds, TextsAssumption DEF Fits, Exhausted

LEMMA AttributesFit ==
  ASSUME NEW b \in Int, b >= Exhausted, NEW a \in Lists
  PROVE  Fits(b, Attributes(b, a))
BY ListsAssumption DEF Fits, Attributes, Exhausted

(* Charges in a row.                                                        *)
LEMMA FitsOn ==
  ASSUME NEW b \in Int, NEW r, NEW q, b >= Exhausted, Fits(b, r), Fits(r, q)
  PROVE  Fits(b, q)
BY DEF Fits, Exhausted

LEMMA ResourceFits ==
  ASSUME NEW b \in Nat,
         NEW r \in [schema : Texts, attributes : Lists, nil : BOOLEAN]
  PROVE  Fits(b, ChargeResource(b, r))
<1> DEFINE b2 == Take(b, 128)
           b3 == Text(b2, r.schema)
           b4 == Attributes(b3, r.attributes)
<1>1. Fits(b, b2)
  BY TakeFits DEF Exhausted
<1>2. Fits(b2, b3)
  BY <1>1, TextFits DEF Fits
<1>3. Fits(b3, b4)
  BY <1>2, AttributesFit DEF Fits
<1>4. Fits(b, b4)
  <2> HIDE DEF b2, b3, b4
  <2>1. Fits(b, b3)
    BY <1>1, <1>2, FitsOn DEF Exhausted
  <2> QED BY <2>1, <1>3, FitsOn DEF Exhausted
<1>5. ChargeResource(b, r) \in {b, Exhausted, b4}
  BY DEF ChargeResource
<1> HIDE DEF b2, b3, b4
<1> QED BY <1>4, <1>5 DEF Fits, Exhausted

LEMMA ScopeFits ==
  ASSUME NEW b \in Nat,
         NEW s \in [name : Texts, version : Texts, schema : Texts, attributes : Lists]
  PROVE  Fits(b, ChargeScope(b, s))
<1> DEFINE b2 == Take(b, 128)
           b3 == Text(b2, s.name)
           b4 == Text(b3, s.version)
           b5 == Text(b4, s.schema)
           b6 == Attributes(b5, s.attributes)
<1>1. Fits(b, b2)
  BY TakeFits DEF Exhausted
<1>2. Fits(b2, b3)
  BY <1>1, TextFits DEF Fits
<1>3. Fits(b3, b4)
  BY <1>2, TextFits DEF Fits
<1>4. Fits(b4, b5)
  BY <1>3, TextFits DEF Fits
<1>5. Fits(b5, b6)
  BY <1>4, AttributesFit DEF Fits
<1>6. Fits(b, b6)
  <2> HIDE DEF b2, b3, b4, b5, b6
  <2>1. Fits(b, b3)
    BY <1>1, <1>2, FitsOn DEF Exhausted
  <2>2. Fits(b, b4)
    BY <2>1, <1>3, FitsOn DEF Exhausted
  <2>3. Fits(b, b5)
    BY <2>2, <1>4, FitsOn DEF Exhausted
  <2> QED BY <2>3, <1>5, FitsOn DEF Exhausted
<1>7. ChargeScope(b, s) \in {Exhausted, b6}
  BY DEF ChargeScope
<1> HIDE DEF b2, b3, b4, b5, b6
<1> QED BY <1>6, <1>7 DEF Fits, Exhausted

(* Two charges for one entry of a trace state, or for one event.            *)
LEMMA EntryFits ==
  ASSUME NEW b \in Nat, NEW k \in Texts, NEW v \in Texts
  PROVE  Fits(b, Text(Text(b, k), v))
<1> DEFINE b2 == Text(b, k)
<1>1. Fits(b, b2)
  BY TextFits DEF Exhausted
<1>2. Fits(b2, Text(b2, v))
  BY <1>1, TextFits DEF Fits
<1> HIDE DEF b2
<1>3. Fits(b, Text(b2, v))
  BY <1>1, <1>2, FitsOn DEF Exhausted
<1> QED BY <1>3 DEF b2

LEMMA EventFits ==
  ASSUME NEW b \in Nat, NEW e \in Events
  PROVE  Fits(b, Attributes(Text(b, e.name), e.attributes))
<1> DEFINE b2 == Text(b, e.name)
           b3 == Attributes(b2, e.attributes)
<1>0. e.name \in Texts /\ e.attributes \in Lists
  BY DEF Events
<1>1. Fits(b, b2)
  BY <1>0, TextFits DEF Exhausted
<1>2. Fits(b2, b3)
  BY <1>0, <1>1, AttributesFit DEF Fits
<1>3. Fits(b, b3)
  <2> HIDE DEF b2, b3
  <2> QED BY <1>1, <1>2, FitsOn DEF Exhausted
<1> QED BY <1>3

LEMMA SliceFits ==
  ASSUME NEW b \in Nat, NEW n \in Nat
  PROVE  /\ Fits(b, Items(b, n, 128))
         /\ Items(b, n, 128) # Exhausted => Items(b, n, 128) = b - 128 * n
<1> DEFINE r == Items(b, n, 128)
           size == 128
<1>1. size \in Nat \ {0}
  OBVIOUS
<1>2. r = Items(b, n, size)
  OBVIOUS
<1> HIDE DEF size
<1>3. /\ Items(b, n, size) \in Int /\ Items(b, n, size) >= Exhausted
      /\ Items(b, n, size) # Exhausted =>
           Items(b, n, size) = b - n * size /\ Items(b, n, size) >= 0
  BY <1>1, ItemsBounds DEF Exhausted
<1>4. /\ r \in Int /\ r >= Exhausted
      /\ r # Exhausted => r = b - 128 * n /\ r >= 0
  <2>1. /\ r \in Int /\ r >= Exhausted
        /\ r # Exhausted => r = b - n * size /\ r >= 0
    <3> HIDE DEF r
    <3> QED BY <1>2, <1>3
  <2> HIDE DEF r
  <2>2. n * size = 128 * n
    BY DEF size
  <2> QED BY <2>1, <2>2
<1> HIDE DEF r
<1>5. Fits(b, r) /\ (r # Exhausted => r = b - 128 * n)
  BY <1>4 DEF Fits, Exhausted
<1> QED BY <1>5 DEF r
-------------------------------------------------------------------------------
(* Where the copy is, and that what it looks at is there.                   *)
Control == /\ at \notin {"rejected"} => (inside => InContext)
           /\ at # "rejected" => Len(value.links) <= Len(span.links)
           /\ at = "link" /\ inside => Len(value.links) < Len(span.links)
           /\ at = "linkAttributes" => Len(value.links) < Len(span.links)
           /\ at # "rejected" => left <= spanEnvelopeLimit

TypeInv == TypeOK /\ Control

LEMMA SourceType ==
  ASSUME TypeInv, InContext, at = "link" => Len(value.links) < Len(span.links)
  PROVE  Source \in Contexts
<1>1. span \in SpanType /\ value \in SpanType
  BY SpansAssumption DEF TypeInv, TypeOK
<1>2. /\ span.context \in Contexts /\ span.parent \in Contexts
      /\ span.links \in Seq(Links) /\ value.links \in Seq(Links)
  BY <1>1, SpanFields
<1>3. CASE at = "link"
  <2>1. Len(value.links) + 1 \in 1..Len(span.links)
    BY <1>2, <1>3
  <2>2. Link \in Links
    BY <1>2, <2>1, ElementOfSeq DEF Link
  <2> QED BY <1>3, <2>2 DEF Source, Links
<1>4. CASE at \in {"context", "parent"}
  BY <1>2, <1>4 DEF Source
<1> QED BY <1>3, <1>4 DEF InContext

LEMMA LinkType ==
  ASSUME TypeInv, Len(value.links) < Len(span.links)
  PROVE  Link \in Links
<1>1. span \in SpanType /\ value \in SpanType
  BY SpansAssumption DEF TypeInv, TypeOK
<1>2. span.links \in Seq(Links) /\ value.links \in Seq(Links)
  BY <1>1, SpanFields
<1>3. Len(value.links) + 1 \in 1..Len(span.links)
  BY <1>2
<1> QED BY <1>2, <1>3, ElementOfSeq DEF Link

(* A field of the copy is replaced by one of its type.                      *)
LEMMA ValueType ==
  ASSUME NEW v \in SpanType
  PROVE  /\ \A t \in Texts : /\ [v EXCEPT !["name"] = t] \in SpanType
                             /\ [v EXCEPT !["status"] = t] \in SpanType
         /\ \A c \in Contexts : /\ [v EXCEPT !["context"] = c] \in SpanType
                                /\ [v EXCEPT !["parent"] = c] \in SpanType
         /\ \A a \in Lists : [v EXCEPT !["attributes"] = a] \in SpanType
         /\ \A r \in [schema : Texts, attributes : Lists, nil : BOOLEAN] :
              [v EXCEPT !["resource"] = r] \in SpanType
         /\ \A s \in [name : Texts, version : Texts, schema : Texts,
                      attributes : Lists] : [v EXCEPT !["scope"] = s] \in SpanType
         /\ \A e \in Seq(Events) : [v EXCEPT !.events = e] \in SpanType
         /\ \A k \in Seq(Links) : [v EXCEPT !.links = k] \in SpanType
BY DEF SpanType, Events, Links

LEMMA TypeInit == Init => TypeInv
<1> SUFFICES ASSUME Init PROVE TypeInv
  OBVIOUS
<1>1. value \in SpanType
  <2>1. NoResource \in [schema : Texts, attributes : Lists, nil : BOOLEAN]
    BY EmptyAssumption DEF NoResource
  <2>2. <<>> \in Contexts
    BY DEF Contexts
  <2> QED BY <2>1, <2>2, EmptyAssumption DEF Init, SpanType
<1>2. entries \in Contexts /\ state \in Contexts
  BY DEF Init, Contexts
<1>3. inside \in BOOLEAN /\ inside = FALSE
  BY DEF Init
<1>4. left \in Int /\ left = spanEnvelopeLimit /\ left >= 0 /\ left >= Exhausted
  BY DEF Init, spanEnvelopeLimit, Exhausted
<1>5. span \in Spans /\ at = "called" /\ value.links = <<>>
  BY DEF Init
<1>6. span.links \in Seq(Links)
  BY <1>5, SpansAssumption, SpanFields
<1>7. TypeOK
  BY <1>1, <1>2, <1>3, <1>4, <1>5 DEF TypeOK, Stages
<1>8. Control
  BY <1>3, <1>4, <1>5, <1>6 DEF Control
<1> QED BY <1>7, <1>8 DEF TypeInv

LEMMA ChargedKeeps ==
  ASSUME NEW b, NEW next, left \in Nat, Fits(left, b), Charged(b, next),
         next # "rejected"
  PROVE  /\ left' \in Int
         /\ left' >= Exhausted /\ (at' # "rejected" => left' >= 0)
         /\ at' \in {next, "rejected"}
         /\ at' # "rejected" => left' <= left
BY DEF Charged, Fits, Exhausted

(* The charges of the loops: of an event, of a link, of a span context and  *)
(* of an entry of its trace state.                                          *)
Shrinks(next) == /\ left' \in Int
                 /\ left' >= Exhausted /\ (at' # "rejected" => left' >= 0)
                 /\ at' \in {next, "rejected"}
                 /\ at' # "rejected" => left' <= left

LEMMA EventCharge ==
  ASSUME TypeInv, CopyEvent
  PROVE  /\ Shrinks("event") /\ left \in Nat
         /\ span.events[Len(value.events) + 1] \in Events
<1> DEFINE e == span.events[Len(value.events) + 1]
           b == Attributes(Text(left, e.name), e.attributes)
<1>1. span.events \in Seq(Events) /\ value.events \in Seq(Events)
  BY SpansAssumption, SpanFields DEF TypeInv, TypeOK
<1>2. Len(value.events) + 1 \in 1..Len(span.events) /\ left \in Nat
  BY <1>1 DEF CopyEvent, TypeInv, TypeOK
<1>3. e \in Events
  BY <1>1, <1>2, ElementOfSeq
<1>4. Fits(left, b)
  <2> HIDE DEF e
  <2> QED BY <1>2, <1>3, EventFits
<1>5. Charged(b, "event")
  BY DEF CopyEvent
<1> HIDE DEF b
<1>6. Shrinks("event")
  BY <1>2, <1>4, <1>5, ChargedKeeps DEF Shrinks
<1> QED BY <1>2, <1>3, <1>6

LEMMA LinkCharge ==
  ASSUME TypeInv, CopyLink
  PROVE  Shrinks("link") /\ left \in Nat /\ Link.attributes \in Lists
<1> DEFINE a == Link.attributes
           b == Attributes(left, a)
<1>1. left \in Nat /\ Len(value.links) < Len(span.links)
  BY DEF CopyLink, TypeInv, TypeOK, Control
<1>2. a \in Lists
  BY <1>1, LinkType DEF Links
<1>3. Fits(left, b)
  <2> HIDE DEF a
  <2> QED BY <1>1, <1>2, AttributesFit DEF Exhausted
<1>4. Charged(b, "link")
  BY DEF CopyLink
<1> HIDE DEF b
<1>5. Shrinks("link")
  BY <1>1, <1>3, <1>4, ChargedKeeps DEF Shrinks
<1> QED BY <1>1, <1>2, <1>5

LEMMA ContextCharge ==
  ASSUME TypeInv, EnterContext
  PROVE  Shrinks(at) /\ left \in Nat
<1>1. left \in Nat /\ Fits(left, Take(left, 64)) /\ at # "rejected"
  BY TakeFits DEF EnterContext, InContext, Exhausted, TypeInv, TypeOK
<1>2. Charged(Take(left, 64), at)
  BY DEF EnterContext
<1> QED BY <1>1, <1>2, ChargedKeeps DEF Shrinks

LEMMA EntryCharge ==
  ASSUME TypeInv, WalkEntry
  PROVE  /\ Shrinks(at) /\ left \in Nat
         /\ Source \in Seq(Entries) /\ entries \in Seq(Entries)
         /\ Source[Len(entries) + 1] \in Entries
<1> DEFINE e == Source[Len(entries) + 1]
           r == Text(Text(left, e.key), e.value)
           b == IF Refused(Len(entries), e) THEN Exhausted ELSE r
<1>1. InContext /\ inside /\ (at = "link" => Len(value.links) < Len(span.links))
  BY DEF WalkEntry, InContext, TypeInv, Control
<1>2. left \in Nat /\ at # "rejected"
  BY <1>1 DEF InContext, TypeInv, TypeOK
<1>3. Source \in Seq(Entries) /\ entries \in Seq(Entries)
  BY <1>1, SourceType DEF Contexts, Entries, TypeInv, TypeOK
<1>4. e \in Entries
  <2>1. Len(entries) + 1 \in 1..Len(Source)
    BY <1>3 DEF WalkEntry
  <2> QED BY <1>3, <2>1, ElementOfSeq
<1>5. Fits(left, r)
  <2> HIDE DEF e
  <2>1. e.key \in Texts /\ e.value \in Texts
    BY <1>4 DEF Entries
  <2> QED BY <1>2, <2>1, EntryFits
<1>6. Fits(left, b)
  <2>1. b \in {Exhausted, r}
    OBVIOUS
  <2> HIDE DEF b, r
  <2> QED BY <1>5, <2>1 DEF Fits, Exhausted
<1>7. Charged(b, at)
  BY DEF WalkEntry
<1> HIDE DEF b
<1>8. Shrinks(at)
  BY <1>2, <1>6, <1>7, ChargedKeeps DEF Shrinks
<1> QED BY <1>2, <1>3, <1>4, <1>8

LEMMA TypeStep == TypeInv /\ [Next]_vars => TypeInv'
<1> SUFFICES ASSUME TypeInv, [Next]_vars PROVE TypeInv'
  OBVIOUS
<1>1. /\ span \in SpanType /\ value \in SpanType
      /\ span.links \in Seq(Links) /\ value.links \in Seq(Links)
      /\ span.events \in Seq(Events) /\ value.events \in Seq(Events)
  BY SpansAssumption, SpanFields DEF TypeInv, TypeOK
<1>2. at # "rejected" => left \in Nat
  BY DEF TypeInv, TypeOK
<1>3. ASSUME NEW field, NEW b, NEW v, NEW next, Copy(field, b, v, next),
             field \notin {"rejected", "called", "link", "linkAttributes"},
             next \in Stages \ {"called", "name", "rejected", "linkAttributes"},
             InContext => ~inside,
             Fits(left, b), [value EXCEPT ![field] = v] \in SpanType,
             [value EXCEPT ![field] = v].links = value.links
      PROVE  TypeInv'
  <2>1. /\ left' \in Int
        /\ left' >= Exhausted /\ (at' # "rejected" => left' >= 0)
        /\ at' \in {next, "rejected"}
        /\ at' # "rejected" => left' <= left
    BY <1>2, <1>3, ChargedKeeps DEF Copy
  <2>2. /\ value' \in SpanType /\ value'.links = value.links
        /\ UNCHANGED <<span, inside, entries, state>>
    BY <1>3 DEF Copy, NotInContext
  <2>3. TypeOK'
    BY <1>3, <2>1, <2>2 DEF TypeInv, TypeOK, Stages
  <2>4. at = field
    BY <1>3 DEF Copy
  <2>5. Control'
    BY <1>2, <1>3, <2>1, <2>2, <2>4 DEF TypeInv, Control, TypeOK, InContext, spanEnvelopeLimit
  <2> QED BY <2>3, <2>5 DEF TypeInv
<1>4. span.name \in Texts /\ span.status \in Texts /\ span.attributes \in Lists
      /\ span.resource \in [schema : Texts, attributes : Lists, nil : BOOLEAN]
      /\ span.scope \in [name : Texts, version : Texts, schema : Texts,
                         attributes : Lists]
  BY <1>1, SpanFields
<1>5. CASE Call
  <2>1. left \in Nat /\ Fits(left, Take(left, 512))
    BY <1>2, <1>5, TakeFits DEF Call, Exhausted
  <2>2. /\ left' \in Int
        /\ left' >= Exhausted /\ (at' # "rejected" => left' >= 0)
        /\ at' \in {"name", "rejected"}
        /\ at' # "rejected" => left' <= left
    BY <1>5, <2>1, ChargedKeeps DEF Call
  <2>3. at = "called" /\ UNCHANGED <<value, span, inside, entries, state>>
    BY <1>5 DEF Call, NotInContext
  <2>4. TypeOK'
    BY <2>2, <2>3 DEF TypeInv, TypeOK, Stages
  <2>5. Control'
    BY <2>1, <2>2, <2>3 DEF TypeInv, Control, TypeOK, InContext, spanEnvelopeLimit
  <2> QED BY <2>4, <2>5 DEF TypeInv
<1>6. CASE CopyName
  <2>1. at = "name" /\ Fits(left, Text(left, span.name)) /\ (InContext => ~inside)
    BY <1>2, <1>4, <1>6, TextFits DEF CopyName, Copy, Exhausted, InContext
  <2>2. [value EXCEPT !["name"] = span.name] \in SpanType
    BY <1>1, <1>4, ValueType
  <2>3. [value EXCEPT !["name"] = span.name].links = value.links
    BY <1>1 DEF SpanType
  <2> QED BY <1>3, <1>6, <2>1, <2>2, <2>3 DEF CopyName, Stages
<1>7. CASE CopyAttributes
  <2>1. /\ at = "attributes" /\ Fits(left, Attributes(left, span.attributes))
        /\ InContext => ~inside
    BY <1>2, <1>4, <1>7, AttributesFit DEF CopyAttributes, Copy, Exhausted, InContext
  <2>2. [value EXCEPT !["attributes"] = span.attributes] \in SpanType
    BY <1>1, <1>4, ValueType
  <2>3. [value EXCEPT !["attributes"] = span.attributes].links = value.links
    BY <1>1 DEF SpanType
  <2> QED BY <1>3, <1>7, <2>1, <2>2, <2>3 DEF CopyAttributes, Stages
<1>8. CASE CopyResource
  <2>1. /\ at = "resource" /\ Fits(left, ChargeResource(left, span.resource))
        /\ InContext => ~inside
    BY <1>2, <1>4, <1>8, ResourceFits DEF CopyResource, Copy, InContext
  <2>2. Detached(span.resource) \in [schema : Texts, attributes : Lists, nil : BOOLEAN]
    BY <1>4, EmptyAssumption DEF Detached, EmptyResource, NoResource
  <2>3. [value EXCEPT !["resource"] = Detached(span.resource)] \in SpanType
    BY <1>1, <2>2, ValueType
  <2>4. [value EXCEPT !["resource"] = Detached(span.resource)].links = value.links
    BY <1>1 DEF SpanType
  <2> QED BY <1>3, <1>8, <2>1, <2>3, <2>4 DEF CopyResource, Stages
<1>9. CASE CopyScope
  <2>1. /\ at = "scope" /\ Fits(left, ChargeScope(left, span.scope))
        /\ InContext => ~inside
    BY <1>2, <1>4, <1>9, ScopeFits DEF CopyScope, Copy, InContext
  <2>2. [value EXCEPT !["scope"] = span.scope] \in SpanType
    BY <1>1, <1>4, ValueType
  <2>3. [value EXCEPT !["scope"] = span.scope].links = value.links
    BY <1>1 DEF SpanType
  <2> QED BY <1>3, <1>9, <2>1, <2>2, <2>3 DEF CopyScope, Stages
<1>10. CASE CopyStatus
  <2>1. at = "status" /\ Fits(left, Text(left, span.status)) /\ (InContext => ~inside)
    BY <1>2, <1>4, <1>10, TextFits DEF CopyStatus, Copy, Exhausted, InContext
  <2>2. [value EXCEPT !["status"] = span.status] \in SpanType
    BY <1>1, <1>4, ValueType
  <2>3. [value EXCEPT !["status"] = span.status].links = value.links
    BY <1>1 DEF SpanType
  <2> QED BY <1>3, <1>10, <2>1, <2>2, <2>3 DEF CopyStatus, Stages
<1>11. CASE EnterEvents
  <2>1. Len(span.events) \in Nat /\ left \in Nat
    BY <1>1, <1>2, <1>11 DEF EnterEvents
  <2>2. Fits(left, Items(left, Len(span.events), 128))
    BY <2>1, SliceFits
  <2>3. /\ left' \in Int
        /\ left' >= Exhausted /\ (at' # "rejected" => left' >= 0)
        /\ at' \in {"event", "rejected"}
        /\ at' # "rejected" => left' <= left
    BY <1>11, <2>1, <2>2, ChargedKeeps DEF EnterEvents
  <2>4. at = "events" /\ UNCHANGED <<value, span, inside, entries, state>>
    BY <1>11 DEF EnterEvents, NotInContext
  <2>5. TypeOK'
    BY <2>3, <2>4 DEF TypeInv, TypeOK, Stages
  <2>6. Control'
    BY <2>1, <2>3, <2>4 DEF TypeInv, Control, TypeOK, InContext, spanEnvelopeLimit
  <2> QED BY <2>5, <2>6 DEF TypeInv
<1>12. CASE CopyEvent
  <2> DEFINE e == span.events[Len(value.events) + 1]
  <2>1. e \in Events /\ Shrinks("event") /\ left \in Nat
    BY <1>12, EventCharge
  <2>2. /\ at = "event" /\ value' = [value EXCEPT !.events = Append(value.events, e)]
        /\ UNCHANGED <<span, inside, entries, state>>
    BY <1>12, <1>1 DEF CopyEvent, NotInContext, SpanType
  <2> HIDE DEF e
  <2>3. Append(value.events, e) \in Seq(Events)
    BY <1>1, <2>1
  <2>4. value' \in SpanType
    BY <1>1, <2>2, <2>3, ValueType
  <2>5. value'.links = value.links
    BY <1>1, <2>2 DEF SpanType
  <2>6. TypeOK'
    BY <2>1, <2>2, <2>4 DEF Shrinks, TypeInv, TypeOK, Stages
  <2>7. Control'
    BY <2>1, <2>2, <2>5
    DEF Shrinks, TypeInv, Control, TypeOK, InContext, spanEnvelopeLimit
  <2> QED BY <2>6, <2>7 DEF TypeInv
<1>13. CASE EndEvents
  <2>1. /\ at = "event" /\ at' = "links"
        /\ UNCHANGED <<value, left, span, inside, entries, state>>
    BY <1>13 DEF EndEvents, NotInContext
  <2> QED BY <2>1 DEF TypeInv, TypeOK, Control, Stages, InContext
<1>14. CASE EnterLinks
  <2>1. Len(span.links) \in Nat /\ left \in Nat
    BY <1>1, <1>2, <1>14 DEF EnterLinks
  <2>2. Fits(left, Items(left, Len(span.links), 128))
    BY <2>1, SliceFits
  <2>3. /\ left' \in Int
        /\ left' >= Exhausted /\ (at' # "rejected" => left' >= 0)
        /\ at' \in {"link", "rejected"}
        /\ at' # "rejected" => left' <= left
    BY <1>14, <2>1, <2>2, ChargedKeeps DEF EnterLinks
  <2>4. at = "links" /\ UNCHANGED <<value, span, inside, entries, state>>
    BY <1>14 DEF EnterLinks, NotInContext
  <2>5. TypeOK'
    BY <2>3, <2>4 DEF TypeInv, TypeOK, Stages
  <2>6. Control'
    BY <2>1, <2>3, <2>4 DEF TypeInv, Control, TypeOK, InContext, spanEnvelopeLimit
  <2> QED BY <2>5, <2>6 DEF TypeInv
<1>15. CASE CopyLink
  <2> DEFINE k == [context |-> state, attributes |-> Link.attributes]
  <2>1. /\ at = "linkAttributes" /\ Shrinks("link") /\ left \in Nat
        /\ Len(value.links) < Len(span.links)
    BY <1>15, LinkCharge DEF CopyLink, TypeInv, Control
  <2>2. k \in Links
    BY <1>15, LinkCharge DEF TypeInv, TypeOK, Links
  <2>3. /\ value' = [value EXCEPT !.links = Append(value.links, k)]
        /\ UNCHANGED <<span, inside, entries, state>>
    BY <1>15, <1>1 DEF CopyLink, NotInContext, SpanType
  <2> HIDE DEF k
  <2>4. Append(value.links, k) \in Seq(Links)
    BY <1>1, <2>2
  <2>5. value' \in SpanType
    BY <1>1, <2>3, <2>4, ValueType
  <2>6. Len(value'.links) = Len(value.links) + 1
    <3>1. value'.links = Append(value.links, k)
      BY <1>1, <2>3 DEF SpanType
    <3> QED BY <1>1, <2>2, <3>1
  <2>7. ~inside
    BY <2>1 DEF TypeInv, Control, InContext, TypeOK
  <2>8. TypeOK'
    BY <2>1, <2>3, <2>5 DEF Shrinks, TypeInv, TypeOK, Stages
  <2>9. Control'
    BY <1>1, <2>1, <2>3, <2>6, <2>7
    DEF Shrinks, TypeInv, Control, TypeOK, InContext, spanEnvelopeLimit
  <2> QED BY <2>8, <2>9 DEF TypeInv
<1>16. CASE Return
  <2>1. /\ at = "link" /\ at' = "copied" /\ ~inside
        /\ UNCHANGED <<value, left, span, inside, entries, state>>
    BY <1>16 DEF Return, NotInContext
  <2> QED BY <2>1 DEF TypeInv, TypeOK, Control, Stages, InContext
<1>17. CASE EnterContext
  <2>1. Shrinks(at) /\ left \in Nat
    BY <1>17, ContextCharge
  <2>2. /\ InContext /\ (at = "link" => Len(value.links) < Len(span.links))
        /\ inside' = TRUE /\ entries' = <<>> /\ state' = <<>>
        /\ UNCHANGED <<span, value>>
    BY <1>17 DEF EnterContext
  <2>3. entries' \in Contexts /\ state' \in Contexts /\ inside' \in BOOLEAN
    BY <2>2 DEF Contexts
  <2>4. TypeOK'
    BY <2>1, <2>2, <2>3 DEF Shrinks, TypeInv, TypeOK, Stages
  <2>5. Control'
    BY <2>1, <2>2 DEF Shrinks, TypeInv, Control, TypeOK, InContext, spanEnvelopeLimit
  <2> QED BY <2>4, <2>5 DEF TypeInv
<1>18. CASE WalkEntry
  <2> DEFINE e == Source[Len(entries) + 1]
  <2>1. /\ InContext /\ inside /\ Shrinks(at) /\ left \in Nat
        /\ entries \in Seq(Entries) /\ e \in Entries
    BY <1>18, EntryCharge DEF WalkEntry
  <2>2. entries' = Append(entries, e) /\ UNCHANGED <<span, inside, state, value>>
    BY <1>18 DEF WalkEntry
  <2> HIDE DEF e
  <2>3. entries' \in Contexts
    BY <2>1, <2>2 DEF Contexts, Entries
  <2>4. TypeOK'
    BY <2>1, <2>2, <2>3 DEF Shrinks, TypeInv, TypeOK, Stages, InContext
  <2>5. Control'
    BY <2>1, <2>2 DEF Shrinks, TypeInv, Control, TypeOK, InContext, spanEnvelopeLimit
  <2> QED BY <2>4, <2>5 DEF TypeInv
<1>19. CASE InsertEntry
  <2> DEFINE e == entries[Len(entries) - Len(state)]
  <2>1. entries \in Seq(Entries) /\ state \in Seq(Entries)
    BY DEF TypeInv, TypeOK, Contexts, Entries
  <2>2. Len(entries) - Len(state) \in 1..Len(entries)
    BY <1>19, <2>1 DEF InsertEntry
  <2>3. e \in Entries
    BY <2>1, <2>2, ElementOfSeq
  <2>4. state' = <<e>> \o state /\ UNCHANGED <<span, at, inside, entries, value, left>>
    BY <1>19 DEF InsertEntry
  <2> HIDE DEF e
  <2>5. state' \in Contexts
    <3>1. <<e>> \in Seq(Entries)
      BY <2>3
    <3>2. <<e>> \o state \in Seq(Entries)
      BY <2>1, <3>1, ConcatProperties
    <3> QED BY <2>4, <3>2 DEF Contexts, Entries
  <2>6. TypeOK'
    BY <2>4, <2>5 DEF TypeInv, TypeOK
  <2>7. Control'
    BY <2>4 DEF TypeInv, Control, InContext
  <2> QED BY <2>6, <2>7 DEF TypeInv
<1>20. CASE ReturnContext
  <2>1. /\ InContext /\ inside /\ inside' = FALSE
        /\ UNCHANGED <<span, entries, state, left>>
    BY <1>20 DEF ReturnContext, Walked
  <2>2. /\ at = "context" => at' = "parent" /\ value' = [value EXCEPT !["context"] = state]
        /\ at = "parent" => at' = "attributes" /\ value' = [value EXCEPT !["parent"] = state]
        /\ at = "link" => at' = "linkAttributes" /\ value' = value
    BY <1>20 DEF ReturnContext
  <2>3. state \in Contexts
    BY DEF TypeInv, TypeOK
  <2>4. value' \in SpanType
    BY <1>1, <2>1, <2>2, <2>3, ValueType DEF InContext
  <2>5. value'.links = value.links
    BY <1>1, <2>1, <2>2 DEF SpanType, InContext
  <2>6. at' \in {"parent", "attributes", "linkAttributes"}
    BY <2>1, <2>2 DEF InContext
  <2>7. left >= 0 /\ inside' \in BOOLEAN
    BY <2>1 DEF InContext, TypeInv, TypeOK
  <2>8. TypeOK'
    BY <2>1, <2>4, <2>6, <2>7 DEF TypeInv, TypeOK, Stages
  <2>9. Control'
    BY <2>1, <2>2, <2>5, <2>6 DEF TypeInv, Control, InContext
  <2> QED BY <2>8, <2>9 DEF TypeInv
<1>21. CASE UNCHANGED vars
  BY <1>21 DEF vars, TypeInv, TypeOK, Control, InContext
<1> QED
  BY <1>5, <1>6, <1>7, <1>8, <1>9, <1>10, <1>11, <1>12, <1>13, <1>14, <1>15,
     <1>16, <1>17, <1>18, <1>19, <1>20, <1>21
  DEF Next, spanContext

LEMMA TypeInvariant == Spec => []TypeInv
BY TypeInit, TypeStep, PTL DEF Spec

(* Every variable keeps its type for every span; the budget never becomes   *)
(* negative before the span is rejected.                                    *)
THEOREM DetachedSpanTypeCorrect == Spec => []TypeOK
<1>1. TypeInv => TypeOK
  BY DEF TypeInv
<1> QED BY <1>1, TypeInvariant, PTL
-------------------------------------------------------------------------------
(* What has been spent does not become less as the budget shrinks.          *)
LEMMA SpentGrows ==
  ASSUME NEW p \in Int, NEW x \in Int, NEW y \in Int, NEW z \in Int,
         p <= x - y, z <= y
  PROVE  p <= x - z
  OBVIOUS

LEMMA PaidStep == TypeInv /\ AllocatedIsPaid /\ [Next]_vars => AllocatedIsPaid'
<1> SUFFICES ASSUME TypeInv, AllocatedIsPaid, [Next]_vars PROVE AllocatedIsPaid'
  OBVIOUS
<1>1. Len(span.events) \in Nat /\ Len(span.links) \in Nat
  BY SpansAssumption, SpanFields DEF TypeInv, TypeOK
<1> DEFINE n == Len(span.events)
           m == Len(span.links)
           After == {"event", "links", "link", "linkAttributes", "copied"}
           Last == {"link", "linkAttributes", "copied"}
<1>2. /\ at \in After => 128 * n <= spanEnvelopeLimit - left
      /\ at \in Last => 128 * (n + m) <= spanEnvelopeLimit - left
  BY DEF AllocatedIsPaid
<1>3. SUFFICES /\ at' \in After => 128 * n <= spanEnvelopeLimit - left'
               /\ at' \in Last => 128 * (n + m) <= spanEnvelopeLimit - left'
  <2>1. UNCHANGED span
    BY DEF Next, spanContext, vars, Call, CopyName, Copy, NotInContext,
           EnterContext, WalkEntry, InsertEntry, ReturnContext, CopyAttributes,
           CopyResource, CopyScope, CopyStatus, EnterEvents, CopyEvent,
           EndEvents, EnterLinks, CopyLink, Return
  <2> QED BY <2>1, <1>3 DEF AllocatedIsPaid
<1>4. n \in Nat /\ m \in Nat /\ left \in Int
      /\ (at # "rejected" => left >= 0 /\ left <= spanEnvelopeLimit)
      /\ spanEnvelopeLimit \in Nat
  BY <1>1 DEF TypeInv, TypeOK, Control, spanEnvelopeLimit
<1>5. CASE EnterEvents
  <2>1. left \in Nat
    BY <1>4, <1>5 DEF EnterEvents
  <2>2. /\ left' = Items(left, n, 128)
        /\ at' = IF left' = Exhausted THEN "rejected" ELSE "event"
    BY <1>5 DEF EnterEvents, Charged
  <2>3. Items(left, n, 128) # Exhausted => Items(left, n, 128) = left - 128 * n
    BY <1>4, <2>1, SliceFits
  <2>4. at' \in After => at' = "event" /\ left' = left - 128 * n
    BY <2>2, <2>3
  <2>5. at # "rejected"
    BY <1>5 DEF EnterEvents
  <2> HIDE DEF n, m
  <2> QED BY <1>4, <2>4, <2>5
<1>6. CASE EnterLinks
  <2>1. left \in Nat /\ at = "links"
    BY <1>4, <1>6 DEF EnterLinks
  <2>2. /\ left' = Items(left, m, 128)
        /\ at' = IF left' = Exhausted THEN "rejected" ELSE "link"
    BY <1>6 DEF EnterLinks, Charged
  <2>3. Items(left, m, 128) # Exhausted => Items(left, m, 128) = left - 128 * m
    BY <1>4, <2>1, SliceFits
  <2>4. at' \in After => at' = "link" /\ left' = left - 128 * m
    BY <2>2, <2>3
  <2> HIDE DEF n, m
  <2> QED BY <1>2, <1>4, <2>1, <2>4
<1>7. ASSUME left' \in Int, at' \in After => at \in After /\ left' <= left,
             at' \in Last => at \in Last
      PROVE  /\ at' \in After => 128 * n <= spanEnvelopeLimit - left'
             /\ at' \in Last => 128 * (n + m) <= spanEnvelopeLimit - left'
  <2> DEFINE p == 128 * n
             q == 128 * (n + m)
             L == spanEnvelopeLimit
  <2>1. p \in Int /\ q \in Int /\ L \in Int /\ left \in Int
    BY <1>4
  <2>2. (at \in After => p <= L - left) /\ (at \in Last => q <= L - left)
    BY <1>2
  <2>3. Last \subseteq After
    OBVIOUS
  <2> HIDE DEF p, q, L, After, Last
  <2>4. at' \in After => p <= L - left'
    BY <1>7, <2>1, <2>2, SpentGrows
  <2>5. at' \in Last => q <= L - left'
    BY <1>7, <2>1, <2>2, <2>3, SpentGrows
  <2> QED BY <2>4, <2>5 DEF p, q, L
<1>8. CASE CopyEvent \/ CopyLink
  <2>1. \/ Shrinks("event") /\ at = "event"
        \/ Shrinks("link") /\ at = "linkAttributes"
    BY <1>8, EventCharge, LinkCharge DEF CopyEvent, CopyLink
  <2> QED BY <1>7, <2>1 DEF Shrinks
<1>9. CASE EnterContext \/ WalkEntry
  <2>1. Shrinks(at)
    BY <1>9, ContextCharge, EntryCharge
  <2> QED BY <1>7, <2>1 DEF Shrinks
<1>10. CASE ReturnContext
  <2>1. /\ InContext /\ left' = left
        /\ at' \in {"parent", "attributes", "linkAttributes"}
        /\ at' = "linkAttributes" => at = "link"
    BY <1>10 DEF ReturnContext, Walked, InContext
  <2> HIDE DEF n, m
  <2> QED BY <1>2, <2>1
<1>11. CASE EndEvents \/ Return \/ InsertEntry \/ UNCHANGED vars
  <2>1. /\ left' = left
        /\ \/ at' = at
           \/ at = "event" /\ at' = "links"
           \/ at = "link" /\ at' = "copied"
    BY <1>11 DEF EndEvents, Return, InsertEntry, vars
  <2> HIDE DEF n, m
  <2> QED BY <1>2, <2>1
<1>12. CASE Call \/ CopyName \/ CopyAttributes \/ CopyResource \/ CopyScope \/ CopyStatus
  <2>1. at' \in {"name", "context", "resource", "scope", "status", "events", "rejected"}
    BY <1>12 DEF Call, CopyName, CopyAttributes, CopyResource, CopyScope,
                 CopyStatus, Copy, Charged
  <2> QED BY <2>1
<1> QED
  BY <1>5, <1>6, <1>7, <1>8, <1>9, <1>10, <1>11, <1>12 DEF Next, spanContext

(* Whatever a span holds, its slices are allocated only after their charge. *)
THEOREM AllocationIsPaid == Spec => []AllocatedIsPaid
<1>1. Init => AllocatedIsPaid
  BY DEF Init, AllocatedIsPaid
<1>2. TypeInv /\ AllocatedIsPaid /\ [Next]_vars => AllocatedIsPaid'
  BY PaidStep
<1> QED BY <1>1, <1>2, TypeInvariant, PTL DEF Spec
-------------------------------------------------------------------------------
(* The copy of a trace state, whose entries go in from the last to the first. *)
Ends(s, t) == /\ Len(s) <= Len(t)
              /\ \A i \in 1..Len(s) : s[i] = t[Len(t) - Len(s) + i]

LEMMA EndsGrows ==
  ASSUME NEW S, NEW s \in Seq(S), NEW t \in Seq(S), Len(s) < Len(t), Ends(s, t)
  PROVE  Ends(<<t[Len(t) - Len(s)]>> \o s, t)
<1> DEFINE e == t[Len(t) - Len(s)]
           r == <<e>> \o s
<1>1. e \in S /\ Len(s) \in Nat /\ Len(t) \in Nat
  BY ElementOfSeq
<1>2. <<e>> \in Seq(S) /\ Len(<<e>>) = 1 /\ <<e>>[1] = e
  BY <1>1
<1> HIDE DEF e
<1>3. Len(r) = Len(s) + 1 /\ r[1] = e
      /\ \A i \in 1..Len(r) : i > 1 => r[i] = s[i - 1]
  BY <1>1, <1>2, ConcatProperties
<1>4. ASSUME NEW i \in 1..Len(r) PROVE r[i] = t[Len(t) - Len(r) + i]
  <2> HIDE DEF r
  <2>1. CASE i = 1
    <3>1. Len(t) - Len(r) + 1 = Len(t) - Len(s)
      BY <1>1, <1>3
    <3> QED BY <1>3, <2>1, <3>1 DEF e
  <2>2. CASE i > 1
    <3>1. i - 1 \in 1..Len(s)
      BY <1>1, <1>3, <2>2
    <3>2. s[i - 1] = t[Len(t) - Len(s) + (i - 1)]
      BY <3>1 DEF Ends
    <3>3. Len(t) - Len(s) + (i - 1) = Len(t) - Len(r) + i
      BY <1>1, <1>3
    <3> QED BY <1>3, <2>2, <3>2, <3>3
  <2> QED BY <2>1, <2>2
<1>5. Len(r) <= Len(t)
  BY <1>1, <1>3
<1> QED BY <1>4, <1>5 DEF Ends, e

LEMMA EndsIsWhole ==
  ASSUME NEW S, NEW s \in Seq(S), NEW t \in Seq(S), Len(s) = Len(t), Ends(s, t)
  PROVE  s = t
<1>1. ASSUME NEW i \in 1..Len(s) PROVE s[i] = t[i]
  <2>1. Len(t) - Len(s) + i = i
    OBVIOUS
  <2> QED BY <2>1 DEF Ends
<1> QED BY <1>1, SeqEqual

LEMMA EmptyIsBoth ==
  ASSUME NEW S, NEW t \in Seq(S)
  PROVE  Pre(<<>>, t) /\ Ends(<<>>, t)
BY DEF Pre, Ends
-------------------------------------------------------------------------------
(* Each field is the span's from the stage that follows its copy.           *)
Early == {"called", "name", "rejected"}
FieldsExact ==
  /\ at \notin Early => value.name = span.name
  /\ at \notin Early \cup {"context"} => value.context = span.context
  /\ at \notin Early \cup {"context", "parent"} => value.parent = span.parent
  /\ at \notin Early \cup {"context", "parent", "attributes"} =>
       value.attributes = span.attributes
  /\ at \notin Early \cup {"context", "parent", "attributes", "resource"} =>
       value.resource = Detached(span.resource)
  /\ at \notin Early \cup {"context", "parent", "attributes", "resource", "scope"} =>
       value.scope = span.scope
  /\ at \notin Early \cup {"context", "parent", "attributes", "resource", "scope",
                           "status"} => value.status = span.status

ListsExact ==
  /\ Pre(value.events, span.events) /\ Pre(value.links, span.links)
  /\ at \in {"links", "link", "linkAttributes", "copied"} =>
       Len(value.events) = Len(span.events)
  /\ at = "copied" => Len(value.links) = Len(span.links)

WalkExact ==
  /\ InContext /\ inside =>
       /\ Pre(entries, Source) /\ Ends(state, entries)
       /\ Len(entries) < Len(Source) => state = <<>>
  /\ at = "linkAttributes" => state = Link.context

ExactInv == FieldsExact /\ ListsExact /\ WalkExact

LEMMA ExactInit == Init => ExactInv
<1> SUFFICES ASSUME Init PROVE ExactInv
  OBVIOUS
<1>1. span.events \in Seq(Events) /\ span.links \in Seq(Links)
  BY SpansAssumption, SpanFields DEF Init
<1>2. value.events = <<>> /\ value.links = <<>> /\ at = "called"
  BY DEF Init
<1>3. Pre(value.events, span.events) /\ Pre(value.links, span.links)
  BY <1>1, <1>2, EmptyIsBoth
<1> QED BY <1>2, <1>3 DEF ExactInv, FieldsExact, ListsExact, WalkExact, InContext, Early

LEMMA FieldReplaced ==
  ASSUME NEW v \in SpanType, NEW x
  PROVE  /\ \A f \in {"name", "context", "parent", "attributes", "resource", "scope",
                      "status", "events", "links"} :
              LET r == [v EXCEPT ![f] = x]
              IN  /\ r.name = IF f = "name" THEN x ELSE v.name
                  /\ r.context = IF f = "context" THEN x ELSE v.context
                  /\ r.parent = IF f = "parent" THEN x ELSE v.parent
                  /\ r.attributes = IF f = "attributes" THEN x ELSE v.attributes
                  /\ r.resource = IF f = "resource" THEN x ELSE v.resource
                  /\ r.scope = IF f = "scope" THEN x ELSE v.scope
                  /\ r.status = IF f = "status" THEN x ELSE v.status
                  /\ r.events = IF f = "events" THEN x ELSE v.events
                  /\ r.links = IF f = "links" THEN x ELSE v.links
BY DEF SpanType
(* The trace state that has been rebuilt is the one spanContext was given.  *)
LEMMA RebuiltIsSource ==
  ASSUME TypeInv, WalkExact, ReturnContext
  PROVE  state = Source
<1>1. InContext /\ inside /\ Len(entries) = Len(Source) /\ Len(state) = Len(entries)
  BY DEF ReturnContext, Walked
<1>2. /\ Source \in Seq(Entries) /\ entries \in Seq(Entries) /\ state \in Seq(Entries)
  BY <1>1, SourceType DEF Contexts, Entries, TypeInv, TypeOK, Control
<1>3. entries = Source
  BY <1>1, <1>2, PreIsWhole DEF WalkExact
<1>4. state = entries
  BY <1>1, <1>2, EndsIsWhole DEF WalkExact
<1> QED BY <1>3, <1>4

(* What each step does to the stage and to the fields of the copy.          *)
LEMMA FieldsStep == TypeInv /\ ExactInv /\ [Next]_vars => FieldsExact'
<1> SUFFICES ASSUME TypeInv, ExactInv, [Next]_vars PROVE FieldsExact'
  OBVIOUS
<1>1. value \in SpanType /\ FieldsExact
  BY DEF TypeInv, TypeOK, ExactInv
<1>2. ASSUME NEW field \in {"name", "attributes", "resource", "scope", "status"},
             NEW b, NEW v, NEW next, Copy(field, b, v, next),
             \/ field = "name" /\ v = span.name /\ next = "context"
             \/ field = "attributes" /\ v = span.attributes /\ next = "resource"
             \/ field = "resource" /\ v = Detached(span.resource) /\ next = "scope"
             \/ field = "scope" /\ v = span.scope /\ next = "status"
             \/ field = "status" /\ v = span.status /\ next = "events"
      PROVE  FieldsExact'
  <2>1. /\ at = field /\ at' \in {next, "rejected"} /\ span' = span
        /\ value' = [value EXCEPT ![field] = v]
    BY <1>2 DEF Copy, Charged, NotInContext
  <2> DEFINE r == [value EXCEPT ![field] = v]
  <2>2. /\ r.name = IF field = "name" THEN v ELSE value.name
        /\ r.context = value.context /\ r.parent = value.parent
        /\ r.attributes = IF field = "attributes" THEN v ELSE value.attributes
        /\ r.resource = IF field = "resource" THEN v ELSE value.resource
        /\ r.scope = IF field = "scope" THEN v ELSE value.scope
        /\ r.status = IF field = "status" THEN v ELSE value.status
    BY <1>1, FieldReplaced
  <2>3. value' = r
    BY <2>1
  <2> HIDE DEF r
  <2>4. Detached(span'.resource) = Detached(span.resource)
    BY <2>1
  <2> QED BY <1>1, <1>2, <2>1, <2>2, <2>3, <2>4 DEF FieldsExact, Early
<1>3. CASE CopyName
  BY <1>2, <1>3 DEF CopyName
<1>4. CASE CopyAttributes
  BY <1>2, <1>4 DEF CopyAttributes
<1>5. CASE CopyResource
  BY <1>2, <1>5 DEF CopyResource
<1>6. CASE CopyScope
  BY <1>2, <1>6 DEF CopyScope
<1>7. CASE CopyStatus
  BY <1>2, <1>7 DEF CopyStatus
<1>8. CASE ReturnContext
  <2>1. state = Source /\ span' = span /\ InContext
    BY <1>8, RebuiltIsSource DEF ExactInv, ReturnContext, Walked
  <2>2. CASE at = "link"
    <3>1. value' = value /\ at' = "linkAttributes"
      BY <1>8, <2>2 DEF ReturnContext
    <3> QED BY <1>1, <2>1, <2>2, <3>1 DEF FieldsExact, Early
  <2>3. CASE at \in {"context", "parent"}
    <3>1. /\ value' = [value EXCEPT ![at] = state]
          /\ at' = IF at = "context" THEN "parent" ELSE "attributes"
          /\ state = IF at = "context" THEN span.context ELSE span.parent
      BY <1>8, <2>1, <2>3 DEF ReturnContext, Source
    <3>2. /\ value'.name = value.name
          /\ value'.context = IF at = "context" THEN state ELSE value.context
          /\ value'.parent = IF at = "parent" THEN state ELSE value.parent
      BY <1>1, <2>3, <3>1, FieldReplaced
    <3> QED BY <1>1, <2>1, <2>3, <3>1, <3>2 DEF FieldsExact, Early
  <2> QED BY <2>1, <2>2, <2>3 DEF InContext
<1>9. CASE Call
  <2>1. at' \in {"name", "rejected"}
    BY <1>9 DEF Call, Charged
  <2> QED BY <2>1 DEF FieldsExact, Early
<1>10. ASSUME span' = span,
              at' \in {at, "rejected"} \/ (at \notin Early \cup {"context", "parent",
                 "attributes", "resource", "scope", "status"}),
              \/ value' = value
              \/ \E x : value' = [value EXCEPT !["events"] = x]
              \/ \E x : value' = [value EXCEPT !["links"] = x]
       PROVE  FieldsExact'
  <2>1. /\ value'.name = value.name /\ value'.context = value.context
        /\ value'.parent = value.parent /\ value'.attributes = value.attributes
        /\ value'.resource = value.resource /\ value'.scope = value.scope
        /\ value'.status = value.status
    BY <1>1, <1>10, FieldReplaced
  <2> QED BY <1>1, <1>10, <2>1 DEF FieldsExact, Early
<1>11. CASE EnterContext \/ WalkEntry
  <2>1. at' \in {at, "rejected"} /\ span' = span /\ value' = value
    BY <1>11 DEF EnterContext, WalkEntry, Charged
  <2> QED BY <1>10, <2>1
<1>12. CASE InsertEntry \/ UNCHANGED vars
  <2>1. at' = at /\ span' = span /\ value' = value
    BY <1>12 DEF InsertEntry, vars
  <2> QED BY <1>10, <2>1
<1>13. CASE EnterEvents \/ EndEvents \/ EnterLinks \/ Return
  <2>1. /\ at \in {"events", "event", "links", "link"}
        /\ span' = span /\ value' = value
    BY <1>13 DEF EnterEvents, EndEvents, EnterLinks, Return, NotInContext
  <2> QED BY <1>10, <2>1 DEF Early
<1>14. CASE CopyEvent
  <2>1. /\ at = "event" /\ span' = span
        /\ \E x : value' = [value EXCEPT !["events"] = x]
    BY <1>14 DEF CopyEvent, NotInContext
  <2> QED BY <1>10, <2>1 DEF Early
<1>15. CASE CopyLink
  <2>1. /\ at = "linkAttributes" /\ span' = span
        /\ \E x : value' = [value EXCEPT !["links"] = x]
    BY <1>15 DEF CopyLink, NotInContext
  <2> QED BY <1>10, <2>1 DEF Early
<1> QED
  BY <1>3, <1>4, <1>5, <1>6, <1>7, <1>8, <1>9, <1>11, <1>12, <1>13, <1>14, <1>15
  DEF Next, spanContext

LEMMA ListsStep == TypeInv /\ ExactInv /\ [Next]_vars => ListsExact'
<1> SUFFICES ASSUME TypeInv, ExactInv, [Next]_vars PROVE ListsExact'
  OBVIOUS
<1>1. value \in SpanType /\ span \in SpanType /\ ListsExact
  BY SpansAssumption DEF TypeInv, TypeOK, ExactInv
<1>2. /\ span.events \in Seq(Events) /\ value.events \in Seq(Events)
      /\ span.links \in Seq(Links) /\ value.links \in Seq(Links)
  BY <1>1, SpanFields
<1>3. ASSUME span' = span, value'.events = value.events, value'.links = value.links,
             at' \in {"links", "link", "linkAttributes", "copied"} =>
               \/ at \in {"links", "link", "linkAttributes", "copied"}
               \/ Len(value.events) = Len(span.events),
             at' = "copied" => at = "copied" \/ Len(value.links) = Len(span.links)
      PROVE  ListsExact'
  BY <1>1, <1>3 DEF ListsExact
<1>4. CASE CopyEvent
  <2> DEFINE e == span.events[Len(value.events) + 1]
  <2>1. /\ at = "event" /\ span' = span /\ at' \in {"event", "rejected"}
        /\ Len(value.events) < Len(span.events)
        /\ value' = [value EXCEPT !["events"] = Append(value.events, e)]
    BY <1>1, <1>4 DEF CopyEvent, NotInContext, Charged, SpanType
  <2>2. Pre(Append(value.events, e), span.events)
    BY <1>1, <1>2, <2>1, PreGrows DEF ListsExact
  <2>3. value'.events = Append(value.events, e) /\ value'.links = value.links
    BY <1>1, <2>1, FieldReplaced
  <2> HIDE DEF e
  <2> QED BY <1>1, <2>1, <2>2, <2>3 DEF ListsExact
<1>5. CASE CopyLink
  <2> DEFINE k == [context |-> state, attributes |-> Link.attributes]
  <2>1. /\ at = "linkAttributes" /\ span' = span /\ at' \in {"link", "rejected"}
        /\ value' = [value EXCEPT !["links"] = Append(value.links, k)]
    BY <1>1, <1>5 DEF CopyLink, NotInContext, Charged, SpanType
  <2>2. Len(value.links) < Len(span.links) /\ Link \in Links
    BY <2>1, LinkType DEF TypeInv, Control
  <2>3. k = Link
    <3>1. state = Link.context
      BY <2>1 DEF ExactInv, WalkExact
    <3> QED BY <2>2, <3>1 DEF Links
  <2>4. Pre(Append(value.links, k), span.links)
    BY <1>1, <1>2, <2>2, <2>3, PreGrows DEF ListsExact, Link
  <2>5. value'.links = Append(value.links, k) /\ value'.events = value.events
    BY <1>1, <2>1, FieldReplaced
  <2> HIDE DEF k
  <2> QED BY <1>1, <2>1, <2>4, <2>5 DEF ListsExact
<1>6. ASSUME NEW field \in {"name", "attributes", "resource", "scope", "status"},
             NEW b, NEW v,
             NEW next \in {"context", "resource", "scope", "status", "events"},
             Copy(field, b, v, next)
      PROVE  ListsExact'
  <2>1. /\ at' \in {next, "rejected"} /\ span' = span
        /\ value' = [value EXCEPT ![field] = v]
    BY <1>6 DEF Copy, Charged, NotInContext
  <2>2. value'.events = value.events /\ value'.links = value.links
    BY <1>1, <2>1, FieldReplaced
  <2> QED BY <1>3, <2>1, <2>2
<1>7. CASE CopyName \/ CopyAttributes \/ CopyResource \/ CopyScope \/ CopyStatus
  BY <1>6, <1>7 DEF CopyName, CopyAttributes, CopyResource, CopyScope, CopyStatus
<1>8. CASE ReturnContext
  <2>1. /\ span' = span /\ InContext
        /\ at' = IF at = "context" THEN "parent"
                 ELSE IF at = "parent" THEN "attributes" ELSE "linkAttributes"
        /\ \/ value' = value
           \/ at \in {"context", "parent"} /\ value' = [value EXCEPT ![at] = state]
    BY <1>8 DEF ReturnContext, Walked, InContext
  <2>2. value'.events = value.events /\ value'.links = value.links
    BY <1>1, <2>1, FieldReplaced
  <2> QED BY <1>3, <2>1, <2>2 DEF InContext
<1>9. CASE EnterContext \/ WalkEntry \/ InsertEntry \/ UNCHANGED vars
  <2>1. at' \in {at, "rejected"} /\ span' = span /\ value' = value
    BY <1>9 DEF EnterContext, WalkEntry, InsertEntry, Charged, vars
  <2> QED BY <1>3, <2>1
<1>10. CASE Call \/ EnterEvents \/ EnterLinks
  <2>1. /\ span' = span /\ value' = value
        /\ \/ at' \in {"name", "event", "rejected"}
           \/ at = "links" /\ at' = "link"
    <3>1. CASE Call
      BY <3>1 DEF Call, NotInContext, Charged
    <3>2. CASE EnterEvents
      BY <3>2 DEF EnterEvents, NotInContext, Charged
    <3>3. CASE EnterLinks
      BY <3>3 DEF EnterLinks, NotInContext, Charged
    <3> QED BY <1>10, <3>1, <3>2, <3>3
  <2> QED BY <1>3, <2>1
<1>11. CASE EndEvents \/ Return
  <2>1. /\ span' = span /\ value' = value
        /\ \/ at' = "links" /\ Len(value.events) = Len(span.events)
           \/ at = "link" /\ at' = "copied" /\ Len(value.links) = Len(span.links)
    BY <1>11 DEF EndEvents, Return, NotInContext
  <2> QED BY <1>3, <2>1
<1> QED
  BY <1>4, <1>5, <1>7, <1>8, <1>9, <1>10, <1>11 DEF Next, spanContext

LEMMA WalkStep == TypeInv /\ ExactInv /\ [Next]_vars => WalkExact'
<1> SUFFICES ASSUME TypeInv, ExactInv, [Next]_vars PROVE WalkExact'
  OBVIOUS
<1>1. entries \in Seq(Entries) /\ state \in Seq(Entries) /\ WalkExact
  BY DEF TypeInv, TypeOK, Contexts, Entries, ExactInv
<1>2. CASE EnterContext
  <2>1. /\ InContext /\ (at = "link" => Len(value.links) < Len(span.links))
        /\ entries' = <<>> /\ state' = <<>> /\ at' \in {at, "rejected"}
        /\ UNCHANGED <<span, value>>
    BY <1>2 DEF EnterContext, Charged
  <2>2. Source \in Seq(Entries)
    BY <2>1, SourceType DEF Contexts, Entries
  <2>3. Pre(<<>>, Source) /\ Ends(<<>>, <<>>)
    <3>1. Pre(<<>>, Source)
      BY <2>2, EmptyIsBoth
    <3>2. <<>> \in Seq(Entries)
      OBVIOUS
    <3>3. Ends(<<>>, <<>>)
      BY <3>2, EmptyIsBoth
    <3> QED BY <3>1, <3>3
  <2>4. at' # "linkAttributes"
    BY <2>1 DEF InContext
  <2>5. InContext' => Source' = Source
    BY <2>1 DEF InContext, Source, Link
  <2> QED BY <2>1, <2>3, <2>4, <2>5 DEF WalkExact
<1>3. CASE WalkEntry
  <2> DEFINE e == Source[Len(entries) + 1]
  <2>1. /\ InContext /\ inside /\ Len(entries) < Len(Source)
        /\ entries' = Append(entries, e) /\ at' \in {at, "rejected"}
        /\ UNCHANGED <<span, inside, state, value>>
    BY <1>3 DEF WalkEntry, Charged
  <2>2. Source \in Seq(Entries) /\ e \in Entries
    BY <1>3, EntryCharge
  <2>3. Pre(entries', Source) /\ entries' \in Seq(Entries)
    BY <1>1, <2>1, <2>2, PreGrows DEF WalkExact
  <2>4. state' = <<>> /\ Ends(state', entries')
    BY <1>1, <2>1, <2>3, EmptyIsBoth DEF WalkExact
  <2>5. at' # "linkAttributes"
    BY <2>1 DEF InContext
  <2>6. InContext' => Source' = Source
    BY <2>1 DEF InContext, Source, Link
  <2> QED BY <2>3, <2>4, <2>5, <2>6 DEF WalkExact
<1>4. CASE InsertEntry
  <2>1. /\ InContext /\ inside /\ Len(entries) = Len(Source)
        /\ Len(state) < Len(entries)
        /\ state' = <<entries[Len(entries) - Len(state)]>> \o state
        /\ UNCHANGED <<span, at, inside, entries, value>>
    BY <1>4 DEF InsertEntry, Walked
  <2>2. Ends(state', entries)
    BY <1>1, <2>1, EndsGrows DEF WalkExact
  <2>3. Source' = Source /\ Pre(entries, Source)
    BY <1>1, <2>1 DEF WalkExact, Source, Link
  <2>4. ~(Len(entries) < Len(Source))
    BY <1>1, <2>1
  <2>5. at' # "linkAttributes"
    BY <2>1 DEF InContext
  <2> QED BY <2>1, <2>2, <2>3, <2>4, <2>5 DEF WalkExact
<1>5. CASE ReturnContext
  <2>1. state = Source /\ inside' = FALSE /\ InContext /\ UNCHANGED <<span, state>>
    BY <1>5, RebuiltIsSource DEF ExactInv, ReturnContext, Walked
  <2>2. at' = "linkAttributes" => at = "link" /\ value' = value
    BY <1>5 DEF ReturnContext, Walked, InContext
  <2> QED BY <2>1, <2>2 DEF WalkExact, Source, Link
<1>6. CASE UNCHANGED vars
  BY <1>1, <1>6 DEF vars, WalkExact, InContext, Source, Link
<1>7. ASSUME ~inside', at' # "linkAttributes" PROVE WalkExact'
  BY <1>7 DEF WalkExact
<1>8. CASE Next /\ ~spanContext
  <2>1. at # "rejected" /\ (~InContext \/ (at = "link" /\ ~inside))
    BY <1>8 DEF Next, Call, CopyName, Copy, CopyAttributes, CopyResource, CopyScope,
      CopyStatus, EnterEvents, CopyEvent, EndEvents, EnterLinks, CopyLink, Return,
      InContext
  <2>2. ~inside /\ inside' = inside
    <3>1. ~inside
      BY <2>1 DEF TypeInv, TypeOK, Control
    <3>2. inside' = inside
      BY <1>8 DEF Next, Call, CopyName, Copy, CopyAttributes, CopyResource, CopyScope,
        CopyStatus, EnterEvents, CopyEvent, EndEvents, EnterLinks, CopyLink, Return,
        NotInContext
    <3> QED BY <3>1, <3>2
  <2>3. at' # "linkAttributes"
    BY <1>8 DEF Next, Call, CopyName, Copy, CopyAttributes, CopyResource, CopyScope,
      CopyStatus, EnterEvents, CopyEvent, EndEvents, EnterLinks, CopyLink, Return,
      Charged
  <2> QED BY <1>7, <2>2, <2>3
<1> QED
  BY <1>2, <1>3, <1>4, <1>5, <1>6, <1>8 DEF spanContext

LEMMA ExactInvariant == Spec => []ExactInv
<1>1. TypeInv /\ ExactInv /\ [Next]_vars => ExactInv'
  BY FieldsStep, ListsStep, WalkStep DEF ExactInv
<1> QED BY <1>1, ExactInit, TypeInvariant, PTL DEF Spec

(* A span that is not rejected is handed on as it was: no field, event,     *)
(* link or entry of a trace state is lost, changed or moved.                *)
THEOREM CopyOfSpanIsExact == Spec => []CopyIsExact
<1>1. TypeInv /\ ExactInv => CopyIsExact
  <2> SUFFICES ASSUME TypeInv, ExactInv, at = "copied"
               PROVE  value = [span EXCEPT !.resource = Detached(span.resource)]
    BY SpansAssumption DEF CopyIsExact, SpanType, TypeInv, TypeOK
  <2> DEFINE r == [span EXCEPT !["resource"] = Detached(span.resource)]
  <2>1. value \in SpanType /\ span \in SpanType
    BY SpansAssumption DEF TypeInv, TypeOK
  <2>2. Detached(span.resource) \in [schema : Texts, attributes : Lists, nil : BOOLEAN]
    BY <2>1, SpanFields, EmptyAssumption DEF Detached, EmptyResource, NoResource
  <2>3. r \in SpanType
    BY <2>1, <2>2, ValueType
  <2>4. /\ value.name = span.name /\ value.context = span.context
        /\ value.parent = span.parent /\ value.attributes = span.attributes
        /\ value.resource = Detached(span.resource)
        /\ value.scope = span.scope /\ value.status = span.status
    BY DEF ExactInv, FieldsExact, Early
  <2>5. value.events = span.events /\ value.links = span.links
    BY <2>1, SpanFields, PreIsWhole DEF ExactInv, ListsExact
  <2>6. /\ r.name = span.name /\ r.context = span.context /\ r.parent = span.parent
        /\ r.attributes = span.attributes /\ r.resource = Detached(span.resource)
        /\ r.scope = span.scope /\ r.status = span.status
        /\ r.events = span.events /\ r.links = span.links
    BY <2>1, FieldReplaced
  <2> HIDE DEF r
  <2>7. value = r
    BY <2>1, <2>3, <2>4, <2>5, <2>6, SpanIsRecord
  <2> QED BY <2>7 DEF r
<1> QED BY <1>1, TypeInvariant, ExactInvariant, PTL
-------------------------------------------------------------------------------
LEMMA TextPays ==
  ASSUME NEW b \in Int, b >= Exhausted, NEW t \in Texts
  PROVE  Bytes(t) \in Nat /\ Exact(b, Text(b, t), Bytes(t), t.valid)
BY TextsAssumption DEF Text, Take, Pays, Exact, Bytes, Exhausted

LEMMA AttributesPay ==
  ASSUME NEW b \in Int, b >= Exhausted, NEW a \in Lists
  PROVE  a.cost \in Nat /\ Exact(b, Attributes(b, a), a.cost, a.valid)
BY ListsAssumption DEF Attributes, Pays, Exact, Exhausted

(* No charge succeeds after one that failed.                                *)
LEMMA NothingAfterExhausted ==
  /\ \A t \in Texts : Text(Exhausted, t) = Exhausted
  /\ \A a \in Lists : Attributes(Exhausted, a) = Exhausted
<1>1. ASSUME NEW t \in Texts PROVE Text(Exhausted, t) = Exhausted
  BY TextsAssumption DEF Text, Exhausted
<1>2. ASSUME NEW a \in Lists PROVE Attributes(Exhausted, a) = Exhausted
  BY ListsAssumption DEF Attributes, Exhausted
<1> QED BY <1>1, <1>2

(* A text, and a list, charged after something else.                        *)
LEMMA TextOn ==
  ASSUME NEW b \in Int, b >= Exhausted, NEW c \in Nat, NEW t \in Texts
  PROVE  /\ c + Bytes(t) \in Nat
         /\ t.valid => Text(Pays(b, c), t) = Pays(b, c + Bytes(t))
         /\ ~t.valid => Text(Pays(b, c), t) = Exhausted
<1> DEFINE p == Pays(b, c)
<1>1. p \in Int /\ p >= Exhausted
  BY PaysType
<1>2. Pays(p, Bytes(t)) = Pays(b, c + Bytes(t))
  BY TextPays, PaysOn
<1> HIDE DEF p
<1>3. Bytes(t) \in Nat /\ Exact(p, Text(p, t), Bytes(t), t.valid)
  BY <1>1, TextPays
<1> QED BY <1>2, <1>3 DEF Exact, p

LEMMA AttributesOn ==
  ASSUME NEW b \in Int, b >= Exhausted, NEW c \in Nat, NEW a \in Lists
  PROVE  /\ c + a.cost \in Nat
         /\ a.valid => Attributes(Pays(b, c), a) = Pays(b, c + a.cost)
         /\ ~a.valid => Attributes(Pays(b, c), a) = Exhausted
<1> DEFINE p == Pays(b, c)
<1>1. p \in Int /\ p >= Exhausted
  BY PaysType
<1>2. a.cost \in Nat
  BY ListsAssumption
<1>3. Pays(p, a.cost) = Pays(b, c + a.cost)
  BY <1>2, PaysOn
<1> HIDE DEF p
<1>4. Exact(p, Attributes(p, a), a.cost, a.valid)
  BY <1>1, AttributesPay
<1> QED BY <1>2, <1>3, <1>4 DEF Exact, p

LEMMA ResourcePays ==
  ASSUME NEW b \in Nat,
         NEW r \in [schema : Texts, attributes : Lists, nil : BOOLEAN]
  PROVE  /\ ResourceCost(r) \in Nat
         /\ Exact(b, ChargeResource(b, r), ResourceCost(r), ResourceIsSound(r))
<1> DEFINE a == r.attributes
           t == r.schema
           b2 == Take(b, 128)
           b3 == Text(b2, t)
<1>1. a \in Lists /\ t \in Texts /\ Bytes(t) \in Nat
  BY TextPays DEF Exhausted
<1>2. a.count \in Nat /\ a.cost \in Nat /\ a.cost >= 64 * a.count
  BY ListsAssumption
<1>3. b2 = Pays(b, 128) /\ b2 \in Int /\ b2 >= Exhausted
  BY TakePays, TakeBounds DEF Exhausted
<1>4. CASE r.nil
  <2>1. ChargeResource(b, r) = b /\ ResourceCost(r) = 0 /\ ResourceIsSound(r)
    BY <1>4 DEF ChargeResource, ResourceCost, ResourceIsSound
  <2> QED BY <2>1 DEF Exact, Pays
<1>5. CASE ~r.nil
  <2>1. /\ ResourceCost(r) = 128 + Bytes(t) + a.cost
        /\ ResourceIsSound(r) <=> t.valid /\ a.valid
    BY <1>5 DEF ResourceCost, ResourceIsSound
  <2>2. CASE a.count > b2 \div 64
    <3>1. ChargeResource(b, r) = Exhausted
      BY <1>5, <2>2 DEF ChargeResource
    <3> HIDE DEF a, t, b2
    <3>2. a.cost > b2
      BY <1>2, <1>3, <2>2
    <3>3. 128 + Bytes(t) + a.cost > b
      BY <1>1, <1>2, <1>3, <3>2 DEF Pays, Exhausted
    <3> QED BY <1>1, <1>2, <2>1, <3>1, <3>3 DEF Exact, Pays
  <2>3. CASE ~(a.count > b2 \div 64)
    <3>1. ChargeResource(b, r) = Attributes(b3, a)
      BY <1>5, <2>3 DEF ChargeResource
    <3> HIDE DEF a, t, b2
    <3>2. /\ t.valid => b3 = Pays(b, 128 + Bytes(t))
          /\ ~t.valid => b3 = Exhausted
      BY <1>1, <1>3, TextOn DEF Exhausted
    <3> HIDE DEF b3
    <3>3. 128 + Bytes(t) \in Nat
      BY <1>1
    <3>4. CASE t.valid
      <4>1. /\ a.valid => Attributes(b3, a) = Pays(b, (128 + Bytes(t)) + a.cost)
            /\ ~a.valid => Attributes(b3, a) = Exhausted
        BY <1>1, <3>2, <3>3, <3>4, AttributesOn DEF Exhausted
      <4> QED BY <1>1, <1>2, <2>1, <3>1, <3>4, <4>1 DEF Exact
    <3>5. CASE ~t.valid
      BY <1>1, <1>2, <2>1, <3>1, <3>2, <3>5, NothingAfterExhausted DEF Exact
    <3> QED BY <3>4, <3>5
  <2> QED BY <2>2, <2>3
<1> QED BY <1>4, <1>5

LEMMA ScopePays ==
  ASSUME NEW b \in Nat,
         NEW s \in [name : Texts, version : Texts, schema : Texts, attributes : Lists]
  PROVE  /\ ScopeCost(s) \in Nat
         /\ Exact(b, ChargeScope(b, s), ScopeCost(s), ScopeIsSound(s))
<1> DEFINE a == s.attributes
           t1 == s.name
           t2 == s.version
           t3 == s.schema
           b2 == Take(b, 128)
           b3 == Text(b2, t1)
           b4 == Text(b3, t2)
           b5 == Text(b4, t3)
           c1 == 128 + Bytes(t1)
           c2 == c1 + Bytes(t2)
           c3 == c2 + Bytes(t3)
<1>1. a \in Lists /\ t1 \in Texts /\ t2 \in Texts /\ t3 \in Texts
  OBVIOUS
<1>2. a.count \in Nat /\ a.cost \in Nat /\ a.cost >= 64 * a.count
  BY ListsAssumption
<1>3. /\ Bytes(t1) \in Nat /\ Bytes(t2) \in Nat /\ Bytes(t3) \in Nat
      /\ c1 \in Nat /\ c2 \in Nat /\ c3 \in Nat
  BY TextsAssumption DEF Bytes
<1>4. b2 = Pays(b, 128) /\ b >= Exhausted
  BY TakePays DEF Exhausted
<1>5. /\ ScopeCost(s) = c3 + a.cost
      /\ ScopeIsSound(s) <=> t1.valid /\ t2.valid /\ t3.valid /\ a.valid
  BY DEF ScopeCost, ScopeIsSound
<1>6. ChargeScope(b, s) = IF a.count > b5 \div 64 THEN Exhausted
                                                 ELSE Attributes(b5, a)
  BY DEF ChargeScope
<1> HIDE DEF a, t1, t2, t3, b2
<1>7. /\ t1.valid => b3 = Pays(b, c1)
      /\ ~t1.valid => b3 = Exhausted
  BY <1>1, <1>4, TextOn
<1> HIDE DEF b3, c1
<1>8. /\ t1.valid /\ t2.valid => b4 = Pays(b, c2)
      /\ ~(t1.valid /\ t2.valid) => b4 = Exhausted
  BY <1>1, <1>3, <1>4, <1>7, TextOn, NothingAfterExhausted
<1> HIDE DEF b4, c2
<1>9. /\ t1.valid /\ t2.valid /\ t3.valid => b5 = Pays(b, c3)
      /\ ~(t1.valid /\ t2.valid /\ t3.valid) => b5 = Exhausted
  BY <1>1, <1>3, <1>4, <1>8, TextOn, NothingAfterExhausted
<1> HIDE DEF b5, c3
<1>10. b5 \in Int /\ b5 >= Exhausted
  <2>1. Pays(b, c3) \in Int /\ Pays(b, c3) >= Exhausted
    BY <1>3, <1>4, PaysType
  <2> QED BY <1>9, <2>1 DEF Exhausted
<1>11. /\ ScopeIsSound(s) => Attributes(b5, a) = Pays(b, ScopeCost(s))
       /\ ~ScopeIsSound(s) => Attributes(b5, a) = Exhausted
  BY <1>1, <1>3, <1>4, <1>5, <1>9, AttributesOn, NothingAfterExhausted
<1>12. a.count > b5 \div 64 => Attributes(b5, a) = Exhausted
  <2>1. a.count > b5 \div 64 => a.cost > b5
    BY <1>2, <1>10
  <2> QED BY <2>1 DEF Attributes
<1>13. ChargeScope(b, s) = Attributes(b5, a)
  BY <1>6, <1>12
<1>14. ScopeCost(s) \in Nat
  BY <1>2, <1>3, <1>5
<1> QED BY <1>11, <1>13, <1>14 DEF Exact

(* An entry of a trace state, and an event, are two charges each.           *)
EntryCost(e) == Bytes(e.key) + Bytes(e.value)
EventCost(e) == Bytes(e.name) + e.attributes.cost

LEMMA EntryPays ==
  ASSUME NEW b \in Nat, NEW e \in Entries, NEW n \in Nat, n <= 32
  PROVE  /\ EntryCost(e) \in Nat
         /\ Exact(b, IF Refused(n, e) THEN Exhausted
                     ELSE Text(Text(b, e.key), e.value),
                  EntryCost(e), n < 32 /\ EntryIsSound(e))
<1> DEFINE k == e.key
           v == e.value
           r == Text(Text(b, k), v)
<1>1. /\ k \in Texts /\ v \in Texts /\ e.plain \in BOOLEAN
      /\ k.len \in Nat /\ v.len \in Nat
  BY TextsAssumption DEF Entries
<1>2. /\ EntryCost(e) = Bytes(k) + Bytes(v)
      /\ Bytes(k) \in Nat /\ Bytes(v) \in Nat
  BY TextsAssumption, <1>1 DEF EntryCost, Bytes
<1>3. /\ EntryIsSound(e) <=> k.len <= 256 /\ v.len <= 256 /\ e.plain /\ k.valid /\ v.valid
      /\ Refused(n, e) <=> n = 32 \/ k.len > 256 \/ v.len > 256 \/ ~e.plain
  BY DEF EntryIsSound, Refused, MaxEntries, MaxText
<1>4. Exact(b, Text(b, k), Bytes(k), k.valid)
  BY <1>1, TextPays DEF Exhausted
<1>5. /\ k.valid /\ v.valid => r = Pays(b, EntryCost(e))
      /\ ~(k.valid /\ v.valid) => r = Exhausted
  <2> HIDE DEF k, v
  <2>1. CASE k.valid
    <3>1. Text(b, k) = Pays(b, Bytes(k)) /\ b >= Exhausted
      BY <1>4, <2>1 DEF Exact, Exhausted
    <3> QED BY <1>1, <1>2, <2>1, <3>1, TextOn
  <2>2. CASE ~k.valid
    BY <1>1, <1>4, <2>2, NothingAfterExhausted DEF Exact
  <2> QED BY <2>1, <2>2
<1> HIDE DEF k, v, r
<1>6. n = 32 \/ n < 32
  OBVIOUS
<1>7. (IF Refused(n, e) THEN Exhausted ELSE Text(Text(b, e.key), e.value))
        = IF Refused(n, e) THEN Exhausted ELSE r
  BY DEF r, k, v
<1>8. CASE Refused(n, e)
  BY <1>1, <1>2, <1>3, <1>6, <1>7, <1>8 DEF Exact
<1>9. CASE ~Refused(n, e)
  BY <1>1, <1>2, <1>3, <1>5, <1>6, <1>7, <1>9 DEF Exact
<1> QED BY <1>8, <1>9

LEMMA EventPays ==
  ASSUME NEW b \in Nat, NEW e \in Events
  PROVE  /\ EventCost(e) \in Nat
         /\ Exact(b, Attributes(Text(b, e.name), e.attributes), EventCost(e),
                  EventIsSound(e))
<1> DEFINE t == e.name
           a == e.attributes
           r == Attributes(Text(b, t), a)
<1>1. t \in Texts /\ a \in Lists /\ a.cost \in Nat
  BY ListsAssumption DEF Events
<1>2. EventCost(e) = Bytes(t) + a.cost /\ Bytes(t) \in Nat
  BY TextsAssumption, <1>1 DEF EventCost, Bytes
<1>3. EventIsSound(e) <=> t.valid /\ a.valid
  BY DEF EventIsSound
<1>4. Exact(b, Text(b, t), Bytes(t), t.valid)
  BY <1>1, TextPays DEF Exhausted
<1>5. /\ t.valid /\ a.valid => r = Pays(b, EventCost(e))
      /\ ~(t.valid /\ a.valid) => r = Exhausted
  <2> HIDE DEF t, a
  <2>1. CASE t.valid
    <3>1. Text(b, t) = Pays(b, Bytes(t)) /\ b >= Exhausted
      BY <1>4, <2>1 DEF Exact, Exhausted
    <3> QED BY <1>1, <1>2, <2>1, <3>1, AttributesOn
  <2>2. CASE ~t.valid
    BY <1>1, <1>4, <2>2, NothingAfterExhausted DEF Exact
  <2> QED BY <2>1, <2>2
<1> HIDE DEF t, a, r
<1>6. EventCost(e) \in Nat
  BY <1>1, <1>2
<1>7. Exact(b, r, EventCost(e), EventIsSound(e))
  BY <1>3, <1>5 DEF Exact
<1> QED BY <1>6, <1>7 DEF r, t, a
-------------------------------------------------------------------------------
(* The charges of a trace state, of the events and of the links.            *)
LEMMA EntryCharges ==
  ASSUME NEW c \in Contexts
  PROVE  /\ EntryCosts(c) \in Seq(Nat) /\ Len(EntryCosts(c)) = Len(c)
         /\ Len(c) \in Nat /\ ContextCost(c) = 64 + Left(EntryCosts(c), 0)
         /\ \A i \in 1..Len(c) : /\ c[i] \in Entries
                                 /\ EntryCosts(c)[i] = EntryCost(c[i])
<1>1. Len(c) \in Nat /\ \A i \in 1..Len(c) : c[i] \in Entries
  BY LenProperties, ElementOfSeq DEF Contexts, Entries
<1>2. \A i \in 1..Len(c) : EntryCost(c[i]) \in Nat
  BY <1>1, TextsAssumption DEF Entries, EntryCost, Bytes
<1>3. EntryCosts(c) = [i \in 1..Len(c) |-> EntryCost(c[i])]
  BY DEF EntryCosts, EntryCost
<1>4. EntryCosts(c) \in Seq(Nat) /\ Len(EntryCosts(c)) = Len(c)
  BY <1>1, <1>2, <1>3
<1>5. ContextCost(c) = 64 + Left(EntryCosts(c), 0)
  BY <1>4, LeftStep DEF ContextCost
<1> QED BY <1>1, <1>3, <1>4, <1>5

LEMMA EventCharges ==
  ASSUME NEW s \in SpanType
  PROVE  /\ EventCosts(s) \in Seq(Nat) /\ Len(EventCosts(s)) = Len(s.events)
         /\ Len(s.events) \in Nat
         /\ \A i \in 1..Len(s.events) : /\ s.events[i] \in Events
                                        /\ EventCosts(s)[i] = EventCost(s.events[i])
<1>1. Len(s.events) \in Nat /\ \A i \in 1..Len(s.events) : s.events[i] \in Events
  BY SpanFields, LenProperties, ElementOfSeq
<1>2. \A i \in 1..Len(s.events) : EventCost(s.events[i]) \in Nat
  BY <1>1, TextsAssumption, ListsAssumption DEF Events, EventCost, Bytes
<1>3. EventCosts(s) = [i \in 1..Len(s.events) |-> EventCost(s.events[i])]
  BY DEF EventCosts, EventCost
<1>4. EventCosts(s) \in Seq(Nat) /\ Len(EventCosts(s)) = Len(s.events)
  BY <1>1, <1>2, <1>3
<1> QED BY <1>1, <1>3, <1>4

LEMMA LinkCharges ==
  ASSUME NEW s \in SpanType
  PROVE  /\ LinkCosts(s) \in Seq(Nat) /\ Len(LinkCosts(s)) = Len(s.links)
         /\ Len(s.links) \in Nat
         /\ \A i \in 1..Len(s.links) :
              /\ s.links[i] \in Links /\ ContextCost(s.links[i].context) \in Nat
              /\ s.links[i].attributes.cost \in Nat
              /\ LinkCosts(s)[i] = ContextCost(s.links[i].context)
                                     + s.links[i].attributes.cost
<1>1. Len(s.links) \in Nat /\ \A i \in 1..Len(s.links) : s.links[i] \in Links
  BY SpanFields, LenProperties, ElementOfSeq
<1>2. ASSUME NEW i \in 1..Len(s.links)
      PROVE  /\ ContextCost(s.links[i].context) \in Nat
             /\ s.links[i].attributes.cost \in Nat
  <2>1. s.links[i].context \in Contexts /\ s.links[i].attributes \in Lists
    BY <1>1 DEF Links
  <2>2. /\ ContextCost(s.links[i].context) = 64 + Left(EntryCosts(s.links[i].context), 0)
        /\ EntryCosts(s.links[i].context) \in Seq(Nat)
        /\ Len(EntryCosts(s.links[i].context)) \in Nat
    BY <2>1, EntryCharges
  <2>3. Left(EntryCosts(s.links[i].context), 0) \in Nat
    BY <2>2, LeftStep
  <2> QED BY <2>1, <2>2, <2>3, ListsAssumption
<1>3. /\ LinkCosts(s) \in Seq(Nat) /\ Len(LinkCosts(s)) = Len(s.links)
      /\ \A i \in 1..Len(s.links) :
           LinkCosts(s)[i] = ContextCost(s.links[i].context) + s.links[i].attributes.cost
  BY <1>1, <1>2 DEF LinkCosts
<1> QED BY <1>1, <1>2, <1>3
-------------------------------------------------------------------------------
(* What a span still takes from each of its fields on.                      *)
FromLinks(s) == 128 * Len(s.links) + Left(LinkCosts(s), 0)
FromEvents(s) == 128 * Len(s.events) + Left(EventCosts(s), 0) + FromLinks(s)
FromStatus(s) == Bytes(s.status) + FromEvents(s)
FromScope(s) == ScopeCost(s.scope) + FromStatus(s)
FromResource(s) == ResourceCost(s.resource) + FromScope(s)
FromAttributes(s) == s.attributes.cost + FromResource(s)
FromParent(s) == ContextCost(s.parent) + FromAttributes(s)
FromContext(s) == ContextCost(s.context) + FromParent(s)
FromName(s) == Bytes(s.name) + FromContext(s)

LEMMA WhatIsDue ==
  ASSUME NEW s \in SpanType
  PROVE  /\ Len(s.links) \in Nat /\ Len(s.events) \in Nat
         /\ Left(LinkCosts(s), 0) \in Nat /\ Left(EventCosts(s), 0) \in Nat
         /\ FromLinks(s) \in Nat /\ FromEvents(s) \in Nat /\ FromStatus(s) \in Nat
         /\ FromScope(s) \in Nat /\ FromResource(s) \in Nat
         /\ FromAttributes(s) \in Nat /\ FromParent(s) \in Nat
         /\ FromContext(s) \in Nat /\ FromName(s) \in Nat
         /\ Cost(s) = 512 + FromName(s)
<1> DEFINE e == Left(EventCosts(s), 0)
           k == Left(LinkCosts(s), 0)
           n == Len(s.events)
           m == Len(s.links)
<1>1. /\ n \in Nat /\ m \in Nat /\ e \in Nat /\ k \in Nat
      /\ Total(EventCosts(s), n) = e /\ Total(LinkCosts(s), m) = k
  <2>1. /\ EventCosts(s) \in Seq(Nat) /\ Len(EventCosts(s)) = n /\ n \in Nat
        /\ LinkCosts(s) \in Seq(Nat) /\ Len(LinkCosts(s)) = m /\ m \in Nat
    BY EventCharges, LinkCharges
  <2>2. /\ Left(EventCosts(s), 0) = Total(EventCosts(s), n)
        /\ Left(EventCosts(s), 0) \in Nat
    BY <2>1, LeftStep
  <2>3. /\ Left(LinkCosts(s), 0) = Total(LinkCosts(s), m)
        /\ Left(LinkCosts(s), 0) \in Nat
    BY <2>1, LeftStep
  <2> QED BY <2>1, <2>2, <2>3
<1>2. ASSUME NEW c \in Contexts PROVE ContextCost(c) \in Nat
  BY EntryCharges, LeftStep
<1>3. /\ s.name \in Texts /\ s.status \in Texts
      /\ s.context \in Contexts /\ s.parent \in Contexts
      /\ s.attributes \in Lists
      /\ s.resource \in [schema : Texts, attributes : Lists, nil : BOOLEAN]
      /\ s.scope \in [name : Texts, version : Texts, schema : Texts, attributes : Lists]
  BY SpanFields
<1>4. /\ Bytes(s.name) \in Nat /\ Bytes(s.status) \in Nat
      /\ ContextCost(s.context) \in Nat /\ ContextCost(s.parent) \in Nat
      /\ s.attributes.cost \in Nat
  BY <1>2, <1>3, TextsAssumption, ListsAssumption DEF Bytes
<1>5. ResourceCost(s.resource) \in Nat /\ ScopeCost(s.scope) \in Nat
  BY <1>3, ResourcePays, ScopePays
<1> HIDE DEF e, k, n, m
<1>6. FromLinks(s) = 128 * m + k /\ FromEvents(s) = 128 * n + e + FromLinks(s)
  BY DEF FromLinks, FromEvents, e, k, n, m
<1>7. FromLinks(s) \in Nat /\ FromEvents(s) \in Nat
  BY <1>1, <1>6
<1>8. FromStatus(s) \in Nat /\ FromScope(s) \in Nat /\ FromResource(s) \in Nat
  BY <1>4, <1>5, <1>7 DEF FromStatus, FromScope, FromResource
<1>9. /\ FromAttributes(s) \in Nat /\ FromParent(s) \in Nat
      /\ FromContext(s) \in Nat /\ FromName(s) \in Nat
  BY <1>4, <1>8 DEF FromAttributes, FromParent, FromContext, FromName
<1>10. Cost(s) = 512 + Bytes(s.name) + ContextCost(s.context) + ContextCost(s.parent)
          + s.attributes.cost + ResourceCost(s.resource) + ScopeCost(s.scope)
          + Bytes(s.status) + 128 * n + e + 128 * m + k
  BY <1>1 DEF Cost, n, m
<1>11. Cost(s) = 512 + FromName(s)
  BY <1>1, <1>4, <1>5, <1>6, <1>10 DEF FromStatus, FromScope, FromResource,
     FromAttributes, FromParent, FromContext, FromName
<1> QED BY <1>1, <1>7, <1>8, <1>9, <1>11 DEF e, k, n, m

(* What is left of the budget is what the limit leaves over the span's cost, *)
(* and what is still due.                                                   *)
Due(d) == left + Cost(span) = spanEnvelopeLimit + d

WalkLeft == Left(EntryCosts(Source), Len(entries))
LinksLeft(n) == Left(LinkCosts(span), n)

Ledger ==
  /\ at = "called" => Due(Cost(span))
  /\ at = "name" => Due(FromName(span))
  /\ at = "context" /\ ~inside => Due(FromContext(span))
  /\ at = "context" /\ inside => Due(WalkLeft + FromParent(span))
  /\ at = "parent" /\ ~inside => Due(FromParent(span))
  /\ at = "parent" /\ inside => Due(WalkLeft + FromAttributes(span))
  /\ at = "attributes" => Due(FromAttributes(span))
  /\ at = "resource" => Due(FromResource(span))
  /\ at = "scope" => Due(FromScope(span))
  /\ at = "status" => Due(FromStatus(span))
  /\ at = "events" => Due(FromEvents(span))
  /\ at = "event" =>
       Due(Left(EventCosts(span), Len(value.events)) + FromLinks(span))
  /\ at = "links" => Due(FromLinks(span))
  /\ at = "link" /\ ~inside => Due(LinksLeft(Len(value.links)))
  /\ at = "link" /\ inside =>
       Due(WalkLeft + (Link.attributes.cost + LinksLeft(Len(value.links) + 1)))
  /\ at = "linkAttributes" =>
       Due(Link.attributes.cost + LinksLeft(Len(value.links) + 1))
  /\ at = "copied" => Due(0)

(* The stages before the events, and before the links, are entered.         *)
BeforeEvents == {"called", "name", "context", "parent", "attributes", "resource",
                 "scope", "status", "events"}
Begun == /\ at \in BeforeEvents => value.events = <<>>
         /\ at \in BeforeEvents \cup {"event", "links"} => value.links = <<>>

(* What has been copied was sound.                                          *)
Checked ==
  /\ at \notin Early => span.name.valid
  /\ at \notin Early \cup {"context"} => Passes(span.context)
  /\ at \notin Early \cup {"context", "parent"} => Passes(span.parent)
  /\ at \notin Early \cup {"context", "parent", "attributes"} => span.attributes.valid
  /\ at \notin Early \cup {"context", "parent", "attributes", "resource"} =>
       ResourceIsSound(span.resource)
  /\ at \notin Early \cup {"context", "parent", "attributes", "resource", "scope"} =>
       ScopeIsSound(span.scope)
  /\ at \notin Early \cup {"context", "parent", "attributes", "resource", "scope",
                           "status"} => span.status.valid
  /\ at # "rejected" => \A i \in 1..Len(value.events) : EventIsSound(span.events[i])
  /\ at # "rejected" => \A i \in 1..Len(value.links) : LinkIsSound(span.links[i])
  /\ InContext /\ inside => /\ Len(entries) <= 32
                            /\ \A i \in 1..Len(entries) : EntryIsSound(Source[i])
  /\ at = "linkAttributes" => Passes(Link.context)

(* What has been refused was not.                                           *)
Refusal == ~WellFormed(span) \/ Cost(span) > spanEnvelopeLimit

AcceptInv == Ledger /\ Begun /\ Checked /\ (at = "rejected" => Refusal)

LEMMA RefusalKeeps ==
  ASSUME at' = "rejected", span' = span, Refusal
  PROVE  AcceptInv'
BY DEF AcceptInv, Ledger, Begun, BeforeEvents, Checked, Refusal, InContext, Early

(* A charge of what is due next is paid, or refuses the span for a reason.  *)
LEMMA Pay ==
  ASSUME left \in Nat, left <= spanEnvelopeLimit, Cost(span) \in Nat,
         NEW c \in Nat, NEW rest \in Nat, NEW b, NEW next, next # "rejected",
         Due(c + rest), Charged(b, next), span' = span,
         b = Pays(left, c) \/ (b = Exhausted /\ ~WellFormed(span))
  PROVE  \/ /\ at' = next /\ b # Exhausted
            /\ left' + Cost(span) = spanEnvelopeLimit + rest
         \/ at' = "rejected" /\ AcceptInv'
<1>1. CASE b # Exhausted
  <2>1. b = left - c /\ at' = next /\ left' = b
    BY <1>1 DEF Pays, Charged
  <2> QED BY <1>1, <2>1 DEF Due, spanEnvelopeLimit
<1>2. CASE b = Exhausted
  <2>1. at' = "rejected"
    BY <1>2 DEF Charged
  <2>2. Refusal
    <3>1. CASE b = Pays(left, c)
      <4>1. c > left
        BY <1>2, <3>1 DEF Pays, Exhausted
      <4> QED BY <4>1 DEF Due, Refusal, spanEnvelopeLimit
    <3>2. CASE ~WellFormed(span)
      BY <3>2 DEF Refusal
    <3> QED BY <3>1, <3>2
  <2> QED BY <2>1, <2>2, RefusalKeeps
<1> QED BY <1>1, <1>2

LEMMA AcceptInit == Init => AcceptInv
<1> SUFFICES ASSUME Init PROVE AcceptInv
  OBVIOUS
<1>1. at = "called" /\ left = spanEnvelopeLimit /\ span \in SpanType
  BY SpansAssumption DEF Init
<1>2. value.events = <<>> /\ value.links = <<>>
  BY DEF Init
<1>3. Cost(span) \in Nat
  BY <1>1, WhatIsDue
<1>4. Ledger
  BY <1>1, <1>3 DEF Ledger, Due, spanEnvelopeLimit
<1>5. Begun
  BY <1>2 DEF Begun
<1>6. Checked
  BY <1>1, <1>2 DEF Checked, Early, InContext
<1> QED BY <1>1, <1>4, <1>5, <1>6 DEF AcceptInv

LEMMA CostIsNat ==
  ASSUME TypeInv
  PROVE  /\ span \in SpanType /\ value \in SpanType
         /\ Cost(span) \in Nat /\ spanEnvelopeLimit \in Nat
         /\ value.events \in Seq(Events) /\ value.links \in Seq(Links)
<1>1. span \in SpanType /\ value \in SpanType
  BY SpansAssumption DEF TypeInv, TypeOK
<1>2. Cost(span) = 512 + FromName(span) /\ FromName(span) \in Nat
  BY <1>1, WhatIsDue
<1>3. value.events \in Seq(Events) /\ value.links \in Seq(Links)
  BY <1>1, SpanFields
<1>4. Cost(span) \in Nat
  BY <1>2
<1>5. spanEnvelopeLimit \in Nat
  BY DEF spanEnvelopeLimit
<1> QED BY <1>1, <1>3, <1>4, <1>5

LEMMA StageIsPaid ==
  ASSUME TypeInv, at # "rejected"
  PROVE  left \in Nat /\ left <= spanEnvelopeLimit
BY DEF TypeInv, TypeOK, Control

(* The fields that are charged at once.                                     *)
LEMMA CallKeepsAccept == TypeInv /\ AcceptInv /\ Call => AcceptInv'
<1> SUFFICES ASSUME TypeInv, AcceptInv, Call PROVE AcceptInv'
  OBVIOUS
<1>1. /\ at = "called" /\ Charged(Take(left, 512), "name")
      /\ UNCHANGED <<value, span, inside, entries, state>>
  BY DEF Call, NotInContext
<1>2. left \in Nat /\ left <= spanEnvelopeLimit /\ Cost(span) \in Nat
  BY <1>1, StageIsPaid, CostIsNat
<1>3. FromName(span) \in Nat /\ Cost(span) = 512 + FromName(span)
  BY CostIsNat, WhatIsDue
<1>4. Due(512 + FromName(span))
  BY <1>1, <1>3 DEF AcceptInv, Ledger
<1>5. Take(left, 512) = Pays(left, 512)
  BY <1>2, TakePays DEF Exhausted
<1>6. \/ /\ at' = "name" /\ left' + Cost(span) = spanEnvelopeLimit + FromName(span)
      \/ at' = "rejected" /\ AcceptInv'
  BY <1>1, <1>2, <1>3, <1>4, <1>5, Pay
<1>7. CASE at' = "name" /\ left' + Cost(span) = spanEnvelopeLimit + FromName(span)
  <2>1. Ledger'
    BY <1>1, <1>7 DEF Ledger, Due
  <2>2. Begun' /\ Checked'
    BY <1>1, <1>7 DEF AcceptInv, Begun, BeforeEvents, Checked, Early, InContext
  <2> QED BY <1>7, <2>1, <2>2 DEF AcceptInv
<1> QED BY <1>6, <1>7

(* One of them, by what it costs and what follows.                          *)
LEMMA CopyKeepsAccept ==
  ASSUME TypeInv, AcceptInv,
         NEW field, NEW next, NEW b, NEW v, NEW c \in Nat, NEW rest \in Nat,
         Copy(field, b, v, next), Due(c + rest),
         b = Pays(left, c) \/ (b = Exhausted /\ ~WellFormed(span)),
         \/ /\ field = "name" /\ next = "context" /\ rest = FromContext(span)
            /\ b # Exhausted => span.name.valid
         \/ /\ field = "attributes" /\ next = "resource" /\ rest = FromResource(span)
            /\ b # Exhausted => span.attributes.valid
         \/ /\ field = "resource" /\ next = "scope" /\ rest = FromScope(span)
            /\ b # Exhausted => ResourceIsSound(span.resource)
         \/ /\ field = "scope" /\ next = "status" /\ rest = FromStatus(span)
            /\ b # Exhausted => ScopeIsSound(span.scope)
         \/ /\ field = "status" /\ next = "events" /\ rest = FromEvents(span)
            /\ b # Exhausted => span.status.valid
  PROVE  AcceptInv'
<1>1. /\ at = field /\ Charged(b, next) /\ value' = [value EXCEPT ![field] = v]
      /\ UNCHANGED <<span, inside, entries, state>>
  BY DEF Copy, NotInContext
<1>2. left \in Nat /\ left <= spanEnvelopeLimit /\ Cost(span) \in Nat
  BY <1>1, StageIsPaid, CostIsNat
<1>3. ~inside
  BY <1>1 DEF TypeInv, TypeOK, Control, InContext
<1>4. value.events = <<>> /\ value.links = <<>>
  BY <1>1 DEF AcceptInv, Begun, BeforeEvents
<1>5. value'.events = value.events /\ value'.links = value.links
  BY <1>1, CostIsNat, FieldReplaced
<1>6. next # "rejected"
  OBVIOUS
<1>7. \/ /\ at' = next /\ b # Exhausted
         /\ left' + Cost(span) = spanEnvelopeLimit + rest
      \/ at' = "rejected" /\ AcceptInv'
  BY <1>1, <1>2, <1>6, Pay
<1>8. CASE /\ at' = next /\ b # Exhausted
           /\ left' + Cost(span) = spanEnvelopeLimit + rest
  <2>1. Ledger'
    BY <1>1, <1>3, <1>8 DEF Ledger, Due
  <2>2. Begun'
    BY <1>4, <1>5 DEF Begun
  <2>3. Checked'
    BY <1>1, <1>3, <1>4, <1>5, <1>8 DEF AcceptInv, Checked, Early, InContext
  <2> QED BY <1>6, <1>8, <2>1, <2>2, <2>3 DEF AcceptInv
<1> QED BY <1>7, <1>8

LEMMA FieldsKeepAccept ==
  ASSUME TypeInv, AcceptInv,
         CopyName \/ CopyAttributes \/ CopyResource \/ CopyScope \/ CopyStatus
  PROVE  AcceptInv'
<1>1. /\ span.name \in Texts /\ span.status \in Texts /\ span.attributes \in Lists
      /\ span.resource \in [schema : Texts, attributes : Lists, nil : BOOLEAN]
      /\ span.scope \in [name : Texts, version : Texts, schema : Texts,
                         attributes : Lists]
  BY CostIsNat, SpanFields
<1>2. /\ FromContext(span) \in Nat /\ FromResource(span) \in Nat
      /\ FromScope(span) \in Nat /\ FromStatus(span) \in Nat
      /\ FromEvents(span) \in Nat
  BY CostIsNat, WhatIsDue
<1>3. at # "rejected"
  BY DEF CopyName, CopyAttributes, CopyResource, CopyScope, CopyStatus, Copy
<1>4. left \in Nat /\ left \in Int /\ left >= Exhausted
  BY <1>3, StageIsPaid DEF Exhausted
<1>5. WellFormed(span) => /\ span.name.valid /\ span.status.valid
                          /\ span.attributes.valid /\ ResourceIsSound(span.resource)
                          /\ ScopeIsSound(span.scope)
  BY DEF WellFormed
<1>6. CASE CopyName
  <2> DEFINE b == Text(left, span.name)
             c == Bytes(span.name)
  <2>1. c \in Nat /\ Exact(left, b, c, span.name.valid)
    BY <1>1, <1>4, TextPays
  <2>2. Due(c + FromContext(span))
    BY <1>6 DEF CopyName, Copy, AcceptInv, Ledger, FromName
  <2>3. Copy("name", b, span.name, "context")
    BY <1>6 DEF CopyName
  <2> HIDE DEF b, c
  <2>4. /\ b = Pays(left, c) \/ (b = Exhausted /\ ~WellFormed(span))
        /\ b # Exhausted => span.name.valid
    BY <1>5, <2>1 DEF Exact
  <2> QED BY <1>2, <2>1, <2>2, <2>3, <2>4, CopyKeepsAccept
<1>7. CASE CopyAttributes
  <2> DEFINE b == Attributes(left, span.attributes)
             c == span.attributes.cost
  <2>1. c \in Nat /\ Exact(left, b, c, span.attributes.valid)
    BY <1>1, <1>4, AttributesPay
  <2>2. Due(c + FromResource(span))
    BY <1>7 DEF CopyAttributes, Copy, AcceptInv, Ledger, FromAttributes
  <2>3. Copy("attributes", b, span.attributes, "resource")
    BY <1>7 DEF CopyAttributes
  <2> HIDE DEF b, c
  <2>4. /\ b = Pays(left, c) \/ (b = Exhausted /\ ~WellFormed(span))
        /\ b # Exhausted => span.attributes.valid
    BY <1>5, <2>1 DEF Exact
  <2> QED BY <1>2, <2>1, <2>2, <2>3, <2>4, CopyKeepsAccept
<1>8. CASE CopyResource
  <2> DEFINE b == ChargeResource(left, span.resource)
             c == ResourceCost(span.resource)
  <2>1. c \in Nat /\ Exact(left, b, c, ResourceIsSound(span.resource))
    BY <1>1, <1>4, ResourcePays
  <2>2. Due(c + FromScope(span))
    BY <1>8 DEF CopyResource, Copy, AcceptInv, Ledger, FromResource
  <2>3. Copy("resource", b, Detached(span.resource), "scope")
    BY <1>8 DEF CopyResource
  <2> HIDE DEF b, c
  <2>4. /\ b = Pays(left, c) \/ (b = Exhausted /\ ~WellFormed(span))
        /\ b # Exhausted => ResourceIsSound(span.resource)
    BY <1>5, <2>1 DEF Exact
  <2> QED BY <1>2, <2>1, <2>2, <2>3, <2>4, CopyKeepsAccept
<1>9. CASE CopyScope
  <2> DEFINE b == ChargeScope(left, span.scope)
             c == ScopeCost(span.scope)
  <2>1. c \in Nat /\ Exact(left, b, c, ScopeIsSound(span.scope))
    BY <1>1, <1>4, ScopePays
  <2>2. Due(c + FromStatus(span))
    BY <1>9 DEF CopyScope, Copy, AcceptInv, Ledger, FromScope
  <2>3. Copy("scope", b, span.scope, "status")
    BY <1>9 DEF CopyScope
  <2> HIDE DEF b, c
  <2>4. /\ b = Pays(left, c) \/ (b = Exhausted /\ ~WellFormed(span))
        /\ b # Exhausted => ScopeIsSound(span.scope)
    BY <1>5, <2>1 DEF Exact
  <2> QED BY <1>2, <2>1, <2>2, <2>3, <2>4, CopyKeepsAccept
<1>10. CASE CopyStatus
  <2> DEFINE b == Text(left, span.status)
             c == Bytes(span.status)
  <2>1. c \in Nat /\ Exact(left, b, c, span.status.valid)
    BY <1>1, <1>4, TextPays
  <2>2. Due(c + FromEvents(span))
    BY <1>10 DEF CopyStatus, Copy, AcceptInv, Ledger, FromStatus
  <2>3. Copy("status", b, span.status, "events")
    BY <1>10 DEF CopyStatus
  <2> HIDE DEF b, c
  <2>4. /\ b = Pays(left, c) \/ (b = Exhausted /\ ~WellFormed(span))
        /\ b # Exhausted => span.status.valid
    BY <1>5, <2>1 DEF Exact
  <2> QED BY <1>2, <2>1, <2>2, <2>3, <2>4, CopyKeepsAccept
<1> QED BY <1>6, <1>7, <1>8, <1>9, <1>10

(* The loop over the events.                                                *)
LEMMA NextEvent ==
  ASSUME TypeInv, Len(value.events) < Len(span.events)
  PROVE  LET n == Len(value.events)
             e == span.events[n + 1]
         IN  /\ n \in Nat /\ n + 1 \in 1..Len(span.events) /\ e \in Events
             /\ EventCost(e) \in Nat /\ Left(EventCosts(span), n + 1) \in Nat
             /\ Left(EventCosts(span), n)
                  = EventCost(e) + Left(EventCosts(span), n + 1)
<1> DEFINE n == Len(value.events)
           e == span.events[n + 1]
           c == EventCosts(span)
<1>1. n \in Nat
  BY CostIsNat, LenProperties
<1>2. /\ c \in Seq(Nat) /\ Len(c) = Len(span.events) /\ Len(span.events) \in Nat
      /\ \A i \in 1..Len(span.events) : /\ span.events[i] \in Events
                                        /\ c[i] = EventCost(span.events[i])
  BY CostIsNat, EventCharges
<1> HIDE DEF c
<1>3. n + 1 \in 1..Len(c) /\ n \in 0..(Len(c) - 1) /\ n + 1 \in 0..Len(c)
  BY <1>1, <1>2
<1>4. e \in Events /\ c[n + 1] = EventCost(e) /\ c[n + 1] \in Nat
  BY <1>2, <1>3, ElementOfSeq
<1>5. Left(c, n + 1) \in Nat /\ Left(c, n) = c[n + 1] + Left(c, n + 1)
  BY <1>2, <1>3, LeftStep
<1> QED BY <1>1, <1>2, <1>3, <1>4, <1>5 DEF c

LEMMA EnterEventsKeepsAccept ==
  ASSUME TypeInv, AcceptInv, EnterEvents
  PROVE  AcceptInv'
<1> DEFINE c == 128 * Len(span.events)
           rest == Left(EventCosts(span), 0) + FromLinks(span)
           b == Items(left, Len(span.events), 128)
<1>1. /\ at = "events" /\ Charged(b, "event")
      /\ UNCHANGED <<value, span, inside, entries, state>>
  BY DEF EnterEvents, NotInContext
<1>2. left \in Nat /\ left <= spanEnvelopeLimit /\ Cost(span) \in Nat
  BY <1>1, StageIsPaid, CostIsNat
<1>3. /\ Len(span.events) \in Nat /\ Left(EventCosts(span), 0) \in Nat
      /\ FromLinks(span) \in Nat
  BY CostIsNat, WhatIsDue
<1>4. c \in Nat /\ rest \in Nat /\ FromEvents(span) = c + rest
  BY <1>3 DEF FromEvents
<1>5. b = Pays(left, c)
  BY <1>2, <1>3, SlicePays
<1>6. Due(c + rest)
  <2>1. Due(FromEvents(span))
    BY <1>1 DEF AcceptInv, Ledger
  <2> HIDE DEF c, rest
  <2> QED BY <1>4, <2>1
<1>7. value.events = <<>> /\ value.links = <<>>
  BY <1>1 DEF AcceptInv, Begun, BeforeEvents
<1>8. ~inside
  BY <1>1 DEF TypeInv, TypeOK, Control, InContext
<1> HIDE DEF b, c
<1>9. \/ at' = "event" /\ left' + Cost(span) = spanEnvelopeLimit + rest
      \/ at' = "rejected" /\ AcceptInv'
  <2> HIDE DEF rest
  <2> QED BY <1>1, <1>2, <1>4, <1>5, <1>6, Pay
<1>10. CASE at' = "event" /\ left' + Cost(span) = spanEnvelopeLimit + rest
  <2>1. Ledger'
    <3>1. Len(value'.events) = 0 /\ span' = span
      BY <1>1, <1>7
    <3> QED BY <1>10, <3>1 DEF Ledger, Due
  <2>2. Begun'
    BY <1>1, <1>7, <1>10 DEF Begun, BeforeEvents
  <2>3. Checked'
    BY <1>1, <1>8, <1>10 DEF AcceptInv, Checked, Early, InContext
  <2> QED BY <1>10, <2>1, <2>2, <2>3 DEF AcceptInv
<1> QED BY <1>9, <1>10

LEMMA CopyEventKeepsAccept ==
  ASSUME TypeInv, AcceptInv, CopyEvent
  PROVE  AcceptInv'
<1> DEFINE n == Len(value.events)
           e == span.events[n + 1]
           c == EventCost(e)
           rest == Left(EventCosts(span), n + 1) + FromLinks(span)
           b == Attributes(Text(left, e.name), e.attributes)
<1>1. /\ at = "event" /\ n < Len(span.events) /\ Charged(b, "event")
      /\ UNCHANGED <<span, inside, entries, state>>
  BY DEF CopyEvent, NotInContext
<1>2. left \in Nat /\ left <= spanEnvelopeLimit /\ Cost(span) \in Nat
  BY <1>1, StageIsPaid, CostIsNat
<1>3. /\ n \in Nat /\ n + 1 \in 1..Len(span.events) /\ e \in Events
      /\ c \in Nat /\ Left(EventCosts(span), n + 1) \in Nat
      /\ Left(EventCosts(span), n) = c + Left(EventCosts(span), n + 1)
  BY <1>1, NextEvent
<1>4. FromLinks(span) \in Nat
  BY CostIsNat, WhatIsDue
<1>5. Exact(left, b, c, EventIsSound(e))
  <2> HIDE DEF e
  <2> QED BY <1>2, <1>3, EventPays
<1>6. value'.events = Append(value.events, e) /\ value'.links = value.links
  <2>1. value' = [value EXCEPT !["events"] = Append(value.events, e)]
    BY CostIsNat DEF CopyEvent, SpanType
  <2>2. value \in SpanType
    BY CostIsNat
  <2> DEFINE es == Append(value.events, e)
             r == [value EXCEPT !["events"] = es]
  <2> HIDE DEF b, c, e, n, rest, es
  <2>3. r.events = es /\ r.links = value.links
    BY <2>2, FieldReplaced
  <2>4. value' = r
    BY <2>1 DEF es
  <2> QED BY <2>3, <2>4 DEF es
<1>7. Len(value'.events) = n + 1
  BY <1>3, <1>6, CostIsNat, AppendProperties
<1>8. Due(Left(EventCosts(span), n) + FromLinks(span))
  BY <1>1 DEF AcceptInv, Ledger
<1>9. ~inside
  BY <1>1 DEF TypeInv, TypeOK, Control, InContext
<1>10. value.links = <<>>
  BY <1>1 DEF AcceptInv, Begun
<1>11. /\ b = Pays(left, c) \/ (b = Exhausted /\ ~WellFormed(span))
       /\ b # Exhausted => EventIsSound(e)
  <2>1. WellFormed(span) => EventIsSound(e)
    BY <1>3 DEF WellFormed
  <2> HIDE DEF b, c, e
  <2> QED BY <1>5, <2>1 DEF Exact
<1> HIDE DEF b, c
<1>12. rest \in Nat /\ Due(c + rest)
  <2>1. Left(EventCosts(span), n) + FromLinks(span) = c + rest
    BY <1>3, <1>4
  <2> QED BY <1>3, <1>4, <1>8, <2>1
<1>13. \/ /\ at' = "event" /\ b # Exhausted
          /\ left' + Cost(span) = spanEnvelopeLimit + rest
       \/ at' = "rejected" /\ AcceptInv'
  <2> HIDE DEF rest
  <2> QED BY <1>1, <1>2, <1>3, <1>11, <1>12, Pay
<1>14. CASE /\ at' = "event" /\ b # Exhausted
            /\ left' + Cost(span) = spanEnvelopeLimit + rest
  <2>1. Ledger'
    BY <1>1, <1>7, <1>14 DEF Ledger, Due
  <2>2. Begun'
    BY <1>6, <1>10, <1>14 DEF Begun, BeforeEvents
  <2>3. \A i \in 1..Len(value'.events) : EventIsSound(span.events[i])
    <3>1. ASSUME NEW i \in 1..(n + 1) PROVE EventIsSound(span.events[i])
      <4>1. CASE i = n + 1
        BY <1>11, <1>14, <4>1
      <4>2. CASE i # n + 1
        <5>1. i \in 1..n
          BY <1>3, <4>2
        <5> QED BY <1>1, <5>1 DEF AcceptInv, Checked
      <4> QED BY <4>1, <4>2
    <3> QED BY <1>7, <3>1
  <2>4. Checked'
    BY <1>1, <1>6, <1>9, <1>14, <2>3 DEF AcceptInv, Checked, Early, InContext
  <2> QED BY <1>14, <2>1, <2>2, <2>4 DEF AcceptInv
<1> QED BY <1>13, <1>14

LEMMA EndEventsKeepsAccept ==
  ASSUME TypeInv, AcceptInv, EndEvents
  PROVE  AcceptInv'
<1>1. /\ at = "event" /\ at' = "links" /\ Len(value.events) = Len(span.events)
      /\ UNCHANGED <<value, span, inside, entries, state, left>>
  BY DEF EndEvents, NotInContext
<1>2. Left(EventCosts(span), Len(value.events)) = 0
  BY <1>1, CostIsNat, EventCharges, LeftStep
<1>3. FromLinks(span) \in Nat
  BY CostIsNat, WhatIsDue
<1>4. ~inside
  BY <1>1 DEF TypeInv, TypeOK, Control, InContext
<1>5. Ledger'
  <2>1. Due(Left(EventCosts(span), Len(value.events)) + FromLinks(span))
    BY <1>1 DEF AcceptInv, Ledger
  <2>2. Due(FromLinks(span))
    BY <1>2, <1>3, <2>1
  <2> QED BY <1>1, <2>2 DEF Ledger, Due
<1>6. Begun'
  BY <1>1 DEF AcceptInv, Begun, BeforeEvents
<1>7. Checked'
  BY <1>1, <1>4 DEF AcceptInv, Checked, Early, InContext
<1> QED BY <1>1, <1>5, <1>6, <1>7 DEF AcceptInv

(* The loop over the links, whose span contexts are walked.                 *)
LEMMA NextLink ==
  ASSUME TypeInv, Len(value.links) < Len(span.links)
  PROVE  LET n == Len(value.links)
         IN  /\ n \in Nat /\ n + 1 \in 1..Len(span.links)
             /\ Link \in Links /\ Link = span.links[n + 1]
             /\ ContextCost(Link.context) \in Nat /\ Link.attributes.cost \in Nat
             /\ LinksLeft(n + 1) \in Nat
             /\ LinksLeft(n) = ContextCost(Link.context)
                                 + (Link.attributes.cost + LinksLeft(n + 1))
<1> DEFINE n == Len(value.links)
           c == LinkCosts(span)
           x == ContextCost(Link.context)
           y == Link.attributes.cost
<1>1. n \in Nat
  BY CostIsNat, LenProperties
<1>2. /\ c \in Seq(Nat) /\ Len(c) = Len(span.links) /\ Len(span.links) \in Nat
      /\ \A i \in 1..Len(span.links) :
           /\ span.links[i] \in Links /\ ContextCost(span.links[i].context) \in Nat
           /\ span.links[i].attributes.cost \in Nat
           /\ c[i] = ContextCost(span.links[i].context) + span.links[i].attributes.cost
  BY CostIsNat, LinkCharges
<1> HIDE DEF c
<1>3. n + 1 \in 1..Len(c) /\ n \in 0..(Len(c) - 1) /\ n + 1 \in 0..Len(c)
  BY <1>1, <1>2
<1>4. Link = span.links[n + 1]
  BY DEF Link
<1>5. Link \in Links /\ x \in Nat /\ y \in Nat /\ c[n + 1] = x + y
  BY <1>2, <1>3, <1>4
<1>6. Left(c, n + 1) \in Nat /\ Left(c, n) = c[n + 1] + Left(c, n + 1)
  BY <1>2, <1>3, LeftStep
<1>7. LinksLeft(n) = Left(c, n) /\ LinksLeft(n + 1) = Left(c, n + 1)
  BY DEF LinksLeft, c
<1>8. Left(c, n) = x + (y + Left(c, n + 1))
  <2> HIDE DEF x, y
  <2> QED BY <1>5, <1>6
<1> QED BY <1>1, <1>2, <1>3, <1>4, <1>5, <1>6, <1>7, <1>8

LEMMA EnterLinksKeepsAccept ==
  ASSUME TypeInv, AcceptInv, EnterLinks
  PROVE  AcceptInv'
<1> DEFINE c == 128 * Len(span.links)
           rest == LinksLeft(0)
           b == Items(left, Len(span.links), 128)
<1>1. /\ at = "links" /\ Charged(b, "link")
      /\ UNCHANGED <<value, span, inside, entries, state>>
  BY DEF EnterLinks, NotInContext
<1>2. left \in Nat /\ left <= spanEnvelopeLimit /\ Cost(span) \in Nat
  BY <1>1, StageIsPaid, CostIsNat
<1>3. Len(span.links) \in Nat /\ Left(LinkCosts(span), 0) \in Nat
  BY CostIsNat, WhatIsDue
<1>4. c \in Nat /\ rest \in Nat /\ FromLinks(span) = c + rest
  BY <1>3 DEF FromLinks, LinksLeft
<1>5. b = Pays(left, c)
  BY <1>2, <1>3, SlicePays
<1>6. Due(c + rest)
  <2>1. Due(FromLinks(span))
    BY <1>1 DEF AcceptInv, Ledger
  <2> HIDE DEF c, rest
  <2> QED BY <1>4, <2>1
<1>7. value.links = <<>>
  BY <1>1 DEF AcceptInv, Begun
<1>8. ~inside
  BY <1>1 DEF TypeInv, TypeOK, Control, InContext
<1> HIDE DEF b, c
<1>9. \/ at' = "link" /\ left' + Cost(span) = spanEnvelopeLimit + rest
      \/ at' = "rejected" /\ AcceptInv'
  <2> HIDE DEF rest
  <2> QED BY <1>1, <1>2, <1>4, <1>5, <1>6, Pay
<1>10. CASE at' = "link" /\ left' + Cost(span) = spanEnvelopeLimit + rest
  <2>1. Ledger'
    <3>1. Len(value'.links) = 0 /\ span' = span /\ ~inside'
      BY <1>1, <1>7, <1>8
    <3> QED BY <1>10, <3>1 DEF Ledger, Due, LinksLeft
  <2>2. Begun'
    BY <1>10 DEF Begun, BeforeEvents
  <2>3. Checked'
    BY <1>1, <1>8, <1>10 DEF AcceptInv, Checked, Early, InContext
  <2> QED BY <1>10, <2>1, <2>2, <2>3 DEF AcceptInv
<1> QED BY <1>9, <1>10

LEMMA CopyLinkKeepsAccept ==
  ASSUME TypeInv, AcceptInv, CopyLink
  PROVE  AcceptInv'
<1> DEFINE n == Len(value.links)
           k == [context |-> state, attributes |-> Link.attributes]
           c == Link.attributes.cost
           rest == LinksLeft(n + 1)
           b == Attributes(left, Link.attributes)
<1>1. /\ at = "linkAttributes" /\ Charged(b, "link")
      /\ UNCHANGED <<span, inside, entries, state>>
  BY DEF CopyLink, NotInContext
<1>2. left \in Nat /\ left <= spanEnvelopeLimit /\ Cost(span) \in Nat
  BY <1>1, StageIsPaid, CostIsNat
<1>3. /\ n \in Nat /\ n + 1 \in 1..Len(span.links)
      /\ Link \in Links /\ Link = span.links[n + 1] /\ c \in Nat /\ rest \in Nat
  BY <1>1, NextLink DEF TypeInv, Control
<1>4. Exact(left, b, c, Link.attributes.valid)
  <2>1. Link.attributes \in Lists
    BY <1>3 DEF Links
  <2> QED BY <1>2, <2>1, AttributesPay DEF Exhausted
<1>5. Due(c + rest) /\ Passes(Link.context) /\ ~inside
  BY <1>1 DEF AcceptInv, Ledger, Checked, TypeInv, TypeOK, Control, InContext
<1>6. value'.links = Append(value.links, k) /\ value'.events = value.events
  <2>1. value' = [value EXCEPT !["links"] = Append(value.links, k)]
    BY CostIsNat DEF CopyLink, SpanType
  <2>2. value \in SpanType
    BY CostIsNat
  <2> HIDE DEF k
  <2> QED BY <2>1, <2>2, FieldReplaced
<1>7. Len(value'.links) = n + 1
  <2> HIDE DEF k
  <2>1. value.links \in Seq(Links)
    BY CostIsNat
  <2> QED BY <1>6, <2>1
<1>8. /\ b = Pays(left, c) \/ (b = Exhausted /\ ~WellFormed(span))
      /\ b # Exhausted => LinkIsSound(span.links[n + 1])
  <2>1. WellFormed(span) => Link.attributes.valid
    BY <1>3 DEF WellFormed, LinkIsSound
  <2>2. Link.attributes.valid => LinkIsSound(span.links[n + 1])
    BY <1>3, <1>5 DEF LinkIsSound
  <2> HIDE DEF b, c
  <2> QED BY <1>4, <2>1, <2>2 DEF Exact
<1> HIDE DEF b, c, k
<1>9. \/ /\ at' = "link" /\ b # Exhausted
         /\ left' + Cost(span) = spanEnvelopeLimit + rest
      \/ at' = "rejected" /\ AcceptInv'
  <2> HIDE DEF rest
  <2> QED BY <1>1, <1>2, <1>3, <1>5, <1>8, Pay
<1>10. CASE /\ at' = "link" /\ b # Exhausted
            /\ left' + Cost(span) = spanEnvelopeLimit + rest
  <2>1. Ledger'
    <3>1. span' = span /\ ~inside'
      BY <1>1, <1>5
    <3> QED BY <1>7, <1>10, <3>1 DEF Ledger, Due, LinksLeft
  <2>2. Begun'
    BY <1>10 DEF Begun, BeforeEvents
  <2>3. \A i \in 1..Len(value'.links) : LinkIsSound(span.links[i])
    <3>1. ASSUME NEW i \in 1..(n + 1) PROVE LinkIsSound(span.links[i])
      <4>1. CASE i = n + 1
        BY <1>8, <1>10, <4>1
      <4>2. CASE i # n + 1
        <5>1. i \in 1..n
          BY <1>3, <4>2
        <5> QED BY <1>1, <5>1 DEF AcceptInv, Checked
      <4> QED BY <4>1, <4>2
    <3> QED BY <1>7, <3>1
  <2>4. Checked'
    BY <1>1, <1>5, <1>6, <1>10, <2>3 DEF AcceptInv, Checked, Early, InContext
  <2> QED BY <1>10, <2>1, <2>2, <2>4 DEF AcceptInv
<1> QED BY <1>9, <1>10

LEMMA ReturnKeepsAccept ==
  ASSUME TypeInv, AcceptInv, Return
  PROVE  AcceptInv'
<1>1. /\ at = "link" /\ at' = "copied" /\ ~inside
      /\ Len(value.links) = Len(span.links)
      /\ UNCHANGED <<value, span, inside, entries, state, left>>
  BY DEF Return, NotInContext
<1>2. LinksLeft(Len(value.links)) = 0
  BY <1>1, CostIsNat, LinkCharges, LeftStep DEF LinksLeft
<1>3. Ledger'
  <2>1. Due(LinksLeft(Len(value.links)))
    BY <1>1 DEF AcceptInv, Ledger
  <2> QED BY <1>1, <1>2, <2>1 DEF Ledger, Due
<1>4. Begun'
  BY <1>1 DEF Begun, BeforeEvents
<1>5. Checked'
  BY <1>1 DEF AcceptInv, Checked, Early, InContext
<1> QED BY <1>1, <1>3, <1>4, <1>5 DEF AcceptInv
-------------------------------------------------------------------------------
(* A span context is walked: what follows it, and that it must pass.        *)
Rest == IF at = "context" THEN FromParent(span)
        ELSE IF at = "parent" THEN FromAttributes(span)
        ELSE Link.attributes.cost + LinksLeft(Len(value.links) + 1)

LEMMA ContextIsDue ==
  ASSUME TypeInv, InContext, at = "link" => Len(value.links) < Len(span.links)
  PROVE  /\ Source \in Contexts /\ Rest \in Nat
         /\ ~Passes(Source) => ~WellFormed(span)
         /\ at = "context" => FromContext(span) = ContextCost(Source) + Rest
         /\ at = "parent" => FromParent(span) = ContextCost(Source) + Rest
         /\ at = "link" => LinksLeft(Len(value.links)) = ContextCost(Source) + Rest
<1>1. Source \in Contexts
  BY SourceType
<1>2. FromParent(span) \in Nat /\ FromAttributes(span) \in Nat
  BY CostIsNat, WhatIsDue
<1>3. CASE at = "context"
  BY <1>1, <1>2, <1>3 DEF Rest, Source, WellFormed, FromContext
<1>4. CASE at = "parent"
  BY <1>1, <1>2, <1>4 DEF Rest, Source, WellFormed, FromParent
<1>5. CASE at = "link"
  <2> DEFINE n == Len(value.links)
  <2>1. /\ n + 1 \in 1..Len(span.links) /\ Link = span.links[n + 1]
        /\ Link.attributes.cost \in Nat /\ LinksLeft(n + 1) \in Nat
        /\ LinksLeft(n) = ContextCost(Link.context)
                            + (Link.attributes.cost + LinksLeft(n + 1))
    BY <1>5, NextLink
  <2>2. /\ Source = Link.context
        /\ Rest = Link.attributes.cost + LinksLeft(n + 1)
    BY <1>5 DEF Source, Rest
  <2>3. ~Passes(Source) => ~WellFormed(span)
    BY <2>1, <2>2 DEF WellFormed, LinkIsSound
  <2> DEFINE l == Link.attributes.cost
             more == LinksLeft(n + 1)
  <2>4. Rest \in Nat
    <3>1. l \in Nat /\ more \in Nat /\ Rest = l + more
      BY <2>1, <2>2
    <3> HIDE DEF l, more
    <3> QED BY <3>1
  <2> QED BY <1>1, <1>5, <2>1, <2>2, <2>3, <2>4
<1> QED BY <1>3, <1>4, <1>5 DEF InContext

LEMMA EnterContextKeepsAccept ==
  ASSUME TypeInv, AcceptInv, EnterContext
  PROVE  AcceptInv'
<1> DEFINE walk == Left(EntryCosts(Source), 0)
           rest == walk + Rest
           b == Take(left, 64)
<1>1. /\ InContext /\ ~inside /\ Charged(b, at) /\ inside' = TRUE
      /\ at = "link" => Len(value.links) < Len(span.links)
      /\ entries' = <<>> /\ UNCHANGED <<span, value>>
  BY DEF EnterContext
<1>2. at # "rejected" /\ left \in Nat /\ left <= spanEnvelopeLimit /\ Cost(span) \in Nat
  BY <1>1, StageIsPaid, CostIsNat DEF InContext
<1>3. /\ Source \in Contexts /\ Rest \in Nat
      /\ at = "context" => FromContext(span) = ContextCost(Source) + Rest
      /\ at = "parent" => FromParent(span) = ContextCost(Source) + Rest
      /\ at = "link" => LinksLeft(Len(value.links)) = ContextCost(Source) + Rest
  BY <1>1, ContextIsDue
<1>4. ContextCost(Source) = 64 + walk /\ walk \in Nat
  BY <1>3, EntryCharges, LeftStep
<1>5. rest \in Nat /\ ContextCost(Source) + Rest = 64 + rest
  <2> HIDE DEF walk
  <2> QED BY <1>3, <1>4
<1>6. Due(64 + rest)
  <2>1. Due(ContextCost(Source) + Rest)
    BY <1>1, <1>3 DEF AcceptInv, Ledger, InContext
  <2> QED BY <1>5, <2>1
<1>7. b = Pays(left, 64)
  BY <1>2, TakePays DEF Exhausted
<1> HIDE DEF b
<1>8. \/ at' = at /\ left' + Cost(span) = spanEnvelopeLimit + rest
      \/ at' = "rejected" /\ AcceptInv'
  <2> HIDE DEF rest
  <2> QED BY <1>1, <1>2, <1>5, <1>6, <1>7, Pay
<1>9. CASE at' = at /\ left' + Cost(span) = spanEnvelopeLimit + rest
  <2>1. Source' = Source /\ Rest' = Rest /\ Len(entries') = 0
    BY <1>1, <1>9 DEF Source, Rest, Link, LinksLeft
  <2>2. WalkLeft' = walk
    BY <2>1 DEF WalkLeft
  <2>3. left' + Cost(span) = spanEnvelopeLimit + (WalkLeft' + Rest')
    BY <1>9, <2>1, <2>2
  <2>4. Ledger'
    BY <1>1, <1>9, <2>3 DEF Ledger, Due, Rest, InContext
  <2>5. Begun'
    BY <1>1, <1>9 DEF AcceptInv, Begun
  <2>6. Checked'
    BY <1>1, <1>2, <1>9, <2>1 DEF AcceptInv, Checked, InContext
  <2> QED BY <1>2, <1>9, <2>4, <2>5, <2>6 DEF AcceptInv
<1> QED BY <1>8, <1>9

LEMMA WalkEntryKeepsAccept ==
  ASSUME TypeInv, ExactInv, AcceptInv, WalkEntry
  PROVE  AcceptInv'
<1> DEFINE n == Len(entries)
           e == Source[n + 1]
           c == EntryCost(e)
           later == Left(EntryCosts(Source), n + 1)
           rest == later + Rest
           b == IF Refused(n, e) THEN Exhausted ELSE Text(Text(left, e.key), e.value)
<1>1. /\ InContext /\ inside /\ n < Len(Source) /\ Charged(b, at)
      /\ entries' = Append(entries, e) /\ UNCHANGED <<span, inside, state, value>>
      /\ at = "link" => Len(value.links) < Len(span.links)
  BY DEF WalkEntry, InContext, TypeInv, Control
<1>2. at # "rejected" /\ left \in Nat /\ left <= spanEnvelopeLimit /\ Cost(span) \in Nat
  BY <1>1, StageIsPaid, CostIsNat DEF InContext
<1>3. /\ Source \in Contexts /\ Rest \in Nat /\ entries \in Seq(Entries)
      /\ ~Passes(Source) => ~WellFormed(span)
  BY <1>1, ContextIsDue DEF TypeInv, TypeOK, Contexts, Entries
<1>4. n \in Nat /\ n <= 32 /\ \A i \in 1..n : EntryIsSound(Source[i])
  BY <1>1, <1>3 DEF AcceptInv, Checked
<1>5. /\ e \in Entries /\ later \in Nat /\ n + 1 \in 1..Len(Source)
      /\ Left(EntryCosts(Source), n) = c + later
  <2>1. /\ EntryCosts(Source) \in Seq(Nat) /\ Len(EntryCosts(Source)) = Len(Source)
        /\ Len(Source) \in Nat
        /\ \A i \in 1..Len(Source) : /\ Source[i] \in Entries
                                     /\ EntryCosts(Source)[i] = EntryCost(Source[i])
    BY <1>3, EntryCharges
  <2>2. /\ n + 1 \in 1..Len(Source) /\ n \in 0..(Len(Source) - 1)
        /\ n + 1 \in 0..Len(Source)
    BY <1>1, <1>4, <2>1
  <2>3. /\ later \in Nat
        /\ Left(EntryCosts(Source), n) = EntryCosts(Source)[n + 1] + later
    BY <2>1, <2>2, LeftStep
  <2> QED BY <2>1, <2>2, <2>3
<1>6. c \in Nat /\ Exact(left, b, c, n < 32 /\ EntryIsSound(e))
  <2> HIDE DEF e, n
  <2> QED BY <1>2, <1>4, <1>5, EntryPays
<1>7. /\ b = Pays(left, c) \/ (b = Exhausted /\ ~WellFormed(span))
      /\ b # Exhausted => n < 32 /\ EntryIsSound(e)
  <2>1. WellFormed(span) => n < 32 /\ EntryIsSound(e)
    BY <1>1, <1>3, <1>4, <1>5, EntryCharges DEF Passes
  <2> HIDE DEF b, c, e, n
  <2> QED BY <1>6, <2>1 DEF Exact
<1> HIDE DEF b, c, later
<1>8. rest \in Nat /\ WalkLeft + Rest = c + rest
  <2>1. WalkLeft = c + later
    BY <1>5 DEF WalkLeft
  <2> QED BY <1>3, <1>5, <1>6, <2>1
<1>9. Due(c + rest)
  <2>1. Due(WalkLeft + Rest)
    BY <1>1 DEF AcceptInv, Ledger, InContext, Rest
  <2> QED BY <1>8, <2>1
<1>10. \/ /\ at' = at /\ b # Exhausted
          /\ left' + Cost(span) = spanEnvelopeLimit + rest
       \/ at' = "rejected" /\ AcceptInv'
  <2> HIDE DEF rest
  <2> QED BY <1>1, <1>2, <1>6, <1>7, <1>8, <1>9, Pay
<1>11. CASE /\ at' = at /\ b # Exhausted
            /\ left' + Cost(span) = spanEnvelopeLimit + rest
  <2>1. Source' = Source /\ Rest' = Rest
    BY <1>1, <1>11 DEF Source, Rest, Link, LinksLeft
  <2>2. Len(entries') = n + 1
    <3> HIDE DEF e
    <3> QED BY <1>1, <1>3, <1>5
  <2>3. WalkLeft' = later
    BY <2>1, <2>2 DEF WalkLeft, later
  <2>4. left' + Cost(span) = spanEnvelopeLimit + (WalkLeft' + Rest')
    BY <1>11, <2>1, <2>3
  <2>5. Ledger'
    BY <1>1, <1>11, <2>4 DEF Ledger, Due, Rest, InContext
  <2>6. Begun'
    BY <1>1, <1>11 DEF AcceptInv, Begun
  <2>7. \A i \in 1..Len(entries') : EntryIsSound(Source[i])
    <3>1. ASSUME NEW i \in 1..(n + 1) PROVE EntryIsSound(Source[i])
      <4>1. CASE i = n + 1
        BY <1>7, <1>11, <4>1
      <4>2. CASE i # n + 1
        <5>1. i \in 1..n
          BY <1>4, <4>2
        <5> QED BY <1>4, <5>1
      <4> QED BY <4>1, <4>2
    <3> QED BY <2>2, <3>1
  <2>8. Len(entries') <= 32
    BY <1>4, <1>7, <1>11, <2>2
  <2>9. Checked'
    BY <1>1, <1>2, <1>11, <2>1, <2>7, <2>8 DEF AcceptInv, Checked, InContext
  <2> QED BY <1>2, <1>11, <2>5, <2>6, <2>9 DEF AcceptInv
<1> QED BY <1>10, <1>11

LEMMA ReturnContextKeepsAccept ==
  ASSUME TypeInv, ExactInv, AcceptInv, ReturnContext
  PROVE  AcceptInv'
<1>1. /\ InContext /\ inside /\ Len(entries) = Len(Source) /\ inside' = FALSE
      /\ UNCHANGED <<span, left>>
      /\ at' = IF at = "context" THEN "parent"
               ELSE IF at = "parent" THEN "attributes" ELSE "linkAttributes"
      /\ at = "link" => Len(value.links) < Len(span.links)
  BY DEF ReturnContext, Walked, InContext, TypeInv, Control
<1>2. /\ Source \in Contexts /\ Rest \in Nat
  BY <1>1, ContextIsDue
<1>3. WalkLeft = 0
  BY <1>1, <1>2, EntryCharges, LeftStep DEF WalkLeft
<1>4. Passes(Source)
  BY <1>1 DEF AcceptInv, Checked, Passes
<1>5. value'.events = value.events /\ value'.links = value.links
  <2>1. \/ value' = value
        \/ at \in {"context", "parent"} /\ value' = [value EXCEPT ![at] = state]
    BY <1>1 DEF ReturnContext, InContext
  <2>2. value \in SpanType
    BY CostIsNat
  <2> QED BY <2>1, <2>2, FieldReplaced
<1>6. Due(Rest)
  <2>1. Due(WalkLeft + Rest)
    BY <1>1 DEF AcceptInv, Ledger, InContext, Rest
  <2> QED BY <1>2, <1>3, <2>1
<1>7. Link' = Link
  BY <1>1, <1>5 DEF Link
<1>8. Ledger'
  BY <1>1, <1>5, <1>6, <1>7 DEF Ledger, Due, Rest, InContext, LinksLeft
<1>9. Begun'
  BY <1>1, <1>5 DEF AcceptInv, Begun, BeforeEvents, InContext
<1>10. Checked'
  <2>1. CASE at = "context"
    BY <1>1, <1>4, <1>5, <2>1 DEF AcceptInv, Checked, Early, InContext, Source
  <2>2. CASE at = "parent"
    BY <1>1, <1>4, <1>5, <2>2 DEF AcceptInv, Checked, Early, InContext, Source
  <2>3. CASE at = "link"
    BY <1>1, <1>4, <1>5, <1>7, <2>3 DEF AcceptInv, Checked, Early, InContext, Source
  <2> QED BY <1>1, <2>1, <2>2, <2>3 DEF InContext
<1>11. at' # "rejected"
  BY <1>1
<1> QED BY <1>8, <1>9, <1>10, <1>11 DEF AcceptInv

LEMMA StutterKeepsAccept ==
  ASSUME AcceptInv, InsertEntry \/ UNCHANGED vars
  PROVE  AcceptInv'
<1>1. UNCHANGED <<span, at, inside, entries, value, left>>
  BY DEF InsertEntry, vars
<1> QED BY <1>1 DEF AcceptInv, Ledger, Due, WalkLeft, LinksLeft, Link, Source, Begun,
           Checked, InContext, Refusal

LEMMA AcceptInvariant == Spec => []AcceptInv
<1>1. TypeInv /\ ExactInv /\ AcceptInv /\ [Next]_vars => AcceptInv'
  <2> SUFFICES ASSUME TypeInv, ExactInv, AcceptInv, [Next]_vars PROVE AcceptInv'
    OBVIOUS
  <2>1. CASE Call
    BY <2>1, CallKeepsAccept
  <2>2. CASE CopyName \/ CopyAttributes \/ CopyResource \/ CopyScope \/ CopyStatus
    BY <2>2, FieldsKeepAccept
  <2>3. CASE EnterContext
    BY <2>3, EnterContextKeepsAccept
  <2>4. CASE WalkEntry
    BY <2>4, WalkEntryKeepsAccept
  <2>5. CASE InsertEntry \/ UNCHANGED vars
    BY <2>5, StutterKeepsAccept
  <2>6. CASE ReturnContext
    BY <2>6, ReturnContextKeepsAccept
  <2>7. CASE EnterEvents
    BY <2>7, EnterEventsKeepsAccept
  <2>8. CASE CopyEvent
    BY <2>8, CopyEventKeepsAccept
  <2>9. CASE EndEvents
    BY <2>9, EndEventsKeepsAccept
  <2>10. CASE EnterLinks
    BY <2>10, EnterLinksKeepsAccept
  <2>11. CASE CopyLink
    BY <2>11, CopyLinkKeepsAccept
  <2>12. CASE Return
    BY <2>12, ReturnKeepsAccept
  <2> QED BY <2>1, <2>2, <2>3, <2>4, <2>5, <2>6, <2>7, <2>8, <2>9, <2>10, <2>11, <2>12
          DEF Next, spanContext
<1> QED BY <1>1, AcceptInit, TypeInvariant, ExactInvariant, PTL DEF Spec

(* Whatever span ends, it is copied exactly when it is well formed and all  *)
(* of its charges together fit the limit; and then it has been charged      *)
(* them all, each once.                                                     *)
THEOREM AcceptsExactly == Spec => []AcceptsWhatFits
<1>1. TypeInv /\ ExactInv /\ AcceptInv => AcceptsWhatFits
  <2> SUFFICES ASSUME TypeInv, ExactInv, AcceptInv PROVE AcceptsWhatFits
    OBVIOUS
  <2>1. /\ Cost(span) \in Nat /\ spanEnvelopeLimit \in Nat /\ left \in Int
        /\ at # "rejected" => left \in Nat /\ left <= spanEnvelopeLimit
    BY CostIsNat, StageIsPaid DEF TypeInv, TypeOK
  <2>2. CASE at = "copied"
    <3>1. left + Cost(span) = spanEnvelopeLimit + 0
      BY <2>2 DEF AcceptInv, Ledger, Due
    <3>2. Cost(span) <= spanEnvelopeLimit /\ spanEnvelopeLimit - left = Cost(span)
      BY <2>1, <2>2, <3>1
    <3>3. Len(value.events) = Len(span.events) /\ Len(value.links) = Len(span.links)
      BY <2>2 DEF ExactInv, ListsExact
    <3>4. WellFormed(span)
      BY <2>2, <3>3 DEF AcceptInv, Checked, Early, WellFormed
    <3> QED BY <2>2, <3>2, <3>4 DEF AcceptsWhatFits
  <2>3. CASE at = "rejected"
    <3>1. ~WellFormed(span) \/ Cost(span) > spanEnvelopeLimit
      BY <2>3 DEF AcceptInv, Refusal
    <3> QED BY <2>1, <2>3, <3>1 DEF AcceptsWhatFits
  <2>4. CASE at \notin {"copied", "rejected"}
    BY <2>4 DEF AcceptsWhatFits
  <2> QED BY <2>2, <2>3, <2>4
<1> QED BY <1>1, TypeInvariant, ExactInvariant, AcceptInvariant, PTL
=============================================================================
