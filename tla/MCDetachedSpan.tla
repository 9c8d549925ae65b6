--------------------------- MODULE MCDetachedSpan ---------------------------
(***************************************************************************)
(* Whole spans around the edge of the 32 KiB envelope.                     *)
(***************************************************************************)
EXTENDS DetachedSpan, Functions

T(n) == [len |-> n, valid |-> TRUE]
Broken == [len |-> 1, valid |-> FALSE]
L(n, bytes) == [count |-> n, cost |-> 64 * n + bytes, valid |-> TRUE]
BrokenList == [count |-> 1, cost |-> 163, valid |-> FALSE]
Entry(k, v) == [key |-> T(k), value |-> T(v), plain |-> TRUE]
Trace(n) == [i \in 1..n |-> Entry(i, 0)]

Plain == [name |-> T(0), context |-> <<>>, parent |-> <<>>,
          attributes |-> EmptyList, resource |-> EmptyResource,
          scope |-> [name |-> T(0), version |-> T(0), schema |-> T(0),
                     attributes |-> EmptyList],
          status |-> T(0), events |-> <<>>, links |-> <<>>]
Rich == [name |-> T(5), context |-> Trace(3), parent |-> Trace(2),
         attributes |-> L(2, 40), resource |-> [schema |-> T(9),
                                                attributes |-> L(3, 90), nil |-> FALSE],
         scope |-> [name |-> T(4), version |-> T(2), schema |-> T(1),
                    attributes |-> L(1, 33)],
         status |-> T(7),
         events |-> <<[name |-> T(3), attributes |-> L(1, 50)],
                      [name |-> T(1), attributes |-> EmptyList]>>,
         links |-> <<[context |-> Trace(2), attributes |-> L(1, 35)],
                     [context |-> <<Entry(256, 256)>>, attributes |-> EmptyList]>>]

Shapes == {Plain, Rich, [Rich EXCEPT !.resource = NoResource],
           [Plain EXCEPT !.context = Trace(MaxEntries)],
           [Plain EXCEPT !.events = [i \in 1..8 |-> Rich.events[1]]],
           [Plain EXCEPT !.links = [i \in 1..8 |-> Rich.links[2]]]}

(* What occurs in a span.                                                   *)
TextsOf(s) ==
  {s.name, s.resource.schema, s.scope.name, s.scope.version, s.scope.schema, s.status}
    \cup {e.name : e \in Range(s.events)}
    \cup UNION {{e.key, e.value} :
                  e \in UNION {Range(c) : c \in {s.context, s.parent}
                                 \cup {k.context : k \in Range(s.links)}}}
ListsOf(s) ==
  {s.attributes, s.resource.attributes, s.scope.attributes}
    \cup {x.attributes : x \in Range(s.events)} \cup {x.attributes : x \in Range(s.links)}

(* A shape filled up, in one of its texts or lists, to the limit and about. *)
Fill(s, d) ==
  LET n == spanEnvelopeLimit - Cost(s) + d
      more(a) == [a EXCEPT !.cost = @ + n]
  IN  {[s EXCEPT !.name.len = @ + n], [s EXCEPT !.status.len = @ + n],
       [s EXCEPT !.attributes = more(@)], [s EXCEPT !.scope.attributes = more(@)],
       IF s.resource.nil THEN s ELSE [s EXCEPT !.resource.attributes = more(@)]}
        \cup (IF s.events = <<>> THEN {}
              ELSE {[s EXCEPT !.events[Len(s.events)].name.len = @ + n]})
        \cup (IF s.links = <<>> THEN {}
              ELSE {[s EXCEPT !.links[1].attributes = more(@)]})

(* More events, links or attributes than the budget holds, and events and   *)
(* links of which it holds the slices exactly, or all but a byte of them.   *)
Event == [name |-> T(200), attributes |-> EmptyList]
Unlinked == [context |-> <<>>, attributes |-> L(1, 136)]
Many(x, n) == [i \in 1..n |-> x]
Crowded ==
  {[Plain EXCEPT !.events = Many(Event, n)] : n \in {80, 81}}
    \cup {[Plain EXCEPT !.links = Many(Unlinked, n)] : n \in {80, 81}}
    \cup {[Plain EXCEPT !.resource.attributes = L(n, 0)] : n \in {480, 600}}
    \cup {[Plain EXCEPT !.scope.attributes = L(n, 0)] : n \in {480, 600}}
    \cup {[s EXCEPT !.name = T(spanEnvelopeLimit - Cost(Plain) - 8 * 128 + d)] :
            s \in {[Plain EXCEPT !.events = Many(Event, 8)],
                   [Plain EXCEPT !.links = Many(Unlinked, 8)]}, d \in {0, 1}}

Spoilt == {[Rich EXCEPT !.name = Broken], [Rich EXCEPT !.attributes = BrokenList],
           [Rich EXCEPT !.resource.schema = Broken],
           [Rich EXCEPT !.resource.attributes = BrokenList],
           [Rich EXCEPT !.scope.version = Broken],
           [Rich EXCEPT !.scope.attributes = BrokenList],
           [Rich EXCEPT !.status = Broken],
           [Rich EXCEPT !.events[2].name = Broken],
           [Rich EXCEPT !.events[1].attributes = BrokenList],
           [Rich EXCEPT !.links[2].attributes = BrokenList]}

MCSpans == Shapes \cup UNION {Fill(s, d) : s \in Shapes, d \in {-1, 0, 1, 63}}
                  \cup Crowded \cup Spoilt

MCTexts == UNION {TextsOf(s) : s \in MCSpans}
MCLists == UNION {ListsOf(s) : s \in MCSpans} \cup {EmptyList}
===============================================================================
