--------------------------- MODULE MCSpanProcessor ---------------------------
(***************************************************************************)
(* Two spans that fit, one that does not and one that is not sampled, a    *)
(* queue of one, and two callers of Shutdown.                              *)
(***************************************************************************)
EXTENDS SpanProcessor

CONSTANTS plain, rich, huge, unsampled

MCSpans == {plain, rich, huge, unsampled}

Attributes == {[key |-> "status", len |-> 3], [key |-> "url.full", len |-> 9],
                [key |-> "stage", len |-> 257], [key |-> "http.route", len |-> 256]}

AttributesOf(s) == IF s = rich THEN Attributes ELSE {}

MCContent == [s \in MCSpans |->
                [context |-> "of its end", attributes |-> AttributesOf(s),
                 events |-> 1, links |-> 1, description |-> 1]]

MCReused == [Blank EXCEPT !.context = "of another",
                          !.attributes = {[key |-> "type", len |-> 1]}]
===============================================================================
