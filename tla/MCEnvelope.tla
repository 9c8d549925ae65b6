----------------------------- MODULE MCEnvelope -----------------------------
(***************************************************************************)
(* The envelope's copy on small attribute lists, and on budgets about what *)
(* they cost.                                                              *)
(***************************************************************************)
EXTENDS Envelope, FiniteSetsExt

Value(type, ts, ns, vs) ==
  [type |-> type, texts |-> ts, numbers |-> ns, values |-> vs]

MCTexts == {[len |-> 0, valid |-> TRUE], [len |-> 3, valid |-> TRUE],
            [len |-> 1, valid |-> FALSE]}
Key == [len |-> 3, valid |-> TRUE]
Name == [len |-> 0, valid |-> TRUE]

Leaves == {Empty, Value("NUMBER", <<>>, <<7>>, <<>>),
           Value("NUMBERS", <<>>, <<1, 2>>, <<>>),
           Value("BYTES", <<>>, <<1, 2, 3>>, <<>>),
           Value("STRINGS", <<Key, Name>>, <<>>, <<>>),
           Value("UNKNOWN", <<>>, <<>>, <<>>)}
            \cup {Value("STRING", <<t>>, <<>>, <<>>) : t \in MCTexts}

Few == {Value("NUMBER", <<>>, <<7>>, <<>>), Value("STRING", <<Key>>, <<>>, <<>>),
        Value("STRINGS", <<Key, Name>>, <<>>, <<>>)}

Lists(S) == {<<>>} \cup {<<x>> : x \in S} \cup (S \X S)

(* Slices and maps of at most two of the values of S.                       *)
Nest(S) == {Value("SLICE", <<>>, <<>>, vs) : vs \in Lists(S)}
             \cup {Value("MAP", [i \in 1..Len(vs) |-> IF i = 1 THEN Name ELSE Key],
                         <<>>, vs) : vs \in Lists(S)}

Nested == Nest(Few)
Some == {v \in Nested : Len(v.values) = 1}
Deep == Nest(Some)
Deepest == {Value("SLICE", <<>>, <<>>, <<v>>) : v \in {d \in Deep : Len(d.values) = 1}}
Broken == {Value("SLICE", <<>>, <<>>, <<Value("NUMBER", <<>>, <<7>>, <<>>), v>>) :
             v \in {Value("UNKNOWN", <<>>, <<>>, <<>>),
                    Value("STRING", <<[len |-> 1, valid |-> FALSE]>>, <<>>, <<>>)}}

Wide == {Value("SLICE", <<>>, <<>>, [i \in 1..6 |-> Empty])}

MCValues == Leaves \cup Few \cup Nested \cup Deep \cup Deepest \cup Broken \cup Wide

MCInputs == {<<>>} \cup {<<[key |-> Key, value |-> v]>> : v \in MCValues}
              \cup {<<[key |-> Name, value |-> v], [key |-> Key, value |-> w]>> :
                      v, w \in Leaves \cup Some}
              \cup {<<[key |-> k, value |-> Empty]>> : k \in MCTexts}

MCHeight[v \in MCValues] ==
  IF v.values = <<>> THEN 0
  ELSE 1 + Max({MCHeight[v.values[i]] : i \in 1..Len(v.values)})

(* Budgets that just cover some of these lists, or just do not.             *)
MCBudgets ==
  {b - d : b \in {1, 64, 128, 163, 166, 195, 230, 326, 355, 454, 550, 614,
                  681, 739, 748, 876, 1065}, d \in {0, 1}}
===============================================================================
