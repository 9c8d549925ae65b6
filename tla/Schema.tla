------------------------------- MODULE Schema -------------------------------
(***************************************************************************)
(* What starting the service promises of the database schema: every        *)
(* migration takes effect once, in the order of its file name, and an      *)
(* instance serves only while the schema has all its binary embeds.        *)
(***************************************************************************)
EXTENDS Naturals

CONSTANTS Instances, Count, Embedded

VARIABLES runs,         \* how often each migration has taken effect
          ready         \* the instances that may serve

Init == runs = [v \in 1..Count |-> 0] /\ ready = {}

Apply(v) == /\ runs[v] = 0
            /\ \A w \in 1..(v - 1) : runs[w] = 1
            /\ runs' = [runs EXCEPT ![v] = 1]
            /\ UNCHANGED ready

Open(i) == /\ \A v \in 1..Embedded[i] : runs[v] = 1
           /\ ready' = ready \cup {i}
           /\ UNCHANGED runs

Close(i) == ready' = ready \ {i} /\ UNCHANGED runs

Next == \/ \E v \in 1..Count : Apply(v)
        \/ \E i \in Instances : Open(i) \/ Close(i)

Spec == Init /\ [][Next]_<<runs, ready>>
===============================================================================
