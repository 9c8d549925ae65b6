------------------------------ MODULE Delivery ------------------------------
(***************************************************************************)
(* What the fulfilment pipeline promises of an order's job, whoever pushes *)
(* and pops it and whatever fails: it is delivered to one worker at a      *)
(* time, tried Limit times at most, and ends finished, buried or lost, for *)
(* good.  A push may leave more copies of the job than one; each is then   *)
(* delivered by itself, with the tries that the job has behind it.  The    *)
(* pipeline is at-most-once for each copy: it may lose one, and it never   *)
(* revives one.                                                            *)
(***************************************************************************)
EXTENDS Naturals

CONSTANTS Orders, Limit,
          Surplus       \* how many copies an order may have beyond the first

VARIABLES place,        \* where each copy of each order's job is
          attempts      \* how often shipping was asked for it

Copies == Orders \X (0..Surplus)
Place == {"unsent", "queued", "held", "finished", "buried", "lost"}

Init == /\ place = [c \in Copies |-> "unsent"]
        /\ attempts = [c \in Copies |-> 0]

Move(c, from, to) == /\ place[c] = from
                     /\ place' = [place EXCEPT ![c] = to]
                     /\ UNCHANGED attempts

(* Copies of the order that do not exist yet.                               *)
Unsent(o, S) == S \subseteq {c \in Copies : c[1] = o /\ place[c] = "unsent"}

(* The first push: the order's first copy, and perhaps more.                *)
Send(o, S) == /\ \A c \in Copies : c[1] = o => place[c] = "unsent"
              /\ Unsent(o, S) /\ <<o, 0>> \in S
              /\ place' = [c \in Copies |-> IF c \in S THEN "queued" ELSE place[c]]
              /\ UNCHANGED attempts

(* A later push moves copy d, and new copies with it.                       *)
Push(d, S, to) ==
  /\ place[d] = "held"
  /\ Unsent(d[1], S)
  /\ place' = [c \in Copies |-> IF c \in S \cup {d} THEN to ELSE place[c]]
  /\ attempts' = [c \in Copies |-> IF c \in S THEN attempts[d] ELSE attempts[c]]

Deliver(c)      == Move(c, "queued", "held")
Redeliver(c, S) == attempts[c] \in 1..(Limit - 1) /\ Push(c, S, "queued")
Bury(c, S)      == attempts[c] = Limit /\ Push(c, S, "buried")
Finish(c)       == attempts[c] > 0 /\ Move(c, "held", "finished")
Lose(c)         == Move(c, "held", "lost") \/ Move(c, "queued", "lost")

Try(c) == /\ place[c] = "held"
          /\ attempts[c] < Limit
          /\ attempts' = [attempts EXCEPT ![c] = @ + 1]
          /\ UNCHANGED place

Next == \E c \in Copies :
          \/ Deliver(c) \/ Try(c) \/ Finish(c) \/ Lose(c)
          \/ \E S \in SUBSET {d \in Copies : place[d] = "unsent"} :
               Send(c[1], S) \/ Redeliver(c, S) \/ Bury(c, S)

Spec == Init /\ [][Next]_<<place, attempts>>
===============================================================================
