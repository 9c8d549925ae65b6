------------------------------- MODULE Budget -------------------------------
(***************************************************************************)
(* The byte budget of a span's envelope (envelopeBudget in envelope.go):   *)
(* what is left of it after a charge.                                      *)
(***************************************************************************)
EXTENDS Integers, Sequences

(* A charge that the budget does not cover leaves Exhausted, which covers   *)
(* no further charge: the early returns of the callers.                     *)
Exhausted == -1

TakeUnchecked(b, n) == b - n   \* mutant: the budget is not tested

Take(b, n) == IF n > b THEN Exhausted ELSE b - n

ItemsOffByOne(b, n, size) ==            \* mutant: >= for >
  IF n >= b \div size THEN Exhausted ELSE Take(b, n * size)

Items(b, n, size) ==
  IF n > b \div size THEN Exhausted ELSE Take(b, n * size)

(* A text is [len |-> its bytes, valid |-> is it UTF-8].                    *)
Text(b, t) ==
  IF t.len > b \/ ~t.valid THEN Exhausted ELSE Take(b, t.len + 64)
-------------------------------------------------------------------------------
(* For the properties: what a text takes of the budget, and the first n, or *)
(* all, of a list of charges.                                               *)
Bytes(t) == t.len + 64

Total(charges, n) ==
  LET sum[i \in 0..Len(charges)] == IF i = 0 THEN 0 ELSE sum[i - 1] + charges[i]
  IN  sum[n]

Amount(charges) == Total(charges, Len(charges))
===============================================================================
