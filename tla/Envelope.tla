------------------------------ MODULE Envelope ------------------------------
(***************************************************************************)
(* How the span envelope copies attributes within a byte budget            *)
(* (envelope.go): attributes charges and copies one attribute after the    *)
(* other, value copies nested slices and maps with a stack of its own.     *)
(* One action per iteration of one of their loops, text by text and node   *)
(* by node.                                                                *)
(*                                                                         *)
(* An attribute value is [type, texts, numbers, values]: what it holds of  *)
(* strings (a map's keys), of numbers, and of values (a map's values).     *)
(* BOOL, INT64 and FLOAT64 are NUMBER, their slices NUMBERS; UNKNOWN is a  *)
(* type the code has no case for. The SDK's constructors rebuild a value   *)
(* from what its own getters returned (MapValue from pairs that are sorted *)
(* and distinct), so they change nothing.                                  *)
(***************************************************************************)
EXTENDS Budget

CONSTANTS Texts,        \* strings: [len |-> its bytes, valid |-> is it UTF-8]
          Values,       \* attribute values, with all the values within them
          Height,       \* how deep each of them nests
          Inputs,       \* the attribute lists to be copied
          Budgets,      \* what earlier fields of the span leave of the budget
          MaxValueDepth \* maxValueDepth

Types == {"EMPTY", "NUMBER", "STRING", "NUMBERS", "BYTES", "STRINGS",
          "SLICE", "MAP", "UNKNOWN"}
Containers == {"SLICE", "MAP"}

Empty == [type |-> "EMPTY", texts |-> <<>>, numbers |-> <<>>, values |-> <<>>]

ASSUME TextsAssumption == \A t \in Texts : t.len \in Nat /\ t.valid \in BOOLEAN
ASSUME ValuesAssumption ==
  \A v \in Values :
    /\ v \in [type : Types, texts : Seq(Texts), numbers : Seq(Int),
              values : Seq(Values)]
    /\ v.type \notin Containers => v.values = <<>>
ASSUME HeightAssumption ==
  /\ Height \in [Values -> Nat]
  /\ \A v \in Values :
       LET below == {Height[v.values[i]] : i \in 1..Len(v.values)}
       IN  IF below = {} THEN Height[v] = 0
           ELSE \E h \in below : Height[v] = h + 1 /\ \A k \in below : k <= h
ASSUME InputsAssumption ==
  \A a \in Inputs : a \in Seq([key : Texts, value : Values])
ASSUME BudgetsAssumption == Budgets \subseteq Nat
ASSUME DepthAssumption == MaxValueDepth \in Nat

VARIABLES input,        \* the attributes to copy
          copied,       \* those copied so far
          jobs,         \* the work stack of value, its top first
          job,          \* the job value has popped, while busy
          busy,
          texts,        \* the strings of that job still to be copied
          cells,        \* what the out pointers point at, by path in the value
          given, left,  \* the budget on entry, and what is left of it
          result        \* "called", "running", "copied" or "rejected"

vars == <<input, copied, jobs, job, busy, texts, cells, given, left, result>>

(* What the slice types charge per item, and how many items they have.      *)
Unit(v) == IF v.type = "NUMBERS" THEN 16
           ELSE IF v.type = "BYTES" THEN 1
           ELSE IF v.type = "STRINGS" THEN 32 ELSE 64
Count(v) == IF v.type \in {"NUMBERS", "BYTES"} THEN Len(v.numbers)
            ELSE IF v.type = "STRINGS" THEN Len(v.texts) ELSE Len(v.values)

ChargeNoChildren(b, v) == Take(b, 32)   \* mutant: the items are not charged

(* The charges of one node before its strings.                              *)
Charge(b, v) ==
  IF v.type = "UNKNOWN" THEN Exhausted
                  ELSE Items(Take(b, 32), Count(v), Unit(v))

Cell(path) == IF path \in DOMAIN cells THEN cells[path] ELSE Empty

Store(path, v) ==
  cells' = [p \in DOMAIN cells \cup {path} |-> IF p = path THEN v ELSE cells[p]]

JobFor(v, path, depth, finish) ==
  [value |-> v, out |-> path, depth |-> depth, finish |-> finish]

Init == /\ input \in Inputs /\ given \in Budgets
        /\ copied = <<>> /\ jobs = <<>> /\ texts = <<>> /\ cells = <<>>
        /\ job = JobFor(Empty, <<>>, 0, FALSE) /\ busy = FALSE
        /\ left = given /\ result = "called"

(* Every charge is tried by an action that may reject instead.              *)
Charged(b) == left' = b /\ result' = IF b = Exhausted THEN "rejected" ELSE "running"
-------------------------------------------------------------------------------
(* attributes: the charge for the list.                                     *)
Enter == /\ result = "called"
         /\ Charged(Items(left, Len(input), 64))
         /\ UNCHANGED <<input, copied, jobs, job, busy, texts, cells, given>>

Between == result = "running" /\ ~busy /\ jobs = <<>>

CopyKey ==
  /\ Between /\ cells = <<>> /\ Len(copied) < Len(input)
  /\ LET a == input[Len(copied) + 1]
     IN  /\ Charged(Text(left, a.key))
         /\ jobs' = <<JobFor(a.value, <<>>, 0, FALSE)>>
  /\ UNCHANGED <<input, copied, job, busy, texts, cells, given>>

KeepAttribute ==
  /\ Between /\ cells # <<>>
  /\ copied' = Append(copied, [key |-> input[Len(copied) + 1].key,
                               value |-> Cell(<<>>)])
  /\ cells' = <<>>
  /\ UNCHANGED <<input, jobs, job, busy, texts, given, left, result>>

Return == /\ Between /\ cells = <<>> /\ Len(copied) = Len(input)
          /\ result' = "copied"
          /\ UNCHANGED <<input, copied, jobs, job, busy, texts, cells, given, left>>
-------------------------------------------------------------------------------
Popping == result = "running" /\ ~busy /\ jobs # <<>>

FinishUnpopped ==       \* mutant: the finishing job stays on the stack
  /\ Popping /\ Head(jobs).finish
  /\ Store(Head(jobs).out, Head(jobs).value)
  /\ UNCHANGED <<input, copied, jobs, job, busy, texts, given, left, result>>

(* The finishing job of a container: its cells have been filled by then.    *)
FinishJob ==
  /\ Popping /\ Head(jobs).finish
  /\ LET j == Head(jobs)
     IN  Store(j.out, [j.value EXCEPT !.values =
                         [i \in 1..Len(j.value.values) |-> Cell(Append(j.out, i))]])
  /\ jobs' = Tail(jobs)
  /\ UNCHANGED <<input, copied, job, busy, texts, given, left, result>>

TooDeep(depth) == depth > MaxValueDepth

BeginJob ==
  /\ Popping /\ ~Head(jobs).finish
  /\ job' = Head(jobs)
  /\ jobs' = Tail(jobs)
  /\ busy' = TRUE
  /\ texts' = Head(jobs).value.texts
  /\ Charged(IF TooDeep(Head(jobs).depth) THEN Exhausted
             ELSE Charge(left, Head(jobs).value))
  /\ UNCHANGED <<input, copied, cells, given>>

CopyText == /\ result = "running" /\ busy /\ texts # <<>>
            /\ Charged(Text(left, Head(texts)))
            /\ texts' = Tail(texts)
            /\ UNCHANGED <<input, copied, jobs, job, busy, cells, given>>

(* A leaf is written through its out pointer.                               *)
WriteLeaf == /\ result = "running" /\ busy /\ texts = <<>>
             /\ job.value.type \notin Containers
             /\ Store(job.out, job.value)
             /\ busy' = FALSE
             /\ UNCHANGED <<input, copied, jobs, job, texts, given, left, result>>

Children == [i \in 1..Len(job.value.values) |->
               JobFor(job.value.values[i], Append(job.out, i), job.depth + 1, FALSE)]

FinishFirst ==          \* mutant: the finishing job is pushed last, popped first
  <<JobFor(job.value, job.out, job.depth, TRUE)>> \o Children

(* Pushed last to first, so that the first child is on top of the stack.    *)
Pushes == Children \o <<JobFor(job.value, job.out, job.depth, TRUE)>>

Expand == /\ result = "running" /\ busy /\ texts = <<>>
          /\ job.value.type \in Containers
          /\ jobs' = Pushes \o jobs
          /\ busy' = FALSE
          /\ UNCHANGED <<input, copied, job, texts, cells, given, left, result>>

ValueStep == FinishJob \/ BeginJob \/ CopyText \/ WriteLeaf \/ Expand

Next == Enter \/ CopyKey \/ KeepAttribute \/ Return \/ ValueStep

Spec == Init /\ [][Next]_vars

(* A loop of one goroutine goes on until it returns.                        *)
FairSpec == Spec /\ WF_vars(Next)
-------------------------------------------------------------------------------
(* What copying a value charges in all, and what a list of attributes does. *)
TextCosts(ts) == [i \in 1..Len(ts) |-> Bytes(ts[i])]
Cost[v \in Values] ==
  32 + Count(v) * Unit(v) + Amount(TextCosts(v.texts))
     + Amount([i \in 1..Len(v.values) |-> Cost[v.values[i]]])
AttributeCosts(attrs) ==
  [i \in 1..Len(attrs) |-> Bytes(attrs[i].key) + Cost[attrs[i].value]]
TotalCost(attrs) == 64 * Len(attrs) + Amount(AttributeCosts(attrs))

(* Every type in it is known, every string is UTF-8, and it is not too deep. *)
Valid[v \in Values] == /\ v.type # "UNKNOWN"
                       /\ \A i \in 1..Len(v.texts) : v.texts[i].valid
                       /\ \A i \in 1..Len(v.values) : Valid[v.values[i]]
WellFormed(v) == Valid[v] /\ Height[v] <= MaxValueDepth

Returned == result \in {"copied", "rejected"}

TypeOK == /\ input \in Inputs
          /\ given \in Budgets /\ left \in Int /\ left >= Exhausted
          /\ jobs \in Seq([value : Values, out : Seq(Nat), depth : Nat,
                           finish : BOOLEAN])
          /\ busy \in BOOLEAN /\ texts \in Seq(Texts)
          /\ result \in {"called", "running", "copied", "rejected"}
          /\ result # "rejected" => left >= 0

(* The copy that value and attributes return equals what they were given,   *)
(* however deep it nests: every finishing job finds its children done.      *)
CopyIsExact == result = "copied" => copied = input

(* Attributes are copied exactly when all of them are well formed and their *)
(* total fits the budget, in whatever order it is charged, and what is      *)
(* missing from the budget then is that total, the size detachedSpan        *)
(* reports: the one charge DetachedSpan makes of a list (Attributes).       *)
AcceptsWhatFits ==
  LET fits == /\ \A i \in 1..Len(input) : /\ input[i].key.valid
                                          /\ WellFormed(input[i].value)
              /\ TotalCost(input) <= given
  IN  Returned => /\ result = "copied" <=> fits
                  /\ left = IF fits THEN given - TotalCost(input) ELSE Exhausted

(* "An explicit, budget-bounded work stack" (value): each job on the stack  *)
(* but the first has been paid for, so the budget bounds the stack.         *)
StackWithinBudget == result = "running" => 32 * Len(jobs) <= 32 + given - left

(* The loops end, with a copy or a rejection, on every value.               *)
AlwaysReturns == <>Returned
===============================================================================
