--------------------------- MODULE EnvelopeProofs ---------------------------
(***************************************************************************)
(* The copy of an attribute list, for every set of attribute values, every *)
(* budget and every depth limit: its work stack is bounded by the budget,  *)
(* a list that is not rejected is copied as it was, and it is rejected     *)
(* exactly when it is not well formed or does not fit the budget. The      *)
(* budget bounds the work as well: every loop ends.                        *)
(***************************************************************************)
EXTENDS Envelope, BudgetProofs

Jobs == [value : Values, out : Seq(Nat), depth : Nat, finish : BOOLEAN]

(* A popped job still owes the stack its children and its finishing job.    *)
Owed == IF busy THEN 1 + Len(job.value.values) ELSE 0

(* What has been charged pays, 32 each, for every job that is on the stack  *)
(* or owed to it, but for the first.                                        *)
Paid == 32 * (Len(jobs) + Owed) <= 32 + given - left

StackInv == /\ input \in Inputs
            /\ given \in Budgets /\ left \in Int
            /\ \E S : copied \in Seq(S)
            /\ jobs \in Seq(Jobs)
            /\ busy \in BOOLEAN
            /\ busy => job \in Jobs
            /\ texts \in Seq(Texts)
            /\ result \in {"called", "running", "copied", "rejected"}
            /\ left >= Exhausted
            /\ result # "rejected" => left \in 0..given
            /\ result = "called" => jobs = <<>> /\ ~busy
            /\ result = "running" => Paid
-------------------------------------------------------------------------------
(* A node that is not rejected has paid for the jobs it may push.           *)
LEMMA ChargeBounds ==
  ASSUME NEW b \in Nat, NEW v \in Values
  PROVE  /\ Charge(b, v) \in Int /\ Charge(b, v) >= Exhausted
         /\ Charge(b, v) # Exhausted =>
              Charge(b, v) >= 0 /\ Charge(b, v) <= b - 32 - 32 * Len(v.values)
<1> DEFINE left32 == Take(b, 32)
<1>1. left32 \in Int /\ left32 >= Exhausted /\ (left32 # Exhausted => left32 = b - 32)
  BY TakeBounds DEF Exhausted
<1>2. Len(v.values) \in Nat /\ Len(v.texts) \in Nat /\ Len(v.numbers) \in Nat
  BY ValuesAssumption
<1>3. Count(v) \in Nat /\ Unit(v) \in Nat \ {0}
  BY <1>2 DEF Count, Unit
<1>4. /\ Items(left32, Count(v), Unit(v)) \in Int
      /\ Items(left32, Count(v), Unit(v)) >= Exhausted
      /\ Items(left32, Count(v), Unit(v)) # Exhausted =>
           /\ left32 >= 0
           /\ Items(left32, Count(v), Unit(v)) = left32 - Count(v) * Unit(v)
           /\ Items(left32, Count(v), Unit(v)) >= 0
  <2> HIDE DEF left32
  <2> QED BY <1>1, <1>3, ItemsBounds
<1>5. Count(v) * Unit(v) >= 32 * Len(v.values)
  <2>1. CASE v.type \in Containers
    <3>1. Count(v) = Len(v.values) /\ Unit(v) = 64
      BY <2>1 DEF Count, Unit, Containers
    <3> QED BY <3>1, <1>2
  <2>2. CASE v.type \notin Containers
    <3>1. Len(v.values) = 0
      BY <2>2, ValuesAssumption
    <3>2. Count(v) * Unit(v) >= 0
      BY <1>3
    <3> QED BY <3>1, <3>2
  <2> QED BY <2>1, <2>2
<1>6. Count(v) * Unit(v) \in Int
  BY <1>3
<1> HIDE DEF left32
<1>7. CASE v.type = "UNKNOWN"
  BY <1>7 DEF Charge, Exhausted
<1>8. CASE v.type # "UNKNOWN"
  <2>1. Charge(b, v) = Items(left32, Count(v), Unit(v))
    BY <1>8 DEF Charge, left32
  <2> DEFINE c == Count(v) * Unit(v)
  <2>2. c \in Int /\ c >= 32 * Len(v.values)
    BY <1>5, <1>6
  <2>3. /\ Charge(b, v) \in Int /\ Charge(b, v) >= Exhausted
        /\ Charge(b, v) # Exhausted =>
             left32 >= 0 /\ Charge(b, v) = left32 - c /\ Charge(b, v) >= 0
    BY <2>1, <1>4
  <2> DEFINE n == Len(v.values)
             r == Charge(b, v)
  <2>4. c \in Int /\ n \in Nat /\ r \in Int /\ c >= 32 * n
    BY <2>2, <2>3, <1>2
  <2>5. r # Exhausted => r = b - 32 - c /\ r >= 0
    BY <2>3, <1>1 DEF Exhausted
  <2>6. r # Exhausted => r >= 0 /\ r <= b - 32 - 32 * n
    <3> HIDE DEF c, n, r
    <3> QED BY <2>4, <2>5
  <2> QED BY <2>3, <2>6
<1> QED BY <1>7, <1>8
-------------------------------------------------------------------------------
LEMMA StackInit == Init => StackInv
<1> SUFFICES ASSUME Init PROVE StackInv
  OBVIOUS
<1>1. copied \in Seq({})
  BY DEF Init
<1>2. given \in Nat
  BY BudgetsAssumption DEF Init
<1>3. \E S : copied \in Seq(S)
  BY <1>1
<1>4. jobs \in Seq(Jobs) /\ texts \in Seq(Texts)
  BY DEF Init
<1>5. input \in Inputs /\ given \in Budgets /\ jobs = <<>> /\ busy = FALSE
      /\ left = given /\ result = "called"
  BY DEF Init
<1>6. left \in Int /\ left >= Exhausted /\ left \in 0..given
  BY <1>2, <1>5 DEF Exhausted
<1> QED
  BY <1>3, <1>4, <1>5, <1>6 DEF StackInv

(* Expanding a container pushes its children and its finishing job.         *)
LEMMA ExpandPushes ==
  ASSUME StackInv, Expand
  PROVE  jobs' \in Seq(Jobs) /\ Len(jobs') = Len(job.value.values) + 1 + Len(jobs)
<1>1. job \in Jobs /\ result = "running" /\ busy
  BY DEF Expand, StackInv
<1>2. /\ job.value \in Values /\ job.out \in Seq(Nat) /\ job.depth \in Nat
      /\ job.value.values \in Seq(Values)
  BY <1>1, ValuesAssumption DEF Jobs
<1>3. ASSUME NEW i \in 1..Len(job.value.values)
      PROVE  JobFor(job.value.values[i], Append(job.out, i), job.depth + 1, FALSE)
               \in Jobs
  <2>1. job.value.values[i] \in Values
    BY <1>2
  <2>2. Append(job.out, i) \in Seq(Nat)
    BY <1>2
  <2> QED BY <2>1, <2>2, <1>2 DEF Jobs, JobFor
<1>4. Children \in Seq(Jobs) /\ Len(Children) = Len(job.value.values)
  <2>1. Len(job.value.values) \in Nat
    BY <1>2
  <2>2. Children \in [1..Len(job.value.values) -> Jobs]
    BY <1>3 DEF Children
  <2>3. Children \in Seq(Jobs)
    BY <2>1, <2>2, SeqDef
  <2>4. DOMAIN Children = 1..Len(job.value.values)
    BY DEF Children
  <2>5. 1..Len(Children) = 1..Len(job.value.values) /\ Len(Children) \in Nat
    BY <2>3, <2>4, LenProperties
  <2> QED BY <2>1, <2>3, <2>5
<1>5. JobFor(job.value, job.out, job.depth, TRUE) \in Jobs
  BY <1>2 DEF Jobs, JobFor
<1>6. Pushes \in Seq(Jobs) /\ Len(Pushes) = Len(job.value.values) + 1
  <2> DEFINE j == JobFor(job.value, job.out, job.depth, TRUE)
  <2>1. Pushes = Children \o <<j>> /\ j \in Jobs
    BY <1>5 DEF Pushes
  <2> HIDE DEF j
  <2>2. <<j>> \in Seq(Jobs) /\ Len(<<j>>) = 1
    BY <2>1
  <2>3. Len(Children \o <<j>>) = Len(Children) + 1
        /\ Children \o <<j>> \in Seq(Jobs)
    BY <2>2, <1>4, ConcatProperties
  <2> QED BY <2>1, <2>3, <1>4
<1>7. jobs' \in Seq(Jobs) /\ Len(jobs') = Len(job.value.values) + 1 + Len(jobs)
  <2>1. jobs' = Pushes \o jobs /\ jobs \in Seq(Jobs)
    BY DEF Expand, StackInv
  <2>2. /\ Pushes \o jobs \in Seq(Jobs)
        /\ Len(Pushes \o jobs) = Len(Pushes) + Len(jobs)
    BY <2>1, <1>6, ConcatProperties
  <2> QED BY <2>1, <2>2, <1>6
<1> QED BY <1>7

LEMMA StackStep == StackInv /\ [Next]_vars => StackInv'
<1> SUFFICES ASSUME StackInv, [Next]_vars PROVE StackInv'
  OBVIOUS
<1>0. given \in Nat
  BY BudgetsAssumption DEF StackInv
<1> USE DEF StackInv
<1>1. CASE Enter
  <2>1. Len(input) \in Nat
    BY InputsAssumption
  <2>2. left \in Nat
    BY <1>1, <1>0 DEF Enter
  <2> DEFINE b == Items(left, Len(input), 64)
  <2>3. b \in Int /\ b >= Exhausted /\ (b # Exhausted => b >= 0 /\ b <= left)
    <3>1. /\ Items(left, Len(input), 64) \in Int
          /\ Items(left, Len(input), 64) >= Exhausted
          /\ Items(left, Len(input), 64) # Exhausted =>
               /\ Items(left, Len(input), 64) >= 0
               /\ Items(left, Len(input), 64) <= left
      <4> DEFINE n == Len(input)
                 m == left
                 size == 64
      <4>1. n \in Nat /\ m \in Nat /\ size \in Nat \ {0}
        BY <2>1, <2>2
      <4> HIDE DEF n, m, size
      <4>2. /\ Items(m, n, size) \in Int /\ Items(m, n, size) >= Exhausted
            /\ Items(m, n, size) # Exhausted =>
                 Items(m, n, size) >= 0 /\ Items(m, n, size) <= m
        BY <4>1, ItemsShrink
      <4> QED BY <4>2 DEF n, m, size
    <3> QED BY <3>1
  <2>4. left' = b /\ result' = IF b = Exhausted THEN "rejected" ELSE "running"
    BY <1>1 DEF Enter, Charged
  <2> HIDE DEF b
  <2> QED
    BY <1>0, <1>1, <2>2, <2>3, <2>4 DEF Enter, Paid, Owed, Exhausted
<1>2. CASE CopyKey
  <2> DEFINE a == input[Len(copied) + 1]
             b == Text(left, a.key)
             j == JobFor(a.value, <<>>, 0, FALSE)
  <2>1. Len(copied) + 1 \in 1..Len(input)
    BY <1>2, InputsAssumption DEF CopyKey
  <2>2. a.key \in Texts /\ a.value \in Values
    <3>1. input \in Seq([key : Texts, value : Values])
      BY InputsAssumption
    <3>2. a \in [key : Texts, value : Values]
      BY <3>1, <2>1, ElementOfSeq
    <3> HIDE DEF a
    <3> QED BY <3>2
  <2>3. left \in Nat /\ jobs = <<>> /\ ~busy /\ result = "running"
    BY <1>2, <1>0 DEF CopyKey, Between
  <2>4. b \in Int /\ b >= Exhausted /\ (b # Exhausted => b >= 0 /\ b <= left)
    BY <2>2, <2>3, TextsAssumption, TextBounds DEF Exhausted
  <2>5. j \in Jobs
    BY <2>2 DEF Jobs, JobFor
  <2>6. /\ left' = b /\ result' = IF b = Exhausted THEN "rejected" ELSE "running"
        /\ jobs' = <<j>>
        /\ UNCHANGED <<input, copied, job, busy, texts, cells, given>>
    BY <1>2 DEF CopyKey, Charged
  <2> HIDE DEF a, b, j
  <2>7. jobs' \in Seq(Jobs) /\ Len(jobs') = 1
    BY <2>5, <2>6
  <2>8. Owed' = 0
    BY <2>3, <2>6 DEF Owed
  <2> QED
    BY <1>0, <2>3, <2>4, <2>6, <2>7, <2>8 DEF Paid, Exhausted
<1>3. CASE KeepAttribute
  <2>1. \E S : copied' \in Seq(S)
    <3>1. PICK S : copied \in Seq(S)
      OBVIOUS
    <3> DEFINE x == [key |-> input[Len(copied) + 1].key, value |-> Cell(<<>>)]
    <3>2. copied' = Append(copied, x)
      BY <1>3 DEF KeepAttribute
    <3> HIDE DEF x
    <3>3. copied \in Seq(S \cup {x})
      BY <3>1
    <3>4. copied' \in Seq(S \cup {x})
      BY <3>2, <3>3
    <3> QED BY <3>4
  <2> QED
    BY <1>3, <2>1 DEF KeepAttribute, Paid, Owed
<1>4. CASE Return
  BY <1>4 DEF Return, Between, Paid, Owed
<1>5. CASE FinishJob
  <2>1. jobs' \in Seq(Jobs) /\ Len(jobs') = Len(jobs) - 1
    BY <1>5 DEF FinishJob, Popping
  <2> QED
    BY <1>0, <1>5, <2>1 DEF FinishJob, Popping, Paid, Owed
<1>6. CASE BeginJob
  <2> DEFINE h == Head(jobs)
             b == IF TooDeep(h.depth) THEN Exhausted ELSE Charge(left, h.value)
  <2>1. h \in Jobs /\ jobs' \in Seq(Jobs) /\ Len(jobs') = Len(jobs) - 1
    BY <1>6 DEF BeginJob, Popping
  <2>2. /\ h.value \in Values /\ h.value.texts \in Seq(Texts)
        /\ Len(h.value.values) \in Nat
    BY <2>1, ValuesAssumption DEF Jobs
  <2>3. left \in Nat /\ ~busy /\ result = "running"
    BY <1>6, <1>0 DEF BeginJob, Popping
  <2>4. /\ b \in Int /\ b >= Exhausted
        /\ b # Exhausted => b >= 0 /\ b <= left - 32 - 32 * Len(h.value.values)
    <3> DEFINE c == Charge(left, h.value)
    <3>1. /\ c \in Int /\ c >= Exhausted
          /\ c # Exhausted => c >= 0 /\ c <= left - 32 - 32 * Len(h.value.values)
      BY <2>2, <2>3, ChargeBounds
    <3>2. b \in {Exhausted, c}
      OBVIOUS
    <3> HIDE DEF b, c, h
    <3> QED BY <3>1, <3>2 DEF Exhausted
  <2>5. /\ left' = b /\ result' = IF b = Exhausted THEN "rejected" ELSE "running"
        /\ job' = h /\ busy' = TRUE /\ texts' = h.value.texts
        /\ UNCHANGED <<input, copied, cells, given>>
    BY <1>6 DEF BeginJob, Charged
  <2> HIDE DEF h, b
  <2>6. Owed' = 1 + Len(h.value.values) /\ Owed = 0
    BY <2>3, <2>5 DEF Owed
  <2>7. ASSUME b # Exhausted PROVE Paid'
    <3> DEFINE n == Len(h.value.values)
               l == Len(jobs)
    <3>1. l \in Nat /\ n \in Nat /\ given \in Nat /\ b \in Int /\ left \in Int
      BY <1>0, <2>2, <2>3, <2>4
    <3>2. Len(jobs') = l - 1 /\ Owed' = 1 + n /\ left' = b /\ given' = given
      BY <2>1, <2>5, <2>6
    <3>3. 32 * l <= 32 + given - left
      BY <2>3, <2>6, <3>1, <1>0 DEF Paid
    <3>4. b <= left - 32 - 32 * n
      BY <2>4, <2>7
    <3> HIDE DEF n, l
    <3>5. 32 * ((l - 1) + (1 + n)) <= 32 + given - b
      BY <3>1, <3>3, <3>4
    <3> QED BY <3>2, <3>5 DEF Paid
  <2> QED
    BY <1>0, <2>1, <2>2, <2>3, <2>4, <2>5, <2>7 DEF Exhausted
<1>7. CASE CopyText
  <2> DEFINE b == Text(left, Head(texts))
  <2>1. Head(texts) \in Texts /\ texts' \in Seq(Texts)
    BY <1>7 DEF CopyText
  <2>2. left \in Nat /\ result = "running" /\ busy
    BY <1>7, <1>0 DEF CopyText
  <2>3. b \in Int /\ b >= Exhausted /\ (b # Exhausted => b >= 0 /\ b <= left)
    BY <2>1, <2>2, TextsAssumption, TextBounds DEF Exhausted
  <2>4. /\ left' = b /\ result' = IF b = Exhausted THEN "rejected" ELSE "running"
        /\ UNCHANGED <<input, copied, jobs, job, busy, cells, given>>
    BY <1>7 DEF CopyText, Charged
  <2> HIDE DEF b
  <2>5. Len(jobs) \in Nat /\ Owed \in Nat
    BY <2>2, ValuesAssumption DEF Owed, Jobs
  <2>6. Owed' = Owed
    BY <2>4 DEF Owed
  <2> QED
    BY <1>0, <2>1, <2>2, <2>3, <2>4, <2>5, <2>6 DEF Paid, Exhausted
<1>8. CASE WriteLeaf
  <2>1. Len(job.value.values) \in Nat /\ Len(jobs) \in Nat
    BY <1>8, ValuesAssumption DEF WriteLeaf, Jobs
  <2>2. Paid'
    BY <1>0, <1>8, <2>1 DEF WriteLeaf, Paid, Owed
  <2> QED
    BY <1>8, <2>2 DEF WriteLeaf
<1>9. CASE Expand
  <2>1. job \in Jobs /\ result = "running" /\ busy /\ job.value.values \in Seq(Values)
    BY <1>9, ValuesAssumption DEF Expand, Jobs
  <2>2. jobs' \in Seq(Jobs) /\ Len(jobs') = Len(job.value.values) + 1 + Len(jobs)
    BY <1>9, ExpandPushes
  <2>3. Owed' = 0 /\ Owed = 1 + Len(job.value.values)
    BY <1>9 DEF Expand, Owed
  <2>4. Paid'
    <3>1. Len(jobs) \in Nat /\ Len(job.value.values) \in Nat
      BY <2>1
    <3> QED BY <3>1, <1>0, <1>9, <2>1, <2>2, <2>3 DEF Expand, Paid
  <2> QED
    BY <1>9, <2>1, <2>2, <2>4 DEF Expand
<1>10. CASE UNCHANGED vars
  BY <1>10 DEF vars, Paid, Owed
<1> QED
  BY <1>1, <1>2, <1>3, <1>4, <1>5, <1>6, <1>7, <1>8, <1>9, <1>10
  DEF Next, ValueStep

LEMMA StackInvariant == Spec => []StackInv
BY StackInit, StackStep, PTL DEF Spec

(* Every variable of the copy keeps its type, for all values and budgets.   *)
THEOREM EnvelopeTypeCorrect == Spec => []TypeOK
<1>1. StackInv => TypeOK
  BY DEF StackInv, TypeOK, Jobs, Exhausted
<1> QED BY <1>1, StackInvariant, PTL

(* The budget bounds the stack whatever is nested in what: with 32 KiB it   *)
(* never holds more than 1025 jobs.                                         *)
THEOREM BudgetBoundsStack == Spec => []StackWithinBudget
<1>1. StackInv => StackWithinBudget
  <2> SUFFICES ASSUME StackInv, result = "running"
               PROVE  32 * Len(jobs) <= 32 + given - left
    BY DEF StackWithinBudget
  <2>1. Len(jobs) \in Nat /\ given \in Nat /\ left \in Int
    BY BudgetsAssumption DEF StackInv
  <2>2. Owed \in Nat
    BY ValuesAssumption DEF StackInv, Owed, Jobs
  <2> QED BY <2>1, <2>2 DEF StackInv, Paid
<1> QED BY <1>1, StackInvariant, PTL
-------------------------------------------------------------------------------
(* The copy is exact. Below, A is the stack with the job at work first, C   *)
(* the cells, v the value being copied; a path leads from v to a node.      *)

(* The cell C holds x at the path p.                                        *)
Held(C, p, x) == p \in DOMAIN C /\ C[p] = x

(* What the job A[k] needs at a path when its turn comes: a finishing job   *)
(* its children, and attributes, below the stack, the whole value v.        *)
Wants(A, v, k, p, x) ==
  \/ k = Len(A) + 1 /\ p = <<>> /\ x = v
  \/ /\ k \in 1..Len(A) /\ A[k].finish
     /\ \E i \in 1..Len(A[k].value.values) :
          p = Append(A[k].out, i) /\ x = A[k].value.values[i]

(* It is there already, or a job above will write it.                       *)
Awaited(A, C, v) ==
  \A k \in 1..(Len(A) + 1), p \in Seq(Nat), x \in Values :
    Wants(A, v, k, p, x) =>
      Held(C, p, x) \/ \E m \in 1..(k - 1) : A[m].out = p /\ A[m].value = x

(* Whoever writes at a path that is wanted writes what is wanted.           *)
Consistent(A, v) ==
  \A k \in 1..(Len(A) + 1), p \in Seq(Nat), x \in Values :
    Wants(A, v, k, p, x) =>
      \A m \in 1..Len(A) : A[m].out = p => A[m].value = x

Below(p, q) == Len(p) <= Len(q) /\ \A i \in 1..Len(p) : q[i] = p[i]

(* A node that is not expanded has nobody working within it.                *)
Alone(A) == \A m, k \in 1..Len(A) :
              m # k /\ ~A[m].finish => ~Below(A[m].out, A[k].out)

Copying(A, C, v) == Awaited(A, C, v) /\ Consistent(A, v) /\ Alone(A)

(* Expand makes the stack B of A: the first job, of a container of n values, *)
(* gives way to a job for each and to its finishing job.                     *)
Unfolds(A, B, a, n) ==
  /\ Len(A) = a /\ Len(B) = n + a
  /\ ~A[1].finish /\ Len(A[1].value.values) = n
  /\ \A i \in 1..n : /\ B[i].value = A[1].value.values[i]
                     /\ B[i].out = Append(A[1].out, i) /\ ~B[i].finish
  /\ B[n + 1].value = A[1].value /\ B[n + 1].out = A[1].out /\ B[n + 1].finish
  /\ \A m \in 2..a : B[n + m] = A[m]
-------------------------------------------------------------------------------
(* What a job on the stack is made of.                                      *)
LEMMA JobFields ==
  ASSUME NEW A \in Seq(Jobs), NEW k \in 1..Len(A)
  PROVE  /\ A[k] \in Jobs /\ A[k].value \in Values /\ A[k].out \in Seq(Nat)
         /\ A[k].finish \in BOOLEAN
         /\ A[k].value.values \in Seq(Values)
<1>1. A[k] \in Jobs
  BY ElementOfSeq
<1> QED BY <1>1, ValuesAssumption DEF Jobs

(* A child's path extends its container's by one step.                      *)
LEMMA AppendedPaths ==
  ASSUME NEW o \in Seq(Nat), NEW i \in Nat
  PROVE  /\ Append(o, i) \in Seq(Nat) /\ Append(o, i) # <<>>
         /\ Len(Append(o, i)) = Len(o) + 1
         /\ \A n \in 1..Len(o) : Append(o, i)[n] = o[n]
         /\ Append(o, i)[Len(o) + 1] = i
         /\ ~Below(Append(o, i), o)
BY AppendProperties, LenProperties DEF Below

(* Below one container the paths of two children never meet.                *)
LEMMA PathsDiverge ==
  ASSUME NEW o \in Seq(Nat), NEW i \in Nat, NEW q \in Seq(Nat), NEW j \in Nat
  PROVE  /\ Below(Append(o, i), q) => Below(o, q)
         /\ Below(Append(o, i), Append(o, j)) => i = j
         /\ Below(q, Append(o, i)) => Below(q, o) \/ Below(o, q)
         /\ Append(o, i) = Append(q, j) => Below(o, q)
<1> DEFINE oi == Append(o, i)
           oj == Append(o, j)
           qj == Append(q, j)
<1>1. /\ Len(oi) = Len(o) + 1 /\ \A n \in 1..Len(o) : oi[n] = o[n]
      /\ oi[Len(o) + 1] = i
  BY AppendedPaths
<1>2. /\ Len(oj) = Len(o) + 1 /\ \A n \in 1..Len(o) : oj[n] = o[n]
      /\ oj[Len(o) + 1] = j
  BY AppendedPaths
<1>3. /\ Len(qj) = Len(q) + 1 /\ \A n \in 1..Len(q) : qj[n] = q[n]
  BY AppendedPaths
<1>4. Len(o) \in Nat /\ Len(q) \in Nat
  BY LenProperties
<1> HIDE DEF oi, oj, qj
<1>5. Below(oi, q) => Below(o, q)
  BY <1>1, <1>4 DEF Below
<1>6. Below(oi, oj) => i = j
  BY <1>1, <1>2, <1>4 DEF Below
<1>7. Below(q, oi) => Below(q, o) \/ Below(o, q)
  <2> SUFFICES ASSUME Below(q, oi), ~Below(q, o) PROVE Below(o, q)
    OBVIOUS
  <2>1. Len(q) = Len(o) + 1
    BY <1>1, <1>4 DEF Below
  <2> QED BY <2>1, <1>1, <1>4 DEF Below
<1>8. oi = qj => Below(o, q)
  BY <1>1, <1>3, <1>4 DEF Below
<1> QED BY <1>5, <1>6, <1>7, <1>8 DEF oi, oj, qj
-------------------------------------------------------------------------------
(* The first job is done, and what it stands for has been written.          *)
LEMMA Removed ==
  ASSUME NEW v \in Values, NEW A \in Seq(Jobs), NEW C,
         NEW a \in Nat, Len(A) = a + 1,
         NEW B \in Seq(Jobs), Len(B) = a,
         \A m \in 1..a : B[m] = A[m + 1],
         NEW D, DOMAIN D = DOMAIN C \cup {A[1].out}, D[A[1].out] = A[1].value,
         \A p \in DOMAIN C \ {A[1].out} : D[p] = C[p],
         Copying(A, C, v)
  PROVE  Copying(B, D, v)
<1>1. ASSUME NEW k \in 1..(Len(B) + 1), NEW p, NEW x, Wants(B, v, k, p, x)
      PROVE  k + 1 \in 1..(Len(A) + 1) /\ Wants(A, v, k + 1, p, x)
  <2>1. k \in 1..(a + 1) /\ k + 1 \in 1..(a + 2) /\ (k = a + 1 <=> k + 1 = a + 2)
    OBVIOUS
  <2>2. k \in 1..a => k + 1 \in 1..(a + 1) /\ B[k] = A[k + 1]
    BY <2>1
  <2> QED BY <1>1, <2>1, <2>2 DEF Wants
<1>2. ASSUME NEW k \in 1..(Len(B) + 1), NEW p \in Seq(Nat), NEW x \in Values,
             Wants(B, v, k, p, x)
      PROVE  Held(D, p, x) \/ \E m \in 1..(k - 1) : B[m].out = p /\ B[m].value = x
  <2>1. k + 1 \in 1..(Len(A) + 1) /\ Wants(A, v, k + 1, p, x)
    BY <1>1, <1>2
  <2>2. A[1].out = p => A[1].value = x
    BY <2>1 DEF Copying, Consistent
  <2>3. Held(C, p, x) \/ \E m \in 1..k : A[m].out = p /\ A[m].value = x
    BY <2>1 DEF Copying, Awaited
  <2>4. CASE Held(C, p, x)
    BY <2>2, <2>4 DEF Held
  <2>5. ASSUME NEW m \in 1..k, A[m].out = p, A[m].value = x
        PROVE  Held(D, p, x) \/ \E n \in 1..(k - 1) : B[n].out = p /\ B[n].value = x
    <3>1. CASE m = 1
      BY <2>5, <3>1 DEF Held
    <3>2. CASE m # 1
      <4>1. m - 1 \in 1..(k - 1) /\ m - 1 \in 1..Len(B) /\ B[m - 1] = A[m]
        BY <3>2
      <4>2. B[m - 1].out = p /\ B[m - 1].value = x
        BY <4>1, <2>5
      <4> QED BY <4>1, <4>2
    <3> QED BY <3>1, <3>2
  <2> QED BY <2>3, <2>4, <2>5
<1>3. Consistent(B, v)
  <2> SUFFICES ASSUME NEW k \in 1..(Len(B) + 1), NEW p \in Seq(Nat),
                      NEW x \in Values, Wants(B, v, k, p, x),
                      NEW m \in 1..Len(B), B[m].out = p
               PROVE  B[m].value = x
    BY DEF Consistent
  <2>1. k + 1 \in 1..(Len(A) + 1) /\ Wants(A, v, k + 1, p, x)
    BY <1>1
  <2>2. m + 1 \in 1..Len(A) /\ B[m] = A[m + 1]
    OBVIOUS
  <2> QED BY <2>1, <2>2 DEF Copying, Consistent
<1>4. Alone(B)
  BY DEF Copying, Alone
<1> QED BY <1>2, <1>3, <1>4 DEF Copying, Awaited

(* The first job gives way to its children and its finishing job.           *)
LEMMA Expanded ==
  ASSUME NEW v \in Values, NEW A \in Seq(Jobs), NEW C,
         NEW a \in Nat \ {0}, NEW B \in Seq(Jobs), NEW n \in Nat,
         Unfolds(A, B, a, n), Copying(A, C, v)
  PROVE  Copying(B, C, v)
<1>0. /\ Len(A) = a /\ Len(B) = n + a /\ ~A[1].finish
      /\ Len(A[1].value.values) = n
      /\ \A i \in 1..n : /\ B[i].value = A[1].value.values[i]
                         /\ B[i].out = Append(A[1].out, i) /\ ~B[i].finish
      /\ B[n + 1].value = A[1].value /\ B[n + 1].out = A[1].out /\ B[n + 1].finish
      /\ \A m \in 2..a : B[n + m] = A[m]
  BY DEF Unfolds
<1> USE <1>0
<1> DEFINE o == A[1].out
<1>1. ASSUME NEW m \in 1..(n + a + 1)
      PROVE  m \in 1..n \/ m = n + 1 \/ (m - n \in 2..(a + 1) /\ n + (m - n) = m)
  OBVIOUS
<1>2. 1 \in 1..a /\ o \in Seq(Nat) /\ A[1].value \in Values
  BY <1>1, JobFields
<1>3. \A m \in 2..a : ~Below(o, A[m].out) /\ A[m].out # o
  <2>1. \A m \in 2..a : ~Below(o, A[m].out)
    BY <1>1 DEF Copying, Alone
  <2>2. Below(o, o)
    BY <1>2, LenProperties DEF Below
  <2> QED BY <2>1, <2>2
<1>4. ASSUME NEW m \in 2..a PROVE A[m].out \in Seq(Nat)
  <2>1. m \in 1..Len(A)
    OBVIOUS
  <2> QED BY <2>1, JobFields
<1>5. ASSUME NEW m \in 1..(n + a)
      PROVE  m \in 1..n \/ m = n + 1 \/ (m - n \in 2..a /\ B[m] = A[m - n])
  <2>1. CASE m > n + 1
    <3>1. m - n \in 2..a /\ n + (m - n) = m
      BY <2>1, <1>1
    <3> QED BY <3>1
  <2> QED BY <2>1, <1>1
<1>6. ASSUME NEW k \in 1..(n + a + 1), NEW p, NEW x, Wants(B, v, k, p, x)
      PROVE  \/ /\ k = n + 1
                /\ \E i \in 1..n : p = Append(o, i) /\ x = A[1].value.values[i]
             \/ k - n \in 2..(a + 1) /\ Wants(A, v, k - n, p, x)
  <2>1. CASE k = (n + a) + 1
    <3>1. k - n = a + 1 /\ k \notin 1..(n + a)
      BY <2>1, <1>1
    <3> QED BY <3>1, <1>6, <1>1 DEF Wants
  <2>2. CASE k \in 1..n
    BY <2>2, <1>6, <1>1 DEF Wants
  <2>3. CASE k = n + 1
    <3>1. k # n + a + 1
      BY <2>3
    <3>2. \E i \in 1..Len(B[k].value.values) :
            p = Append(B[k].out, i) /\ x = B[k].value.values[i]
      BY <3>1, <1>6 DEF Wants
    <3>3. B[k].value = A[1].value /\ B[k].out = o
      BY <2>3
    <3>4. \E i \in 1..n : p = Append(o, i) /\ x = A[1].value.values[i]
      BY <3>2, <3>3
    <3> QED BY <2>3, <3>4
  <2>4. CASE k - n \in 2..a /\ B[k] = A[k - n]
    BY <2>4, <1>6, <1>1 DEF Wants
  <2> QED BY <2>1, <2>2, <2>3, <2>4, <1>5, <1>1
<1> HIDE DEF o
<1>7. ASSUME NEW k \in 1..(n + a + 1), NEW p \in Seq(Nat), NEW x \in Values,
             Wants(B, v, k, p, x)
      PROVE  Held(C, p, x) \/ \E m \in 1..(k - 1) : B[m].out = p /\ B[m].value = x
  <2>1. CASE k = n + 1 /\ \E i \in 1..n : p = Append(o, i) /\ x = A[1].value.values[i]
    <3>1. PICK i \in 1..n : p = Append(o, i) /\ x = A[1].value.values[i]
      BY <2>1
    <3>2. i \in 1..(k - 1) /\ B[i].out = p /\ B[i].value = x
      BY <2>1, <3>1 DEF o
    <3> QED BY <3>2
  <2>2. CASE k - n \in 2..(a + 1) /\ Wants(A, v, k - n, p, x)
    <3>1. Held(C, p, x) \/ \E m \in 1..(k - n - 1) : A[m].out = p /\ A[m].value = x
      BY <2>2, <1>1 DEF Copying, Awaited
    <3>2. ASSUME NEW m \in 1..(k - n - 1), A[m].out = p, A[m].value = x
          PROVE  \E j \in 1..(k - 1) : B[j].out = p /\ B[j].value = x
      <4>1. n + m \in 1..(k - 1)
        BY <2>2, <1>1
      <4>2. B[n + m].out = p /\ B[n + m].value = x
        <5>1. CASE m = 1
          BY <5>1, <3>2
        <5>2. CASE m # 1
          BY <5>2, <3>2, <2>2, <1>1
        <5> QED BY <5>1, <5>2
      <4> QED BY <4>1, <4>2
    <3> QED BY <3>1, <3>2
  <2> QED BY <2>1, <2>2, <1>6, <1>7
<1>8. ASSUME NEW k \in 1..(n + a + 1), NEW p \in Seq(Nat), NEW x \in Values,
             Wants(B, v, k, p, x), NEW m \in 1..(n + a), B[m].out = p
      PROVE  B[m].value = x
  <2>1. CASE k = n + 1 /\ \E i \in 1..n : p = Append(o, i) /\ x = A[1].value.values[i]
    <3>1. PICK i \in 1..n : p = Append(o, i) /\ x = A[1].value.values[i]
      BY <2>1
    <3>2. CASE m \in 1..n
      <4>1. B[m].out = Append(o, m) /\ B[m].value = A[1].value.values[m]
        BY <3>2 DEF o
      <4>2. Append(o, m)[Len(o) + 1] = m /\ Append(o, i)[Len(o) + 1] = i
        BY <1>2, <3>2, AppendedPaths
      <4>3. m = i
        BY <1>8, <3>1, <4>1, <4>2
      <4> QED BY <3>1, <4>1, <4>3
    <3>3. CASE m = n + 1
      <4>1. Append(o, i) = o
        BY <3>1, <3>3, <1>8 DEF o
      <4> QED BY <4>1, <1>2, AppendedPaths, LenProperties
    <3>4. CASE m - n \in 2..a /\ B[m] = A[m - n]
      <4>1. A[m - n].out = Append(o, i)
        BY <3>1, <3>4, <1>8
      <4>2. Below(o, A[m - n].out)
        BY <4>1, <1>2, AppendedPaths, LenProperties DEF Below
      <4> QED BY <4>2, <3>4, <1>3
    <3> QED BY <3>2, <3>3, <3>4, <1>5
  <2>2. CASE k - n \in 2..(a + 1) /\ Wants(A, v, k - n, p, x)
    <3>1. CASE m \in 1..n
      <4>1. p = Append(o, m)
        BY <3>1, <1>8 DEF o
      <4>2. p # <<>>
        BY <4>1, <1>2, AppendedPaths
      <4>3. k - n \in 2..a
            /\ \E j \in 1..Len(A[k - n].value.values) : p = Append(A[k - n].out, j)
        BY <2>2, <4>2, <1>1, SMTT(30) DEF Wants
      <4>4. PICK j \in 1..Len(A[k - n].value.values) : p = Append(A[k - n].out, j)
        BY <4>3
      <4>5. j \in Nat
        OBVIOUS
      <4>6. Below(o, A[k - n].out)
        <5> DEFINE q == A[k - n].out
        <5>1. q \in Seq(Nat) /\ m \in Nat /\ Append(o, m) = Append(q, j)
          BY <4>1, <4>3, <4>4, <3>1, <1>4
        <5> HIDE DEF q
        <5>2. Below(o, q)
          BY <5>1, <4>5, <1>2, PathsDiverge
        <5> QED BY <5>2 DEF q
      <4> QED BY <4>6, <4>3, <1>3
    <3>2. CASE m = n + 1
      <4>1. A[1].out = p /\ B[m].value = A[1].value
        BY <3>2, <1>8
      <4>2. k - n \in 1..(a + 1)
        BY <2>2
      <4>3. A[1].out = p => A[1].value = x
        BY <4>2, <2>2 DEF Copying, Consistent
      <4> QED BY <4>1, <4>3
    <3>3. CASE m - n \in 2..a /\ B[m] = A[m - n]
      <4>1. A[m - n].out = p
        BY <3>3, <1>8
      <4>2. m - n \in 1..a
        BY <3>3
      <4>3. k - n \in 1..(a + 1)
        BY <2>2
      <4> QED BY <4>1, <4>2, <4>3, <3>3, <2>2 DEF Copying, Consistent
    <3> QED BY <3>1, <3>2, <3>3, <1>5
  <2> QED BY <2>1, <2>2, <1>6, <1>8
<1>9. ASSUME NEW m \in 1..(n + a), NEW k \in 1..(n + a), m # k, ~B[m].finish
      PROVE  ~Below(B[m].out, B[k].out)
  <2>1. CASE m \in 1..n
    <3>1. B[m].out = Append(o, m)
      BY <2>1 DEF o
    <3>2. CASE k \in 1..n
      <4>1. B[k].out = Append(o, k)
        BY <3>2 DEF o
      <4> QED BY <4>1, <3>1, <2>1, <3>2, <1>2, <1>9, PathsDiverge
    <3>3. CASE k = n + 1
      BY <3>1, <3>3, <2>1, <1>2, AppendedPaths DEF o
    <3>4. CASE k - n \in 2..a /\ B[k] = A[k - n]
      BY <3>1, <3>4, <2>1, <1>2, <1>3, <1>4, PathsDiverge
    <3> QED BY <3>2, <3>3, <3>4, <1>5
  <2>2. CASE m - n \in 2..a /\ B[m] = A[m - n]
    <3>1. ~Below(A[m - n].out, o) /\ ~Below(o, A[m - n].out)
      <4>1. ~A[m - n].finish /\ m - n \in 1..a /\ m - n # 1
        BY <2>2, <1>9
      <4>2. ~Below(A[m - n].out, o)
        BY <4>1, <1>2 DEF Copying, Alone, o
      <4> QED BY <4>2, <2>2, <1>3
    <3>2. CASE k \in 1..n
      <4>1. B[k].out = Append(o, k)
        BY <3>2 DEF o
      <4> QED BY <4>1, <3>1, <3>2, <2>2, <1>2, <1>4, PathsDiverge
    <3>3. CASE k = n + 1
      BY <3>1, <3>3, <2>2 DEF o
    <3>4. CASE k - n \in 2..a /\ B[k] = A[k - n]
      <4>1. m - n \in 1..a /\ k - n \in 1..a /\ m - n # k - n
        BY <2>2, <3>4, <1>9
      <4> QED BY <4>1, <2>2, <3>4, <1>9 DEF Copying, Alone
    <3> QED BY <3>2, <3>3, <3>4, <1>5
  <2> QED BY <2>1, <2>2, <1>5, <1>9
<1> QED BY <1>7, <1>8, <1>9 DEF Copying, Awaited, Consistent, Alone

(* A finishing job on top of the stack finds all its children written.      *)
LEMMA FinishReady ==
  ASSUME NEW v \in Values, NEW A \in Seq(Jobs), NEW C, Len(A) > 0, A[1].finish,
         Copying(A, C, v), NEW i \in 1..Len(A[1].value.values)
  PROVE  Held(C, Append(A[1].out, i), A[1].value.values[i])
<1>1. Len(A) \in Nat /\ 1 \in 1..Len(A) /\ 1 \in 1..(Len(A) + 1)
  BY LenProperties
<1> DEFINE p == Append(A[1].out, i)
           x == A[1].value.values[i]
<1>2. A[1].out \in Seq(Nat) /\ A[1].value.values \in Seq(Values)
  BY <1>1, JobFields
<1>3. p \in Seq(Nat) /\ x \in Values
  BY <1>2, ElementOfSeq
<1>4. Wants(A, v, 1, p, x)
  BY <1>1 DEF Wants
<1> HIDE DEF p, x
<1>5. Held(C, p, x) \/ \E m \in 1..(1 - 1) : A[m].out = p /\ A[m].value = x
  BY <1>1, <1>3, <1>4 DEF Copying, Awaited
<1> QED BY <1>5 DEF p, x

(* The stack as value starts it, and as it leaves it.                       *)
LEMMA Begun ==
  ASSUME NEW v \in Values, NEW j \in Jobs, j.out = <<>>, j.value = v, ~j.finish,
         NEW C
  PROVE  Copying(<<j>>, C, v)
<1> DEFINE A == <<j>>
<1>1. Len(A) = 1 /\ A[1] = j
  OBVIOUS
<1> HIDE DEF A
<1>2. ASSUME NEW k \in 1..(Len(A) + 1), NEW p, NEW x, Wants(A, v, k, p, x)
      PROVE  k = 2 /\ p = <<>> /\ x = v
  BY <1>1, <1>2 DEF Wants
<1>3. Awaited(A, C, v)
  <2> SUFFICES ASSUME NEW k \in 1..(Len(A) + 1), NEW p \in Seq(Nat),
                      NEW x \in Values, Wants(A, v, k, p, x)
               PROVE  \E m \in 1..(k - 1) : A[m].out = p /\ A[m].value = x
    BY DEF Awaited
  <2>1. k = 2 /\ p = <<>> /\ x = v
    BY <1>2
  <2>2. 1 \in 1..(k - 1)
    BY <2>1
  <2> QED BY <2>1, <2>2, <1>1
<1>4. Consistent(A, v)
  BY <1>1, <1>2 DEF Consistent
<1>5. Alone(A)
  BY <1>1 DEF Alone
<1> QED BY <1>3, <1>4, <1>5 DEF Copying, A

LEMMA Ended ==
  ASSUME NEW v \in Values, NEW C, Copying(<<>>, C, v)
  PROVE  Held(C, <<>>, v)
<1> DEFINE e == <<>>
<1>1. e \in Seq(Nat) /\ Len(e) = 0
  OBVIOUS
<1>2. Awaited(e, C, v)
  BY DEF Copying
<1>3. e = <<>>
  OBVIOUS
<1> HIDE DEF e
<1>4. 1 = Len(e) + 1 /\ 1 \in 1..(Len(e) + 1) /\ 1 - 1 = 0
  BY <1>1
<1>5. Wants(e, v, 1, e, v)
  BY <1>3, <1>4 DEF Wants
<1>6. Held(C, e, v) \/ \E m \in 1..(1 - 1) : e[m].out = e /\ e[m].value = v
  <2>1. \A k \in 1..(Len(e) + 1) : \A p \in Seq(Nat) : \A x \in Values :
          Wants(e, v, k, p, x) =>
            Held(C, p, x) \/ \E m \in 1..(k - 1) : e[m].out = p /\ e[m].value = x
    BY <1>2 DEF Awaited
  <2>2. \A p \in Seq(Nat) : \A x \in Values :
          Wants(e, v, 1, p, x) =>
            Held(C, p, x) \/ \E m \in 1..(1 - 1) : e[m].out = p /\ e[m].value = x
    BY <1>4, <2>1
  <2>3. \A x \in Values :
          Wants(e, v, 1, e, x) =>
            Held(C, e, x) \/ \E m \in 1..(1 - 1) : e[m].out = e /\ e[m].value = x
    BY <1>1, <2>2
  <2> QED BY <1>5, <2>3
<1> QED BY <1>3, <1>4, <1>6
-------------------------------------------------------------------------------
Attribute == [key : Texts, value : Values]

Active == IF busy THEN <<job>> \o jobs ELSE jobs

(* value is at work on an attribute, or has just returned.                  *)
InValue == busy \/ jobs # <<>> \/ cells # <<>>

Current == input[Len(copied) + 1].value

ExactInv ==
  /\ copied \in Seq(Attribute) /\ Pre(copied, input)
  /\ busy => ~job.finish
  /\ result = "called" => ~InValue
  /\ result = "running" /\ InValue =>
       Len(copied) < Len(input) /\ Copying(Active, cells, Current)
  /\ CopyIsExact

(* What the invariant says of the list and of the job at work.              *)
LEMMA InputIs ==
  ASSUME StackInv
  PROVE  input \in Seq(Attribute)
BY InputsAssumption DEF StackInv, Attribute

LEMMA CurrentIs ==
  ASSUME StackInv, ExactInv, Len(copied) < Len(input)
  PROVE  /\ input[Len(copied) + 1] \in Attribute /\ Current \in Values
         /\ input[Len(copied) + 1] =
              [key |-> input[Len(copied) + 1].key, value |-> Current]
<1>1. Len(copied) + 1 \in 1..Len(input)
  BY InputIs, LenProperties DEF ExactInv
<1>2. input[Len(copied) + 1] \in Attribute
  BY <1>1, InputIs, ElementOfSeq
<1> QED BY <1>2 DEF Attribute, Current

LEMMA ActiveIs ==
  ASSUME StackInv
  PROVE  /\ Active \in Seq(Jobs)
         /\ busy => Len(Active) = Len(jobs) + 1 /\ Active[1] = job
                    /\ \A i \in 1..Len(jobs) : Active[i + 1] = jobs[i]
<1>1. CASE busy
  <2>1. job \in Jobs /\ jobs \in Seq(Jobs)
    BY <1>1 DEF StackInv
  <2>2. <<job>> \in Seq(Jobs) /\ Len(<<job>>) = 1 /\ <<job>>[1] = job
    BY <2>1
  <2>3. Active = <<job>> \o jobs
    BY <1>1 DEF Active
  <2> DEFINE s == <<job>>
  <2> HIDE DEF s
  <2>4. s \in Seq(Jobs) /\ Len(s) = 1 /\ s[1] = job /\ Active = s \o jobs
    BY <2>2, <2>3 DEF s
  <2>5. /\ s \o jobs \in Seq(Jobs) /\ Len(s \o jobs) = Len(s) + Len(jobs)
        /\ \A i \in 1..(Len(s) + Len(jobs)) :
             (s \o jobs)[i] = IF i <= Len(s) THEN s[i] ELSE jobs[i - Len(s)]
    BY <2>1, <2>4, ConcatProperties
  <2>6. Len(jobs) \in Nat
    BY <2>1
  <2>7. Active[1] = job
    BY <2>4, <2>5, <2>6
  <2>8. ASSUME NEW i \in 1..Len(jobs) PROVE Active[i + 1] = jobs[i]
    <3>1. i + 1 \in 1..(1 + Len(jobs)) /\ ~(i + 1 <= 1) /\ (i + 1) - 1 = i
      BY <2>6
    <3> QED BY <3>1, <2>4, <2>5
  <2> QED BY <2>4, <2>5, <2>6, <2>7, <2>8
<1>2. CASE ~busy
  BY <1>2 DEF Active, StackInv
<1> QED BY <1>1, <1>2

LEMMA ExactInit == Init => ExactInv
<1> SUFFICES ASSUME Init PROVE ExactInv
  OBVIOUS
<1>1. ~busy /\ result # "running" /\ result # "copied" /\ ~InValue
  BY DEF Init, InValue
<1>2. copied = <<>> /\ copied \in Seq(Attribute)
  BY DEF Init
<1>3. input \in Seq(Attribute)
  BY InputsAssumption DEF Init, Attribute
<1>4. Pre(copied, input)
  BY <1>2, <1>3, LenProperties DEF Pre
<1> QED BY <1>1, <1>2, <1>4 DEF ExactInv, CopyIsExact

LEMMA ExactStep == StackInv /\ StackInv' /\ ExactInv /\ [Next]_vars => ExactInv'
<1> SUFFICES ASSUME StackInv, StackInv', ExactInv, [Next]_vars PROVE ExactInv'
  OBVIOUS
<1>0. /\ input \in Seq(Attribute) /\ copied \in Seq(Attribute)
      /\ Len(input) \in Nat /\ Len(copied) \in Nat /\ Len(copied) <= Len(input)
  BY InputIs, LenProperties DEF ExactInv, Pre
<1>1. CASE Enter
  BY <1>1 DEF Enter, Charged, ExactInv, InValue, CopyIsExact
<1>2. CASE CopyKey
  <2>1. Len(copied) < Len(input) /\ cells = <<>> /\ busy = FALSE
    BY <1>2 DEF CopyKey, Between, StackInv
  <2> DEFINE j == JobFor(Current, <<>>, 0, FALSE)
  <2>2. /\ jobs' = <<j>> /\ result' # "called" /\ result' # "copied"
        /\ UNCHANGED <<input, copied, busy, cells, job>>
    BY <1>2 DEF CopyKey, Charged, Current
  <2>3. Current \in Values
    BY <2>1, CurrentIs
  <2>4. j \in Jobs /\ j.out = <<>> /\ j.value = Current /\ ~j.finish
    BY <2>3 DEF JobFor, Jobs
  <2> HIDE DEF j
  <2>5. Copying(<<j>>, cells, Current)
    BY <2>3, <2>4, Begun
  <2>6. Active' = <<j>> /\ Current' = Current
    BY <2>1, <2>2 DEF Active, Current
  <2> QED BY <2>1, <2>2, <2>5, <2>6 DEF ExactInv, CopyIsExact
<1>3. CASE KeepAttribute
  <2>1. /\ result = "running" /\ ~busy /\ jobs = <<>> /\ cells # <<>>
        /\ UNCHANGED <<input, jobs, busy, result, job>> /\ cells' = <<>>
    BY <1>3 DEF KeepAttribute, Between
  <2>2. Len(copied) < Len(input) /\ Copying(<<>>, cells, Current)
    BY <2>1 DEF ExactInv, InValue, Active
  <2>3. Current \in Values
    BY <2>2, CurrentIs
  <2>4. Cell(<<>>) = Current
    BY <2>2, <2>3, Ended DEF Held, Cell
  <2>5. copied' = Append(copied, input[Len(copied) + 1])
    BY <1>3, <2>2, <2>4, CurrentIs DEF KeepAttribute
  <2>6. input[Len(copied) + 1] \in Attribute
    BY <2>2, CurrentIs
  <2>7. copied' \in Seq(Attribute)
    BY <1>0, <2>5, <2>6, AppendProperties
  <2>8. Pre(copied', input')
    BY <1>0, <2>1, <2>2, <2>5, PreGrows DEF ExactInv
  <2> QED BY <2>1, <2>7, <2>8 DEF ExactInv, InValue, CopyIsExact
<1>4. CASE Return
  <2>1. /\ Len(copied) = Len(input)
        /\ UNCHANGED <<input, copied, jobs, busy, cells, job>> /\ result' = "copied"
    BY <1>4 DEF Return
  <2>2. copied = input
    BY <1>0, <2>1, PreIsWhole DEF ExactInv
  <2> QED BY <2>1, <2>2 DEF ExactInv, CopyIsExact
<1>5. CASE FinishJob
  <2> DEFINE h == Head(jobs)
             rebuilt == [i \in 1..Len(h.value.values) |-> Cell(Append(h.out, i))]
  <2>1. /\ result = "running" /\ ~busy /\ jobs # <<>> /\ h.finish
        /\ jobs' = Tail(jobs) /\ UNCHANGED <<input, copied, busy, result, job>>
        /\ Store(h.out, [h.value EXCEPT !.values = rebuilt])
    BY <1>5 DEF FinishJob, Popping
  <2>2. Active = jobs /\ jobs \in Seq(Jobs) /\ Len(jobs) \in Nat /\ Len(jobs) > 0
        /\ jobs[1] = h
    BY <2>1 DEF Active, StackInv
  <2>3. /\ Len(copied) < Len(input) /\ Copying(jobs, cells, Current)
    BY <2>1, <2>2 DEF ExactInv, InValue
  <2>4. Current \in Values
    BY <2>3, CurrentIs
  <2>5. /\ h.value \in Values /\ h.out \in Seq(Nat)
        /\ h.value.values \in Seq(Values)
    BY <2>2, JobFields
  <2>6. rebuilt = h.value.values
    <3>1. ASSUME NEW i \in 1..Len(h.value.values)
          PROVE  Cell(Append(h.out, i)) = h.value.values[i]
      <4>1. Held(cells, Append(jobs[1].out, i), jobs[1].value.values[i])
        BY <2>1, <2>2, <2>3, <2>4, FinishReady
      <4> QED BY <4>1, <2>2 DEF Held, Cell
    <3>2. h.value.values = [i \in 1..Len(h.value.values) |-> h.value.values[i]]
      BY <2>5
    <3> QED BY <3>1, <3>2
  <2>7. [h.value EXCEPT !.values = rebuilt] = h.value
    <3>1. h.value \in [type : Types, texts : Seq(Texts), numbers : Seq(Int),
                       values : Seq(Values)]
      BY <2>5, ValuesAssumption
    <3> HIDE DEF rebuilt
    <3> QED BY <3>1, <2>6
  <2> HIDE DEF rebuilt
  <2>8. Store(h.out, h.value)
    BY <2>1, <2>7
  <2>9. /\ DOMAIN cells' = DOMAIN cells \cup {jobs[1].out}
        /\ cells'[jobs[1].out] = jobs[1].value
        /\ \A p \in DOMAIN cells \ {jobs[1].out} : cells'[p] = cells[p]
    BY <2>8, <2>2 DEF Store
  <2>10. /\ jobs' \in Seq(Jobs) /\ Len(jobs') = Len(jobs) - 1
         /\ \A i \in 1..Len(jobs') : jobs'[i] = jobs[i + 1]
    BY <2>1, <2>2, HeadTailProperties
  <2>11. Copying(jobs', cells', Current)
    <3> DEFINE n == Len(jobs) - 1
    <3>1. n \in Nat /\ Len(jobs) = n + 1 /\ Len(jobs') = n
      BY <2>2, <2>10
    <3> HIDE DEF n
    <3>2. \A m \in 1..n : jobs'[m] = jobs[m + 1]
      BY <3>1, <2>10
    <3> QED BY <3>1, <3>2, <2>2, <2>3, <2>4, <2>9, <2>10, Removed
  <2>12. Active' = jobs' /\ Current' = Current
    BY <2>1 DEF Active, Current
  <2> QED BY <2>1, <2>3, <2>11, <2>12 DEF ExactInv, CopyIsExact
<1>6. CASE BeginJob
  <2>1. /\ result = "running" /\ ~busy /\ jobs # <<>> /\ ~Head(jobs).finish
        /\ job' = Head(jobs) /\ jobs' = Tail(jobs) /\ busy' = TRUE
        /\ result' # "called" /\ result' # "copied"
        /\ UNCHANGED <<input, copied, cells>>
    BY <1>6 DEF BeginJob, Popping, Charged
  <2>2. Active' = Active
    <3>1. jobs \in Seq(Jobs)
      BY DEF StackInv
    <3>2. jobs = <<Head(jobs)>> \o Tail(jobs)
      BY <3>1, <2>1
    <3> QED BY <2>1, <3>2 DEF Active
  <2>3. Current' = Current
    BY <2>1 DEF Current
  <2> QED BY <2>1, <2>2, <2>3 DEF ExactInv, InValue, CopyIsExact
<1>7. CASE CopyText
  <2>1. /\ result = "running" /\ busy /\ result' # "called" /\ result' # "copied"
        /\ UNCHANGED <<input, copied, jobs, job, busy, cells>>
    BY <1>7 DEF CopyText, Charged
  <2>2. Active' = Active /\ Current' = Current /\ InValue' = InValue
    BY <2>1 DEF Active, Current, InValue
  <2> QED BY <2>1, <2>2 DEF ExactInv, CopyIsExact
<1>8. CASE WriteLeaf
  <2>1. /\ result = "running" /\ busy /\ Store(job.out, job.value) /\ busy' = FALSE
        /\ UNCHANGED <<input, copied, jobs, job, result>>
    BY <1>8 DEF WriteLeaf
  <2>2. Len(copied) < Len(input) /\ Copying(Active, cells, Current)
    BY <2>1 DEF ExactInv, InValue
  <2>3. Current \in Values
    BY <2>2, CurrentIs
  <2>4. /\ Active \in Seq(Jobs) /\ Len(Active) = Len(jobs) + 1 /\ Active[1] = job
        /\ \A i \in 1..Len(jobs) : Active[i + 1] = jobs[i]
        /\ jobs \in Seq(Jobs) /\ Len(jobs) \in Nat
    BY <2>1, ActiveIs, LenProperties DEF StackInv
  <2>5. /\ DOMAIN cells' = DOMAIN cells \cup {Active[1].out}
        /\ cells'[Active[1].out] = Active[1].value
        /\ \A p \in DOMAIN cells \ {Active[1].out} : cells'[p] = cells[p]
    BY <2>1, <2>4 DEF Store
  <2>6. Copying(jobs, cells', Current)
    <3> DEFINE A == Active
               n == Len(jobs)
    <3>1. A \in Seq(Jobs) /\ n \in Nat /\ Len(A) = n + 1 /\ Len(jobs) = n
          /\ \A m \in 1..n : jobs[m] = A[m + 1]
      BY <2>4
    <3>2. /\ DOMAIN cells' = DOMAIN cells \cup {A[1].out}
          /\ cells'[A[1].out] = A[1].value
          /\ \A p \in DOMAIN cells \ {A[1].out} : cells'[p] = cells[p]
          /\ Copying(A, cells, Current) /\ jobs \in Seq(Jobs)
      BY <2>2, <2>4, <2>5
    <3> HIDE DEF A, n
    <3> QED BY <3>1, <3>2, <2>3, Removed
  <2>7. Active' = jobs /\ Current' = Current
    BY <2>1 DEF Active, Current
  <2> QED BY <2>1, <2>2, <2>6, <2>7 DEF ExactInv, CopyIsExact
<1>9. CASE Expand
  <2>1. /\ result = "running" /\ busy /\ jobs' = Pushes \o jobs /\ busy' = FALSE
        /\ UNCHANGED <<input, copied, job, cells, result>>
    BY <1>9 DEF Expand
  <2>2. Len(copied) < Len(input) /\ Copying(Active, cells, Current)
    BY <2>1 DEF ExactInv, InValue
  <2>3. Current \in Values
    BY <2>2, CurrentIs
  <2>4. /\ Active \in Seq(Jobs) /\ Len(Active) = Len(jobs) + 1 /\ Active[1] = job
        /\ \A i \in 1..Len(jobs) : Active[i + 1] = jobs[i]
        /\ jobs \in Seq(Jobs) /\ Len(jobs) \in Nat
    BY <2>1, ActiveIs, LenProperties DEF StackInv
  <2>5. Copying(jobs', cells, Current)
    <3> DEFINE A == Active
               n == Len(job.value.values)
               f == JobFor(job.value, job.out, job.depth, TRUE)
    <3>1. job \in Jobs /\ ~job.finish
      BY <2>1 DEF StackInv, ExactInv
    <3>2. n \in Nat /\ job.value \in Values /\ job.out \in Seq(Nat)
          /\ job.depth \in Nat /\ job.value.values \in Seq(Values)
      BY <3>1, ValuesAssumption DEF Jobs
    <3>3. f \in Jobs /\ f.value = job.value /\ f.out = job.out /\ f.finish
      BY <3>2 DEF Jobs, JobFor
    <3>0. n \in Nat
      BY <3>2
    <3>4. \A i \in 1..n : /\ Children[i] \in Jobs
                          /\ Children[i].value = job.value.values[i]
                          /\ Children[i].out = Append(job.out, i)
                          /\ ~Children[i].finish
      BY <3>2, SMTT(30) DEF Children, JobFor, Jobs
    <3>5. Children \in Seq(Jobs) /\ Len(Children) = n
      <4>1. Children \in [1..n -> Jobs]
        BY <3>4 DEF Children
      <4>2. Children \in Seq(Jobs)
        BY <3>2, <4>1, SeqDef
      <4>3. 1..Len(Children) = 1..n /\ Len(Children) \in Nat
        BY <4>1, <4>2, LenProperties
      <4> QED BY <4>2, <4>3, <3>2
    <3>6. Pushes = Children \o <<f>>
      BY DEF Pushes
    <3> DEFINE P == Pushes
               B == jobs'
    <3>7. jobs' = P \o jobs
      BY <2>1
    <3> HIDE DEF A, n, f, P
    <3>8. /\ P \in Seq(Jobs) /\ Len(P) = n + 1 /\ P[n + 1] = f
          /\ \A i \in 1..n : P[i] = Children[i]
      <4> DEFINE g == <<f>>
      <4>1. P = Children \o g /\ g \in Seq(Jobs) /\ Len(g) = 1 /\ g[1] = f
        BY <3>3, <3>6 DEF P
      <4> HIDE DEF g
      <4>2. /\ P \in Seq(Jobs) /\ Len(P) = n + 1
            /\ \A i \in 1..(n + 1) :
                 P[i] = IF i <= n THEN Children[i] ELSE g[i - n]
        <5>1. /\ P \in Seq(Jobs) /\ Len(P) = Len(Children) + Len(g)
              /\ \A i \in 1..(Len(Children) + Len(g)) :
                   P[i] = IF i <= Len(Children) THEN Children[i]
                                                ELSE g[i - Len(Children)]
          BY <4>1, <3>5, ConcatProperties
        <5> QED BY <5>1, <4>1, <3>5
      <4>3. (n + 1) \in 1..(n + 1) /\ ~(n + 1 <= n) /\ (n + 1) - n = 1
            /\ \A i \in 1..n : i \in 1..(n + 1) /\ i <= n
        BY <3>0
      <4> QED BY <4>1, <4>2, <4>3
    <3>9. /\ jobs' \in Seq(Jobs) /\ Len(jobs') = n + 1 + Len(jobs)
          /\ \A i \in 1..(Len(P) + Len(jobs)) :
               jobs'[i] = IF i <= Len(P) THEN P[i] ELSE jobs[i - Len(P)]
      BY <3>7, <3>8, <2>4, ConcatProperties
    <3> DEFINE a == Len(jobs) + 1
    <3>10. a \in Nat \ {0} /\ Len(jobs) = a - 1 /\ Len(P) = n + 1 /\ n \in Nat
      BY <2>4, <3>2, <3>8
    <3>11. Len(A) = a /\ A \in Seq(Jobs) /\ A[1] = job
           /\ \A m \in 1..(a - 1) : A[m + 1] = jobs[m]
      BY <2>4 DEF A
    <3> HIDE DEF a
    <3>12. Len(jobs') = n + a
      BY <3>9, <3>10
    <3>13. ASSUME NEW i \in 1..n PROVE jobs'[i] = Children[i]
      <4>1. i \in 1..(Len(P) + Len(jobs)) /\ i <= Len(P)
        BY <3>10
      <4> QED BY <4>1, <3>8, <3>9
    <3>14. jobs'[n + 1] = f
      <4>1. n + 1 \in 1..(Len(P) + Len(jobs)) /\ n + 1 <= Len(P)
        BY <3>10
      <4> QED BY <4>1, <3>8, <3>9
    <3>15. ASSUME NEW m \in 2..a PROVE jobs'[n + m] = A[m]
      <4>1. /\ n + m \in 1..(Len(P) + Len(jobs)) /\ ~(n + m <= Len(P))
            /\ (n + m) - Len(P) = m - 1
        BY <3>10
      <4>2. m - 1 \in 1..(a - 1) /\ (m - 1) + 1 = m
        BY <3>10
      <4> QED BY <4>1, <4>2, <3>9, <3>11
    <3>16. /\ ~A[1].finish /\ Len(A[1].value.values) = n
           /\ \A i \in 1..n : /\ B[i].value = A[1].value.values[i]
                              /\ B[i].out = Append(A[1].out, i) /\ ~B[i].finish
      BY <3>1, <3>4, <3>11, <3>13 DEF n
    <3>17. /\ B[n + 1].value = A[1].value /\ B[n + 1].out = A[1].out
           /\ B[n + 1].finish
      BY <3>3, <3>11, <3>14
    <3>18. \A m \in 2..a : B[n + m] = A[m]
      BY <3>15
    <3>19. B \in Seq(Jobs) /\ Len(B) = n + a /\ Copying(A, cells, Current)
      BY <2>2, <3>9, <3>12 DEF A
    <3> HIDE DEF B
    <3>20. Unfolds(A, B, a, n)
      BY <3>11, <3>16, <3>17, <3>18, <3>19 DEF Unfolds
    <3>21. Copying(B, cells, Current)
      BY <2>3, <3>10, <3>11, <3>19, <3>20, Expanded
    <3> QED BY <3>21 DEF B
  <2>6. Active' = jobs' /\ Current' = Current
    BY <2>1 DEF Active, Current
  <2> QED BY <2>1, <2>2, <2>5, <2>6 DEF ExactInv, CopyIsExact
<1>10. CASE UNCHANGED vars
  BY <1>10 DEF vars, ExactInv, InValue, Active, Current, CopyIsExact
<1> QED
  BY <1>1, <1>2, <1>3, <1>4, <1>5, <1>6, <1>7, <1>8, <1>9, <1>10
  DEF Next, ValueStep

(* What value and attributes return equals what they were given, whatever   *)
(* is nested in whatever and however long the lists are.                    *)
THEOREM CopyOfListIsExact == Spec => []CopyIsExact
<1>1. Spec => []ExactInv
  BY StackInvariant, ExactInit, ExactStep, PTL DEF Spec
<1>2. ExactInv => CopyIsExact
  BY DEF ExactInv
<1> QED BY <1>1, <1>2, PTL
-------------------------------------------------------------------------------
(* A charge for items of the sizes there are.                               *)
LEMMA ItemsPay ==
  ASSUME NEW b \in Int, b >= Exhausted, NEW n \in Nat, NEW size \in {1, 16, 32, 64}
  PROVE  n * size \in Nat /\ Items(b, n, size) = Pays(b, n * size)
<1> DEFINE p == n * size
<1>1. p \in Nat
  OBVIOUS
<1>2. n > b \div size => p > b
  <2>1. CASE size = 1
    BY <2>1 DEF Exhausted
  <2>2. CASE size = 16
    BY <2>2 DEF Exhausted
  <2>3. CASE size = 32
    BY <2>3 DEF Exhausted
  <2>4. CASE size = 64
    BY <2>4 DEF Exhausted
  <2> QED BY <2>1, <2>2, <2>3, <2>4
<1>3. Items(b, n, size) = IF n > b \div size THEN Exhausted ELSE Take(b, p)
  BY DEF Items
<1> HIDE DEF p
<1>4. Items(b, n, size) = Pays(b, p)
  BY <1>1, <1>2, <1>3 DEF Take, Pays
<1> QED BY <1>1, <1>4 DEF p

(* Amounts of lists put together.                                           *)
LEMMA AmountType ==
  ASSUME NEW c \in Seq(Nat)
  PROVE  Amount(c) \in Nat
BY TotalStep, LenProperties DEF Amount

LEMMA TotalOfPrefix ==
  ASSUME NEW a \in Seq(Nat), NEW b \in Seq(Nat)
  PROVE  \A n \in 0..Len(a) : Total(a \o b, n) = Total(a, n)
<1> DEFINE c == a \o b
           S == {n \in Nat : n <= Len(a) => Total(c, n) = Total(a, n)}
<1>1. /\ c \in Seq(Nat) /\ Len(a) \in Nat /\ Len(b) \in Nat /\ Len(c) = Len(a) + Len(b)
      /\ \A i \in 1..Len(a) : c[i] = a[i]
  BY ConcatProperties, LenProperties
<1> HIDE DEF c
<1>2. 0 \in S
  BY <1>1, TotalStep
<1>3. ASSUME NEW n \in Nat, n \in S PROVE n + 1 \in S
  <2>1. CASE n + 1 <= Len(a)
    <3>1. /\ n \in 0..(Len(a) - 1) /\ n \in 0..(Len(c) - 1) /\ n + 1 \in 1..Len(a)
          /\ Total(c, n) = Total(a, n)
      BY <1>1, <1>3, <2>1
    <3>2. Total(c, n + 1) = Total(c, n) + c[n + 1]
      BY <1>1, <3>1, TotalStep
    <3>3. Total(a, n + 1) = Total(a, n) + a[n + 1]
      BY <3>1, TotalStep
    <3> QED BY <1>1, <3>1, <3>2, <3>3
  <2>2. CASE ~(n + 1 <= Len(a))
    BY <2>2
  <2> QED BY <2>1, <2>2
<1>4. Nat \subseteq S
  <2> HIDE DEF S
  <2> QED BY <1>2, <1>3, Induction
<1>5. \A n \in 0..Len(a) : n \in S
  BY <1>1, <1>4
<1> QED BY <1>1, <1>5 DEF c

LEMMA AmountOfBoth ==
  ASSUME NEW a \in Seq(Nat), NEW b \in Seq(Nat)
  PROVE  Amount(a \o b) = Amount(a) + Amount(b)
<1> DEFINE c == a \o b
           S == {n \in Nat : n <= Len(b) =>
                               Total(c, Len(a) + n) = Amount(a) + Total(b, n)}
<1>1. /\ c \in Seq(Nat) /\ Len(a) \in Nat /\ Len(b) \in Nat /\ Len(c) = Len(a) + Len(b)
      /\ \A i \in 1..Len(b) : c[Len(a) + i] = b[i]
  <2>1. /\ c \in Seq(Nat) /\ Len(a) \in Nat /\ Len(b) \in Nat
        /\ Len(c) = Len(a) + Len(b)
        /\ \A i \in 1..(Len(a) + Len(b)) :
             c[i] = IF i <= Len(a) THEN a[i] ELSE b[i - Len(a)]
    BY ConcatProperties, LenProperties
  <2>2. ASSUME NEW i \in 1..Len(b) PROVE c[Len(a) + i] = b[i]
    <3>1. /\ Len(a) + i \in 1..(Len(a) + Len(b)) /\ ~(Len(a) + i <= Len(a))
          /\ (Len(a) + i) - Len(a) = i
      BY <2>1
    <3> QED BY <2>1, <3>1
  <2> QED BY <2>1, <2>2
<1>2. Amount(a) \in Nat /\ Total(c, Len(a)) = Amount(a)
  <2>1. Len(a) \in 0..Len(a)
    BY <1>1
  <2> QED BY <2>1, AmountType, TotalOfPrefix DEF Amount
<1> HIDE DEF c
<1>3. 0 \in S
  BY <1>1, <1>2, TotalStep
<1>4. ASSUME NEW n \in Nat, n \in S PROVE n + 1 \in S
  <2>1. CASE n + 1 <= Len(b)
    <3>1. /\ n \in 0..(Len(b) - 1) /\ n \in 0..Len(b) /\ n + 1 \in 1..Len(b)
          /\ Len(a) + n \in 0..(Len(c) - 1)
          /\ (Len(a) + n) + 1 = Len(a) + (n + 1)
          /\ Total(c, Len(a) + n) = Amount(a) + Total(b, n)
      <4>1. n <= Len(b)
        BY <1>1, <2>1
      <4>2. Total(c, Len(a) + n) = Amount(a) + Total(b, n)
        BY <1>4, <4>1
      <4> DEFINE la == Len(a)
                 lb == Len(b)
                 lc == Len(c)
      <4>3. la \in Nat /\ lb \in Nat /\ lc = la + lb /\ n + 1 <= lb
        BY <1>1, <2>1
      <4>4. /\ n \in 0..(lb - 1) /\ n \in 0..lb /\ n + 1 \in 1..lb
            /\ la + n \in 0..(lc - 1) /\ (la + n) + 1 = la + (n + 1)
        <5> HIDE DEF la, lb, lc
        <5> QED BY <4>3
      <4> QED BY <4>2, <4>4
    <3>2. Total(c, (Len(a) + n) + 1) = Total(c, Len(a) + n) + c[(Len(a) + n) + 1]
      BY <1>1, <3>1, TotalStep
    <3>3. Total(b, n + 1) = Total(b, n) + b[n + 1] /\ Total(b, n) \in Nat
      BY <3>1, TotalStep
    <3>4. c[Len(a) + (n + 1)] = b[n + 1] /\ b[n + 1] \in Nat
      BY <1>1, <3>1, ElementOfSeq
    <3>5. Total(c, Len(a) + (n + 1)) = (Amount(a) + Total(b, n)) + b[n + 1]
      BY <3>1, <3>2, <3>4
    <3>6. Total(c, Len(a) + (n + 1)) = Amount(a) + Total(b, n + 1)
      BY <1>2, <3>3, <3>4, <3>5
    <3> QED BY <3>6
  <2>2. CASE ~(n + 1 <= Len(b))
    BY <2>2
  <2> QED BY <2>1, <2>2
<1>5. Nat \subseteq S
  <2> HIDE DEF S
  <2> QED BY <1>3, <1>4, Induction
<1>6. Len(b) \in S
  BY <1>1, <1>5
<1>7. Total(c, Len(c)) = Amount(a) + Total(b, Len(b))
  BY <1>1, <1>6
<1> QED BY <1>7 DEF Amount, c

LEMMA AmountOfFew ==
  Amount(<<>>) = 0 /\ \A n \in Nat : Amount(<<n>>) = n
<1>1. ASSUME NEW c \in Seq(Nat), Len(c) = 0 PROVE Amount(c) = 0
  BY <1>1, TotalStep DEF Amount
<1>2. ASSUME NEW c \in Seq(Nat), Len(c) = 1 PROVE Amount(c) = c[1]
  <2>1. /\ Total(c, 0) = 0 /\ 0 \in 0..(Len(c) - 1) /\ 0 + 1 = 1
        /\ \A n \in 0..(Len(c) - 1) : Total(c, n + 1) = Total(c, n) + c[n + 1]
    BY <1>2, TotalStep
  <2>2. Total(c, 1) = 0 + c[1]
    BY <2>1
  <2>3. c[1] \in Nat
    <3>1. 1 \in 1..Len(c)
      BY <1>2
    <3> QED BY <3>1, ElementOfSeq
  <2> QED BY <1>2, <2>2, <2>3 DEF Amount
<1>3. Amount(<<>>) = 0
  <2>1. <<>> \in Seq(Nat) /\ Len(<<>>) = 0
    OBVIOUS
  <2> QED BY <1>1, <2>1
<1>4. ASSUME NEW n \in Nat PROVE Amount(<<n>>) = n
  <2>1. <<n>> \in Seq(Nat) /\ Len(<<n>>) = 1 /\ <<n>>[1] = n
    OBVIOUS
  <2> DEFINE c == <<n>>
  <2> HIDE DEF c
  <2>2. c \in Seq(Nat) /\ Len(c) = 1 /\ c[1] = n
    BY <2>1 DEF c
  <2>3. Amount(c) = n
    BY <1>2, <2>2
  <2> QED BY <2>3 DEF c
<1> QED BY <1>3, <1>4

(* What the members of a list weigh together, each by w.                    *)
Weights(w, s) == [i \in 1..Len(s) |-> w[s[i]]]
Weighed(w, s) == Amount(Weights(w, s))

LEMMA WeightsType ==
  ASSUME NEW S, NEW w \in [S -> Nat], NEW s \in Seq(S)
  PROVE  /\ Weights(w, s) \in Seq(Nat) /\ Len(Weights(w, s)) = Len(s)
         /\ Weighed(w, s) \in Nat
<1>1. Len(s) \in Nat /\ \A i \in 1..Len(s) : s[i] \in S
  BY LenProperties, ElementOfSeq
<1>2. Weights(w, s) \in Seq(Nat) /\ Len(Weights(w, s)) = Len(s)
  BY <1>1 DEF Weights
<1> QED BY <1>2, AmountType DEF Weighed

LEMMA WeighedBoth ==
  ASSUME NEW S, NEW w \in [S -> Nat], NEW a \in Seq(S), NEW b \in Seq(S)
  PROVE  Weighed(w, a \o b) = Weighed(w, a) + Weighed(w, b)
<1> DEFINE c == a \o b
           x == Weights(w, a)
           y == Weights(w, b)
           z == Weights(w, c)
           xy == x \o y
<1>1. /\ c \in Seq(S) /\ Len(a) \in Nat /\ Len(b) \in Nat /\ Len(c) = Len(a) + Len(b)
      /\ \A i \in 1..(Len(a) + Len(b)) :
           c[i] = IF i <= Len(a) THEN a[i] ELSE b[i - Len(a)]
  BY ConcatProperties, LenProperties
<1>2. /\ x \in Seq(Nat) /\ Len(x) = Len(a) /\ y \in Seq(Nat) /\ Len(y) = Len(b)
  BY WeightsType
<1> HIDE DEF c
<1>3. z \in Seq(Nat) /\ Len(z) = Len(c)
  BY <1>1, WeightsType
<1>4. /\ \A i \in 1..Len(a) : x[i] = w[a[i]]
      /\ \A i \in 1..Len(b) : y[i] = w[b[i]]
      /\ \A i \in 1..Len(c) : z[i] = w[c[i]]
  BY DEF Weights
<1> HIDE DEF x, y, z
<1>5. /\ xy \in Seq(Nat) /\ Len(xy) = Len(x) + Len(y)
      /\ \A i \in 1..(Len(x) + Len(y)) :
           xy[i] = IF i <= Len(x) THEN x[i] ELSE y[i - Len(x)]
  BY <1>2, ConcatProperties
<1> HIDE DEF xy
<1>6. ASSUME NEW i \in 1..Len(z) PROVE z[i] = xy[i]
  <2>1. CASE i <= Len(a)
    <3>1. i \in 1..Len(a) /\ i \in 1..Len(c) /\ i \in 1..(Len(a) + Len(b))
      BY <1>1, <1>3, <2>1
    <3>2. z[i] = w[a[i]] /\ x[i] = w[a[i]]
      BY <1>1, <1>4, <2>1, <3>1
    <3>3. xy[i] = x[i]
      BY <1>2, <1>5, <2>1, <3>1
    <3> QED BY <3>2, <3>3
  <2>2. CASE ~(i <= Len(a))
    <3>1. i - Len(a) \in 1..Len(b) /\ i \in 1..Len(c) /\ i \in 1..(Len(a) + Len(b))
      BY <1>1, <1>3, <2>2
    <3>2. z[i] = w[b[i - Len(a)]] /\ y[i - Len(a)] = w[b[i - Len(a)]]
      BY <1>1, <1>4, <2>2, <3>1
    <3>3. xy[i] = y[i - Len(a)]
      BY <1>2, <1>5, <2>2, <3>1
    <3> QED BY <3>2, <3>3
  <2> QED BY <2>1, <2>2
<1>7. Len(z) = Len(xy)
  BY <1>1, <1>2, <1>3, <1>5
<1>8. z = xy
  BY <1>3, <1>5, <1>6, <1>7, SeqEqual
<1>9. Amount(z) = Amount(x) + Amount(y)
  BY <1>2, <1>8, AmountOfBoth DEF xy
<1> QED BY <1>9 DEF Weighed, x, y, z, c

LEMMA WeighedFew ==
  ASSUME NEW S, NEW w \in [S -> Nat]
  PROVE  Weighed(w, <<>>) = 0 /\ \A e \in S : Weighed(w, <<e>>) = w[e]
<1>1. Weights(w, <<>>) = <<>>
  BY DEF Weights
<1>2. ASSUME NEW e \in S PROVE Weighed(w, <<e>>) = w[e]
  <2>1. Weights(w, <<e>>) = <<w[e]>> /\ w[e] \in Nat
    BY DEF Weights
  <2> QED BY <2>1, AmountOfFew DEF Weighed
<1> QED BY <1>1, <1>2, AmountOfFew DEF Weighed

(* A list is its first member and the rest; a list of T is two lists of T.  *)
LEMMA HeadAndTail ==
  ASSUME NEW S, NEW s \in Seq(S), s # <<>>
  PROVE  Head(s) \in S /\ Tail(s) \in Seq(S) /\ s = <<Head(s)>> \o Tail(s)
         /\ <<Head(s)>> \in Seq(S)
<1>1. Head(s) \in S /\ Tail(s) \in Seq(S)
  OBVIOUS
<1>2. s = <<Head(s)>> \o Tail(s)
  OBVIOUS
<1>3. <<Head(s)>> \in Seq(S)
  BY <1>1
<1> QED BY <1>1, <1>2, <1>3

LEMMA BothIn ==
  ASSUME NEW S, NEW T, NEW a \in Seq(S), NEW b \in Seq(S)
  PROVE  a \o b \in Seq(T) <=> a \in Seq(T) /\ b \in Seq(T)
<1> DEFINE c == a \o b
<1>1. /\ c \in Seq(S) /\ Len(a) \in Nat /\ Len(b) \in Nat /\ Len(c) = Len(a) + Len(b)
      /\ \A i \in 1..(Len(a) + Len(b)) :
           c[i] = IF i <= Len(a) THEN a[i] ELSE b[i - Len(a)]
  BY ConcatProperties, LenProperties
<1>2. a \in Seq(T) /\ b \in Seq(T) => c \in Seq(T)
  BY ConcatProperties
<1> HIDE DEF c
<1>3. ASSUME c \in Seq(T) PROVE a \in Seq(T) /\ b \in Seq(T)
  <2>1. \A i \in 1..Len(c) : c[i] \in T
    BY <1>3, ElementOfSeq
  <2>2. ASSUME NEW i \in 1..Len(a) PROVE a[i] \in T
    <3>1. i \in 1..(Len(a) + Len(b)) /\ i \in 1..Len(c) /\ i <= Len(a)
      BY <1>1
    <3> QED BY <1>1, <2>1, <3>1
  <2>3. ASSUME NEW i \in 1..Len(b) PROVE b[i] \in T
    <3>1. /\ Len(a) + i \in 1..(Len(a) + Len(b)) /\ Len(a) + i \in 1..Len(c)
          /\ ~(Len(a) + i <= Len(a)) /\ (Len(a) + i) - Len(a) = i
      BY <1>1
    <3> QED BY <1>1, <2>1, <3>1
  <2>4. a \in [1..Len(a) -> T] /\ b \in [1..Len(b) -> T]
    BY <2>2, <2>3
  <2>5. \A n \in Nat : \A f \in [1..n -> T] : f \in Seq(T)
    BY SeqDef
  <2> QED BY <1>1, <2>4, <2>5
<1> QED BY <1>2, <1>3 DEF c
-------------------------------------------------------------------------------
(* What a value is made of, and how deep that is.                           *)
LEMMA ValueFields ==
  ASSUME NEW v \in Values
  PROVE  /\ v.texts \in Seq(Texts) /\ v.values \in Seq(Values)
         /\ Len(v.texts) \in Nat /\ Len(v.numbers) \in Nat /\ Len(v.values) \in Nat
         /\ \A i \in 1..Len(v.texts) : v.texts[i] \in Texts
         /\ \A i \in 1..Len(v.values) : v.values[i] \in Values
         /\ v.type \notin Containers => v.values = <<>>
<1>1. v \in [type : Types, texts : Seq(Texts), numbers : Seq(Int),
             values : Seq(Values)]
  BY ValuesAssumption
<1>2. v.texts \in Seq(Texts) /\ v.values \in Seq(Values) /\ v.numbers \in Seq(Int)
  BY <1>1
<1> QED BY <1>2, ValuesAssumption, LenProperties, ElementOfSeq

LEMMA HeightIs ==
  ASSUME NEW v \in Values
  PROVE  /\ Height[v] \in Nat
         /\ \A i \in 1..Len(v.values) : /\ Height[v.values[i]] \in Nat
                                        /\ Height[v.values[i]] < Height[v]
         /\ \A d \in Nat : Height[v] + d <= MaxValueDepth <=>
              /\ d <= MaxValueDepth
              /\ \A i \in 1..Len(v.values) :
                   Height[v.values[i]] + (d + 1) <= MaxValueDepth
<1> DEFINE below == {Height[v.values[i]] : i \in 1..Len(v.values)}
<1>1. /\ Height[v] \in Nat /\ MaxValueDepth \in Nat
      /\ \A i \in 1..Len(v.values) : Height[v.values[i]] \in Nat
  BY ValueFields, HeightAssumption, DepthAssumption
<1>2. \A i \in 1..Len(v.values) : Height[v.values[i]] \in below
  OBVIOUS
<1>3. IF below = {} THEN Height[v] = 0
      ELSE \E h \in below : Height[v] = h + 1 /\ \A k \in below : k <= h
  BY HeightAssumption
<1>4. \A h \in below : \E i \in 1..Len(v.values) : h = Height[v.values[i]]
  OBVIOUS
<1> HIDE DEF below
<1>5. CASE below = {}
  <2>1. Height[v] = 0 /\ \A i \in 1..Len(v.values) : FALSE
    BY <1>2, <1>3, <1>5
  <2> QED BY <1>1, <2>1
<1>6. CASE below # {}
  <2>1. PICK h \in below : Height[v] = h + 1 /\ \A k \in below : k <= h
    BY <1>3, <1>6
  <2>2. PICK j \in 1..Len(v.values) : h = Height[v.values[j]]
    BY <1>4
  <2>3. h \in Nat /\ \A i \in 1..Len(v.values) : Height[v.values[i]] <= h
    BY <1>1, <1>2, <2>1, <2>2
  <2>4. ASSUME NEW d \in Nat
        PROVE  Height[v] + d <= MaxValueDepth <=>
                 /\ d <= MaxValueDepth
                 /\ \A i \in 1..Len(v.values) :
                      Height[v.values[i]] + (d + 1) <= MaxValueDepth
    <3>1. ASSUME Height[v] + d <= MaxValueDepth
          PROVE  /\ d <= MaxValueDepth
                 /\ \A i \in 1..Len(v.values) :
                      Height[v.values[i]] + (d + 1) <= MaxValueDepth
      BY <1>1, <2>1, <2>3, <3>1
    <3>2. ASSUME \A i \in 1..Len(v.values) :
                   Height[v.values[i]] + (d + 1) <= MaxValueDepth
          PROVE  Height[v] + d <= MaxValueDepth
      <4>1. h + (d + 1) <= MaxValueDepth
        BY <2>2, <3>2
      <4> QED BY <1>1, <2>1, <2>3, <4>1
    <3> QED BY <3>1, <3>2
  <2>5. \A i \in 1..Len(v.values) : Height[v.values[i]] < Height[v]
    BY <1>1, <2>1, <2>3
  <2> QED BY <1>1, <2>4, <2>5
<1> QED BY <1>5, <1>6

(* Because values nest to a height, a definition by recursion on what is    *)
(* within a value defines a function: here step, from the results below.    *)
Within(f, v) == [i \in 1..Len(v.values) |-> f[v.values[i]]]
Under(n) == {v \in Values : Height[v] < n}
Solves(step, R, f, n) ==
  f \in [Under(n) -> R] /\ \A v \in Under(n) : f[v] = step[v][Within(f, v)]

LEMMA UnderIs ==
  ASSUME NEW n \in Nat, NEW v \in Under(n + 1)
  PROVE  /\ v \in Values
         /\ \A i \in 1..Len(v.values) : v.values[i] \in Under(n)
<1>1. v \in Values /\ Height[v] < n + 1
  BY DEF Under
<1>2. ASSUME NEW i \in 1..Len(v.values) PROVE v.values[i] \in Under(n)
  <2>1. /\ v.values[i] \in Values /\ Height[v.values[i]] \in Nat /\ Height[v] \in Nat
        /\ Height[v.values[i]] < Height[v]
    BY <1>1, ValueFields, HeightIs
  <2>2. Height[v.values[i]] < n
    BY <1>1, <2>1
  <2> QED BY <2>1, <2>2 DEF Under
<1> QED BY <1>1, <1>2

LEMMA SolutionsExist ==
  ASSUME NEW R, NEW step \in [Values -> [Seq(R) -> R]]
  PROVE  \A n \in Nat : \E f : Solves(step, R, f, n)
<1> DEFINE S == {n \in Nat : \E f : Solves(step, R, f, n)}
<1>1. 0 \in S
  <2> DEFINE f == [v \in Under(0) |-> step[v][<<>>]]
  <2>1. ASSUME NEW v \in Under(0) PROVE FALSE
    BY HeightIs DEF Under
  <2>2. Solves(step, R, f, 0)
    BY <2>1 DEF Solves
  <2> QED BY <2>2
<1>2. ASSUME NEW n \in Nat, n \in S PROVE n + 1 \in S
  <2>1. PICK f : Solves(step, R, f, n)
    BY <1>2
  <2> DEFINE g == [v \in Under(n + 1) |-> step[v][Within(f, v)]]
  <2>2. ASSUME NEW v \in Under(n + 1) PROVE step[v][Within(f, v)] \in R
    <3>1. /\ v \in Values /\ Len(v.values) \in Nat
          /\ \A i \in 1..Len(v.values) : f[v.values[i]] \in R
      BY <2>1, UnderIs, ValueFields DEF Solves
    <3>2. Within(f, v) \in Seq(R)
      BY <3>1 DEF Within
    <3> QED BY <3>1, <3>2
  <2>3. ASSUME NEW v \in Under(n) PROVE v \in Under(n + 1) /\ g[v] = f[v]
    <3>1. v \in Under(n + 1)
      BY HeightIs DEF Under
    <3> QED BY <2>1, <3>1 DEF Solves
  <2>4. \A v \in Under(n + 1) : g[v] = step[v][Within(f, v)]
    OBVIOUS
  <2>5. g \in [Under(n + 1) -> R]
    BY <2>2
  <2> HIDE DEF g
  <2>6. ASSUME NEW v \in Under(n + 1) PROVE g[v] = step[v][Within(g, v)]
    <3>1. \A i \in 1..Len(v.values) : g[v.values[i]] = f[v.values[i]]
      BY <2>3, UnderIs
    <3>2. Within(g, v) = Within(f, v)
      BY <3>1 DEF Within
    <3> QED BY <2>4, <3>2
  <2>7. Solves(step, R, g, n + 1)
    BY <2>5, <2>6 DEF Solves
  <2> QED BY <2>7
<1>3. Nat \subseteq S
  <2> HIDE DEF S
  <2> QED BY <1>1, <1>2, Induction
<1> QED BY <1>3

LEMMA SolutionsAgree ==
  ASSUME NEW R, NEW step, NEW n \in Nat, NEW m \in Nat, NEW f, NEW g,
         Solves(step, R, f, n), Solves(step, R, g, m)
  PROVE  \A v \in Under(n) \cap Under(m) : f[v] = g[v]
<1> DEFINE both == Under(n) \cap Under(m)
           S == {k \in Nat : \A v \in both \cap Under(k) : f[v] = g[v]}
<1>1. 0 \in S
  <2>1. ASSUME NEW v \in Under(0) PROVE FALSE
    BY HeightIs DEF Under
  <2> QED BY <2>1
<1>2. ASSUME NEW k \in Nat, k \in S PROVE k + 1 \in S
  <2>1. ASSUME NEW v \in both \cap Under(k + 1) PROVE f[v] = g[v]
    <3>1. v \in Values /\ \A i \in 1..Len(v.values) : v.values[i] \in Under(k)
      BY UnderIs
    <3>2. ASSUME NEW i \in 1..Len(v.values) PROVE v.values[i] \in both
      <4>1. /\ v.values[i] \in Values /\ Height[v.values[i]] \in Nat
            /\ Height[v] \in Nat /\ Height[v.values[i]] < Height[v]
        BY <3>1, ValueFields, HeightIs
      <4>2. Height[v] < n /\ Height[v] < m
        BY DEF Under
      <4>3. Height[v.values[i]] < n /\ Height[v.values[i]] < m
        BY <4>1, <4>2
      <4> QED BY <4>1, <4>3 DEF Under
    <3>3. \A i \in 1..Len(v.values) : f[v.values[i]] = g[v.values[i]]
      BY <1>2, <3>1, <3>2
    <3>4. Within(f, v) = Within(g, v)
      BY <3>3 DEF Within
    <3> QED BY <3>4 DEF Solves
  <2> QED BY <2>1
<1>3. Nat \subseteq S
  <2> HIDE DEF S
  <2> QED BY <1>1, <1>2, Induction
<1>4. ASSUME NEW v \in both PROVE f[v] = g[v]
  <2>1. n \in S /\ v \in Under(n)
    BY <1>3
  <2> QED BY <2>1
<1> QED BY <1>4

LEMMA RecursionDefines ==
  ASSUME NEW R, NEW step \in [Values -> [Seq(R) -> R]]
  PROVE  \E f \in [Values -> R] : \A v \in Values : f[v] = step[v][Within(f, v)]
<1> DEFINE F == [n \in Nat |-> CHOOSE f : Solves(step, R, f, n)]
           h == [v \in Values |-> F[Height[v] + 1][v]]
<1>1. \A n \in Nat : Solves(step, R, F[n], n)
  BY SolutionsExist
<1> HIDE DEF F
<1>2. ASSUME NEW v \in Values, NEW n \in Nat, v \in Under(n)
      PROVE  h[v] = F[n][v]
  <2>1. Height[v] + 1 \in Nat /\ v \in Under(Height[v] + 1)
    BY HeightIs DEF Under
  <2> DEFINE k == Height[v] + 1
             f == F[k]
             g == F[n]
  <2>2. Solves(step, R, f, k) /\ Solves(step, R, g, n) /\ k \in Nat
    BY <1>1, <2>1
  <2>3. v \in Under(k) \cap Under(n) /\ h[v] = f[v]
    BY <1>2, <2>1
  <2> HIDE DEF k, f, g
  <2>4. f[v] = g[v]
    <3> HIDE DEF h
    <3>1. \A u \in Under(k) \cap Under(n) : f[u] = g[u]
      BY <2>2, SolutionsAgree
    <3> QED BY <2>3, <3>1
  <2> QED BY <2>3, <2>4 DEF g
<1>3. ASSUME NEW v \in Values
      PROVE  h[v] \in R /\ h[v] = step[v][Within(h, v)]
  <2> DEFINE n == Height[v] + 1
             f == F[n]
  <2>1. n \in Nat /\ v \in Under(n) /\ Height[v] \in Nat
    BY HeightIs DEF Under
  <2>2. Solves(step, R, f, n) /\ h[v] = f[v]
    BY <1>1, <2>1
  <2>3. ASSUME NEW i \in 1..Len(v.values) PROVE h[v.values[i]] = f[v.values[i]]
    <3>1. v.values[i] \in Under(n)
      <4>1. v.values[i] \in Under(Height[v])
        BY <2>1, UnderIs
      <4>2. v.values[i] \in Values /\ Height[v.values[i]] \in Nat
        BY ValueFields, HeightIs
      <4> QED BY <2>1, <4>1, <4>2 DEF Under
    <3>2. v.values[i] \in Values
      BY ValueFields
    <3> QED BY <1>2, <2>1, <3>1, <3>2
  <2> HIDE DEF h, f, n
  <2>4. Within(h, v) = Within(f, v)
    BY <2>3 DEF Within
  <2> QED BY <2>1, <2>2, <2>4 DEF Solves
<1>4. h \in [Values -> R]
  BY <1>3
<1> QED BY <1>3, <1>4

LEMMA RecursionIsUnique ==
  ASSUME NEW f, NEW g,
         \A v \in Values : Within(g, v) = Within(f, v) => g[v] = f[v]
  PROVE  \A v \in Values : g[v] = f[v]
<1> DEFINE S == {k \in Nat : \A v \in Under(k) : g[v] = f[v]}
<1>1. 0 \in S
  <2>1. ASSUME NEW v \in Under(0) PROVE FALSE
    BY HeightIs DEF Under
  <2> QED BY <2>1
<1>2. ASSUME NEW k \in Nat, k \in S PROVE k + 1 \in S
  <2>1. ASSUME NEW v \in Under(k + 1) PROVE g[v] = f[v]
    <3>1. v \in Values /\ \A i \in 1..Len(v.values) : v.values[i] \in Under(k)
      BY UnderIs
    <3>2. Within(g, v) = Within(f, v)
      BY <1>2, <3>1 DEF Within
    <3> QED BY <3>1, <3>2
  <2> QED BY <2>1
<1>3. Nat \subseteq S
  <2> HIDE DEF S
  <2> QED BY <1>1, <1>2, Induction
<1>4. ASSUME NEW v \in Values PROVE g[v] = f[v]
  <2>1. Height[v] + 1 \in S /\ v \in Under(Height[v] + 1)
    BY <1>3, HeightIs DEF Under
  <2> QED BY <2>1
<1> QED BY <1>4

ChildCosts(v) == [i \in 1..Len(v.values) |-> Cost[v.values[i]]]
NodeCost(v) == 32 + Count(v) * Unit(v)
OwnCost(v) == NodeCost(v) + Amount(TextCosts(v.texts))

LEMMA OwnCostIs ==
  ASSUME NEW v \in Values
  PROVE  /\ Count(v) \in Nat /\ Unit(v) \in {1, 16, 32, 64} /\ NodeCost(v) \in Nat
         /\ TextCosts(v.texts) \in Seq(Nat)
         /\ Amount(TextCosts(v.texts)) \in Nat /\ OwnCost(v) \in Nat
<1>1. Count(v) \in Nat /\ Unit(v) \in {1, 16, 32, 64}
  BY ValueFields DEF Count, Unit
<1>2. Count(v) * Unit(v) \in Nat
  BY <1>1
<1>3. NodeCost(v) \in Nat
  BY <1>2 DEF NodeCost
<1>4. TextCosts(v.texts) \in Seq(Nat)
  BY ValueFields, TextsAssumption DEF TextCosts, Bytes
<1>5. Amount(TextCosts(v.texts)) \in Nat
  BY <1>4, AmountType
<1> QED BY <1>1, <1>3, <1>4, <1>5 DEF OwnCost

LEMMA CostIs ==
  /\ Cost \in [Values -> Nat]
  /\ \A v \in Values : /\ ChildCosts(v) \in Seq(Nat) /\ Amount(ChildCosts(v)) \in Nat
                       /\ Cost[v] = OwnCost(v) + Amount(ChildCosts(v))
<1> DEFINE step == [v \in Values |-> [c \in Seq(Nat) |-> OwnCost(v) + Amount(c)]]
           P(f) == f = [v \in Values |->
                          32 + Count(v) * Unit(v) + Amount(TextCosts(v.texts))
                             + Amount([i \in 1..Len(v.values) |-> f[v.values[i]]])]
<1>1. step \in [Values -> [Seq(Nat) -> Nat]]
  BY OwnCostIs, AmountType
<1>2. \A v \in Values : \A c \in Seq(Nat) : step[v][c] = OwnCost(v) + Amount(c)
  OBVIOUS
<1> HIDE DEF step
<1>3. PICK f \in [Values -> Nat] : \A v \in Values : f[v] = step[v][Within(f, v)]
  BY <1>1, RecursionDefines
<1>4. ASSUME NEW v \in Values, NEW g \in [Values -> Nat] PROVE Within(g, v) \in Seq(Nat)
  BY ValueFields DEF Within
<1>5. \A v \in Values : f[v] = OwnCost(v) + Amount(Within(f, v))
  BY <1>2, <1>3, <1>4
<1>6. P(f)
  BY <1>5 DEF OwnCost, NodeCost, Within
<1>7. Cost = CHOOSE g : P(g)
  BY DEF Cost
<1>8. P(Cost)
  BY <1>6, <1>7
<1>9. /\ Cost = [v \in Values |-> Cost[v]]
      /\ \A v \in Values : Cost[v] = OwnCost(v) + Amount(Within(Cost, v))
  BY <1>8 DEF OwnCost, NodeCost, Within
<1> HIDE DEF P
<1>10. \A v \in Values : Cost[v] = f[v]
  <2>1. \A v \in Values : Within(Cost, v) = Within(f, v) => Cost[v] = f[v]
    BY <1>5, <1>9
  <2> QED BY <2>1, RecursionIsUnique
<1>11. Cost \in [Values -> Nat]
  BY <1>3, <1>9, <1>10
<1>12. ASSUME NEW v \in Values
       PROVE  /\ ChildCosts(v) \in Seq(Nat) /\ Amount(ChildCosts(v)) \in Nat
              /\ Cost[v] = OwnCost(v) + Amount(ChildCosts(v))
  <2>1. ChildCosts(v) = Within(Cost, v)
    BY DEF ChildCosts, Within
  <2>2. ChildCosts(v) \in Seq(Nat)
    BY <1>4, <1>11, <2>1
  <2> QED BY <1>9, <2>1, <2>2, AmountType
<1> QED BY <1>11, <1>12

(* A node is valid by itself, or with all that is within it.                *)
ValidTexts == {t \in Texts : t.valid}

LEMMA ValidIs ==
  \A v \in Values : Valid[v] <=> /\ v.type # "UNKNOWN" /\ v.texts \in Seq(ValidTexts)
                                 /\ \A i \in 1..Len(v.values) : Valid[v.values[i]]
<1> DEFINE own(v) == /\ v.type # "UNKNOWN"
                     /\ \A i \in 1..Len(v.texts) : v.texts[i].valid
           step == [v \in Values |-> [c \in Seq(BOOLEAN) |->
                      own(v) /\ \A i \in 1..Len(c) : c[i]]]
           P(f) == f = [v \in Values |->
                          /\ v.type # "UNKNOWN"
                          /\ \A i \in 1..Len(v.texts) : v.texts[i].valid
                          /\ \A i \in 1..Len(v.values) : f[v.values[i]]]
<1>1. step \in [Values -> [Seq(BOOLEAN) -> BOOLEAN]]
  OBVIOUS
<1>2. ASSUME NEW v \in Values, NEW c \in Seq(BOOLEAN)
      PROVE  step[v][c] = (own(v) /\ \A i \in 1..Len(c) : c[i])
  OBVIOUS
<1>0. \A v \in Values : own(v) <=> /\ v.type # "UNKNOWN"
                                   /\ \A i \in 1..Len(v.texts) : v.texts[i].valid
  OBVIOUS
<1> HIDE DEF step
<1>3. PICK f \in [Values -> BOOLEAN] : \A v \in Values : f[v] = step[v][Within(f, v)]
  BY <1>1, RecursionDefines
<1>4. ASSUME NEW v \in Values
      PROVE  f[v] = (own(v) /\ \A i \in 1..Len(v.values) : f[v.values[i]])
  <2> HIDE DEF own
  <2>1. Len(v.values) \in Nat /\ \A i \in 1..Len(v.values) : f[v.values[i]] \in BOOLEAN
    BY ValueFields
  <2>2. /\ Within(f, v) \in Seq(BOOLEAN) /\ Len(Within(f, v)) = Len(v.values)
        /\ \A i \in 1..Len(v.values) : Within(f, v)[i] = f[v.values[i]]
    BY <2>1 DEF Within
  <2> QED BY <1>2, <1>3, <2>2
<1>5. P(f)
  BY <1>4
<1>6. Valid = CHOOSE g : P(g)
  BY DEF Valid
<1>7. P(Valid)
  <2> HIDE DEF P
  <2> QED BY <1>5, <1>6
<1>8. ASSUME NEW v \in Values
      PROVE  Valid[v] = (own(v) /\ \A i \in 1..Len(v.values) : Valid[v.values[i]])
  BY <1>7
<1>9. ASSUME NEW v \in Values
      PROVE  own(v) <=> v.type # "UNKNOWN" /\ v.texts \in Seq(ValidTexts)
  <2>1. v.texts \in Seq(Texts) /\ \A i \in 1..Len(v.texts) : v.texts[i] \in Texts
    BY ValueFields
  <2>2. ASSUME v.texts \in Seq(ValidTexts)
        PROVE  \A i \in 1..Len(v.texts) : v.texts[i].valid
    BY <2>2, ElementOfSeq DEF ValidTexts
  <2>3. ASSUME \A i \in 1..Len(v.texts) : v.texts[i].valid
        PROVE  v.texts \in Seq(ValidTexts)
    <3>1. \A i \in 1..Len(v.texts) : v.texts[i] \in ValidTexts
      BY <2>1, <2>3 DEF ValidTexts
    <3>2. v.texts \in [1..Len(v.texts) -> ValidTexts] /\ Len(v.texts) \in Nat
      BY <2>1, <3>1, ValueFields
    <3>3. \A n \in Nat : \A g \in [1..n -> ValidTexts] : g \in Seq(ValidTexts)
      BY SeqDef
    <3> QED BY <3>2, <3>3
  <2> QED BY <2>2, <2>3
<1> HIDE DEF own
<1> QED BY <1>8, <1>9
-------------------------------------------------------------------------------
(* What the jobs, the texts and the attributes that are left still cost,    *)
(* and that they are sound.                                                 *)
JobCost == [j \in Jobs |-> IF j.finish THEN 0 ELSE Cost[j.value]]
TextCost == [t \in Texts |-> Bytes(t)]

Sound(v, d) == Valid[v] /\ Height[v] + d <= MaxValueDepth
SoundJobs == {j \in Jobs : j.finish \/ Sound(j.value, j.depth)}
AttributeIsSound(a) == a.key.valid /\ WellFormed(a.value)

LEMMA SoundIs ==
  ASSUME NEW v \in Values, NEW d \in Nat
  PROVE  Sound(v, d) <=> /\ v.type # "UNKNOWN" /\ v.texts \in Seq(ValidTexts)
                         /\ d <= MaxValueDepth
                         /\ \A i \in 1..Len(v.values) : Sound(v.values[i], d + 1)
BY ValidIs, HeightIs DEF Sound

LEMMA CostTypes ==
  /\ JobCost \in [Jobs -> Nat]
  /\ TextCost \in [Texts -> Nat]
  /\ \A ts \in Seq(Texts) : /\ TextCosts(ts) = Weights(TextCost, ts)
                            /\ Amount(TextCosts(ts)) = Weighed(TextCost, ts)
                            /\ Amount(TextCosts(ts)) \in Nat
<1>1. JobCost \in [Jobs -> Nat]
  BY CostIs DEF JobCost, Jobs
<1>2. TextCost \in [Texts -> Nat]
  BY TextsAssumption DEF TextCost, Bytes
<1>3. ASSUME NEW ts \in Seq(Texts)
      PROVE  TextCosts(ts) = Weights(TextCost, ts)
  <2>1. Len(ts) \in Nat /\ \A i \in 1..Len(ts) : ts[i] \in Texts
    BY LenProperties, ElementOfSeq
  <2> QED BY <2>1 DEF TextCosts, Weights, TextCost
<1>4. ASSUME NEW ts \in Seq(Texts)
      PROVE  Amount(TextCosts(ts)) = Weighed(TextCost, ts) /\ Weighed(TextCost, ts) \in Nat
  BY <1>2, <1>3, WeightsType DEF Weighed
<1> QED BY <1>1, <1>2, <1>3, <1>4

LEMMA AttributeCostsAre ==
  ASSUME NEW a \in Seq(Attribute)
  PROVE  /\ AttributeCosts(a) \in Seq(Nat) /\ Len(AttributeCosts(a)) = Len(a)
         /\ Len(a) \in Nat /\ TotalCost(a) \in Nat
         /\ TotalCost(a) = 64 * Len(a) + Left(AttributeCosts(a), 0)
         /\ \A i \in 1..Len(a) :
              /\ a[i] \in Attribute /\ Bytes(a[i].key) \in Nat /\ Cost[a[i].value] \in Nat
              /\ AttributeCosts(a)[i] = Bytes(a[i].key) + Cost[a[i].value]
<1> DEFINE c == AttributeCosts(a)
<1>1. Len(a) \in Nat /\ \A i \in 1..Len(a) : a[i] \in Attribute
  BY LenProperties, ElementOfSeq
<1>2. \A i \in 1..Len(a) : Bytes(a[i].key) \in Nat /\ Cost[a[i].value] \in Nat
  BY <1>1, CostIs, TextsAssumption DEF Attribute, Bytes
<1>3. /\ c \in Seq(Nat) /\ Len(c) = Len(a)
      /\ \A i \in 1..Len(a) : c[i] = Bytes(a[i].key) + Cost[a[i].value]
  BY <1>1, <1>2 DEF AttributeCosts
<1>4. TotalCost(a) = 64 * Len(a) + Amount(c)
  BY DEF TotalCost
<1> HIDE DEF c
<1>5. Amount(c) = Left(c, 0) /\ Amount(c) \in Nat
  BY <1>3, LeftStep, AmountType DEF Amount
<1>6. TotalCost(a) \in Nat
  BY <1>1, <1>4, <1>5
<1> QED BY <1>1, <1>2, <1>3, <1>4, <1>5, <1>6 DEF c

Pending == Weighed(JobCost, jobs)
             + (IF busy THEN Amount(TextCosts(texts)) + Amount(ChildCosts(job.value))
                        ELSE 0)
Ahead == Left(AttributeCosts(input), Len(copied) + (IF InValue THEN 1 ELSE 0))

PendingIsSound ==
  /\ jobs \in Seq(SoundJobs)
  /\ busy => /\ texts \in Seq(ValidTexts)
             /\ \A i \in 1..Len(job.value.values) :
                  Sound(job.value.values[i], job.depth + 1)

InputIsSound == \A i \in 1..Len(input) : AttributeIsSound(input[i])
Refusal == ~InputIsSound \/ TotalCost(input) > given

(* What is left of the budget is what it leaves over the total, and what is *)
(* still to be charged; and an attribute at work is sound if what is left   *)
(* of it is.                                                                *)
AcceptInv ==
  /\ result = "called" => copied = <<>> /\ left = given
  /\ result = "running" =>
       /\ left + TotalCost(input) = given + (Pending + Ahead)
       /\ \A i \in 1..Len(copied) : AttributeIsSound(input[i])
       /\ InValue => (AttributeIsSound(input[Len(copied) + 1]) <=> PendingIsSound)
  /\ result = "copied" => left + TotalCost(input) = given /\ InputIsSound
  /\ result = "rejected" => left = Exhausted /\ Refusal

Inv == StackInv /\ ExactInv /\ AcceptInv

(* What they say together of a copy that is running.                        *)
LEMMA Running ==
  ASSUME StackInv, ExactInv, result # "rejected"
  PROVE  /\ given \in Nat /\ left \in Nat
         /\ input \in Seq(Attribute) /\ TotalCost(input) \in Nat
         /\ Len(copied) \in Nat /\ Len(copied) <= Len(input)
         /\ result = "running" /\ InValue => Len(copied) + 1 \in 1..Len(input)
         /\ jobs \in Seq(Jobs) /\ Weighed(JobCost, jobs) \in Nat
         /\ result = "running" => Ahead \in Nat
<1>1. given \in Nat /\ left \in Nat
  BY BudgetsAssumption DEF StackInv
<1>2. input \in Seq(Attribute)
  BY InputIs
<1>3. Len(copied) \in Nat /\ Len(copied) <= Len(input) /\ Len(input) \in Nat
  BY <1>2, LenProperties DEF ExactInv, Pre
<1>4. result = "running" /\ InValue => Len(copied) + 1 \in 1..Len(input)
  BY <1>3 DEF ExactInv
<1>5. jobs \in Seq(Jobs) /\ Weighed(JobCost, jobs) \in Nat
  BY CostTypes, WeightsType DEF StackInv
<1>6. /\ AttributeCosts(input) \in Seq(Nat)
      /\ Len(AttributeCosts(input)) = Len(input) /\ TotalCost(input) \in Nat
  BY <1>2, AttributeCostsAre
<1>7. result = "running" => Ahead \in Nat
  BY <1>3, <1>4, <1>6, LeftStep DEF Ahead
<1> QED BY <1>1, <1>2, <1>3, <1>4, <1>5, <1>6, <1>7

(* What refuses a list does not change.                                     *)
LEMMA Refused ==
  ASSUME Refusal, UNCHANGED <<input, given>>, result' = "rejected",
         left' = Exhausted
  PROVE  AcceptInv'
BY DEF Refusal, InputIsSound, AcceptInv

(* A charge of c, with rest to come: it is taken or the list is refused.    *)
LEMMA Spend ==
  ASSUME given \in Nat, left \in Nat, TotalCost(input) \in Nat,
         NEW c \in Nat, NEW rest \in Nat, NEW b,
         left + TotalCost(input) = given + (c + rest),
         Charged(b), UNCHANGED <<input, given>>,
         b = Pays(left, c) \/ (b = Exhausted /\ ~InputIsSound)
  PROVE  \/ /\ result' = "running" /\ b # Exhausted
            /\ left' + TotalCost(input) = given + rest
         \/ result' = "rejected" /\ AcceptInv'
<1> DEFINE total == TotalCost(input)
<1>0. total \in Nat /\ left + total = given + (c + rest)
  OBVIOUS
<1>1. CASE b # Exhausted
  <2>1. b = left - c /\ result' = "running" /\ left' = b
    BY <1>1 DEF Pays, Charged
  <2>2. left' + total = given + rest
    <3> HIDE DEF total
    <3> QED BY <1>0, <2>1
  <2> QED BY <1>1, <2>1, <2>2
<1>2. CASE b = Exhausted
  <2>1. result' = "rejected" /\ left' = Exhausted
    BY <1>2 DEF Charged
  <2>2. Refusal
    <3>1. CASE b = Pays(left, c)
      <4>1. c > left
        BY <1>2, <3>1 DEF Pays, Exhausted
      <4>2. total > given
        <5> HIDE DEF total
        <5> QED BY <1>0, <4>1
      <4> QED BY <4>2 DEF Refusal
    <3>2. CASE ~InputIsSound
      BY <3>2 DEF Refusal
    <3> QED BY <3>1, <3>2
  <2> QED BY <2>1, <2>2, Refused
<1> QED BY <1>1, <1>2

(* What an invariant of a copy that runs on says.                           *)
LEMMA RunsOn ==
  ASSUME result' = "running", UNCHANGED <<input, given>>,
         left' + TotalCost(input) = given + (Pending' + Ahead'),
         \A i \in 1..Len(copied') : AttributeIsSound(input[i]),
         InValue' => (AttributeIsSound(input[Len(copied') + 1]) => PendingIsSound'),
         InValue' => (PendingIsSound' => AttributeIsSound(input[Len(copied') + 1]))
  PROVE  AcceptInv'
BY DEF AcceptInv

(* Nothing is at work between two attributes.                               *)
LEMMA Idle ==
  ASSUME ~busy, jobs = <<>>
  PROVE  Pending = 0 /\ PendingIsSound
<1>1. Weighed(JobCost, jobs) = 0
  BY CostTypes, WeighedFew
<1>2. jobs \in Seq(SoundJobs)
  OBVIOUS
<1> QED BY <1>1, <1>2 DEF Pending, PendingIsSound

LEMMA UnsoundWork ==
  ASSUME StackInv, ExactInv, AcceptInv, result = "running", InValue, ~PendingIsSound
  PROVE  ~InputIsSound
<1>1. Len(copied) + 1 \in 1..Len(input)
  BY Running
<1>2. ~AttributeIsSound(input[Len(copied) + 1])
  BY DEF AcceptInv
<1> QED BY <1>1, <1>2 DEF InputIsSound

LEMMA AcceptInit == Init => AcceptInv
BY DEF Init, AcceptInv

LEMMA AcceptEnter ==
  ASSUME StackInv, ExactInv, AcceptInv, Enter
  PROVE  AcceptInv'
<1>1. /\ result = "called" /\ copied = <<>> /\ left = given /\ jobs = <<>> /\ ~busy
      /\ ~InValue /\ given \in Nat /\ left \in Nat /\ input \in Seq(Attribute)
  BY Running DEF Enter, AcceptInv, StackInv, ExactInv
<1>2. /\ Charged(Items(left, Len(input), 64))
      /\ UNCHANGED <<input, copied, jobs, job, busy, texts, cells, given>>
  BY DEF Enter
<1> DEFINE ac == AttributeCosts(input)
           n == Len(input)
           total == TotalCost(input)
           rest == Left(ac, 0)
           c == n * 64
<1>3. n \in Nat /\ total \in Nat /\ total = 64 * n + rest /\ ac \in Seq(Nat)
  BY <1>1, AttributeCostsAre
<1>4. rest \in Nat
  <2>1. 0 \in 0..Len(ac)
    BY <1>3, LenProperties
  <2> HIDE DEF ac
  <2> QED BY <1>3, <2>1, LeftStep
<1>5. c \in Nat /\ Items(left, n, 64) = Pays(left, c)
  <2>1. left \in Int /\ left >= Exhausted /\ 64 \in {1, 16, 32, 64}
    BY <1>1 DEF Exhausted
  <2> HIDE DEF n
  <2>2. n * 64 \in Nat /\ Items(left, n, 64) = Pays(left, n * 64)
    BY <1>3, <2>1, ItemsPay
  <2> QED BY <2>2
<1>6. left + total = given + (c + rest)
  <2> HIDE DEF total, rest, n
  <2> QED BY <1>1, <1>3, <1>4
<1>7. \/ result' = "running" /\ left' + TotalCost(input) = given + rest
      \/ result' = "rejected" /\ AcceptInv'
  <2> HIDE DEF c, rest, n
  <2>1. Charged(Items(left, n, 64))
    BY <1>2 DEF n
  <2> QED BY <1>1, <1>2, <1>3, <1>4, <1>5, <1>6, <2>1, Spend
<1>8. CASE result' = "running" /\ left' + TotalCost(input) = given + rest
  <2>1. Pending' = Pending /\ Pending = 0
    <3>1. Pending = 0
      BY <1>1, Idle
    <3> QED BY <1>2, <3>1 DEF Pending
  <2>2. ~InValue' /\ Len(copied') = 0
    BY <1>1, <1>2 DEF InValue
  <2>3. Ahead' = rest
    BY <1>2, <2>2 DEF Ahead
  <2>4. left' + TotalCost(input) = given + (Pending' + Ahead')
    <3> HIDE DEF rest
    <3> QED BY <1>4, <1>8, <2>1, <2>3
  <2> QED BY <1>2, <1>8, <2>2, <2>4, RunsOn
<1> QED BY <1>7, <1>8

(* Where attributes stands between two of its attributes.                   *)
LEMMA BetweenIs ==
  ASSUME StackInv, ExactInv, AcceptInv, Between
  PROVE  /\ given \in Nat /\ left \in Nat /\ TotalCost(input) \in Nat
         /\ Len(copied) \in Nat /\ Ahead \in Nat
         /\ result = "running" /\ ~busy /\ jobs = <<>>
         /\ left + TotalCost(input) = given + Ahead
         /\ \A i \in 1..Len(copied) : AttributeIsSound(input[i])
<1>1. result = "running" /\ ~busy /\ jobs = <<>>
  BY DEF Between
<1>2. /\ given \in Nat /\ left \in Nat /\ TotalCost(input) \in Nat
      /\ Len(copied) \in Nat /\ Ahead \in Nat
  BY <1>1, Running
<1>3. Pending = 0
  BY <1>1, Idle
<1>4. /\ left + TotalCost(input) = given + (Pending + Ahead)
      /\ \A i \in 1..Len(copied) : AttributeIsSound(input[i])
  BY <1>1 DEF AcceptInv
<1> QED BY <1>1, <1>2, <1>3, <1>4

LEMMA AcceptCopyKey ==
  ASSUME StackInv, ExactInv, AcceptInv, CopyKey
  PROVE  AcceptInv'
<1> DEFINE n == Len(copied)
           a == input[n + 1]
           j == JobFor(a.value, <<>>, 0, FALSE)
           ac == AttributeCosts(input)
           more == Left(ac, n + 1)
           own == Cost[a.value]
           rest == own + more
           c == Bytes(a.key)
           total == TotalCost(input)
           b == Text(left, a.key)
<1>1. Between /\ cells = <<>> /\ n < Len(input)
  BY DEF CopyKey
<1>2. /\ Charged(b) /\ jobs' = <<j>>
      /\ UNCHANGED <<input, copied, job, busy, texts, cells, given>>
  BY DEF CopyKey
<1>3. /\ given \in Nat /\ left \in Nat /\ total \in Nat
      /\ n \in Nat /\ Ahead \in Nat
      /\ result = "running" /\ ~busy /\ jobs = <<>>
      /\ left + total = given + Ahead
      /\ \A i \in 1..n : AttributeIsSound(input[i])
  BY <1>1, BetweenIs
<1>4. ~InValue /\ Ahead = Left(ac, n)
  BY <1>1, <1>3 DEF InValue, Ahead
<1>5. /\ n + 1 \in 1..Len(input) /\ a \in Attribute /\ c \in Nat /\ own \in Nat
      /\ ac[n + 1] = c + own /\ ac \in Seq(Nat) /\ Len(ac) = Len(input)
      /\ Len(input) \in Nat
  <2>1. input \in Seq(Attribute)
    BY InputIs
  <2>2. n + 1 \in 1..Len(input)
    BY <1>1, <1>3, <2>1, LenProperties
  <2> QED BY <2>1, <2>2, AttributeCostsAre
<1>6. a.key \in Texts /\ a.value \in Values /\ j \in Jobs
  BY <1>5 DEF Attribute, Jobs, JobFor
<1>7. Left(ac, n) = ac[n + 1] + more /\ more \in Nat
  <2>1. n \in 0..(Len(ac) - 1) /\ n + 1 \in 0..Len(ac)
    BY <1>1, <1>3, <1>5
  <2> HIDE DEF ac, n
  <2> QED BY <1>5, <2>1, LeftStep
<1>8. rest \in Nat /\ left + total = given + (c + rest)
  <2> HIDE DEF ac, total, own, more, c, n
  <2> QED BY <1>3, <1>4, <1>5, <1>7
<1>9. /\ a.key.valid => b = Pays(left, c)
      /\ ~a.key.valid => b = Exhausted /\ ~InputIsSound
  <2>1. Exact(left, b, c, a.key.valid)
    <3>1. left \in Int /\ left >= Exhausted
      BY <1>3 DEF Exhausted
    <3>2. a.key.len \in Nat /\ a.key.valid \in BOOLEAN
      BY <1>6, TextsAssumption
    <3> QED BY <3>1, <3>2, TextIsPaid
  <2>2. ~a.key.valid => ~InputIsSound
    BY <1>5 DEF InputIsSound, AttributeIsSound
  <2> QED BY <2>1, <2>2 DEF Exact
<1>10. \/ result' = "running" /\ b # Exhausted /\ left' + TotalCost(input) = given + rest
       \/ result' = "rejected" /\ AcceptInv'
  <2>1. b = Pays(left, c) \/ (b = Exhausted /\ ~InputIsSound)
    BY <1>9
  <2> HIDE DEF b, c, rest, j
  <2> QED BY <1>2, <1>3, <1>5, <1>8, <2>1, Spend
<1>11. CASE result' = "running" /\ b # Exhausted /\ left' + TotalCost(input) = given + rest
  <2>1. a.key.valid
    BY <1>9, <1>11
  <2>2. InValue' /\ Len(copied') = n /\ input[Len(copied') + 1] = a
    BY <1>2 DEF InValue
  <2>3. Ahead' = more
    BY <1>2, <2>2 DEF Ahead
  <2>4. Pending' = own
    <3>1. JobCost[j] = own
      BY <1>6 DEF JobCost, JobFor
    <3>2. Weighed(JobCost, <<j>>) = JobCost[j]
      <4> HIDE DEF j
      <4> QED BY <1>6, CostTypes, WeighedFew
    <3>3. Pending' = Weighed(JobCost, <<j>>) + 0
      BY <1>2, <1>3 DEF Pending
    <3> HIDE DEF j, own
    <3> QED BY <1>5, <3>1, <3>2, <3>3
  <2>5. left' + TotalCost(input) = given + (Pending' + Ahead')
    BY <1>11, <2>3, <2>4
  <2>6. AttributeIsSound(a) <=> j \in SoundJobs
    <3>1. Height[a.value] \in Nat
      BY <1>6, HeightAssumption
    <3>2. Sound(a.value, 0) <=> WellFormed(a.value)
      BY <3>1 DEF Sound, WellFormed
    <3>3. ~j.finish /\ j.value = a.value /\ j.depth = 0
      BY DEF JobFor
    <3> HIDE DEF j, a
    <3> QED BY <1>6, <2>1, <3>2, <3>3 DEF AttributeIsSound, SoundJobs
  <2>7. PendingIsSound' <=> <<j>> \in Seq(SoundJobs)
    BY <1>2, <1>3 DEF PendingIsSound
  <2>8. <<j>> \in Seq(SoundJobs) <=> j \in SoundJobs
    <3> HIDE DEF j
    <3>1. ASSUME <<j>> \in Seq(SoundJobs) PROVE j \in SoundJobs
      <4>1. Len(<<j>>) = 1 /\ <<j>>[1] = j
        OBVIOUS
      <4>2. <<j>>[1] \in SoundJobs
        BY <3>1, <4>1, ElementOfSeq
      <4> QED BY <4>1, <4>2
    <3> QED BY <3>1
  <2>9. \A i \in 1..Len(copied') : AttributeIsSound(input[i])
    BY <1>3, <2>2
  <2>10. AttributeIsSound(input[Len(copied') + 1]) <=> PendingIsSound'
    BY <2>2, <2>6, <2>7, <2>8
  <2> HIDE DEF j, a, rest, b
  <2> QED BY <1>2, <1>11, <2>5, <2>9, <2>10, RunsOn
<1> QED BY <1>10, <1>11

LEMMA AcceptKeepAttribute ==
  ASSUME StackInv, ExactInv, AcceptInv, KeepAttribute
  PROVE  AcceptInv'
<1> DEFINE n == Len(copied)
<1>1. Between /\ cells # <<>> /\ InValue
  BY DEF KeepAttribute, InValue
<1>2. /\ cells' = <<>>
      /\ UNCHANGED <<input, jobs, job, busy, texts, given, left, result>>
      /\ result = "running" /\ ~busy /\ jobs = <<>>
  BY DEF KeepAttribute, Between
<1>3. Len(copied') = n + 1 /\ n \in Nat
  <2>1. copied \in Seq(Attribute)
    BY DEF ExactInv
  <2> QED BY <2>1, LenProperties DEF KeepAttribute
<1>4. ~InValue'
  BY <1>2 DEF InValue
<1>5. Pending' = Pending /\ Ahead' = Ahead
  <2>1. Pending' = Pending
    BY <1>2 DEF Pending
  <2>2. Len(copied') + 0 = n + 1
    BY <1>3
  <2> QED BY <1>1, <1>2, <1>4, <2>1, <2>2 DEF Ahead
<1>6. AttributeIsSound(input[n + 1])
  BY <1>1, <1>2, Idle DEF AcceptInv
<1>7. \A i \in 1..Len(copied') : AttributeIsSound(input[i])
  <2>1. \A i \in 1..n : AttributeIsSound(input[i])
    BY <1>2 DEF AcceptInv
  <2>2. \A i \in 1..Len(copied') : i \in 1..n \/ i = n + 1
    BY <1>3
  <2> QED BY <1>6, <2>1, <2>2
<1>8. left' + TotalCost(input) = given + (Pending' + Ahead')
  BY <1>2, <1>5 DEF AcceptInv
<1> QED BY <1>2, <1>4, <1>7, <1>8, RunsOn

LEMMA AcceptReturn ==
  ASSUME StackInv, ExactInv, AcceptInv, Return
  PROVE  AcceptInv'
<1> DEFINE ac == AttributeCosts(input)
<1>1. /\ Between /\ cells = <<>> /\ Len(copied) = Len(input) /\ result' = "copied"
      /\ UNCHANGED <<input, copied, jobs, job, busy, texts, cells, given, left>>
  BY DEF Return
<1>2. /\ given \in Nat /\ left \in Nat /\ TotalCost(input) \in Nat
      /\ ~busy /\ jobs = <<>> /\ Len(copied) \in Nat
      /\ left + TotalCost(input) = given + Ahead
      /\ \A i \in 1..Len(copied) : AttributeIsSound(input[i])
  BY <1>1, BetweenIs
<1>3. ac \in Seq(Nat) /\ Len(ac) = Len(input)
  BY InputIs, AttributeCostsAre
<1>4. Ahead = Left(ac, Len(ac))
  BY <1>1, <1>2, <1>3 DEF Ahead, InValue
<1>5. Ahead = 0
  <2> HIDE DEF ac
  <2> QED BY <1>3, <1>4, LeftStep
<1>6. left' + TotalCost(input) = given /\ InputIsSound
  BY <1>1, <1>2, <1>5 DEF InputIsSound
<1> QED BY <1>1, <1>6 DEF AcceptInv, InputIsSound

(* Where value stands at work on an attribute.                              *)
LEMMA WorkIs ==
  ASSUME StackInv, ExactInv, AcceptInv, result = "running", InValue
  PROVE  /\ given \in Nat /\ left \in Nat /\ TotalCost(input) \in Nat /\ Ahead \in Nat
         /\ jobs \in Seq(Jobs) /\ Weighed(JobCost, jobs) \in Nat
         /\ left + TotalCost(input) = given + (Pending + Ahead)
BY Running DEF AcceptInv

(* A step of value within one attribute: what it charges is no longer       *)
(* pending, and what is pending is as sound as it was.                      *)
LEMMA WorksOn ==
  ASSUME StackInv, ExactInv, AcceptInv, result = "running", InValue, InValue',
         UNCHANGED <<input, copied, given>>, result' = "running",
         left' + TotalCost(input) = given + (Pending' + Ahead),
         PendingIsSound => PendingIsSound', PendingIsSound' => PendingIsSound
  PROVE  AcceptInv'
<1>1. Ahead' = Ahead
  BY DEF Ahead
<1>2. /\ \A i \in 1..Len(copied') : AttributeIsSound(input[i])
      /\ AttributeIsSound(input[Len(copied') + 1]) => PendingIsSound'
      /\ PendingIsSound' => AttributeIsSound(input[Len(copied') + 1])
  BY DEF AcceptInv
<1> QED BY <1>1, <1>2, RunsOn

(* The top of the stack and what is below it.                               *)
LEMMA TopIs ==
  ASSUME jobs \in Seq(Jobs), jobs # <<>>
  PROVE  /\ Head(jobs) \in Jobs /\ Tail(jobs) \in Seq(Jobs)
         /\ Weighed(JobCost, Tail(jobs)) \in Nat
         /\ Weighed(JobCost, jobs) =
              JobCost[Head(jobs)] + Weighed(JobCost, Tail(jobs))
         /\ jobs \in Seq(SoundJobs) <=>
              Head(jobs) \in SoundJobs /\ Tail(jobs) \in Seq(SoundJobs)
<1> DEFINE h == Head(jobs)
           t == Tail(jobs)
           o == <<h>>
<1>1. h \in Jobs /\ t \in Seq(Jobs) /\ jobs = o \o t /\ o \in Seq(Jobs)
  BY HeadAndTail
<1>2. Weighed(JobCost, o) = JobCost[h]
  BY <1>1, CostTypes, WeighedFew
<1>3. o \in Seq(SoundJobs) <=> h \in SoundJobs
  <2> HIDE DEF h
  <2>1. Len(o) = 1 /\ o[1] = h
    OBVIOUS
  <2>2. o \in Seq(SoundJobs) => h \in SoundJobs
    BY <2>1, ElementOfSeq
  <2> QED BY <2>2
<1> HIDE DEF h, t, o
<1>4. /\ Weighed(JobCost, t) \in Nat
      /\ Weighed(JobCost, o \o t) = Weighed(JobCost, o) + Weighed(JobCost, t)
  BY <1>1, CostTypes, WeightsType, WeighedBoth
<1>5. o \o t \in Seq(SoundJobs) <=> o \in Seq(SoundJobs) /\ t \in Seq(SoundJobs)
  BY <1>1, BothIn
<1>6. jobs = o \o t
  BY <1>1
<1> QED BY <1>1, <1>2, <1>3, <1>4, <1>5, <1>6 DEF h, t

LEMMA AcceptFinishJob ==
  ASSUME StackInv, ExactInv, AcceptInv, FinishJob
  PROVE  AcceptInv'
<1> DEFINE h == Head(jobs)
           t == Tail(jobs)
<1>1. /\ result = "running" /\ ~busy /\ jobs # <<>> /\ h.finish /\ jobs' = t
      /\ UNCHANGED <<input, copied, job, busy, texts, given, left, result>>
      /\ DOMAIN cells' = DOMAIN cells \cup {h.out}
  BY DEF FinishJob, Popping, Store
<1>2. InValue /\ InValue'
  <2> HIDE DEF h, t
  <2>1. h.out \in DOMAIN cells'
    BY <1>1
  <2>2. DOMAIN <<>> = {}
    OBVIOUS
  <2>3. cells' # <<>>
    BY <2>1, <2>2
  <2> QED BY <1>1, <2>3 DEF InValue
<1>3. /\ Weighed(JobCost, t) \in Nat /\ h \in Jobs
      /\ Weighed(JobCost, jobs) = JobCost[h] + Weighed(JobCost, t)
      /\ jobs \in Seq(SoundJobs) <=> h \in SoundJobs /\ t \in Seq(SoundJobs)
  BY <1>1, <1>2, WorkIs, TopIs
<1>4. JobCost[h] = 0 /\ h \in SoundJobs
  BY <1>1, <1>3 DEF JobCost, SoundJobs
<1>5. Pending' = Pending
  <2>1. Weighed(JobCost, jobs) = Weighed(JobCost, t)
    BY <1>3, <1>4
  <2> QED BY <1>1, <2>1 DEF Pending
<1>6. PendingIsSound' <=> PendingIsSound
  BY <1>1, <1>3, <1>4 DEF PendingIsSound
<1>7. left' + TotalCost(input) = given + (Pending' + Ahead)
  BY <1>1, <1>2, <1>5, WorkIs
<1> QED BY <1>1, <1>2, <1>6, <1>7, WorksOn

LEMMA AcceptCopyText ==
  ASSUME StackInv, ExactInv, AcceptInv, CopyText
  PROVE  AcceptInv'
<1> DEFINE h == Head(texts)
           t == Tail(texts)
           o == <<h>>
           b == Text(left, h)
           c == Bytes(h)
           more == Weighed(TextCost, t)
           below == Weighed(JobCost, jobs)
           within == Amount(ChildCosts(job.value))
           rest == below + (more + within) + Ahead
<1>1. /\ result = "running" /\ busy /\ texts # <<>> /\ Charged(b) /\ texts' = t
      /\ UNCHANGED <<input, copied, jobs, job, busy, cells, given>>
  BY DEF CopyText
<1>2. InValue /\ InValue'
  BY <1>1 DEF InValue
<1>3. /\ given \in Nat /\ left \in Nat /\ TotalCost(input) \in Nat /\ Ahead \in Nat
      /\ below \in Nat /\ left + TotalCost(input) = given + (Pending + Ahead)
  BY <1>1, <1>2, WorkIs
<1>4. texts \in Seq(Texts) /\ job.value \in Values
  BY <1>1 DEF StackInv, Jobs
<1>5. /\ h \in Texts /\ t \in Seq(Texts) /\ texts = o \o t /\ o \in Seq(Texts)
  BY <1>1, <1>4, HeadAndTail
<1>6. within \in Nat
  BY <1>4, CostIs
<1>7. c \in Nat /\ Exact(left, b, c, h.valid)
  <2>1. left \in Int /\ left >= Exhausted
    BY <1>3 DEF Exhausted
  <2>2. h.len \in Nat /\ h.valid \in BOOLEAN
    BY <1>5, TextsAssumption
  <2> QED BY <2>1, <2>2, TextIsPaid
<1>8. /\ Amount(TextCosts(texts)) = c + more /\ more \in Nat
      /\ Amount(TextCosts(t)) = more
  <2>1. Weighed(TextCost, o) = c
    <3>1. TextCost[h] = c
      BY <1>5 DEF TextCost
    <3> HIDE DEF h
    <3> QED BY <1>5, <3>1, CostTypes, WeighedFew
  <2>2. /\ Amount(TextCosts(texts)) = Weighed(TextCost, texts)
        /\ Amount(TextCosts(t)) = more
    BY <1>4, <1>5, CostTypes
  <2> HIDE DEF o, t
  <2>3. /\ more \in Nat
        /\ Weighed(TextCost, o \o t) = Weighed(TextCost, o) + more
    BY <1>5, CostTypes, WeightsType, WeighedBoth
  <2> QED BY <1>5, <2>1, <2>2, <2>3
<1>9. rest \in Nat /\ left + TotalCost(input) = given + (c + rest)
  <2>1. Pending = below + ((c + more) + within)
    BY <1>1, <1>8 DEF Pending
  <2> DEFINE total == TotalCost(input)
  <2> HIDE DEF c, more, within, below, total
  <2>2. total \in Nat /\ left + total = given + (Pending + Ahead)
    BY <1>3 DEF total
  <2>3. rest \in Nat /\ left + total = given + (c + rest)
    BY <1>3, <1>6, <1>7, <1>8, <2>1, <2>2
  <2> QED BY <2>3 DEF total
<1>10. ~h.valid => ~InputIsSound
  <2>1. ASSUME ~h.valid PROVE ~InputIsSound
    <3>1. texts \notin Seq(ValidTexts)
      <4>1. o[1] = h /\ Len(o) = 1
        OBVIOUS
      <4> HIDE DEF o, t
      <4>2. texts \in Seq(ValidTexts) => o \in Seq(ValidTexts)
        BY <1>5, BothIn
      <4>3. o \in Seq(ValidTexts) => h \in ValidTexts
        BY <4>1, ElementOfSeq
      <4> QED BY <2>1, <4>2, <4>3 DEF ValidTexts
    <3>2. ~PendingIsSound
      BY <1>1, <3>1 DEF PendingIsSound
    <3> QED BY <1>1, <1>2, <3>2, UnsoundWork
  <2> QED BY <2>1
<1>11. \/ result' = "running" /\ b # Exhausted /\ left' + TotalCost(input) = given + rest
       \/ result' = "rejected" /\ AcceptInv'
  <2>1. b = Pays(left, c) \/ (b = Exhausted /\ ~InputIsSound)
    BY <1>5, <1>7, <1>10, TextsAssumption DEF Exact
  <2> HIDE DEF b, c, rest
  <2> QED BY <1>1, <1>3, <1>7, <1>9, <2>1, Spend
<1>12. CASE result' = "running" /\ b # Exhausted /\ left' + TotalCost(input) = given + rest
  <2>1. h.valid
    BY <1>5, <1>7, <1>12, TextsAssumption DEF Exact
  <2>2. Pending' = below + (more + within)
    BY <1>1, <1>8 DEF Pending
  <2>3. left' + TotalCost(input) = given + (Pending' + Ahead)
    BY <1>12, <2>2
  <2>4. texts \in Seq(ValidTexts) <=> t \in Seq(ValidTexts)
    <3>1. o \in Seq(ValidTexts)
      <4>1. h \in ValidTexts
        BY <1>5, <2>1 DEF ValidTexts
      <4> QED BY <4>1
    <3> HIDE DEF o, t
    <3> QED BY <1>5, <3>1, BothIn
  <2>5. PendingIsSound' <=> PendingIsSound
    BY <1>1, <2>4 DEF PendingIsSound
  <2> HIDE DEF b, rest
  <2> QED BY <1>1, <1>2, <1>12, <2>3, <2>5, WorksOn
<1> QED BY <1>11, <1>12

LEMMA AcceptWriteLeaf ==
  ASSUME StackInv, ExactInv, AcceptInv, WriteLeaf
  PROVE  AcceptInv'
<1>1. /\ result = "running" /\ busy /\ texts = <<>> /\ ~busy'
      /\ job.value.type \notin Containers
      /\ UNCHANGED <<input, copied, jobs, job, texts, given, left, result>>
      /\ DOMAIN cells' = DOMAIN cells \cup {job.out}
  BY DEF WriteLeaf, Store
<1>2. InValue /\ InValue'
  <2>1. job.out \in DOMAIN cells'
    BY <1>1
  <2>2. DOMAIN <<>> = {}
    OBVIOUS
  <2>3. cells' # <<>>
    BY <2>1, <2>2
  <2> QED BY <1>1, <2>3 DEF InValue
<1>3. job.value \in Values /\ job.value.values = <<>> /\ Weighed(JobCost, jobs) \in Nat
  <2>1. job.value \in Values
    BY <1>1 DEF StackInv, Jobs
  <2> QED BY <1>1, <1>2, <2>1, WorkIs, ValueFields
<1>4. Amount(ChildCosts(job.value)) = 0
  <2>1. ChildCosts(job.value) = <<>>
    BY <1>3 DEF ChildCosts
  <2> QED BY <2>1, AmountOfFew
<1>5. Amount(TextCosts(texts)) = 0
  <2>1. TextCosts(texts) = <<>>
    BY <1>1 DEF TextCosts
  <2> QED BY <2>1, AmountOfFew
<1>6. Pending' = Pending
  <2>1. Pending = Weighed(JobCost, jobs) + (0 + 0)
    BY <1>1, <1>4, <1>5 DEF Pending
  <2>2. Pending' = Weighed(JobCost, jobs) + 0
    BY <1>1 DEF Pending
  <2> QED BY <1>3, <2>1, <2>2
<1>7. PendingIsSound' <=> PendingIsSound
  <2>1. texts \in Seq(ValidTexts)
    <3>1. <<>> \in Seq(ValidTexts)
      OBVIOUS
    <3> QED BY <1>1, <3>1
  <2>2. \A i \in 1..Len(job.value.values) : FALSE
    BY <1>3
  <2> QED BY <1>1, <2>1, <2>2 DEF PendingIsSound
<1>8. left' + TotalCost(input) = given + (Pending' + Ahead)
  BY <1>1, <1>2, <1>6, WorkIs
<1> QED BY <1>1, <1>2, <1>7, <1>8, WorksOn

(* A node's own charge, before its strings, whatever is left.               *)
LEMMA NodePays ==
  ASSUME NEW b \in Nat, NEW v \in Values
  PROVE  Exact(b, Charge(b, v), NodeCost(v), v.type # "UNKNOWN")
<1>1. CASE v.type = "UNKNOWN"
  BY <1>1 DEF Charge, Exact
<1>2. CASE v.type # "UNKNOWN"
  <2> DEFINE n == Count(v)
             u == Unit(v)
             m == Take(b, 32)
             items == n * u
  <2>1. n \in Nat /\ u \in {1, 16, 32, 64}
    BY OwnCostIs
  <2>2. m = Pays(b, 32)
    BY TakePays DEF Exhausted
  <2>3. m \in Int /\ m >= Exhausted
    BY <2>2, PaysType DEF Exhausted
  <2>4. items \in Nat /\ Items(m, n, u) = Pays(m, items)
    <3> HIDE DEF n, u, m
    <3> QED BY <2>1, <2>3, ItemsPay
  <2>5. Pays(m, items) = Pays(b, 32 + items)
    <3>1. b \in Int /\ b >= Exhausted
      BY DEF Exhausted
    <3> HIDE DEF items, m
    <3> QED BY <2>2, <2>4, <3>1, PaysOn
  <2>6. Charge(b, v) = Items(m, n, u) /\ NodeCost(v) = 32 + items
    BY <1>2 DEF Charge, NodeCost
  <2> HIDE DEF n, u, m, items
  <2> QED BY <1>2, <2>4, <2>5, <2>6 DEF Exact
<1> QED BY <1>1, <1>2

LEMMA AcceptBeginJob ==
  ASSUME StackInv, ExactInv, AcceptInv, BeginJob
  PROVE  AcceptInv'
<1> DEFINE h == Head(jobs)
           t == Tail(jobs)
           v == h.value
           b == IF TooDeep(h.depth) THEN Exhausted ELSE Charge(left, v)
           c == NodeCost(v)
           below == Weighed(JobCost, t)
           own == Amount(TextCosts(v.texts))
           within == Amount(ChildCosts(v))
           rest == below + (own + within) + Ahead
<1>1. /\ result = "running" /\ ~busy /\ jobs # <<>> /\ ~h.finish
      /\ job' = h /\ jobs' = t /\ busy' /\ texts' = v.texts /\ Charged(b)
      /\ UNCHANGED <<input, copied, cells, given>>
  BY DEF BeginJob, Popping
<1>2. InValue /\ InValue'
  BY <1>1 DEF InValue
<1>3. /\ given \in Nat /\ left \in Nat /\ TotalCost(input) \in Nat /\ Ahead \in Nat
      /\ jobs \in Seq(Jobs) /\ left + TotalCost(input) = given + (Pending + Ahead)
  BY <1>1, <1>2, WorkIs
<1>4. /\ h \in Jobs /\ t \in Seq(Jobs) /\ below \in Nat
      /\ Weighed(JobCost, jobs) = JobCost[h] + below
      /\ jobs \in Seq(SoundJobs) <=> h \in SoundJobs /\ t \in Seq(SoundJobs)
  BY <1>1, <1>3, TopIs
<1>5. v \in Values /\ h.depth \in Nat
  BY <1>4 DEF Jobs
<1>6. /\ c \in Nat /\ own \in Nat /\ within \in Nat
      /\ JobCost[h] = c + own + within
  <2>1. JobCost[h] = Cost[v]
    BY <1>1, <1>4 DEF JobCost
  <2> HIDE DEF v
  <2>2. c \in Nat /\ own \in Nat /\ within \in Nat
    BY <1>5, OwnCostIs, CostIs
  <2>3. Cost[v] = OwnCost(v) + within
    BY <1>5, CostIs
  <2> QED BY <2>1, <2>2, <2>3 DEF OwnCost
<1>7. rest \in Nat /\ left + TotalCost(input) = given + (c + rest)
  <2>1. Pending = JobCost[h] + below + 0
    BY <1>1, <1>4 DEF Pending
  <2> DEFINE total == TotalCost(input)
             cost == JobCost[h]
  <2>2. cost = c + own + within /\ Pending = cost + below + 0
    BY <1>6, <2>1
  <2>3. total \in Nat /\ left + total = given + (Pending + Ahead)
    BY <1>3
  <2> HIDE DEF c, own, within, below, total, cost
  <2>4. rest \in Nat /\ left + total = given + (c + rest)
    BY <1>3, <1>4, <1>6, <2>2, <2>3
  <2> QED BY <2>4 DEF total
<1>8. h \in SoundJobs <=>
        /\ v.type # "UNKNOWN" /\ v.texts \in Seq(ValidTexts)
        /\ h.depth <= MaxValueDepth
        /\ \A i \in 1..Len(v.values) : Sound(v.values[i], h.depth + 1)
  <2>1. h \in SoundJobs <=> Sound(v, h.depth)
    BY <1>1, <1>4 DEF SoundJobs
  <2> HIDE DEF h, v
  <2> QED BY <1>5, <2>1, SoundIs DEF v
<1>9. PendingIsSound <=> h \in SoundJobs /\ t \in Seq(SoundJobs)
  BY <1>1, <1>4 DEF PendingIsSound
<1>10. TooDeep(h.depth) <=> ~(h.depth <= MaxValueDepth)
  BY <1>5, DepthAssumption DEF TooDeep
<1>11. Exact(left, Charge(left, v), c, v.type # "UNKNOWN")
  <2> HIDE DEF v
  <2> QED BY <1>3, <1>5, NodePays
<1>12. b = Pays(left, c) \/ (b = Exhausted /\ ~InputIsSound)
  <2>1. CASE TooDeep(h.depth)
    <3>1. ~PendingIsSound
      BY <1>8, <1>9, <1>10, <2>1
    <3> QED BY <1>1, <1>2, <2>1, <3>1, UnsoundWork
  <2>2. CASE ~TooDeep(h.depth) /\ v.type = "UNKNOWN"
    <3>1. ~PendingIsSound
      BY <1>8, <1>9, <2>2
    <3>2. b = Exhausted
      BY <1>11, <2>2 DEF Exact
    <3> QED BY <1>1, <1>2, <3>1, <3>2, UnsoundWork
  <2>3. CASE ~TooDeep(h.depth) /\ v.type # "UNKNOWN"
    BY <1>11, <2>3 DEF Exact
  <2> QED BY <2>1, <2>2, <2>3
<1>13. \/ result' = "running" /\ b # Exhausted /\ left' + TotalCost(input) = given + rest
       \/ result' = "rejected" /\ AcceptInv'
  <2> HIDE DEF b, c, rest
  <2> QED BY <1>1, <1>3, <1>6, <1>7, <1>12, Spend
<1>14. CASE result' = "running" /\ b # Exhausted /\ left' + TotalCost(input) = given + rest
  <2>1. h.depth <= MaxValueDepth /\ v.type # "UNKNOWN"
    BY <1>10, <1>11, <1>14 DEF Exact
  <2>2. Pending' = below + (own + within)
    BY <1>1 DEF Pending
  <2>3. left' + TotalCost(input) = given + (Pending' + Ahead)
    BY <1>14, <2>2
  <2>4. PendingIsSound' <=>
          /\ t \in Seq(SoundJobs) /\ v.texts \in Seq(ValidTexts)
          /\ \A i \in 1..Len(v.values) : Sound(v.values[i], h.depth + 1)
    BY <1>1 DEF PendingIsSound
  <2>5. PendingIsSound' <=> PendingIsSound
    BY <1>8, <1>9, <2>1, <2>4
  <2> HIDE DEF b, rest
  <2> QED BY <1>1, <1>2, <1>14, <2>3, <2>5, WorksOn
<1> QED BY <1>13, <1>14

LEMMA AcceptExpand ==
  ASSUME StackInv, ExactInv, AcceptInv, Expand
  PROVE  AcceptInv'
<1> DEFINE v == job.value
           n == Len(v.values)
           f == JobFor(v, job.out, job.depth, TRUE)
           o == <<f>>
           kids == Children
           within == Amount(ChildCosts(v))
           below == Weighed(JobCost, jobs)
<1>1. /\ result = "running" /\ busy /\ texts = <<>> /\ ~busy'
      /\ jobs' = Pushes \o jobs /\ Pushes = kids \o o
      /\ UNCHANGED <<input, copied, job, texts, cells, given, left, result>>
  BY DEF Expand, Pushes
<1>2. job \in Jobs /\ v \in Values /\ job.out \in Seq(Nat) /\ job.depth \in Nat
  BY <1>1 DEF StackInv, Jobs
<1>3. n \in Nat /\ \A i \in 1..n : v.values[i] \in Values
  BY <1>2, ValueFields
<1>4. f \in Jobs /\ f.finish /\ o \in Seq(Jobs)
  BY <1>2 DEF Jobs, JobFor
<1>5. \A i \in 1..n : /\ kids[i] \in Jobs /\ ~kids[i].finish
                      /\ kids[i].value = v.values[i] /\ kids[i].depth = job.depth + 1
  BY <1>2, <1>3 DEF Children, JobFor, Jobs
<1>6. kids \in Seq(Jobs) /\ Len(kids) = n
  <2>1. kids \in [1..n -> Jobs]
    BY <1>5 DEF Children
  <2>2. kids \in Seq(Jobs)
    BY <1>3, <2>1, SeqDef
  <2>3. 1..Len(kids) = 1..n /\ Len(kids) \in Nat
    BY <2>1, <2>2, LenProperties
  <2> QED BY <1>3, <2>2, <2>3
<1>7. jobs \in Seq(Jobs) /\ below \in Nat
  BY CostTypes, WeightsType DEF StackInv
<1>8. InValue /\ InValue'
  <2>1. Len(o) = 1
    OBVIOUS
  <2> HIDE DEF kids, o
  <2>2. /\ Pushes \in Seq(Jobs) /\ Len(Pushes) = Len(kids) + 1
    <3>1. /\ kids \o o \in Seq(Jobs)
          /\ Len(kids \o o) = Len(kids) + Len(o)
      BY <1>4, <1>6, ConcatProperties
    <3>2. Pushes = kids \o o
      BY <1>1
    <3> QED BY <2>1, <3>1, <3>2
  <2>3. Len(jobs') = Len(Pushes) + Len(jobs)
    BY <1>1, <1>7, <2>2, ConcatProperties
  <2>4. Len(kids) \in Nat /\ Len(jobs) \in Nat
    BY <1>6, <1>7, LenProperties
  <2>5. Len(jobs') # 0
    BY <2>2, <2>3, <2>4
  <2>6. jobs' # <<>>
    BY <2>5
  <2> QED BY <1>1, <2>6 DEF InValue
<1>9. Weighed(JobCost, kids) = within /\ within \in Nat
  <2>1. \A i \in 1..n : JobCost[kids[i]] = Cost[v.values[i]]
    BY <1>5 DEF JobCost
  <2> HIDE DEF kids
  <2>2. Weights(JobCost, kids) = ChildCosts(v)
    BY <1>6, <2>1 DEF Weights, ChildCosts
  <2> QED BY <1>2, <2>2, CostIs DEF Weighed
<1>10. Weighed(JobCost, o) = 0
  <2>1. JobCost[f] = 0
    BY <1>4 DEF JobCost
  <2> HIDE DEF f
  <2> QED BY <1>4, <2>1, CostTypes, WeighedFew
<1>11. /\ Pushes \in Seq(Jobs)
       /\ Weighed(JobCost, Pushes) = within
       /\ Weighed(JobCost, jobs') = within + below
  <2> HIDE DEF kids, o
  <2>1. Pushes \in Seq(Jobs)
    BY <1>1, <1>4, <1>6, ConcatProperties
  <2>2. Weighed(JobCost, Pushes) = Weighed(JobCost, kids) + Weighed(JobCost, o)
    BY <1>1, <1>4, <1>6, CostTypes, WeighedBoth
  <2>3. Weighed(JobCost, jobs') = Weighed(JobCost, Pushes) + below
    BY <1>1, <1>7, <2>1, CostTypes, WeighedBoth
  <2> HIDE DEF within, below
  <2> QED BY <1>9, <1>10, <2>1, <2>2, <2>3
<1>12. Pending' = Pending
  <2>1. Amount(TextCosts(texts)) = 0
    <3>1. TextCosts(texts) = <<>>
      BY <1>1 DEF TextCosts
    <3> QED BY <3>1, AmountOfFew
  <2>2. Pending = below + (0 + within)
    BY <1>1, <2>1 DEF Pending
  <2>3. Pending' = (within + below) + 0
    BY <1>1, <1>11 DEF Pending
  <2> HIDE DEF within, below
  <2> QED BY <1>7, <1>9, <2>2, <2>3
<1>13. kids \in Seq(SoundJobs) <=>
         \A i \in 1..n : Sound(v.values[i], job.depth + 1)
  <2>1. \A i \in 1..n : kids[i] \in SoundJobs <=> Sound(v.values[i], job.depth + 1)
    BY <1>5 DEF SoundJobs
  <2> HIDE DEF kids
  <2>2. ASSUME kids \in Seq(SoundJobs) PROVE \A i \in 1..n : kids[i] \in SoundJobs
    BY <1>6, <2>2, ElementOfSeq
  <2>3. ASSUME \A i \in 1..n : kids[i] \in SoundJobs PROVE kids \in Seq(SoundJobs)
    <3>1. kids \in [1..n -> SoundJobs]
      BY <1>3, <1>6, <2>3
    <3> QED BY <1>3, <3>1, SeqDef
  <2> QED BY <2>1, <2>2, <2>3
<1>14. PendingIsSound' <=> PendingIsSound
  <2>1. o \in Seq(SoundJobs)
    <3>1. f \in SoundJobs
      BY <1>4 DEF SoundJobs
    <3> HIDE DEF f
    <3> QED BY <3>1
  <2>2. Pushes \in Seq(SoundJobs) <=> kids \in Seq(SoundJobs)
    <3> HIDE DEF kids, o
    <3> QED BY <1>1, <1>4, <1>6, <2>1, BothIn
  <2>3. jobs' \in Seq(SoundJobs) <=>
          Pushes \in Seq(SoundJobs) /\ jobs \in Seq(SoundJobs)
    BY <1>1, <1>7, <1>11, BothIn
  <2>4. texts \in Seq(ValidTexts)
    <3>1. <<>> \in Seq(ValidTexts)
      OBVIOUS
    <3> QED BY <1>1, <3>1
  <2>5. PendingIsSound <=> jobs \in Seq(SoundJobs) /\ kids \in Seq(SoundJobs)
    BY <1>1, <1>13, <2>4 DEF PendingIsSound
  <2>6. PendingIsSound' <=> jobs' \in Seq(SoundJobs)
    BY <1>1 DEF PendingIsSound
  <2> QED BY <2>2, <2>3, <2>5, <2>6
<1>15. left' + TotalCost(input) = given + (Pending' + Ahead)
  BY <1>1, <1>8, <1>12, WorkIs
<1> QED BY <1>1, <1>8, <1>14, <1>15, WorksOn

LEMMA AcceptStep == StackInv /\ ExactInv /\ AcceptInv /\ [Next]_vars => AcceptInv'
<1> SUFFICES ASSUME StackInv, ExactInv, AcceptInv, [Next]_vars PROVE AcceptInv'
  OBVIOUS
<1>1. CASE UNCHANGED vars
  BY <1>1 DEF vars, AcceptInv, Pending, Ahead, InValue, PendingIsSound, InputIsSound,
              Refusal
<1> QED
  BY <1>1, AcceptEnter, AcceptCopyKey, AcceptKeepAttribute, AcceptReturn,
     AcceptFinishJob, AcceptBeginJob, AcceptCopyText, AcceptWriteLeaf, AcceptExpand
  DEF Next, ValueStep

(* A list is copied exactly when every string and type in it is one the     *)
(* code copies, nothing nests too deep and the whole of it fits the budget; *)
(* what is missing from the budget then is its size. So no order in which   *)
(* the stack takes the values apart can decide what is rejected.            *)
THEOREM ListsAcceptedExactly == Spec => []AcceptsWhatFits
<1>1. Init => StackInv /\ ExactInv /\ AcceptInv
  BY StackInit, ExactInit, AcceptInit
<1>2. /\ StackInv /\ ExactInv /\ AcceptInv /\ [Next]_vars
      => StackInv' /\ ExactInv' /\ AcceptInv'
  BY StackStep, ExactStep, AcceptStep
<1>3. StackInv /\ ExactInv /\ AcceptInv => AcceptsWhatFits
  <2> SUFFICES ASSUME StackInv, ExactInv, AcceptInv PROVE AcceptsWhatFits
    OBVIOUS
  <2>1. given \in Nat /\ TotalCost(input) \in Nat
    <3>1. given \in Nat /\ input \in Seq(Attribute)
      BY BudgetsAssumption, InputIs DEF StackInv
    <3> QED BY <3>1, AttributeCostsAre
  <2>2. InputIsSound <=> \A i \in 1..Len(input) : /\ input[i].key.valid
                                                  /\ WellFormed(input[i].value)
    BY DEF InputIsSound, AttributeIsSound
  <2>3. CASE result = "copied"
    <3>1. left \in Nat /\ left + TotalCost(input) = given /\ InputIsSound
      BY <2>3, Running DEF AcceptInv
    <3>2. TotalCost(input) <= given /\ left = given - TotalCost(input)
      BY <2>1, <3>1
    <3> QED BY <2>2, <2>3, <3>1, <3>2 DEF AcceptsWhatFits
  <2>4. CASE result = "rejected"
    <3>1. left = Exhausted /\ (~InputIsSound \/ ~(TotalCost(input) <= given))
      BY <2>1, <2>4 DEF AcceptInv, Refusal
    <3> QED BY <2>2, <2>4, <3>1 DEF AcceptsWhatFits
  <2>5. CASE result \notin {"copied", "rejected"}
    BY <2>5 DEF AcceptsWhatFits, Returned
  <2> QED BY <2>3, <2>4, <2>5
<1> QED BY <1>1, <1>2, <1>3, PTL DEF Spec
-------------------------------------------------------------------------------
(* How many iterations are left: what is left of the budget covers those of *)
(* the nodes and texts that are still to be charged for, and what has been  *)
(* charged for needs one for each job on the stack or owed to it, one to    *)
(* write or expand the job at work, one to keep the attribute, one to end.  *)
StepsLeft ==
  IF result = "rejected" THEN 0
  ELSE left + Len(jobs) + (IF busy THEN 1 + Owed ELSE 0) + (IF InValue THEN 1 ELSE 0)
            + (IF result = "called" THEN 2 ELSE IF result = "running" THEN 1 ELSE 0)

LEMMA StepsLeftType ==
  ASSUME StackInv
  PROVE  /\ StepsLeft \in Nat
         /\ result # "rejected" => left \in Nat
         /\ Len(jobs) \in Nat
         /\ busy => job.value \in Values /\ Len(job.value.values) \in Nat
         /\ Owed \in Nat
<1>1. result # "rejected" => left \in Nat
  BY BudgetsAssumption DEF StackInv
<1>2. Len(jobs) \in Nat
  BY LenProperties DEF StackInv
<1>3. busy => job.value \in Values /\ Len(job.value.values) \in Nat
  BY ValueFields DEF StackInv, Jobs
<1>4. Owed \in Nat
  BY <1>3 DEF Owed
<1> QED BY <1>1, <1>2, <1>3, <1>4 DEF StepsLeft

LEMMA StepCounts ==
  ASSUME StackInv, StackInv', ExactInv, Next
  PROVE  StepsLeft' < StepsLeft
<1>0. /\ result # "rejected" /\ left \in Nat /\ Len(jobs) \in Nat /\ Owed \in Nat
      /\ busy => job.value \in Values /\ Len(job.value.values) \in Nat
      /\ StepsLeft \in Nat
  <2>1. result # "rejected"
    BY DEF Next, Enter, CopyKey, KeepAttribute, Return, ValueStep, FinishJob, BeginJob,
           CopyText, WriteLeaf, Expand, Between, Popping
  <2> QED BY <2>1, StepsLeftType
<1>1. ASSUME result' = "rejected", result # "copied" PROVE StepsLeft' < StepsLeft
  <2>1. StepsLeft' = 0
    BY <1>1 DEF StepsLeft
  <2>2. StepsLeft > 0
    <3>1. result = "called" \/ result = "running"
      BY <1>0, <1>1 DEF StackInv
    <3> QED BY <1>0, <3>1 DEF StepsLeft
  <2> QED BY <1>0, <2>1, <2>2
<1>2. CASE Enter
  <2>1. /\ result = "called" /\ Len(input) \in Nat
        /\ UNCHANGED <<input, copied, jobs, job, busy, texts, cells, given>>
    BY <1>2, InputsAssumption DEF Enter, StackInv
  <2> DEFINE b == Items(left, Len(input), 64)
  <2>2. left' = b /\ result' = IF b = Exhausted THEN "rejected" ELSE "running"
    BY <1>2 DEF Enter, Charged
  <2>3. b \in Int /\ (b # Exhausted => b >= 0 /\ b <= left)
    <3> DEFINE n == Len(input)
               size == 64
    <3>1. n \in Nat /\ size \in Nat \ {0}
      BY <2>1
    <3> HIDE DEF n, size
    <3>2. /\ Items(left, n, size) \in Int
          /\ Items(left, n, size) # Exhausted =>
               Items(left, n, size) >= 0 /\ Items(left, n, size) <= left
      BY <1>0, <3>1, ItemsShrink
    <3> QED BY <3>2 DEF n, size
  <2> HIDE DEF b
  <2>4. Owed' = Owed /\ InValue' = InValue
    BY <2>1 DEF Owed, InValue
  <2>5. CASE b # Exhausted
    BY <1>0, <2>1, <2>2, <2>3, <2>4, <2>5 DEF StepsLeft
  <2> QED BY <1>1, <2>1, <2>2, <2>5
<1>3. CASE CopyKey
  <2> DEFINE a == input[Len(copied) + 1]
             b == Text(left, a.key)
             j == JobFor(a.value, <<>>, 0, FALSE)
  <2>1. /\ result = "running" /\ busy = FALSE /\ jobs = <<>> /\ cells = <<>>
        /\ UNCHANGED busy /\ jobs' = <<j>> /\ UNCHANGED cells
        /\ Len(copied) < Len(input)
        /\ left' = b /\ result' = IF b = Exhausted THEN "rejected" ELSE "running"
    BY <1>3 DEF CopyKey, Between, Charged, StackInv
  <2>2. a.key \in Texts
    BY <2>1, CurrentIs DEF Attribute
  <2>3. b # Exhausted => b \in Nat /\ b <= left - 64
    <3>1. a.key.len \in Nat
      BY <2>2, TextsAssumption
    <3> HIDE DEF a
    <3> QED BY <1>0, <3>1 DEF Text, Take, Exhausted
  <2> HIDE DEF a, b, j
  <2>4. Len(jobs) = 0 /\ Len(jobs') = 1
    BY <2>1
  <2>5. CASE b # Exhausted
    BY <1>0, <2>1, <2>3, <2>4, <2>5 DEF StepsLeft
  <2> QED BY <1>1, <2>1, <2>5
<1>4. CASE KeepAttribute
  <2>1. /\ result = "running" /\ ~busy /\ jobs = <<>> /\ InValue /\ ~InValue'
        /\ UNCHANGED <<jobs, busy, left, result>>
    BY <1>4 DEF KeepAttribute, Between, InValue
  <2> QED BY <1>0, <2>1 DEF StepsLeft
<1>5. CASE Return
  <2>1. /\ result = "running" /\ ~busy /\ result' = "copied" /\ InValue' = InValue
        /\ UNCHANGED <<jobs, busy, left>>
    BY <1>5 DEF Return, Between, InValue
  <2> QED BY <1>0, <2>1 DEF StepsLeft
<1>6. CASE FinishJob
  <2>1. /\ result = "running" /\ ~busy /\ jobs # <<>> /\ jobs' = Tail(jobs)
        /\ UNCHANGED <<busy, left, result>> /\ InValue
    BY <1>6 DEF FinishJob, Popping, InValue
  <2>2. Len(jobs') = Len(jobs) - 1
    BY <2>1, HeadTailProperties DEF StackInv
  <2> QED BY <1>0, <2>1, <2>2 DEF StepsLeft
<1>7. CASE BeginJob
  <2> DEFINE h == Head(jobs)
             b == IF TooDeep(h.depth) THEN Exhausted ELSE Charge(left, h.value)
             n == Len(h.value.values)
  <2>1. /\ result = "running" /\ busy = FALSE /\ jobs # <<>> /\ busy' = TRUE /\ job' = h
        /\ left' = b /\ result' = IF b = Exhausted THEN "rejected" ELSE "running"
        /\ jobs' = Tail(jobs)
    BY <1>7 DEF BeginJob, Popping, Charged, StackInv
  <2>2. h \in Jobs /\ Len(jobs') = Len(jobs) - 1
    BY <2>1, HeadTailProperties DEF StackInv
  <2>3. h.value \in Values /\ n \in Nat
    BY <2>2, ValueFields DEF Jobs
  <2>4. b # Exhausted => b \in Int /\ b >= 0 /\ b <= left - 32 - 32 * n
    BY <1>0, <2>3, ChargeBounds
  <2>5. Owed' = 1 + n /\ InValue /\ InValue'
    BY <2>1 DEF Owed, InValue
  <2> HIDE DEF h, b, n
  <2>6. CASE b # Exhausted
    BY <1>0, <2>1, <2>2, <2>3, <2>4, <2>5, <2>6 DEF StepsLeft
  <2> QED BY <1>1, <2>1, <2>6
<1>8. CASE CopyText
  <2> DEFINE t == Head(texts)
             b == Text(left, t)
  <2>1. /\ result = "running" /\ busy /\ texts # <<>>
        /\ left' = b /\ result' = IF b = Exhausted THEN "rejected" ELSE "running"
        /\ UNCHANGED <<jobs, job, busy, cells>>
    BY <1>8 DEF CopyText, Charged
  <2>2. t \in Texts
    BY <2>1 DEF StackInv
  <2>3. b # Exhausted => b \in Nat /\ b <= left - 64
    <3>1. t.len \in Nat
      BY <2>2, TextsAssumption
    <3> HIDE DEF t
    <3> QED BY <1>0, <3>1 DEF Text, Take, Exhausted
  <2> HIDE DEF t, b
  <2>4. Owed' = Owed /\ InValue' = InValue
    BY <2>1 DEF Owed, InValue
  <2>5. CASE b # Exhausted
    BY <1>0, <2>1, <2>3, <2>4, <2>5 DEF StepsLeft
  <2> QED BY <1>1, <2>1, <2>5
<1>9. CASE WriteLeaf
  <2>1. /\ result = "running" /\ busy /\ busy' = FALSE /\ InValue
        /\ UNCHANGED <<jobs, left, result>>
    BY <1>9 DEF WriteLeaf, InValue
  <2> QED BY <1>0, <2>1 DEF StepsLeft
<1>10. CASE Expand
  <2>1. /\ result = "running" /\ busy /\ busy' = FALSE /\ InValue
        /\ UNCHANGED <<left, result>>
        /\ jobs' = Pushes \o jobs /\ Owed = 1 + Len(job.value.values)
    BY <1>10 DEF Expand, InValue, Owed
  <2> DEFINE n == Len(job.value.values)
  <2>2. Len(jobs') = n + 1 + Len(jobs) /\ n \in Nat /\ Owed = 1 + n
    BY <1>0, <1>10, <2>1, ExpandPushes
  <2>3. StepsLeft = left + Len(jobs) + (1 + (1 + n)) + 1 + 1
    BY <2>1, <2>2 DEF StepsLeft
  <2>4. StepsLeft' = left + (n + 1 + Len(jobs)) + 0 + (IF InValue' THEN 1 ELSE 0) + 1
    BY <2>1, <2>2 DEF StepsLeft
  <2> HIDE DEF n
  <2> QED BY <1>0, <2>2, <2>3, <2>4
<1> QED
  BY <1>2, <1>3, <1>4, <1>5, <1>6, <1>7, <1>8, <1>9, <1>10 DEF Next, ValueStep

(* Every loop of the copy ends, whatever is nested in whatever: an          *)
(* iteration leaves fewer, and there are at most two more than the budget   *)
(* has bytes.                                                               *)
THEOREM BudgetBoundsWork ==
  Spec => /\ [](StepsLeft \in Nat)
          /\ [][StepsLeft' < StepsLeft]_vars
          /\ StepsLeft = given + 2
<1>1. StackInv => StepsLeft \in Nat
  BY StepsLeftType
<1>2. StackInv /\ StackInv' /\ ExactInv /\ [Next]_vars => [StepsLeft' < StepsLeft]_vars
  BY StepCounts
<1>3. Init => StepsLeft = given + 2
  <2> SUFFICES ASSUME Init PROVE StepsLeft = given + 2
    OBVIOUS
  <2>1. /\ given \in Nat /\ left = given /\ jobs = <<>> /\ busy = FALSE /\ cells = <<>>
        /\ result = "called"
    BY BudgetsAssumption DEF Init
  <2>2. Len(jobs) = 0
    BY <2>1
  <2> QED BY <2>1, <2>2 DEF StepsLeft, InValue
<1>4. Spec => []ExactInv
  BY StackInvariant, ExactInit, ExactStep, PTL DEF Spec
<1> QED BY <1>1, <1>2, <1>3, <1>4, StackInvariant, PTL DEF Spec
===============================================================================
