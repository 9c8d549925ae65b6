---------------------------- MODULE BudgetProofs ----------------------------
(***************************************************************************)
(* What the charges of the envelope's budget return, for every budget and  *)
(* every size: a rejection, or exactly what the charge leaves. And what    *)
(* the loops of the copy build: a list that grows into a whole one, and    *)
(* what the charges of a list amount to.                                   *)
(***************************************************************************)
EXTENDS Budget, SequenceTheorems, WellFoundedInduction, TLAPS

LEMMA TakeBounds ==
  ASSUME NEW b \in Int, b >= Exhausted, NEW n \in Nat
  PROVE  /\ Take(b, n) \in Int /\ Take(b, n) >= Exhausted
         /\ Take(b, n) # Exhausted => b >= 0 /\ Take(b, n) = b - n /\ Take(b, n) >= 0
BY DEF Take, Exhausted

LEMMA ItemsBounds ==
  ASSUME NEW b \in Int, b >= Exhausted, NEW n \in Nat, NEW size \in Nat \ {0}
  PROVE  /\ Items(b, n, size) \in Int /\ Items(b, n, size) >= Exhausted
         /\ Items(b, n, size) # Exhausted =>
              b >= 0 /\ Items(b, n, size) = b - n * size /\ Items(b, n, size) >= 0
<1> DEFINE p == n * size
<1>1. p \in Nat
  OBVIOUS
<1>2. Items(b, n, size) \in {Exhausted, Take(b, p)}
  BY DEF Items
<1> HIDE DEF p
<1>3. /\ Items(b, n, size) \in Int /\ Items(b, n, size) >= Exhausted
      /\ Items(b, n, size) # Exhausted =>
           b >= 0 /\ Items(b, n, size) = b - p /\ Items(b, n, size) >= 0
  BY <1>1, <1>2, TakeBounds DEF Exhausted
<1> QED
  BY <1>3 DEF p

LEMMA ItemsShrink ==
  ASSUME NEW b \in Nat, NEW n \in Nat, NEW size \in Nat \ {0}
  PROVE  /\ Items(b, n, size) \in Int /\ Items(b, n, size) >= Exhausted
         /\ Items(b, n, size) # Exhausted =>
              Items(b, n, size) >= 0 /\ Items(b, n, size) <= b
<1> DEFINE p == n * size
           r == Items(b, n, size)
<1>1. p \in Nat
  OBVIOUS
<1>2. r \in Int /\ r >= Exhausted /\ (r # Exhausted => r = b - p /\ r >= 0)
  BY ItemsBounds DEF Exhausted
<1>3. r # Exhausted => r >= 0 /\ r <= b
  <2> HIDE DEF p, r
  <2> QED BY <1>1, <1>2
<1> QED BY <1>2, <1>3

LEMMA TextBounds ==
  ASSUME NEW b \in Int, b >= Exhausted, NEW t, t.len \in Nat, t.valid \in BOOLEAN
  PROVE  /\ Text(b, t) \in Int /\ Text(b, t) >= Exhausted
         /\ Text(b, t) # Exhausted => b >= 0 /\ Text(b, t) <= b /\ Text(b, t) >= 0
BY TakeBounds DEF Text, Exhausted
-------------------------------------------------------------------------------
(* What has been copied of a list so far.                                   *)
Pre(s, t) == Len(s) <= Len(t) /\ \A i \in 1..Len(s) : s[i] = t[i]

LEMMA PreGrows ==
  ASSUME NEW S, NEW s \in Seq(S), NEW t \in Seq(S), Len(s) < Len(t), Pre(s, t)
  PROVE  Pre(Append(s, t[Len(s) + 1]), t)
<1> DEFINE e == t[Len(s) + 1]
           r == Append(s, e)
<1>1. e \in S /\ Len(s) \in Nat /\ Len(t) \in Nat
  BY ElementOfSeq
<1>2. Len(r) = Len(s) + 1 /\ r[Len(s) + 1] = e
      /\ \A i \in 1..Len(s) : r[i] = s[i]
  BY <1>1, AppendProperties
<1>3. ASSUME NEW i \in 1..Len(r) PROVE r[i] = t[i]
  <2>1. i \in 1..Len(s) \/ i = Len(s) + 1
    BY <1>1, <1>2
  <2> QED BY <1>2, <2>1 DEF Pre
<1> QED BY <1>1, <1>2, <1>3 DEF Pre

LEMMA PreIsWhole ==
  ASSUME NEW S, NEW s \in Seq(S), NEW t \in Seq(S), Len(s) = Len(t), Pre(s, t)
  PROVE  s = t
BY SeqEqual DEF Pre
-------------------------------------------------------------------------------
(* A set of naturals that is not empty has a least member, so one that      *)
(* holds 0 and every successor of a member holds them all: induction, on a  *)
(* set.                                                                     *)
LEMMA Least ==
  ASSUME NEW T, T \subseteq Nat, T # {}
  PROVE  \E x \in T : \A y \in T : x <= y
<1> DEFINE R == OpToRel(<, Nat)
<1>1. IsWellFoundedOn(R, Nat)
  BY NatLessThanWellFounded
<1>2. \A x, y \in Nat : x < y => <<x, y>> \in R
  BY DEF OpToRel
<1> HIDE DEF R
<1>3. \E x \in T : \A y \in T : ~ (<<y, x>> \in R)
  BY <1>1, WFMin
<1>4. PICK x \in T : \A y \in T : ~ (<<y, x>> \in R)
  BY <1>3
<1>5. ASSUME NEW y \in T PROVE x <= y
  <2>1. x \in Nat /\ y \in Nat
    OBVIOUS
  <2>2. ~(y < x)
    BY <1>2, <1>4, <2>1
  <2> QED BY <2>1, <2>2
<1> QED BY <1>5

LEMMA Induction ==
  ASSUME NEW S, 0 \in S, \A n \in Nat : n \in S => n + 1 \in S
  PROVE  Nat \subseteq S
<1> SUFFICES ASSUME NEW m \in Nat, m \notin S PROVE FALSE
  OBVIOUS
<1> DEFINE T == Nat \ S
<1>1. PICK x \in T : \A y \in T : x <= y
  <2>1. T \subseteq Nat /\ T # {}
    OBVIOUS
  <2> HIDE DEF T
  <2> QED BY <2>1, Least
<1>2. x \in Nat /\ x # 0
  OBVIOUS
<1>3. x - 1 \in Nat /\ x - 1 \notin T /\ (x - 1) + 1 = x
  BY <1>1, <1>2
<1> QED BY <1>3

(* The sums of the first 0, 1, ... n charges.                               *)
Sums(c, f, n) ==
  /\ f \in [0..n -> Nat]
  /\ f[0] = 0
  /\ \A i \in 1..n : f[i] = f[i - 1] + c[i]

LEMMA SumsExist ==
  ASSUME NEW c \in Seq(Nat)
  PROVE  \E f : Sums(c, f, Len(c))
<1> DEFINE S == {n \in Nat : n <= Len(c) => \E f : Sums(c, f, n)}
<1>1. 0 \in S
  <2>1. Sums(c, [i \in 0..0 |-> 0], 0)
    BY DEF Sums
  <2> QED BY <2>1
<1>2. ASSUME NEW n \in Nat, n \in S PROVE n + 1 \in S
  <2>1. CASE n + 1 <= Len(c)
    <3>1. Len(c) \in Nat /\ c[n + 1] \in Nat
      BY <2>1, ElementOfSeq, LenProperties
    <3>2. PICK f : Sums(c, f, n)
      BY <1>2, <2>1, <3>1
    <3> DEFINE g == [i \in 0..(n + 1) |-> IF i <= n THEN f[i] ELSE f[n] + c[n + 1]]
    <3>3. f[n] \in Nat /\ \A i \in 0..n : f[i] \in Nat
      BY <3>2 DEF Sums
    <3>4. g \in [0..(n + 1) -> Nat]
      BY <3>1, <3>3
    <3>5. g[0] = 0
      BY <3>2 DEF Sums
    <3>6. ASSUME NEW i \in 1..(n + 1) PROVE g[i] = g[i - 1] + c[i]
      <4>1. CASE i <= n
        <5>1. g[i] = f[i] /\ g[i - 1] = f[i - 1] /\ i \in 1..n
          BY <4>1
        <5> QED BY <3>2, <5>1 DEF Sums
      <4>2. CASE i = n + 1
        <5>1. g[i] = f[n] + c[n + 1] /\ g[i - 1] = f[n]
          BY <4>2
        <5> QED BY <4>2, <5>1
      <4> QED BY <4>1, <4>2
    <3> HIDE DEF g
    <3>7. Sums(c, g, n + 1)
      BY <3>4, <3>5, <3>6 DEF Sums
    <3> QED BY <3>7
  <2>2. CASE ~(n + 1 <= Len(c))
    BY <2>2
  <2> QED BY <2>1, <2>2
<1>3. Nat \subseteq S
  <2> HIDE DEF S
  <2> QED BY <1>1, <1>2, Induction
<1>4. Len(c) \in S
  BY <1>3, LenProperties
<1> QED BY <1>4, LenProperties

LEMMA TotalSums ==
  ASSUME NEW c \in Seq(Nat)
  PROVE  \E f : Sums(c, f, Len(c)) /\ \A n \in 0..Len(c) : Total(c, n) = f[n]
<1> DEFINE P(f) == f = [i \in 0..Len(c) |-> IF i = 0 THEN 0 ELSE f[i - 1] + c[i]]
           sum == CHOOSE f : P(f)
<1>1. \A n : Total(c, n) = sum[n]
  BY DEF Total
<1>2. PICK f : Sums(c, f, Len(c))
  BY SumsExist
<1>3. P(f)
  BY <1>2, LenProperties DEF Sums
<1>4. P(sum)
  BY <1>3
<1> HIDE DEF sum
<1>5. /\ sum[0] = 0
      /\ \A i \in 1..Len(c) : sum[i] = sum[i - 1] + c[i]
  BY <1>4, LenProperties
<1> HIDE DEF P
<1> DEFINE S == {n \in Nat : n <= Len(c) => sum[n] = f[n]}
<1>6. 0 \in S
  BY <1>2, <1>5 DEF Sums
<1>7. ASSUME NEW n \in Nat, n \in S PROVE n + 1 \in S
  <2>1. CASE n + 1 <= Len(c)
    <3>1. n + 1 \in 1..Len(c) /\ (n + 1) - 1 = n /\ sum[n] = f[n]
      BY <1>7, <2>1, LenProperties
    <3>2. sum[n + 1] = sum[n] + c[n + 1]
      BY <1>5, <3>1
    <3>3. f[n + 1] = f[n] + c[n + 1]
      BY <1>2, <3>1 DEF Sums
    <3> QED BY <3>1, <3>2, <3>3
  <2>2. CASE ~(n + 1 <= Len(c))
    BY <2>2
  <2> QED BY <2>1, <2>2
<1>8. Nat \subseteq S
  <2> HIDE DEF S
  <2> QED BY <1>6, <1>7, Induction
<1>9. \A n \in 0..Len(c) : n \in S
  BY <1>8, LenProperties
<1>10. \A n \in 0..Len(c) : sum[n] = f[n]
  BY <1>9, LenProperties
<1> QED BY <1>1, <1>2, <1>10

(* A total grows by one charge at a time.                                   *)
LEMMA TotalStep ==
  ASSUME NEW c \in Seq(Nat)
  PROVE  /\ Total(c, 0) = 0
         /\ \A n \in 0..Len(c) : Total(c, n) \in Nat
         /\ \A n \in 0..(Len(c) - 1) : Total(c, n + 1) = Total(c, n) + c[n + 1]
<1>1. PICK f : Sums(c, f, Len(c)) /\ \A n \in 0..Len(c) : Total(c, n) = f[n]
  BY TotalSums
<1>2. Len(c) \in Nat
  BY LenProperties
<1>3. Total(c, 0) = 0
  BY <1>1, <1>2 DEF Sums
<1>4. \A n \in 0..Len(c) : Total(c, n) \in Nat
  BY <1>1, <1>2 DEF Sums
<1>5. ASSUME NEW n \in 0..(Len(c) - 1)
      PROVE  Total(c, n + 1) = Total(c, n) + c[n + 1]
  <2>1. n + 1 \in 1..Len(c) /\ n \in 0..Len(c) /\ n + 1 \in 0..Len(c) /\ (n + 1) - 1 = n
    BY <1>2
  <2>2. f[n + 1] = f[n] + c[n + 1]
    BY <1>1, <2>1 DEF Sums
  <2> QED BY <1>1, <2>1, <2>2
<1> QED BY <1>3, <1>4, <1>5

(* What is still to come of a list of charges covers the next one.          *)
LEMMA TotalGrows ==
  ASSUME NEW c \in Seq(Nat), NEW m \in 0..Len(c)
  PROVE  Total(c, m) <= Total(c, Len(c))
<1> DEFINE S == {n \in Nat : m + n <= Len(c) => Total(c, m) <= Total(c, m + n)}
<1>0. Len(c) \in Nat
  BY LenProperties
<1>1. 0 \in S
  BY TotalStep
<1>2. ASSUME NEW n \in Nat, n \in S PROVE n + 1 \in S
  <2>1. CASE m + (n + 1) <= Len(c)
    <3>1. /\ m + n \in 0..(Len(c) - 1) /\ m + (n + 1) = (m + n) + 1
          /\ (m + n) + 1 \in 1..Len(c) /\ Total(c, m) <= Total(c, m + n)
      BY <1>0, <1>2, <2>1
    <3>2. c[(m + n) + 1] \in Nat
      BY <3>1, ElementOfSeq
    <3>3. Total(c, (m + n) + 1) = Total(c, m + n) + c[(m + n) + 1]
      BY <3>1, TotalStep
    <3>4. Total(c, m) \in Nat /\ Total(c, m + n) \in Nat
      BY <1>0, <3>1, TotalStep
    <3>5. Total(c, m) <= Total(c, m + (n + 1))
      BY <3>1, <3>2, <3>3, <3>4
    <3> QED BY <3>5
  <2>2. CASE ~(m + (n + 1) <= Len(c))
    BY <2>2
  <2> QED BY <2>1, <2>2
<1>3. Nat \subseteq S
  <2> HIDE DEF S
  <2> QED BY <1>1, <1>2, Induction
<1>4. Len(c) - m \in Nat /\ m + (Len(c) - m) = Len(c)
  BY <1>0
<1>5. Len(c) - m \in S
  BY <1>3, <1>4
<1> QED BY <1>4, <1>5
-------------------------------------------------------------------------------
(* What every charge returns exactly: what it leaves of the budget, if what *)
(* is charged for is sound and fits.                                        *)
Pays(b, c) == IF c <= b THEN b - c ELSE Exhausted
Exact(b, r, c, sound) == (sound => r = Pays(b, c)) /\ (~sound => r = Exhausted)

LEMMA TakePays ==
  ASSUME NEW b \in Int, b >= Exhausted, NEW n \in Nat
  PROVE  Take(b, n) = Pays(b, n)
BY DEF Take, Pays, Exhausted

LEMMA TextIsPaid ==
  ASSUME NEW b \in Int, b >= Exhausted, NEW t, t.len \in Nat, t.valid \in BOOLEAN
  PROVE  Bytes(t) \in Nat /\ Exact(b, Text(b, t), Bytes(t), t.valid)
BY DEF Text, Take, Pays, Exact, Bytes, Exhausted

LEMMA SlicePays ==
  ASSUME NEW b \in Nat, NEW n \in Nat
  PROVE  Items(b, n, 128) = Pays(b, 128 * n)
<1>1. CASE n > b \div 128
  <2>1. 128 * n > b
    BY <1>1
  <2> QED BY <1>1, <2>1 DEF Items, Pays
<1>2. CASE ~(n > b \div 128)
  <2>1. ~(128 * n > b) /\ n * 128 = 128 * n
    BY <1>2
  <2>2. Items(b, n, 128) = Take(b, n * 128)
    BY <1>2 DEF Items
  <2> QED BY <2>1, <2>2 DEF Pays, Take
<1> QED BY <1>1, <1>2

(* Two charges in a row are one.                                            *)
LEMMA PaysType ==
  ASSUME NEW b \in Int, b >= Exhausted, NEW c \in Nat
  PROVE  Pays(b, c) \in Int /\ Pays(b, c) >= Exhausted
BY DEF Pays, Exhausted

LEMMA PaysOn ==
  ASSUME NEW b \in Int, b >= Exhausted, NEW c \in Nat, NEW d \in Nat
  PROVE  Pays(Pays(b, c), d) = Pays(b, c + d)
BY DEF Pays, Exhausted

(* What the first i of a list of charges leave of the total.                *)
Left(charges, i) == Total(charges, Len(charges)) - Total(charges, i)

LEMMA LeftStep ==
  ASSUME NEW c \in Seq(Nat)
  PROVE  /\ Left(c, 0) = Total(c, Len(c)) /\ Left(c, Len(c)) = 0
         /\ \A i \in 0..Len(c) : Left(c, i) \in Nat
         /\ \A i \in 0..(Len(c) - 1) : Left(c, i) = c[i + 1] + Left(c, i + 1)
<1>1. Len(c) \in Nat
  BY LenProperties
<1>2. /\ Total(c, 0) = 0 /\ \A n \in 0..Len(c) : Total(c, n) \in Nat
      /\ \A n \in 0..(Len(c) - 1) : Total(c, n + 1) = Total(c, n) + c[n + 1]
  BY TotalStep
<1>3. \A n \in 0..Len(c) : Total(c, n) <= Total(c, Len(c))
  BY TotalGrows
<1>4. Total(c, Len(c)) \in Nat
  BY <1>1, <1>2
<1>5. Left(c, 0) = Total(c, Len(c)) /\ Left(c, Len(c)) = 0
  BY <1>2, <1>4 DEF Left
<1>6. ASSUME NEW i \in 0..Len(c) PROVE Left(c, i) \in Nat
  <2>1. Total(c, i) \in Nat /\ Total(c, i) <= Total(c, Len(c))
    BY <1>2, <1>3
  <2> QED BY <1>4, <2>1 DEF Left
<1>7. ASSUME NEW i \in 0..(Len(c) - 1) PROVE Left(c, i) = c[i + 1] + Left(c, i + 1)
  <2>1. /\ Total(c, i + 1) = Total(c, i) + c[i + 1] /\ Total(c, i) \in Nat
        /\ c[i + 1] \in Nat
    <3>1. i \in 0..Len(c) /\ i + 1 \in 1..Len(c)
      BY <1>1
    <3> QED BY <1>2, <3>1, ElementOfSeq
  <2> QED BY <1>4, <2>1 DEF Left
<1> QED BY <1>5, <1>6, <1>7
===============================================================================
