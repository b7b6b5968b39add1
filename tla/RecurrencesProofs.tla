------------------------- MODULE RecurrencesProofs --------------------------
(***************************************************************************)
(* What the recurrences compute: running sums for sequences of naturals of *)
(* any length, iterates of any map for any number of steps.                *)
(***************************************************************************)
EXTENDS Recurrences, FiniteSetTheorems, WellFoundedInduction, TLAPS

(***************************************************************************)
(* Every nonempty set of naturals has a least element: the intervals 0..n, *)
(* ordered by strict inclusion, are well founded.                          *)
(***************************************************************************)
LEMMA LeastNatural ==
    ASSUME NEW T \in SUBSET Nat, T # {}
    PROVE  \E m \in T : \A k \in T : m <= k
<1> DEFINE I == {0..n : n \in T}
<1>1. I \subseteq FiniteSubsetsOf(Nat)
  <2> SUFFICES ASSUME NEW n \in T PROVE 0..n \in FiniteSubsetsOf(Nat)
    OBVIOUS
  <2>1. n \in Nat
    OBVIOUS
  <2>2. IsFiniteSet(0..n)
    BY <2>1, FS_Interval
  <2>3. 0..n \in SUBSET Nat
    BY <2>1
  <2> QED
    BY <2>2, <2>3 DEF FiniteSubsetsOf
<1>2. I # {}
  OBVIOUS
<1>3. IsWellFoundedOn(StrictSubsetOrdering(Nat), FiniteSubsetsOf(Nat))
  BY FS_StrictSubsetOrderingWellFounded
<1>4. PICK x \in I : \A y \in I : ~ (<<y, x>> \in StrictSubsetOrdering(Nat))
  <2> HIDE DEF I
  <2> QED
    BY <1>1, <1>2, <1>3, WFMin
<1>5. PICK m \in T : x = 0..m
  OBVIOUS
<1>6. ASSUME NEW k \in T PROVE m <= k
  <2> SUFFICES ASSUME k < m PROVE FALSE
    BY Z3
  <2>1. 0..k \in I
    OBVIOUS
  <2>2. 0..k \subseteq 0..m
    BY Z3
  <2>3. m \in 0..m /\ m \notin 0..k
    BY Z3
  <2>4. 0..k # 0..m
    BY <2>3
  <2>5. <<0..k, x>> \in StrictSubsetOrdering(Nat)
    <3>1. 0..k \in SUBSET Nat /\ x \in SUBSET Nat
      BY <1>5
    <3> QED
      BY <3>1, <2>2, <2>4, <1>5 DEF StrictSubsetOrdering
  <2> QED
    BY <2>1, <2>5, <1>4
<1> QED
  BY <1>6

(***************************************************************************)
(* Induction on the naturals, for the set of those that satisfy something. *)
(***************************************************************************)
LEMMA NatSetInduction ==
    ASSUME NEW S, 0 \in S, \A n \in Nat : n \in S => n + 1 \in S
    PROVE  \A n \in Nat : n \in S
<1> SUFFICES ASSUME Nat \ S # {} PROVE FALSE
  OBVIOUS
<1>1. PICK m \in Nat \ S : \A k \in Nat \ S : m <= k
  BY LeastNatural
<1>2. m # 0
  OBVIOUS
<1>3. m - 1 \in Nat /\ ~(m <= m - 1)
  BY <1>2
<1>4. m - 1 \in S
  BY <1>3, <1>1
<1>5. (m - 1) + 1 = m
  OBVIOUS
<1> QED
  BY <1>3, <1>4, <1>5

(***************************************************************************)
(* The recursion of Prefix has a solution: it is a function from 0..Len(c) *)
(* to the naturals that starts at 0 and grows by c[n] at n.                *)
(***************************************************************************)
Sums(c, p) ==
    \A n \in 0..Len(c) : p[n] = (IF n = 0 THEN 0 ELSE p[n - 1] + c[n])

LEMMA PrefixExists ==
    ASSUME NEW D, D \in {Nat, Int}, NEW c \in Seq(D)
    PROVE  \E p \in [0..Len(c) -> D] : Sums(c, p)
<1> DEFINE Upto(m, p) == \A n \in 0..m : p[n] = (IF n = 0 THEN 0 ELSE p[n - 1] + c[n])
           Solved(m) == \E p \in [0..m -> D] : Upto(m, p)
           S == {m \in Nat : m <= Len(c) => Solved(m)}
<1>1. 0 \in S
  <2>1. [n \in 0..0 |-> 0] \in [0..0 -> D]
    OBVIOUS
  <2>2. Upto(0, [n \in 0..0 |-> 0])
    OBVIOUS
  <2> QED
    BY <2>1, <2>2
<1>2. ASSUME NEW m \in Nat, m \in S PROVE m + 1 \in S
  <2> SUFFICES ASSUME m + 1 <= Len(c) PROVE Solved(m + 1)
    <3> HIDE DEF Solved
    <3> QED
      OBVIOUS
  <2>0. Solved(m)
    <3> HIDE DEF Solved
    <3> QED
      BY <1>2
  <2>1. PICK p \in [0..m -> D] : Upto(m, p)
    BY <2>0
  <2> DEFINE q == [n \in 0..(m + 1) |-> IF n = m + 1 THEN p[m] + c[m + 1] ELSE p[n]]
  <2>2. c[m + 1] \in D /\ p[m] \in D /\ p[m] + c[m + 1] \in D
    OBVIOUS
  <2>3. q \in [0..(m + 1) -> D]
    BY <2>2
  <2>4. ASSUME NEW n \in 0..(m + 1) PROVE q[n] = (IF n = 0 THEN 0 ELSE q[n - 1] + c[n])
    <3>1. CASE n = m + 1
      <4>1. q[n] = p[m] + c[m + 1] /\ q[n - 1] = p[m]
        BY <3>1
      <4> HIDE DEF q
      <4> QED
        BY <4>1, <3>1
    <3>2. CASE n # m + 1
      <4>1. n \in 0..m /\ (n # 0 => n - 1 \in 0..m)
        BY <3>2
      <4>2. q[n] = p[n] /\ (n # 0 => q[n - 1] = p[n - 1])
        BY <4>1
      <4> HIDE DEF q
      <4> QED
        BY <4>1, <4>2, <2>1
    <3> QED
      BY <3>1, <3>2
  <2> QED
    BY <2>3, <2>4
<1>3. \A n \in Nat : n \in S
  <2> HIDE DEF S
  <2> QED
    BY <1>1, <1>2, NatSetInduction
<1>4. Len(c) \in S
  <2> HIDE DEF S
  <2> QED
    BY <1>3
<1> QED
  BY <1>4 DEF Sums

(***************************************************************************)
(* Prefix starts at 0, grows by c[n] at n, and keeps its kind.             *)
(***************************************************************************)
LEMMA PrefixOver ==
    ASSUME NEW D, D \in {Nat, Int}, NEW c \in Seq(D)
    PROVE  /\ Prefix(c) \in [0..Len(c) -> D]
           /\ Prefix(c)[0] = 0
           /\ \A n \in 1..Len(c) : Prefix(c)[n] = Prefix(c)[n - 1] + c[n]
<1> DEFINE F(p) == [n \in 0..Len(c) |-> IF n = 0 THEN 0 ELSE p[n - 1] + c[n]]
<1>1. PICK p \in [0..Len(c) -> D] : Sums(c, p)
  BY PrefixExists
<1>2. p = F(p)
  BY <1>1 DEF Sums
<1>3. Prefix(c) = CHOOSE sum : sum = F(sum)
  BY DEF Prefix
<1>4. Prefix(c) = F(Prefix(c))
  <2> HIDE DEF F
  <2> QED
    BY <1>2, <1>3
<1> DEFINE s == Prefix(c)
           S == {m \in Nat : m <= Len(c) => s[m] \in D}
<1>5. \A n \in 0..Len(c) : s[n] = (IF n = 0 THEN 0 ELSE s[n - 1] + c[n])
  BY <1>4
<1>6. DOMAIN s = 0..Len(c)
  BY <1>4
<1>7. s = [n \in 0..Len(c) |-> s[n]]
  BY <1>4
<1> HIDE DEF s
<1>8. 0 \in S
  BY <1>5
<1>9. ASSUME NEW m \in Nat, m \in S PROVE m + 1 \in S
  <2> SUFFICES ASSUME m + 1 <= Len(c) PROVE s[m + 1] \in D
    OBVIOUS
  <2>1. s[m] \in D
    BY <1>9
  <2>2. s[m + 1] = s[m] + c[m + 1]
    BY <1>5
  <2>3. c[m + 1] \in D
    OBVIOUS
  <2> QED
    BY <2>1, <2>2, <2>3
<1>10. \A m \in Nat : m \in S
  <2> HIDE DEF S
  <2> QED
    BY <1>8, <1>9, NatSetInduction
<1>11. \A n \in 0..Len(c) : s[n] \in D
  BY <1>10
<1>12. s \in [0..Len(c) -> D]
  BY <1>7, <1>11
<1> QED
  BY <1>5, <1>12 DEF s

(***************************************************************************)
(* Running sums of naturals, one element at a time.                        *)
(***************************************************************************)
LEMMA PrefixDef ==
    ASSUME NEW c \in Seq(Nat)
    PROVE  /\ Prefix(c) \in [0..Len(c) -> Nat]
           /\ Prefix(c)[0] = 0
           /\ \A n \in 1..Len(c) : Prefix(c)[n] = Prefix(c)[n - 1] + c[n]
<1>1. Nat \in {Nat, Int}
  OBVIOUS
<1> QED
  BY ONLY <1>1, c \in Seq(Nat), PrefixOver, Zenon

(***************************************************************************)
(* The sum of naturals is a natural.                                       *)
(***************************************************************************)
LEMMA TotalNat ==
    ASSUME NEW c \in Seq(Nat)
    PROVE  Total(c) \in Nat
<1>1. Prefix(c) \in [0..Len(c) -> Nat]
  BY PrefixDef
<1>2. Len(c) \in 0..Len(c)
  OBVIOUS
<1> QED
  BY <1>1, <1>2 DEF Total

(***************************************************************************)
(* A sum of zeros but for one place is what stands there.                  *)
(***************************************************************************)
LEMMA SumOfOne ==
    ASSUME NEW c \in Seq(Int), NEW k \in 1..Len(c), \A n \in 1..Len(c) : n # k => c[n] = 0
    PROVE  Total(c) = c[k]
<1> DEFINE p == Prefix(c)
           S == {m \in Nat : m <= Len(c) => p[m] = (IF m < k THEN 0 ELSE c[k])}
<1>1. Len(c) \in Nat /\ k \in Nat /\ 1 <= k /\ k <= Len(c) /\ c[k] \in Int
  OBVIOUS
<1>2. p[0] = 0 /\ \A n \in 1..Len(c) : p[n] = p[n - 1] + c[n]
  <2>1. Int \in {Nat, Int}
    OBVIOUS
  <2> QED
    BY ONLY <2>1, c \in Seq(Int), PrefixOver, Zenon DEF p
<1> HIDE DEF p
<1>3. 0 \in S
  BY <1>1, <1>2
<1>4. ASSUME NEW m \in Nat, m \in S PROVE m + 1 \in S
  <2> SUFFICES ASSUME m + 1 <= Len(c) PROVE p[m + 1] = (IF m + 1 < k THEN 0 ELSE c[k])
    OBVIOUS
  <2>1. m + 1 \in 1..Len(c) /\ (m + 1) - 1 = m /\ m <= Len(c)
    BY <1>1
  <2>2. p[m] = (IF m < k THEN 0 ELSE c[k])
    BY <1>4, <2>1
  <2>3. p[m + 1] = p[m] + c[m + 1]
    BY <1>2, <2>1
  <2>4. CASE m + 1 = k
    BY ONLY <2>2, <2>3, <2>4, <1>1, m \in Nat
  <2>5. CASE m + 1 # k
    <3>1. c[m + 1] = 0
      BY <2>1, <2>5
    <3> QED
      BY ONLY <2>2, <2>3, <2>5, <3>1, <1>1, m \in Nat
  <2> QED
    BY <2>4, <2>5
<1>5. \A m \in Nat : m \in S
  <2> HIDE DEF S
  <2> QED
    BY ONLY <1>3, <1>4, NatSetInduction
<1>6. p[Len(c)] = c[k]
  BY <1>5, <1>1
<1> QED
  BY <1>6 DEF p, Total

(***************************************************************************)
(* The sum of integers is an integer.                                      *)
(***************************************************************************)
LEMMA TotalInt ==
    ASSUME NEW c \in Seq(Int)
    PROVE  Total(c) \in Int
<1>1. Int \in {Nat, Int}
  OBVIOUS
<1>2. Prefix(c) \in [0..Len(c) -> Int]
  BY ONLY <1>1, c \in Seq(Int), PrefixOver, Zenon
<1>3. Len(c) \in 0..Len(c)
  OBVIOUS
<1> QED
  BY <1>2, <1>3 DEF Total

(***************************************************************************)
(* A sum of zeros is zero.                                                 *)
(***************************************************************************)
LEMMA SumOfZeros ==
    ASSUME NEW c \in Seq(Int), \A n \in 1..Len(c) : c[n] = 0
    PROVE  Total(c) = 0
<1>1. Prefix(c)[0] = 0
  <2>1. Int \in {Nat, Int}
    OBVIOUS
  <2> QED
    BY ONLY <2>1, c \in Seq(Int), PrefixOver, Zenon
<1>2. CASE Len(c) = 0
  BY <1>1, <1>2 DEF Total
<1>3. CASE Len(c) # 0
  <2>1. 1 \in 1..Len(c)
    BY <1>3
  <2>2. c[1] = 0
    BY <2>1
  <2> QED
    BY <2>1, <2>2, SumOfOne
<1> QED
  BY <1>2, <1>3

(***************************************************************************)
(* Running sums grow.                                                      *)
(***************************************************************************)
LEMMA PrefixMonotone ==
    ASSUME NEW c \in Seq(Nat), NEW i \in 0..Len(c), NEW j \in i..Len(c)
    PROVE  Prefix(c)[i] <= Prefix(c)[j]
<1> DEFINE s == Prefix(c)
           S == {m \in Nat : i + m <= Len(c) => s[i] <= s[i + m]}
<1>1. /\ s \in [0..Len(c) -> Nat]
      /\ \A n \in 1..Len(c) : s[n] = s[n - 1] + c[n]
  BY PrefixDef
<1> HIDE DEF s
<1>2. 0 \in S
  <2>1. i + 0 = i /\ s[i] \in Nat
    BY <1>1
  <2>2. s[i] <= s[i + 0]
    BY <2>1
  <2> QED
    BY <2>2
<1>3. ASSUME NEW m \in Nat, m \in S PROVE m + 1 \in S
  <2> SUFFICES ASSUME i + (m + 1) <= Len(c) PROVE s[i] <= s[i + (m + 1)]
    OBVIOUS
  <2> DEFINE n == i + (m + 1)
  <2>1. n \in 1..Len(c) /\ n - 1 = i + m /\ i + m \in 0..Len(c)
    OBVIOUS
  <2>2. s[i] <= s[i + m]
    BY <1>3, <2>1
  <2> HIDE DEF n
  <2>3. c[n] \in Nat
    BY <2>1
  <2>4. s[i] \in Nat /\ s[i + m] \in Nat
    BY <1>1, <2>1
  <2>5. s[n] = s[i + m] + c[n]
    BY <1>1, <2>1
  <2>6. s[i] <= s[n]
    BY <2>2, <2>3, <2>4, <2>5
  <2> QED
    BY <2>6 DEF n
<1>4. \A m \in Nat : m \in S
  <2> HIDE DEF S
  <2> QED
    BY <1>2, <1>3, NatSetInduction
<1>5. j - i \in S
  <2> HIDE DEF S
  <2> QED
    BY <1>4
<1>6. i + (j - i) = j
  OBVIOUS
<1> QED
  BY <1>5, <1>6 DEF s

LEMMA HalvesAdd ==
    ASSUME NEW p \in Int, NEW q \in Int, NEW r \in Int,
           NEW c \in Int, NEW d \in Int, NEW w \in Int,
           2 * q <= p + r, 2 * d <= c + w
    PROVE  2 * (q + d) <= (p + c) + (r + w)
OBVIOUS

(***************************************************************************)
(* If every element of d is at most the even half of c[i] + w[i], so are   *)
(* the running sums of d against those of c and w.                         *)
(***************************************************************************)
LEMMA PrefixHalved ==
    ASSUME NEW c \in Seq(Nat), NEW d \in Seq(Nat), NEW w \in Seq(Nat),
           Len(d) = Len(c), Len(w) = Len(c),
           \A i \in 1..Len(c) : 2 * d[i] <= c[i] + w[i]
    PROVE  \A n \in 0..Len(c) : 2 * Prefix(d)[n] <= Prefix(c)[n] + Prefix(w)[n]
<1> DEFINE p == Prefix(c)
           q == Prefix(d)
           r == Prefix(w)
           S == {m \in Nat : m <= Len(c) => 2 * q[m] <= p[m] + r[m]}
<1>1. /\ p \in [0..Len(c) -> Nat] /\ p[0] = 0
      /\ \A n \in 1..Len(c) : p[n] = p[n - 1] + c[n]
  BY PrefixDef
<1>2. /\ q \in [0..Len(c) -> Nat] /\ q[0] = 0
      /\ \A n \in 1..Len(c) : q[n] = q[n - 1] + d[n]
  BY PrefixDef
<1>3. /\ r \in [0..Len(c) -> Nat] /\ r[0] = 0
      /\ \A n \in 1..Len(c) : r[n] = r[n - 1] + w[n]
  BY PrefixDef
<1> HIDE DEF p, q, r
<1>4. 0 \in S
  BY <1>1, <1>2, <1>3
<1>5. ASSUME NEW m \in Nat, m \in S PROVE m + 1 \in S
  <2> SUFFICES ASSUME m + 1 <= Len(c) PROVE 2 * q[m + 1] <= p[m + 1] + r[m + 1]
    OBVIOUS
  <2>1. m + 1 \in 1..Len(c) /\ m \in 0..Len(c) /\ (m + 1) - 1 = m
    OBVIOUS
  <2>2. 2 * q[m] <= p[m] + r[m]
    BY <1>5, <2>1
  <2>3. p[m + 1] = p[m] + c[m + 1] /\ q[m + 1] = q[m] + d[m + 1] /\ r[m + 1] = r[m] + w[m + 1]
    BY <1>1, <1>2, <1>3, <2>1
  <2>4. p[m] \in Nat /\ q[m] \in Nat /\ r[m] \in Nat
    BY <1>1, <1>2, <1>3, <2>1
  <2>a. c[m + 1] \in Nat
    BY <2>1
  <2>b. d[m + 1] \in Nat
    BY <2>1
  <2>c. w[m + 1] \in Nat
    BY <2>1
  <2>5. c[m + 1] \in Int /\ d[m + 1] \in Int /\ w[m + 1] \in Int
    BY <2>a, <2>b, <2>c
  <2>6. 2 * d[m + 1] <= c[m + 1] + w[m + 1]
    BY <2>1
  <2>d. p[m] \in Int /\ q[m] \in Int /\ r[m] \in Int
    BY <2>4
  <2>7. 2 * (q[m] + d[m + 1]) <= (p[m] + c[m + 1]) + (r[m] + w[m + 1])
    BY <2>2, <2>5, <2>6, <2>d, HalvesAdd
  <2> QED
    BY <2>3, <2>7
<1>6. \A m \in Nat : m \in S
  <2> HIDE DEF S
  <2> QED
    BY <1>4, <1>5, NatSetInduction
<1> QED
  BY <1>6 DEF p, q, r

(***************************************************************************)
(* Running sums are monotone in the sequence.                              *)
(***************************************************************************)
LEMMA PrefixPointwise ==
    ASSUME NEW c \in Seq(Nat), NEW d \in Seq(Nat), Len(d) = Len(c),
           \A i \in 1..Len(c) : d[i] <= c[i]
    PROVE  \A n \in 0..Len(c) : Prefix(d)[n] <= Prefix(c)[n]
<1>1. \A i \in 1..Len(c) : 2 * d[i] <= c[i] + c[i]
  OBVIOUS
<1>2. \A n \in 0..Len(c) : 2 * Prefix(d)[n] <= Prefix(c)[n] + Prefix(c)[n]
  BY <1>1, PrefixHalved
<1>3. \A n \in 0..Len(c) : Prefix(d)[n] \in Nat /\ Prefix(c)[n] \in Nat
  BY PrefixDef
<1> QED
  BY <1>2, <1>3

(***************************************************************************)
(* The running sums of a doubled sequence.                                 *)
(***************************************************************************)
LEMMA PrefixDoubled ==
    ASSUME NEW c \in Seq(Nat), NEW d \in Seq(Nat), Len(d) = Len(c),
           \A i \in 1..Len(c) : d[i] = 2 * c[i]
    PROVE  \A n \in 0..Len(c) : Prefix(d)[n] = 2 * Prefix(c)[n]
<1> DEFINE p == Prefix(c)
           q == Prefix(d)
           S == {m \in Nat : m <= Len(c) => q[m] = 2 * p[m]}
<1>1. /\ p \in [0..Len(c) -> Nat] /\ p[0] = 0
      /\ \A n \in 1..Len(c) : p[n] = p[n - 1] + c[n]
  BY PrefixDef
<1>2. /\ q \in [0..Len(c) -> Nat] /\ q[0] = 0
      /\ \A n \in 1..Len(c) : q[n] = q[n - 1] + d[n]
  BY PrefixDef
<1> HIDE DEF p, q
<1>3. 0 \in S
  BY <1>1, <1>2
<1>4. ASSUME NEW m \in Nat, m \in S PROVE m + 1 \in S
  <2> SUFFICES ASSUME m + 1 <= Len(c) PROVE q[m + 1] = 2 * p[m + 1]
    OBVIOUS
  <2>1. m + 1 \in 1..Len(c) /\ m \in 0..Len(c) /\ (m + 1) - 1 = m
    OBVIOUS
  <2>2. q[m] = 2 * p[m]
    BY <1>4, <2>1
  <2>3. p[m + 1] = p[m] + c[m + 1] /\ q[m + 1] = q[m] + d[m + 1]
    BY <1>1, <1>2, <2>1
  <2>4. d[m + 1] = 2 * c[m + 1]
    BY <2>1
  <2>5. c[m + 1] \in Nat
    BY <2>1
  <2>6. p[m] \in Nat
    BY <1>1, <2>1
  <2> QED
    BY <2>2, <2>3, <2>4, <2>5, <2>6
<1>5. \A m \in Nat : m \in S
  <2> HIDE DEF S
  <2> QED
    BY <1>3, <1>4, NatSetInduction
<1> QED
  BY <1>5 DEF p, q

\* A sequence of numbers has a greatest element.
LEMMA GreatestExists ==
    ASSUME NEW c \in Seq(Nat), Len(c) # 0
    PROVE  \E m \in Nat : /\ \E s \in 1..Len(c) : m = c[s]
                          /\ \A s \in 1..Len(c) : c[s] <= m
<1> DEFINE Bounds == {b \in Nat : \A s \in 1..Len(c) : c[s] <= b}
           n == Len(c)
<1>1. n \in Nat /\ n >= 1 /\ \A s \in 1..n : c[s] \in Nat
  OBVIOUS
<1>2. Prefix(c)[n] \in Bounds
  <2>1. Prefix(c) \in [0..n -> Nat] /\ Prefix(c)[n] \in Nat
    BY <1>1, PrefixDef
  <2>2. ASSUME NEW s \in 1..n
        PROVE  c[s] <= Prefix(c)[n]
    <3>1. s \in 0..n /\ n \in s..n /\ s - 1 \in 0..n
      BY <1>1
    <3>2. Prefix(c)[s] <= Prefix(c)[n]
      BY <3>1, PrefixMonotone
    <3>3. Prefix(c)[s] = Prefix(c)[s - 1] + c[s]
      BY PrefixDef
    <3>4. Prefix(c)[s - 1] \in Nat /\ Prefix(c)[s] \in Nat
      BY <2>1, <3>1
    <3> QED
      BY <1>1, <2>1, <3>2, <3>3, <3>4
  <2> QED
    BY <2>1, <2>2
<1>3. PICK m \in Bounds : \A k \in Bounds : m <= k
  <2>1. Bounds \in SUBSET Nat /\ Bounds # {}
    BY <1>2
  <2> HIDE DEF Bounds
  <2> QED
    BY <2>1, LeastNatural
<1>4. m \in Nat /\ \A s \in 1..n : c[s] <= m
  OBVIOUS
<1>5. \E s \in 1..n : m = c[s]
  <2>1. SUFFICES ASSUME \A s \in 1..n : m # c[s] PROVE FALSE
    OBVIOUS
  <2>2. \A s \in 1..n : c[s] <= m - 1
    BY <1>1, <1>4, <2>1
  <2>3. m - 1 \in Nat
    BY <1>1, <1>4, <2>2
  <2>4. m - 1 \in Bounds
    BY <2>2, <2>3
  <2> HIDE DEF Bounds
  <2>5. m <= m - 1
    BY <1>3, <2>4
  <2> QED
    BY <1>4, <2>5
<1> QED
  BY <1>4, <1>5

\* Where the elements are equal the running sums grow by a multiple.
LEMMA PrefixOfEqual ==
    ASSUME NEW c \in Seq(Nat), NEW a \in 0..Len(c), NEW b \in a..Len(c), NEW v \in Nat,
           \A s \in a + 1..b : c[s] = v
    PROVE  Prefix(c)[b] = Prefix(c)[a] + (b - a) * v
<1> DEFINE p == Prefix(c)
           S == {m \in Nat : a + m <= b => p[a + m] = p[a] + m * v}
<1>1. Len(c) \in Nat /\ a \in Nat /\ b \in Nat /\ a <= b /\ b <= Len(c)
  OBVIOUS
<1>2. p \in [0..Len(c) -> Nat] /\ \A n \in 1..Len(c) : p[n] = p[n - 1] + c[n]
  BY PrefixDef
<1> HIDE DEF p
<1>3. 0 \in S
  <2>1. p[a] \in Nat /\ a + 0 = a
    BY <1>1, <1>2
  <2>2. p[a] + 0 * v = p[a]
    BY <2>1
  <2> QED
    BY <2>1, <2>2
<1>4. ASSUME NEW m \in Nat, m \in S PROVE m + 1 \in S
  <2>1. SUFFICES ASSUME a + (m + 1) <= b PROVE p[a + (m + 1)] = p[a] + (m + 1) * v
    OBVIOUS
  <2>2. a + (m + 1) \in 1..Len(c) /\ (a + (m + 1)) - 1 = a + m /\ a + (m + 1) \in a + 1..b
    BY <1>1, <2>1
  <2>3. p[a + m] = p[a] + m * v
    BY <1>1, <1>4, <2>1
  <2>4. p[a + (m + 1)] = p[a + m] + v
    BY <1>2, <2>2
  <2>5. (m + 1) * v = m * v + v /\ m * v \in Nat /\ p[a] \in Nat
    BY <1>1, <1>2, Z3
  <2> QED
    BY <2>3, <2>4, <2>5
<1>5. b - a \in S
  <2>1. b - a \in Nat
    BY <1>1
  <2> HIDE DEF S
  <2> QED
    BY <1>3, <1>4, <2>1, NatSetInduction
<1>6. a + (b - a) = b
  BY <1>1
<1> QED
  BY <1>1, <1>5, <1>6 DEF p

(***************************************************************************)
(* Blocks laid one behind the other: a place below the total lies in       *)
(* exactly one, and the starts at or below it count the blocks up to it.   *)
(***************************************************************************)
LEMMA BlockExists ==
    ASSUME NEW c \in Seq(Nat), NEW s \in 1..Total(c)
    PROVE  \E i \in 1..Len(c) : Prefix(c)[i - 1] < s /\ s <= Prefix(c)[i]
<1> DEFINE p == Prefix(c)
           n == Len(c)
           T == {i \in Nat : i <= n /\ s <= p[i]}
<1>1. n \in Nat /\ p \in [0..n -> Nat] /\ p[0] = 0 /\ p[n] = Total(c)
  BY PrefixDef DEF Total
<1> HIDE DEF p
<1>2. p[n] \in Nat /\ s \in Nat /\ 1 <= s /\ s <= p[n]
  BY <1>1
<1>3. n \in T /\ T \in SUBSET Nat /\ T # {}
  BY <1>1, <1>2
<1>4. PICK m \in T : \A k \in T : m <= k
  <2> HIDE DEF T
  <2> QED
    BY <1>3, LeastNatural
<1>5. m \in Nat /\ m <= n /\ s <= p[m] /\ m # 0
  BY <1>1, <1>2
<1>6. m - 1 \in Nat /\ m - 1 <= n /\ ~(m <= m - 1) /\ m \in 1..n
  BY <1>1, <1>5
<1>7. ~(s <= p[m - 1])
  BY <1>4, <1>6
<1>8. p[m - 1] \in Nat
  BY <1>1, <1>6
<1>9. p[m - 1] < s
  BY <1>2, <1>7, <1>8
<1> QED
  BY <1>5, <1>6, <1>9 DEF p

LEMMA BlockUnique ==
    ASSUME NEW c \in Seq(Nat), NEW s \in Int,
           NEW i \in 1..Len(c), Prefix(c)[i - 1] < s, s <= Prefix(c)[i],
           NEW j \in 1..Len(c), Prefix(c)[j - 1] < s, s <= Prefix(c)[j]
    PROVE  i = j
<1> DEFINE p == Prefix(c)
           n == Len(c)
<1>1. n \in Nat /\ p \in [0..n -> Nat]
  BY PrefixDef
<1>2. ASSUME NEW a \in 1..n, NEW b \in 1..n, a < b, s <= p[a], p[b - 1] < s
      PROVE  FALSE
  <2>1. a \in 0..n /\ b - 1 \in a..n /\ b - 1 \in 0..n
    BY <1>1, <1>2
  <2>2. p[a] <= p[b - 1]
    BY <2>1, PrefixMonotone
  <2>3. p[a] \in Nat /\ p[b - 1] \in Nat
    BY <1>1, <2>1
  <2> HIDE DEF p
  <2> QED
    BY <1>2, <2>2, <2>3
<1> HIDE DEF p
<1>3. ~(i < j) /\ ~(j < i)
  BY <1>2 DEF p
<1> QED
  BY <1>3

\* A block lies between the start of all and the end of all.
LEMMA BlockBounds ==
    ASSUME NEW c \in Seq(Nat), NEW i \in 1..Len(c)
    PROVE  /\ Prefix(c)[i - 1] \in Nat /\ Prefix(c)[i] \in Nat /\ c[i] \in Nat
           /\ Prefix(c)[i] = Prefix(c)[i - 1] + c[i]
           /\ Prefix(c)[i] <= Total(c) /\ Total(c) \in Nat
<1> DEFINE p == Prefix(c)
           n == Len(c)
<1>1. n \in Nat /\ p \in [0..n -> Nat] /\ p[i] = p[i - 1] + c[i] /\ p[n] = Total(c)
  BY PrefixDef DEF Total
<1>2. i \in 0..n /\ n \in i..n /\ i - 1 \in 0..n /\ n \in 0..n
  BY <1>1
<1>3. p[i] <= p[n]
  BY <1>2, PrefixMonotone
<1>4. c[i] \in Nat
  OBVIOUS
<1> HIDE DEF p
<1>5. p[i - 1] \in Nat /\ p[i] \in Nat /\ p[n] \in Nat
  BY <1>1, <1>2
<1> QED
  BY <1>1, <1>3, <1>4, <1>5 DEF p

LEMMA StartsCounted ==
    ASSUME NEW c \in Seq(Nat), NEW j \in Nat,
           NEW m \in 1..Len(c), Prefix(c)[m - 1] <= j, j < Prefix(c)[m]
    PROVE  Cardinality({s \in 0..Len(c) : Prefix(c)[s] <= j}) = m
<1> DEFINE p == Prefix(c)
           n == Len(c)
<1>1. n \in Nat /\ p \in [0..n -> Nat]
  BY PrefixDef
<1>2. ASSUME NEW s \in 0..n
      PROVE  p[s] <= j <=> s \in 0..m - 1
  <2>1. CASE s <= m - 1
    <3>1. s \in 0..n /\ m - 1 \in s..n
      BY <1>1, <2>1
    <3>2. p[s] <= p[m - 1]
      BY <3>1, PrefixMonotone
    <3>3. p[s] \in Nat /\ p[m - 1] \in Nat
      BY <1>1, <3>1
    <3> HIDE DEF p
    <3> QED
      BY <2>1, <3>1, <3>2, <3>3 DEF p
  <2>2. CASE ~(s <= m - 1)
    <3>1. m \in 0..n /\ s \in m..n
      BY <1>1, <2>2
    <3>2. p[m] <= p[s]
      BY <3>1, PrefixMonotone
    <3>3. p[s] \in Nat /\ p[m] \in Nat
      BY <1>1, <3>1
    <3> HIDE DEF p
    <3> QED
      BY <2>2, <3>1, <3>2, <3>3 DEF p
  <2> QED
    BY <2>1, <2>2
<1>3. {s \in 0..n : p[s] <= j} = 0..m - 1
  <2> HIDE DEF p
  <2>1. 0..m - 1 \subseteq 0..n
    BY <1>1
  <2> QED
    BY <1>2, <2>1
<1>4. Cardinality(0..m - 1) = m
  <2>1. 0 \in Int /\ m - 1 \in Int /\ ~(0 > m - 1) /\ (m - 1) - 0 + 1 = m
    BY <1>1
  <2> QED
    BY <2>1, FS_Interval
<1> QED
  BY <1>3, <1>4

LEMMA StartsAllCounted ==
    ASSUME NEW c \in Seq(Nat), NEW j \in Nat, Total(c) <= j
    PROVE  Cardinality({s \in 0..Len(c) : Prefix(c)[s] <= j}) = Len(c) + 1
<1> DEFINE p == Prefix(c)
           n == Len(c)
<1>1. n \in Nat /\ p \in [0..n -> Nat] /\ p[n] = Total(c)
  BY PrefixDef DEF Total
<1>2. ASSUME NEW s \in 0..n
      PROVE  p[s] <= j
  <2>1. s \in 0..n /\ n \in s..n /\ n \in 0..n
    BY <1>1
  <2>2. p[s] <= p[n]
    BY <2>1, PrefixMonotone
  <2>3. p[s] \in Nat /\ p[n] \in Nat
    BY <1>1, <2>1
  <2> HIDE DEF p
  <2> QED
    BY <1>1, <2>2, <2>3
<1>3. {s \in 0..n : p[s] <= j} = 0..n
  <2> HIDE DEF p
  <2> QED
    BY <1>2
<1>4. Cardinality(0..n) = n + 1
  <2>1. 0 \in Int /\ n \in Int /\ ~(0 > n) /\ n - 0 + 1 = n + 1
    BY <1>1
  <2> QED
    BY <2>1, FS_Interval
<1> QED
  BY <1>3, <1>4

(***************************************************************************)
(* Raising one element raises the running sums from there on by as much.   *)
(***************************************************************************)
LEMMA PrefixRaised ==
    ASSUME NEW c \in Seq(Nat), NEW d \in Seq(Nat), Len(d) = Len(c),
           NEW k \in 1..Len(c), NEW v \in Nat, d[k] = c[k] + v,
           \A i \in 1..Len(c) : i # k => d[i] = c[i]
    PROVE  Total(d) = Total(c) + v
<1> DEFINE p == Prefix(c)
           q == Prefix(d)
           Gain(m) == IF m < k THEN 0 ELSE v
           S == {m \in Nat : m <= Len(c) => q[m] = p[m] + Gain(m)}
<1>1. /\ p \in [0..Len(c) -> Nat] /\ p[0] = 0
      /\ \A n \in 1..Len(c) : p[n] = p[n - 1] + c[n]
  BY PrefixDef
<1>2. /\ q \in [0..Len(c) -> Nat] /\ q[0] = 0
      /\ \A n \in 1..Len(c) : q[n] = q[n - 1] + d[n]
  BY PrefixDef
<1> HIDE DEF p, q
<1>3. 0 \in S
  BY <1>1, <1>2
<1>4. ASSUME NEW m \in Nat, m \in S PROVE m + 1 \in S
  <2> SUFFICES ASSUME m + 1 <= Len(c) PROVE q[m + 1] = p[m + 1] + Gain(m + 1)
    OBVIOUS
  <2>1. m + 1 \in 1..Len(c) /\ m \in 0..Len(c) /\ (m + 1) - 1 = m /\ m <= Len(c)
    OBVIOUS
  <2>2. q[m] = p[m] + Gain(m)
    BY <1>4, <2>1
  <2>3. p[m + 1] = p[m] + c[m + 1] /\ q[m + 1] = q[m] + d[m + 1]
    BY <1>1, <1>2, <2>1
  <2>4. p[m] \in Nat /\ c[m + 1] \in Nat
    <3>1. p[m] \in Nat
      BY <1>1, <2>1
    <3>2. c[m + 1] \in Nat
      BY <2>1
    <3> QED
      BY <3>1, <3>2
  <2>5. CASE m + 1 = k
    <3>1. d[m + 1] = c[m + 1] + v
      BY <2>5
    <3> QED
      BY <2>2, <2>3, <2>4, <2>5, <3>1
  <2>6. CASE m + 1 # k
    <3>1. d[m + 1] = c[m + 1]
      BY <2>1, <2>6
    <3>2. Gain(m + 1) = Gain(m)
      BY <2>6
    <3> QED
      BY <2>2, <2>3, <2>4, <3>1, <3>2
  <2> QED
    BY <2>5, <2>6
<1>5. \A m \in Nat : m \in S
  <2> HIDE DEF S
  <2> QED
    BY <1>3, <1>4, NatSetInduction
<1>6. Len(c) \in Nat /\ Len(c) <= Len(c) /\ ~(Len(c) < k)
  OBVIOUS
<1>7. q[Len(c)] = p[Len(c)] + v
  BY <1>5, <1>6
<1> QED
  BY <1>7 DEF p, q, Total

(***************************************************************************)
(* The running sums of a sequence of threes.                               *)
(***************************************************************************)
LEMMA PrefixOfThrees ==
    ASSUME NEW n \in Nat
    PROVE  Prefix([i \in 1..n |-> 3])[n] = 3 * n
<1> DEFINE w == [i \in 1..n |-> 3]
           p == Prefix(w)
           S == {m \in Nat : m <= n => p[m] = 3 * m}
<1>1. w \in Seq(Nat) /\ Len(w) = n
  OBVIOUS
<1>2. \A i \in 1..n : w[i] = 3
  OBVIOUS
<1> HIDE DEF w
<1>3. /\ p[0] = 0
      /\ \A m \in 1..n : p[m] = p[m - 1] + w[m]
  BY <1>1, PrefixDef
<1> HIDE DEF p
<1>4. 0 \in S
  BY <1>3
<1>5. ASSUME NEW m \in Nat, m \in S PROVE m + 1 \in S
  BY <1>2, <1>3, <1>5
<1>6. \A m \in Nat : m \in S
  <2> HIDE DEF S
  <2> QED
    BY <1>4, <1>5, NatSetInduction
<1> QED
  BY <1>6 DEF p, w

(***************************************************************************)
(* The recursion of Iterate has a solution for every number of steps, and  *)
(* the solutions agree where they overlap.                                 *)
(***************************************************************************)
Iterates(f, a, n, p) == p = [m \in 0..n |-> IF m = 0 THEN a ELSE f[p[m - 1]]]

LEMMA IterateExists ==
    ASSUME NEW D, NEW a \in D, NEW f \in [D -> D], NEW n \in Nat
    PROVE  \E p \in [0..n -> D] : Iterates(f, a, n, p)
<1> DEFINE Solved(k) == \E p \in [0..k -> D] : Iterates(f, a, k, p)
           S == {k \in Nat : Solved(k)}
<1>1. 0 \in S
  <2> DEFINE p == [m \in 0..0 |-> a]
  <2>1. p \in [0..0 -> D]
    OBVIOUS
  <2>2. Iterates(f, a, 0, p)
    BY DEF Iterates
  <2> QED
    BY <2>1, <2>2
<1>2. ASSUME NEW k \in Nat, k \in S PROVE k + 1 \in S
  <2>1. PICK p \in [0..k -> D] : Iterates(f, a, k, p)
    BY <1>2
  <2> DEFINE q == [m \in 0..k + 1 |-> IF m = k + 1 THEN f[p[k]] ELSE p[m]]
  <2>2. q \in [0..k + 1 -> D]
    OBVIOUS
  <2>3. \A m \in 0..k : p[m] = IF m = 0 THEN a ELSE f[p[m - 1]]
    BY <2>1 DEF Iterates
  <2>4. ASSUME NEW m \in 0..k + 1 PROVE q[m] = IF m = 0 THEN a ELSE f[q[m - 1]]
    <3>1. CASE m = k + 1
      <4>1. q[m] = f[p[k]] /\ q[m - 1] = p[k] /\ m # 0
        BY <3>1
      <4> HIDE DEF q
      <4> QED
        BY <4>1
    <3>2. CASE m # k + 1
      <4>1. m \in 0..k /\ (m # 0 => m - 1 \in 0..k)
        BY <3>2
      <4>2. q[m] = p[m] /\ (m # 0 => q[m - 1] = p[m - 1])
        BY <4>1
      <4> HIDE DEF q
      <4> QED
        BY <4>1, <4>2, <2>3
    <3> QED
      BY <3>1, <3>2
  <2>5. q = [m \in 0..k + 1 |-> q[m]]
    OBVIOUS
  <2>6. Iterates(f, a, k + 1, q)
    <3> HIDE DEF q
    <3> QED
      BY <2>4, <2>5 DEF Iterates
  <2> HIDE DEF q
  <2>7. Solved(k + 1)
    BY <2>2, <2>6
  <2> HIDE DEF Solved
  <2> QED
    BY <2>7
<1>3. n \in S
  <2> HIDE DEF S
  <2> QED
    BY <1>1, <1>2, NatSetInduction
<1> QED
  BY <1>3

(***************************************************************************)
(* Iterate starts at a, applies f once more at each step and stays in D.   *)
(***************************************************************************)
LEMMA IterateDef ==
    ASSUME NEW D, NEW a \in D, NEW f \in [D -> D]
    PROVE  /\ Iterate(f, a, 0) = a
           /\ \A n \in Nat : /\ Iterate(f, a, n) \in D
                             /\ Iterate(f, a, n + 1) = f[Iterate(f, a, n)]
<1> DEFINE After(n) == CHOOSE p : Iterates(f, a, n, p)
<1>1. ASSUME NEW n \in Nat PROVE Iterates(f, a, n, After(n))
  BY IterateExists
<1>2. ASSUME NEW n \in Nat PROVE Iterate(f, a, n) = After(n)[n]
  BY DEF Iterate, Iterates
<1> HIDE DEF After
<1>3. ASSUME NEW n \in Nat, NEW m \in 0..n
      PROVE  After(n)[m] = IF m = 0 THEN a ELSE f[After(n)[m - 1]]
  BY <1>1 DEF Iterates
<1> DEFINE S == {m \in Nat : \A n \in Nat : m <= n =>
                     After(n)[m] \in D /\ After(n + 1)[m] = After(n)[m]}
<1>4. 0 \in S
  <2> SUFFICES ASSUME NEW n \in Nat
               PROVE  After(n)[0] \in D /\ After(n + 1)[0] = After(n)[0]
    OBVIOUS
  <2> QED
    BY <1>3
<1>5. ASSUME NEW m \in Nat, m \in S PROVE m + 1 \in S
  <2> SUFFICES ASSUME NEW n \in Nat, m + 1 <= n
               PROVE  After(n)[m + 1] \in D /\ After(n + 1)[m + 1] = After(n)[m + 1]
    OBVIOUS
  <2>1. m + 1 \in 0..n /\ m + 1 \in 0..n + 1 /\ m + 1 # 0 /\ (m + 1) - 1 = m /\ m <= n
    OBVIOUS
  <2>2. After(n)[m] \in D /\ After(n + 1)[m] = After(n)[m]
    BY <1>5, <2>1
  <2>3. After(n)[m + 1] = f[After(n)[m]] /\ After(n + 1)[m + 1] = f[After(n + 1)[m]]
    BY <1>3, <2>1
  <2> QED
    BY <2>2, <2>3
<1>6. \A m \in Nat : m \in S
  <2> HIDE DEF S
  <2> QED
    BY <1>4, <1>5, NatSetInduction
<1>7. Iterate(f, a, 0) = a
  BY <1>2, <1>3
<1>8. ASSUME NEW n \in Nat
      PROVE  Iterate(f, a, n) \in D /\ Iterate(f, a, n + 1) = f[Iterate(f, a, n)]
  <2>1. After(n)[n] \in D /\ After(n + 1)[n] = After(n)[n]
    BY <1>6
  <2>2. n + 1 \in 0..n + 1 /\ n + 1 # 0 /\ (n + 1) - 1 = n
    OBVIOUS
  <2>3. After(n + 1)[n + 1] = f[After(n + 1)[n]]
    BY <1>3, <2>2
  <2> QED
    BY <2>1, <2>3, <1>2
<1> QED
  BY <1>7, <1>8

(***************************************************************************)
(* Powers of two are positive, double, and grow past every natural.        *)
(***************************************************************************)
LEMMA Pow2Def ==
    /\ Pow2(0) = 1
    /\ \A n \in Nat : Pow2(n) \in Nat /\ Pow2(n) >= 1 /\ Pow2(n + 1) = 2 * Pow2(n)
<1> DEFINE D == Nat
           f == [x \in Nat |-> 2 * x]
           a == 1
<1>1. a \in D /\ f \in [D -> D]
  OBVIOUS
<1> HIDE DEF f, D, a
<1>2. /\ Iterate(f, a, 0) = a
      /\ \A n \in Nat : /\ Iterate(f, a, n) \in D
                        /\ Iterate(f, a, n + 1) = f[Iterate(f, a, n)]
  BY <1>1, IterateDef
<1>3. Pow2(0) = 1 /\ \A n \in Nat : Pow2(n) \in Nat /\ Pow2(n + 1) = 2 * Pow2(n)
  BY <1>2 DEF Pow2, f, D, a
<1> DEFINE S == {n \in Nat : Pow2(n) >= 1}
<1>4. \A n \in Nat : n \in S
  <2>1. 0 \in S
    BY <1>3
  <2>2. \A n \in Nat : n \in S => n + 1 \in S
    BY <1>3
  <2> HIDE DEF S
  <2> QED
    BY <2>1, <2>2, NatSetInduction
<1> QED
  BY <1>3, <1>4

LEMMA Pow2Exceeds == \A n \in Nat : Pow2(n) >= n
<1> DEFINE S == {n \in Nat : Pow2(n) >= n}
<1>1. 0 \in S
  BY Pow2Def
<1>2. ASSUME NEW n \in Nat, n \in S PROVE n + 1 \in S
  <2>1. Pow2(n) \in Nat /\ Pow2(n) >= 1 /\ Pow2(n + 1) = 2 * Pow2(n) /\ Pow2(n) >= n
    BY <1>2, Pow2Def
  <2> QED
    BY <2>1
<1> HIDE DEF S
<1>3. \A n \in Nat : n \in S
  BY <1>1, <1>2, NatSetInduction
<1> QED
  BY <1>3 DEF S

\* Larger exponents give larger powers.
LEMMA Pow2Monotone ==
    ASSUME NEW m \in Nat, NEW d \in Nat
    PROVE  Pow2(m) <= Pow2(m + d)
<1> DEFINE S == {n \in Nat : Pow2(m) <= Pow2(m + n)}
<1>1. 0 \in S
  BY Pow2Def
<1>2. ASSUME NEW n \in Nat, n \in S PROVE n + 1 \in S
  <2>1. m + n \in Nat /\ m + (n + 1) = (m + n) + 1
    OBVIOUS
  <2>2. /\ Pow2(m + n) \in Nat /\ Pow2(m) \in Nat
        /\ Pow2((m + n) + 1) = 2 * Pow2(m + n)
    BY <2>1, Pow2Def
  <2>3. Pow2(m) <= 2 * Pow2(m + n)
    BY <2>2, <1>2
  <2> QED
    BY <2>1, <2>2, <2>3
<1> HIDE DEF S
<1>3. d \in S
  BY <1>1, <1>2, NatSetInduction
<1> QED
  BY <1>3 DEF S

\* The power of CeilLog2 reaches its argument.
LEMMA CeilLog2Def ==
    ASSUME NEW n \in Nat
    PROVE  /\ CeilLog2(n) \in 0..n /\ Pow2(CeilLog2(n)) >= n
           /\ CeilLog2(n) > 0 => Pow2(CeilLog2(n) - 1) < n
<1> DEFINE T == {e \in 0..n : Pow2(e) >= n}
<1>1. n \in T
  BY Pow2Exceeds
<1>2. T \in SUBSET Nat /\ T # {}
  BY <1>1
<1> HIDE DEF T
<1>3. PICK e \in T : \A k \in T : e <= k
  BY <1>2, LeastNatural
<1>4. e \in 0..n /\ Pow2(e) >= n
  BY <1>3 DEF T
<1>5. ASSUME e > 0 PROVE Pow2(e - 1) < n
  <2>1. e - 1 \in 0..n /\ ~(e <= e - 1)
    BY <1>4, <1>5
  <2>2. e - 1 \notin T
    BY <2>1, <1>3
  <2>3. Pow2(e - 1) \in Nat
    BY <2>1, Pow2Def
  <2> QED
    BY <2>1, <2>2, <2>3 DEF T
<1> QED
  BY <1>4, <1>5 DEF CeilLog2

(***************************************************************************)
(* The logarithm of a power of two is its exponent.                        *)
(***************************************************************************)
LEMMA CeilLog2Exact ==
    ASSUME NEW e \in Nat
    PROVE  CeilLog2(Pow2(e)) = e
<1>1. PICK n \in Nat : n = Pow2(e)
  BY Pow2Def
<1>2. PICK k \in Nat : k = CeilLog2(n) /\ Pow2(k) >= n /\ (k > 0 => Pow2(k - 1) < n)
  <2>1. CeilLog2(n) \in Nat
    BY CeilLog2Def
  <2> QED
    BY <2>1, CeilLog2Def
<1>3. ~(k < e)
  <2> SUFFICES ASSUME k < e PROVE FALSE
    OBVIOUS
  <2>1. PICK d \in Nat : e = (k + 1) + d
    <3>1. e - (k + 1) \in Nat /\ e = (k + 1) + (e - (k + 1))
      OBVIOUS
    <3> QED
      BY <3>1
  <2>2. Pow2(k + 1) <= Pow2(e)
    BY <2>1, Pow2Monotone
  <2>3. Pow2(k + 1) = 2 * Pow2(k) /\ Pow2(k) \in Nat /\ Pow2(k) >= 1
    BY Pow2Def
  <2> QED
    BY <1>1, <1>2, <2>2, <2>3
<1>4. ~(k > e)
  <2> SUFFICES ASSUME k > e PROVE FALSE
    OBVIOUS
  <2>1. PICK d \in Nat : k - 1 = e + d
    <3>1. (k - 1) - e \in Nat /\ k - 1 = e + ((k - 1) - e)
      OBVIOUS
    <3> QED
      BY <3>1
  <2>2. Pow2(e) <= Pow2(k - 1)
    BY <2>1, Pow2Monotone
  <2>3. Pow2(k - 1) < n /\ k - 1 \in Nat
    BY <1>2
  <2>4. Pow2(k - 1) \in Nat
    BY <2>3, Pow2Def
  <2> QED
    BY <1>1, <2>2, <2>3, <2>4
<1> QED
  BY <1>1, <1>2, <1>3, <1>4

(***************************************************************************)
(* A column and a row from a place in a block, and back.                   *)
(***************************************************************************)
LEMMA DivMod ==
    ASSUME NEW a \in Nat, NEW n \in Nat, NEW b \in Nat, b < n
    PROVE  (a * n + b) \div n = a /\ (a * n + b) % n = b
<1> DEFINE y == a * n + b
           q == y \div n
           r == y % n
<1>1. y \in Nat /\ n >= 1 /\ a * n \in Int
  BY Z3
<1>2. y = a * n + b
  OBVIOUS
<1> HIDE DEF y
<1>3. q \in Nat /\ r \in Nat /\ r < n /\ y = q * n + r
  BY <1>1, Z3
<1> HIDE DEF q, r
<1>4. ~(a < q)
  <2> SUFFICES ASSUME a + 1 <= q PROVE FALSE
    BY <1>3
  <2>1. (a + 1) * n <= q * n
    BY <1>1, <1>3, Z3
  <2>2. (a + 1) * n = a * n + n /\ q * n \in Int
    BY <1>3, Z3
  <2> QED
    BY <1>1, <1>2, <1>3, <2>1, <2>2
<1>5. ~(q < a)
  <2> SUFFICES ASSUME q + 1 <= a PROVE FALSE
    BY <1>3
  <2>1. (q + 1) * n <= a * n
    BY <1>1, <1>3, Z3
  <2>2. (q + 1) * n = q * n + n /\ q * n \in Int
    BY <1>3, Z3
  <2> QED
    BY <1>1, <1>2, <1>3, <2>1, <2>2
<1>6. q = a
  BY <1>3, <1>4, <1>5
<1>7. r = b
  BY <1>1, <1>2, <1>3, <1>6
<1> QED
  BY <1>6, <1>7 DEF q, r, y

\* Exponents add.
LEMMA Pow2Sum ==
    ASSUME NEW m \in Nat, NEW d \in Nat
    PROVE  Pow2(m + d) = Pow2(m) * Pow2(d)
<1> DEFINE S == {n \in Nat : Pow2(m + n) = Pow2(m) * Pow2(n)}
<1>0. Pow2(m) \in Nat
  BY Pow2Def
<1>1. 0 \in S
  <2>1. m + 0 = m /\ Pow2(0) = 1
    BY Pow2Def
  <2> QED
    BY <1>0, <2>1
<1>2. ASSUME NEW n \in Nat, n \in S PROVE n + 1 \in S
  <2>1. m + n \in Nat /\ m + (n + 1) = (m + n) + 1
    OBVIOUS
  <2>2. Pow2((m + n) + 1) = 2 * Pow2(m + n) /\ Pow2(n + 1) = 2 * Pow2(n) /\ Pow2(n) \in Nat
    BY <2>1, Pow2Def
  <2>3. Pow2(m + n) = Pow2(m) * Pow2(n)
    BY <1>2
  <2> DEFINE a == Pow2(m)
             b == Pow2(n)
  <2>4. 2 * (a * b) = a * (2 * b)
    <3>1. a \in Nat /\ b \in Nat
      BY <1>0, <2>2
    <3> HIDE DEF a, b
    <3> QED
      BY <3>1, Z3
  <2>5. Pow2(m + (n + 1)) = Pow2(m) * Pow2(n + 1)
    BY <2>1, <2>2, <2>3, <2>4
  <2> QED
    BY <2>5
<1> HIDE DEF S
<1>3. d \in S
  BY <1>1, <1>2, NatSetInduction
<1> QED
  BY <1>3 DEF S

\* A ceiling bounds what it divides.
LEMMA CeilBounds ==
    ASSUME NEW n \in Nat, NEW w \in Nat, w >= 1
    PROVE  /\ (n + w - 1) \div w \in Nat
           /\ n <= ((n + w - 1) \div w) * w
           /\ \A x \in Nat : n <= x * w <=> (n + w - 1) \div w <= x
<1> DEFINE y == n + w - 1
           q == y \div w
<1>1. y \in Nat
  OBVIOUS
<1>2. q \in Nat /\ q * w <= y /\ y < (q + 1) * w
  BY <1>1, Z3
<1> HIDE DEF q
<1>3. (q + 1) * w = q * w + w /\ q * w \in Int
  BY <1>2, Z3
<1>4. n <= q * w
  BY <1>2, <1>3
<1>5. ASSUME NEW x \in Nat
      PROVE  n <= x * w <=> q <= x
  <2>1. x * w \in Int
    BY Z3
  <2>2. CASE q <= x
    <3>1. q * w <= x * w
      BY <1>2, <2>2, Z3
    <3> QED
      BY <1>3, <1>4, <2>1, <2>2, <3>1
  <2>3. CASE ~(q <= x)
    <3>1. x + 1 <= q
      BY <1>2, <2>3
    <3>2. (x + 1) * w <= q * w
      BY <1>2, <3>1, Z3
    <3>3. (x + 1) * w = x * w + w
      BY Z3
    <3> QED
      BY <1>2, <1>3, <2>1, <2>3, <3>2, <3>3
  <2> QED
    BY <2>2, <2>3
<1> QED
  BY <1>2, <1>4, <1>5 DEF q

(***************************************************************************)
(* Halving the ceiling of a quotient is the ceiling over twice the divisor.*)
(***************************************************************************)
LEMMA CeilHalves ==
    ASSUME NEW n \in Nat, NEW w \in Nat, w >= 1
    PROVE  /\ (n + w - 1) \div w \in Nat
           /\ ((n + w - 1) \div w + 1) \div 2 = (n + 2 * w - 1) \div (2 * w)
<1> DEFINE x == n + w - 1
           q == x \div w
           h == (q + 1) \div 2
<1>1. x \in Nat
  OBVIOUS
<1>2. q \in Nat /\ q * w <= x /\ x < (q + 1) * w
  BY <1>1, Z3
<1> HIDE DEF q
<1>3. h \in Nat /\ 2 * h <= q + 1 /\ q + 1 <= 2 * h + 1
  BY <1>2, Z3
<1> HIDE DEF h
<1>4. (2 * h) * w <= (q + 1) * w /\ (q + 1) * w <= (2 * h + 1) * w
  BY <1>2, <1>3, Z3
<1>5. h * (2 * w) <= n + 2 * w - 1 /\ n + 2 * w - 1 < (h + 1) * (2 * w)
  <2>1. (2 * h) * w = h * (2 * w) /\ (q + 1) * w = q * w + w
    BY <1>2, <1>3, Z3
  <2>2. (2 * h + 1) * w = h * (2 * w) + w /\ (h + 1) * (2 * w) = h * (2 * w) + 2 * w
    BY <1>3, Z3
  <2>3. q * w \in Int /\ h * (2 * w) \in Int
    BY <1>2, <1>3, Z3
  <2> QED
    BY <1>2, <1>4, <2>1, <2>2, <2>3, Z3
<1>6. h = (n + 2 * w - 1) \div (2 * w)
  <2> DEFINE y == n + 2 * w - 1
             d == 2 * w
             r == y \div d
  <2>1. y \in Nat /\ d \in Nat /\ d >= 1
    OBVIOUS
  <2>2. r \in Nat /\ r * d <= y /\ y < (r + 1) * d
    <3> HIDE DEF y, d
    <3> QED
      BY <2>1, Z3
  <2>3. h * d <= y /\ y < (h + 1) * d
    BY <1>5
  <2> HIDE DEF y, d, r
  <2>4. ~(h < r)
    <3> SUFFICES ASSUME h + 1 <= r PROVE FALSE
      BY <1>3, <2>2
    <3>1. (h + 1) * d <= r * d
      BY <1>3, <2>1, <2>2, Z3
    <3>2. (h + 1) * d \in Int /\ r * d \in Int
      BY <1>3, <2>1, <2>2
    <3> QED
      BY <3>1, <3>2, <2>1, <2>2, <2>3
  <2>5. ~(r < h)
    <3> SUFFICES ASSUME r + 1 <= h PROVE FALSE
      BY <1>3, <2>2
    <3>1. (r + 1) * d <= h * d
      BY <1>3, <2>1, <2>2, Z3
    <3>2. (r + 1) * d \in Int /\ h * d \in Int
      BY <1>3, <2>1, <2>2
    <3> QED
      BY <3>1, <3>2, <2>1, <2>2, <2>3
  <2>6. h = r
    BY <2>4, <2>5, <1>3, <2>2
  <2> QED
    BY <2>6 DEF r, y, d
<1> QED
  BY <1>2, <1>6 DEF q, h

(***************************************************************************)
(* Sequences of values of no particular type.                              *)
(***************************************************************************)
IsSeq(s) == \E S : s \in Seq(S)

LEMMA TabulatedSeq ==
    ASSUME NEW n \in Nat, NEW f, f = [k \in 1..n |-> f[k]]
    PROVE  IsSeq(f) /\ Len(f) = n
<1>1. f \in [1..n -> {f[k] : k \in 1..n}]
  OBVIOUS
<1>2. f \in Seq({f[k] : k \in 1..n}) /\ Len(f) = n
  BY <1>1
<1> QED
  BY <1>2 DEF IsSeq

LEMMA LongerSeq ==
    ASSUME NEW s, IsSeq(s), NEW e
    PROVE  IsSeq(Append(s, e)) /\ Len(Append(s, e)) = Len(s) + 1 /\ Len(s) \in Nat
<1>1. PICK S : s \in Seq(S)
  BY DEF IsSeq
<1>2. s \in Seq(S \cup {e})
  <2>1. s \in [1..Len(s) -> S] /\ Len(s) \in Nat
    BY <1>1
  <2>2. s \in [1..Len(s) -> S \cup {e}]
    BY <2>1
  <2> QED
    BY <2>1, <2>2
<1>3. Append(s, e) \in Seq(S \cup {e}) /\ Len(Append(s, e)) = Len(s) + 1
  BY <1>2
<1> QED
  BY <1>1, <1>3 DEF IsSeq

\* Two tables one behind the other make one table.
LEMMA TablesJoin ==
    ASSUME NEW n \in Nat, NEW m \in Nat, NEW F,
           NEW s, s = [k \in 1..n |-> F[k]],
           NEW t, t = [k \in 1..m |-> F[n + k]]
    PROVE  s \o t = [k \in 1..n + m |-> F[k]]
<1> DEFINE S == {F[k] : k \in 1..n + m}
<1>1. s \in Seq(S) /\ Len(s) = n
  <2>1. \A k \in 1..n : k \in 1..n + m
    OBVIOUS
  <2>2. s \in [1..n -> S]
    BY <2>1
  <2> HIDE DEF S
  <2> QED
    BY <2>2
<1>2. t \in Seq(S) /\ Len(t) = m
  <2>1. \A k \in 1..m : n + k \in 1..n + m
    OBVIOUS
  <2>2. t \in [1..m -> S]
    BY <2>1
  <2> HIDE DEF S
  <2> QED
    BY <2>2
<1> HIDE DEF S
<1>3. s \o t \in Seq(S) /\ Len(s \o t) = n + m
  BY <1>1, <1>2
<1>4. s \o t = [k \in 1..n + m |-> (s \o t)[k]]
  BY <1>3
<1>5. ASSUME NEW k \in 1..n + m PROVE (s \o t)[k] = F[k]
  <2>1. CASE k <= n
    <3>1. (s \o t)[k] = s[k]
      BY <1>1, <1>2, <2>1
    <3>2. k \in 1..n
      BY <2>1
    <3> QED
      BY <3>1, <3>2
  <2>2. CASE ~(k <= n)
    <3>1. (s \o t)[k] = t[k - n]
      BY <1>1, <1>2, <2>2
    <3>2. k - n \in 1..m /\ n + (k - n) = k
      BY <2>2
    <3> QED
      BY <3>1, <3>2
  <2> QED
    BY <2>1, <2>2
<1> QED
  BY <1>4, <1>5

\* Two sequences that agree at every step they agree up to are the same.
LEMMA StepsAgree ==
    ASSUME NEW n \in Nat, NEW p, NEW q, p[0] = q[0],
           \A m \in 1..n : p[m - 1] = q[m - 1] => p[m] = q[m]
    PROVE  \A m \in 0..n : p[m] = q[m]
<1> DEFINE S == {m \in Nat : m <= n => p[m] = q[m]}
<1>1. 0 \in S
  OBVIOUS
<1>2. ASSUME NEW m \in Nat, m \in S PROVE m + 1 \in S
  <2> SUFFICES ASSUME m + 1 <= n PROVE p[m + 1] = q[m + 1]
    OBVIOUS
  <2>1. m + 1 \in 1..n /\ (m + 1) - 1 = m /\ p[m] = q[m]
    BY <1>2
  <2> QED
    BY <2>1
<1>3. \A m \in Nat : m \in S
  <2> HIDE DEF S
  <2> QED
    BY <1>1, <1>2, NatSetInduction
<1> QED
  BY <1>3

(***************************************************************************)
(* Tables joined one behind the other, as a recursive function joins them, *)
(* make up one table: table m of n holds F from u[m - 1] on, up to u[m].   *)
(***************************************************************************)
Joins(n, t, f) == f = [m \in 0..n |-> IF m = 0 THEN <<>> ELSE f[m - 1] \o t[m]]

TableOf(F, n) == [k \in 1..n |-> F[k]]
Tables(n, t, u, F) ==
    /\ n \in Nat /\ u[0] = 0 /\ \A m \in 0..n : u[m] \in Nat
    /\ \A m \in 1..n : /\ u[m - 1] <= u[m]
                       /\ t[m] = [k \in 1..u[m] - u[m - 1] |-> F[u[m - 1] + k]]

LEMMA TablesSum ==
    ASSUME NEW n, NEW t, NEW F, NEW u, Tables(n, t, u, F)
    PROVE  /\ \E f : Joins(n, t, f)
           /\ \A f : Joins(n, t, f) => f[n] = TableOf(F, u[n])
<1>0. /\ n \in Nat /\ u[0] = 0 /\ \A m \in 0..n : u[m] \in Nat
      /\ \A m \in 1..n : /\ u[m - 1] <= u[m]
                         /\ t[m] = [k \in 1..u[m] - u[m - 1] |-> F[u[m - 1] + k]]
  BY DEF Tables
<1> DEFINE g == [m \in 0..n |-> [k \in 1..u[m] |-> F[k]]]
<1>1. g[0] = <<>>
  BY <1>0
<1>2. ASSUME NEW m \in 1..n PROVE g[m] = g[m - 1] \o t[m]
  <2>0. u[m] \in Nat /\ u[m - 1] \in Nat /\ u[m - 1] <= u[m]
    <3>1. m \in 0..n /\ m - 1 \in 0..n
      BY <1>0
    <3> QED
      BY <1>0, <3>1
  <2> PICK a \in Nat : a = u[m - 1]
    BY <2>0
  <2> PICK b \in Nat : b = u[m] - u[m - 1]
    BY ONLY <2>0
  <2>1. g[m - 1] = [k \in 1..a |-> F[k]] /\ t[m] = [k \in 1..b |-> F[a + k]]
    BY <1>0
  <2>2. g[m] = [k \in 1..u[m] |-> F[k]] /\ u[m] = a + b
    BY <1>0, <2>0
  <2> PICK p : p = g[m - 1]
    OBVIOUS
  <2> PICK q : q = t[m]
    OBVIOUS
  <2>3. p \o q = [k \in 1..a + b |-> F[k]]
    <3>1. p = [k \in 1..a |-> F[k]] /\ q = [k \in 1..b |-> F[a + k]]
      BY ONLY <2>1, p = g[m - 1], q = t[m]
    <3> QED
      BY ONLY <3>1, a \in Nat, b \in Nat, TablesJoin
  <2> QED
    BY ONLY <2>2, <2>3, p = g[m - 1], q = t[m]
<1>3. g = [m \in 0..n |-> g[m]] /\ g[n] = [k \in 1..u[n] |-> F[k]]
  BY <1>0
<1> HIDE DEF g
<1>4. Joins(n, t, g)
  <2>1. \A m \in 0..n : g[m] = IF m = 0 THEN <<>> ELSE g[m - 1] \o t[m]
    <3>1. \A m \in 0..n : m # 0 => m \in 1..n
      BY <1>0
    <3> QED
      BY <1>1, <1>2, <3>1
  <2> QED
    BY ONLY <1>3, <2>1, Zenon DEF Joins
<1>5. ASSUME NEW f, Joins(n, t, f) PROVE f[n] = TableOf(F, u[n])
  <2>1. f[0] = <<>> /\ \A m \in 1..n : f[m] = f[m - 1] \o t[m]
    <3>1. f = [m \in 0..n |-> IF m = 0 THEN <<>> ELSE f[m - 1] \o t[m]]
      BY <1>5 DEF Joins
    <3>2. 0 \in 0..n /\ \A m \in 1..n : m \in 0..n /\ m # 0
      BY <1>0
    <3> QED
      BY ONLY <3>1, <3>2, Zenon
  <2>2. \A m \in 1..n : f[m - 1] = g[m - 1] => f[m] = g[m]
    BY <1>2, <2>1
  <2>3. f[0] = g[0] /\ n \in 0..n
    BY <1>0, <1>1, <2>1
  <2>4. f[n] = g[n]
    <3>1. \A m \in 0..n : f[m] = g[m]
      <4>1. n \in Nat
        BY <1>0
      <4> QED
        BY ONLY <4>1, <2>2, <2>3, StepsAgree, Zenon
    <3> QED
      BY <2>3, <3>1
  <2> QED
    BY <1>3, <2>4 DEF TableOf
<1> QED
  BY <1>4, <1>5, Zenon

\* The part of a sequence that a slice within it holds.
LEMMA SliceInside ==
    ASSUME NEW s, IsSeq(s), NEW a \in Nat, NEW n \in Nat, a + n <= Len(s)
    PROVE  \A k \in 1..n : SubSeq(s, a + 1, a + n)[k] = s[a + k]
<1>1. PICK S : s \in Seq(S)
  BY DEF IsSeq
<1>2. Len(s) \in Nat
  BY <1>1
<1> QED
  BY <1>1, <1>2
=============================================================================
