--------------------------- MODULE WarmCoverProofs ---------------------------
(***************************************************************************)
(* Proofs about WarmCover for every dump, manifest, chip set and quantizer *)
(* constant.  First, what the quantizers and the class math of             *)
(* CompileClasses do for every headroom, quantum and analyze record.       *)
(***************************************************************************)
EXTENDS WarmCover, TLAPS, FiniteSetTheorems

-----------------------------------------------------------------------------
(* Division.                                                               *)

LEMMA DivFact == ASSUME NEW a \in Nat, NEW b \in Nat, b > 0
                 PROVE  /\ (a \div b) \in Nat
                        /\ b * (a \div b) <= a
                        /\ a < b * (a \div b) + b
BY Z3

\* CeilDiv is the least quotient that reaches its first argument.
LEMMA CeilFact == ASSUME NEW a \in Nat, NEW b \in Nat, b > 0
                  PROVE  /\ CeilDiv(a, b) \in Nat
                         /\ a <= b * CeilDiv(a, b)
                         /\ b * CeilDiv(a, b) < a + b
<1> DEFINE c == a + b - 1
           q == c \div b
<1>1. c \in Nat
  OBVIOUS
<1>2. q \in Nat /\ b * q <= c /\ c < b * q + b
  BY <1>1, DivFact
<1>3. CeilDiv(a, b) = q
  BY DEF CeilDiv
<1> HIDE DEF q
<1>4. b * q \in Int
  BY <1>2
<1> QED
  BY <1>2, <1>3, <1>4

LEMMA MulMonotone == ASSUME NEW b \in Nat, NEW x \in Nat, NEW y \in Nat, x <= y
                     PROVE  b * x \in Nat /\ b * y \in Nat /\ b * x <= b * y
BY Z3

\* A larger dividend has no smaller quotient.
LEMMA CeilMonotone == ASSUME NEW a \in Nat, NEW d \in Nat, a <= d,
                             NEW b \in Nat, b > 0
                      PROVE  CeilDiv(a, b) <= CeilDiv(d, b)
<1> DEFINE x == CeilDiv(a, b)
           y == CeilDiv(d, b)
<1>1. x \in Nat /\ b * x < a + b
  BY CeilFact
<1>2. y \in Nat /\ d <= b * y
  BY CeilFact
<1> HIDE DEF x, y
<1>3. SUFFICES ASSUME y + 1 <= x PROVE FALSE
  BY <1>1, <1>2 DEF x, y
<1>4. b * (y + 1) <= b * x /\ b * (y + 1) \in Nat /\ b * x \in Nat
  BY <1>1, <1>2, <1>3, MulMonotone
<1>5. b * (y + 1) = b * y + b /\ b * y \in Nat
  BY <1>2, Z3
<1> QED
  BY <1>1, <1>2, <1>4, <1>5

-----------------------------------------------------------------------------
(* Quantizers.                                                             *)

\* A quantized cap is a multiple of the quantum, bounds what it was made from
\* with the whole headroom, and exceeds that by less than one quantum and one
\* unit: _quantize pins neither below the shard nor a quantum too high.
THEOREM QuantizeCovers ==
    ASSUME NEW x \in Nat, NEW num \in Nat, NEW den \in Nat \ {0},
           NEW quantum \in Nat \ {0}
    PROVE  /\ Quantize(x, <<num, den>>, quantum) \in Nat
           /\ x <= Quantize(x, <<num, den>>, quantum)
           /\ \E k \in Nat : Quantize(x, <<num, den>>, quantum) = quantum * k
           /\ x * (den + num) <= den * Quantize(x, <<num, den>>, quantum)
           /\ Quantize(x, <<num, den>>, quantum)
                < CeilDiv(x * (den + num), den) + quantum
<1> DEFINE scaled == x * (den + num)
           padded == CeilDiv(scaled, den)
           k == CeilDiv(padded, quantum)
           cap == k * quantum
<1>1. scaled \in Nat /\ den * x <= scaled
  <2>1. scaled = x * den + x * num /\ x * den \in Nat /\ x * num \in Nat /\ x * den = den * x
    BY Z3
  <2> QED
    BY <2>1
<1>2. padded \in Nat /\ scaled <= den * padded
  BY <1>1, CeilFact
<1>5. Quantize(x, <<num, den>>, quantum) = cap
  BY DEF Quantize
<1> HIDE DEF scaled, padded
<1>3. k \in Nat /\ padded <= quantum * k /\ quantum * k < padded + quantum
  BY <1>2, CeilFact
<1> HIDE DEF k
<1>4. cap = quantum * k /\ cap \in Nat
  BY <1>3, Z3
<1> HIDE DEF cap
<1>6. padded <= cap
  BY <1>3, <1>4
<1>7. den * padded <= den * cap /\ den * padded \in Nat /\ den * cap \in Nat
  BY <1>2, <1>4, <1>6, MulMonotone
<1>8. scaled <= den * cap
  BY <1>1, <1>2, <1>7
<1>9. x <= cap
  <2>1. SUFFICES ASSUME cap + 1 <= x PROVE FALSE
    BY <1>4
  <2>2. den * (cap + 1) <= den * x /\ den * (cap + 1) \in Nat /\ den * x \in Nat
    BY <2>1, <1>4, MulMonotone
  <2>3. den * (cap + 1) = den * cap + den
    BY <1>4, Z3
  <2> QED
    BY <1>1, <1>7, <1>8, <2>2, <2>3
<1> QED
  BY <1>3, <1>4, <1>5, <1>8, <1>9 DEF scaled, padded

-----------------------------------------------------------------------------
(* Maxima.                                                                 *)

\* A finite set of integers has a largest element: a least subset without one
\* would lose that defect with any of its elements.
LEMMA FiniteMax ==
    ASSUME NEW S, IsFiniteSet(S), S \subseteq Int, S # {}
    PROVE  Max(S) \in S /\ \A y \in S : y <= Max(S)
<1> DEFINE HasMax(U) == \E x \in U : \A y \in U : x >= y
           T == {U \in SUBSET S : U # {} /\ ~HasMax(U)}
<1>1. T = {}
  <2>1. SUFFICES ASSUME T # {} PROVE FALSE
    OBVIOUS
  <2>2. T \subseteq FiniteSubsetsOf(S)
    BY FS_Subset DEF FiniteSubsetsOf
  <2>3. PICK U \in T : \A V \in T : <<V, U>> \notin StrictSubsetOrdering(S)
    <3>1. IsWellFoundedOn(StrictSubsetOrdering(S), FiniteSubsetsOf(S))
      BY FS_StrictSubsetOrderingWellFounded
    <3> QED
      BY <2>1, <2>2, <3>1, WFMin
  <2>4. U \subseteq S /\ U # {} /\ ~HasMax(U)
    OBVIOUS
  <2>5. PICK e \in U : TRUE
    BY <2>4
  <2> DEFINE V == U \ {e}
  <2>6. V \in SUBSET S /\ <<V, U>> \in StrictSubsetOrdering(S)
    BY <2>4, <2>5 DEF StrictSubsetOrdering
  <2>7. V \notin T
    BY <2>3, <2>6
  <2>8. CASE V = {}
    <3>1. U = {e} /\ e \in Int
      BY <2>4, <2>5, <2>8
    <3> QED
      BY <2>4, <3>1
  <2>9. CASE HasMax(V)
    <3>1. PICK x \in V : \A y \in V : x >= y
      BY <2>9
    <3>2. x \in U /\ x \in Int /\ e \in Int
      BY <2>4, <2>5, <3>1
    <3>3. CASE x >= e
      BY <2>4, <3>1, <3>2, <3>3
    <3>4. CASE e > x
      <4>1. \A y \in U : y \in Int /\ e >= y
        BY <2>4, <3>1, <3>2, <3>4
      <4> QED
        BY <2>4, <2>5, <4>1
    <3> QED
      BY <3>2, <3>3, <3>4
  <2> QED
    BY <2>6, <2>7, <2>8, <2>9
<1>2. HasMax(S)
  BY <1>1
<1> QED
  BY <1>2 DEF Max

\* The maximum and the minimum of two integers.
LEMMA MaxOfPair == ASSUME NEW a \in Int, NEW b \in Int
                   PROVE  /\ Max({a, b}) \in {a, b} /\ a <= Max({a, b}) /\ b <= Max({a, b})
                          /\ Min({a, b}) \in {a, b} /\ Min({a, b}) <= a /\ Min({a, b}) <= b
<1>1. \E x \in {a, b} : \A y \in {a, b} : x >= y
  OBVIOUS
<1>2. \E x \in {a, b} : \A y \in {a, b} : x <= y
  OBVIOUS
<1> QED
  BY <1>1, <1>2 DEF Max, Min

\* The slack of a height is a number of rows within the two bounds, the lower
\* one first.
LEMMA SlackBounds == ASSUME NEW h \in Nat
                     PROVE  /\ HeightSlack(h) \in Nat
                            /\ HeightSlack(h) <= HeightMaxSlack
                            /\ HeightMinSlack <= HeightMaxSlack => HeightMinSlack <= HeightSlack(h)
<1> DEFINE share == CeilDiv(h * HeightHeadroom[1], HeightHeadroom[2])
           lower == Max({share, HeightMinSlack})
<1>1. HeightHeadroom[1] \in Nat /\ HeightHeadroom[2] \in Nat /\ HeightHeadroom[2] > 0
  BY QuantizerAssumption DEF Headrooms
<1>2. h * HeightHeadroom[1] \in Nat
  BY <1>1, Z3
<1>3. share \in Nat
  BY <1>1, <1>2, CeilFact
<1>4. HeightMinSlack \in Nat /\ HeightMaxSlack \in Nat
  BY QuantizerAssumption
<1> HIDE DEF share
<1>5. lower \in Nat /\ HeightMinSlack <= lower
  <2>1. share \in Int /\ HeightMinSlack \in Int
    BY <1>3, <1>4
  <2>2. /\ Max({share, HeightMinSlack}) \in {share, HeightMinSlack}
        /\ HeightMinSlack <= Max({share, HeightMinSlack})
    BY <2>1, MaxOfPair
  <2> QED
    BY <1>3, <1>4, <2>2
<1>6. HeightSlack(h) = Min({lower, HeightMaxSlack})
  BY DEF HeightSlack, share
<1> HIDE DEF lower
<1>7. lower \in Int /\ HeightMaxSlack \in Int
  BY <1>4, <1>5
<1>8. /\ Min({lower, HeightMaxSlack}) \in {lower, HeightMaxSlack}
      /\ Min({lower, HeightMaxSlack}) <= HeightMaxSlack
  BY <1>7, MaxOfPair
<1> QED
  BY <1>4, <1>5, <1>6, <1>8

\* quantize_height: a quantized height bounds the height with its whole slack.
THEOREM QuantizeHeightCovers ==
    ASSUME NEW h \in Nat
    PROVE  /\ QuantizeHeight(h) \in Nat
           /\ h + HeightSlack(h) <= QuantizeHeight(h)
           /\ h <= QuantizeHeight(h)
           /\ QuantizeHeight(h) < h + HeightSlack(h) + HeightQuantum
<1> DEFINE padded == h + HeightSlack(h)
           k == CeilDiv(padded, HeightQuantum)
<1>1. padded \in Nat /\ h <= padded
  BY SlackBounds
<1>2. HeightQuantum \in Nat /\ HeightQuantum > 0
  BY QuantizerAssumption
<1>3. QuantizeHeight(h) = k * HeightQuantum
  BY DEF QuantizeHeight
<1> HIDE DEF padded
<1>4. k \in Nat /\ padded <= HeightQuantum * k /\ HeightQuantum * k < padded + HeightQuantum
  BY <1>1, <1>2, CeilFact
<1> HIDE DEF k
<1>5. k * HeightQuantum = HeightQuantum * k /\ k * HeightQuantum \in Nat
  BY <1>2, <1>4, Z3
<1> QED
  BY <1>1, <1>2, <1>3, <1>4, <1>5 DEF padded

-----------------------------------------------------------------------------
(* The cover.                                                              *)

LEMMA KindsFact == DOMAIN Kinds = 1..4 /\ Len(Kinds) = 4 /\ VisitedKinds = 4
BY DEF Kinds, VisitedKinds

-----------------------------------------------------------------------------
(* Types.                                                                  *)

\* The initial state has the types.
LEMMA InitTypeOK == Init => TypeOK
BY DEF Init, TypeOK, Shards

\* Every step keeps the variables in their types.
LEMMA TypeStep == TypeOK /\ [Next]_vars => TypeOK'
<1> SUFFICES ASSUME TypeOK, [Next]_vars PROVE TypeOK'
  OBVIOUS
<1> USE KindsFact DEF TypeOK, Shards
<1>1. ASSUME NEW n \in Shards, Visit(n) PROVE TypeOK'
  BY <1>1 DEF Visit
<1>2. ASSUME NEW n \in Shards, Warm(n) PROVE TypeOK'
  BY <1>2 DEF Warm
<1>3. CASE NextKind
  BY <1>3 DEF NextKind
<1>4. CASE Check
  BY <1>4 DEF Check
<1>5. CASE Served
  BY <1>5 DEF Served
<1>6. CASE UNCHANGED vars
  BY <1>6 DEF vars
<1> QED
  BY <1>1, <1>2, <1>3, <1>4, <1>5, <1>6 DEF Next, Ended

\* Every variable has its type in every reachable state.
THEOREM CoverTypeCorrect == Spec => []TypeOK
BY InitTypeOK, TypeStep, PTL DEF Spec

-----------------------------------------------------------------------------
(* The greedy loop.                                                        *)

\* No step changes what the keys are computed from.
LEMMA KeysFixed == [Next]_vars => /\ dump' = dump /\ manifest' = manifest
                                  /\ perClass' = perClass /\ Shards' = Shards
BY DEF Next, vars, Visit, Warm, NextKind, Check, Served, Ended, Shards

LEMMA PairsFixed ==
    ASSUME [Next]_vars
    PROVE  \A k, n : /\ CoverPair(k, n)' = CoverPair(k, n)
                     /\ CoverPairs(n)' = CoverPairs(n)
                     /\ ProvePairs(n)' = ProvePairs(n)
<1>1. \A k, n : CoverPair(k, n)' = CoverPair(k, n)
  BY KeysFixed DEF CoverPair
<1>2. \A n : CoverPairs(n)' = CoverPairs(n)
  BY <1>1 DEF CoverPairs
<1>3. \A n : ProvePairs(n)' = ProvePairs(n)
  BY KeysFixed DEF ProvePairs, ProvePairsUnder
<1> QED
  BY <1>1, <1>2, <1>3

LEMMA InitCoverInv == Init => CoverInv
BY KindsFact DEF Init, CoverInv, Shards

\* The loop keeps its promise for the kinds and shards it is through with.
LEMMA CoverStep == TypeOK /\ CoverInv /\ [Next]_vars => CoverInv'
<1> SUFFICES ASSUME TypeOK, CoverInv, [Next]_vars PROVE CoverInv'
  OBVIOUS
<1>a. kind \in 1..4 /\ DOMAIN Kinds = 1..4 /\ Len(Kinds) = 4
  BY KindsFact DEF TypeOK
<1>b. /\ perClass' = perClass /\ Shards' = Shards
      /\ \A k, n : CoverPair(k, n)' = CoverPair(k, n)
      /\ \A n : CoverPairs(n)' = CoverPairs(n)
  BY KeysFixed, PairsFixed
<1>1. ASSUME NEW n \in Shards, Visit(n) PROVE CoverInv'
  <2>1. perClass /\ pc = "select" /\ pc' = "select" /\ kind' = kind /\ todo' = todo \ {n}
    BY <1>1 DEF Visit, CoverInv
  <2>2. CoverPair(kind, n) \in covered' /\ covered \subseteq covered'
    BY <1>1, <1>a DEF Visit, CoverPairs
  <2>3. covered' = UNION {CoverPairs(m) : m \in selected'}
    BY <1>1, <2>1 DEF Visit, CoverInv
  <2>4. \A k \in DOMAIN Kinds : \A m \in Shards :
            k < kind \/ (k = kind /\ m \notin todo') => CoverPair(k, m) \in covered'
    BY <2>1, <2>2 DEF CoverInv
  <2> QED
    BY <1>b, <2>1, <2>3, <2>4 DEF CoverInv
<1>2. ASSUME NEW n \in Shards, Warm(n) PROVE CoverInv'
  BY <1>2, <1>b DEF Warm, CoverInv
<1>3. CASE NextKind
  <2>1. perClass /\ pc = "select" /\ todo = {}
    BY <1>3 DEF NextKind, CoverInv
  <2>2. \A k \in DOMAIN Kinds : \A m \in Shards :
            k <= kind => CoverPair(k, m) \in covered
    BY <1>a, <2>1 DEF CoverInv
  <2>3. covered' = covered /\ selected' = selected
    BY <1>3 DEF NextKind
  <2>4. CASE kind < 4
    <3>1. kind' = kind + 1 /\ todo' = Shards /\ pc' = pc
      BY <1>3, <2>4, KindsFact DEF NextKind
    <3> QED
      BY <1>a, <1>b, <2>1, <2>2, <2>3, <3>1 DEF CoverInv
  <2>5. CASE kind = 4
    <3>1. kind' = kind /\ todo' = todo /\ pc' = "check"
      BY <1>3, <2>5, KindsFact DEF NextKind
    <3> QED
      BY <1>a, <1>b, <2>1, <2>2, <2>3, <2>5, <3>1 DEF CoverInv
  <2> QED
    BY <1>a, <2>4, <2>5
<1>4. CASE Check
  BY <1>4, <1>b DEF Check, CoverInv
<1>5. CASE Served
  BY <1>5, <1>b DEF Served, CoverInv
<1>6. CASE UNCHANGED vars
  BY <1>6, <1>b DEF vars, CoverInv
<1> QED
  BY <1>1, <1>2, <1>3, <1>4, <1>5, <1>6 DEF Next, Ended

\* In every reachable state the loop's promise holds.
THEOREM CoverInductive == Spec => [](TypeOK /\ CoverInv)
<1>1. Init => TypeOK /\ CoverInv
  BY InitTypeOK, InitCoverInv
<1>2. TypeOK /\ CoverInv /\ [Next]_vars => (TypeOK /\ CoverInv)'
  BY TypeStep, CoverStep
<1> QED
  BY <1>1, <1>2, PTL DEF Spec

\* Once the loop is left, every pair of every shard is one a selected shard
\* counts for.
LEMMA SelectedCarry ==
    ASSUME TypeOK, CoverInv, pc # "select",
           NEW n \in Shards, NEW k \in DOMAIN Kinds
    PROVE  \E m \in selected : CoverPair(k, n) \in CoverPairs(m)
<1>1. CASE perClass
  <2>1. CoverPair(k, n) \in covered
    BY <1>1, KindsFact DEF CoverInv
  <2> QED
    BY <1>1, <2>1 DEF CoverInv
<1>2. CASE ~perClass
  BY <1>2 DEF CoverInv, CoverPairs
<1> QED
  BY <1>1, <1>2 DEF TypeOK

LEMMA CheckPasses == TypeOK /\ CoverInv /\ SelectionCovers /\ [Next]_vars => SelectionCovers'
<1> SUFFICES ASSUME TypeOK, CoverInv, SelectionCovers, [Next]_vars PROVE pc' # "raised"
  BY DEF SelectionCovers
<1>1. CASE Check
  <2>1. \A n \in Shards : CoverPairs(n) \subseteq UNION {CoverPairs(m) : m \in selected}
    BY <1>1, SelectedCarry DEF Check, CoverPairs
  <2>2. UNION {CoverPairs(n) : n \in Shards} \subseteq UNION {CoverPairs(m) : m \in selected}
    BY <2>1
  <2> QED
    BY <1>1, <2>2 DEF Check
<1>2. ASSUME NEW n \in Shards, Visit(n) \/ Warm(n) PROVE pc' # "raised"
  BY <1>2 DEF Visit, Warm, SelectionCovers
<1>3. CASE NextKind \/ Served \/ UNCHANGED vars
  BY <1>3 DEF NextKind, Served, vars, SelectionCovers
<1> QED
  BY <1>1, <1>2, <1>3 DEF Next, Ended

\* select_warm_shards never fails its own contract check: whatever the dump
\* and the manifest, the greedy selection leaves no key out.
THEOREM SelectionIsCover == Spec => []SelectionCovers
<1>1. Init => SelectionCovers
  BY DEF Init, SelectionCovers
<1> QED
  BY <1>1, CheckPasses, CoverInductive, PTL DEF Spec

-----------------------------------------------------------------------------
(* The carriers.                                                           *)

\* The areas of a dump's shards are numbers.
LEMMA AreaType == TypeOK => \A n \in Shards : dump[n].area \in Nat /\ n \in Nat
BY CoverAssumption DEF TypeOK, IsDump, Shards

LEMMA InitAreaInv == Init => AreaInv
BY DEF Init, AreaInv, Shards

\* The first kind is walked by falling area, so whoever covers a zerocheck key
\* is the largest of those that have it.
LEMMA AreaStep == TypeOK /\ CoverInv /\ AreaInv /\ [Next]_vars => AreaInv'
<1> SUFFICES ASSUME TypeOK, CoverInv, AreaInv, [Next]_vars PROVE AreaInv'
  OBVIOUS
<1>a. /\ perClass' = perClass /\ Shards' = Shards /\ dump' = dump
      /\ \A k, n : CoverPair(k, n)' = CoverPair(k, n)
  BY KeysFixed, PairsFixed
<1>b. \A n \in Shards : dump[n].area \in Nat
  BY AreaType
<1>1. ASSUME NEW n \in Shards, Visit(n) PROVE AreaInv'
  <2>1. perClass /\ pc = "select" /\ kind' = kind /\ todo' = todo \ {n}
    BY <1>1 DEF Visit, CoverInv
  <2>2. selected' \subseteq selected \cup {n} /\ selected \subseteq selected'
    BY <1>1 DEF Visit
  <2>3. kind > 1 => AreaInv'
    BY <1>a, <2>1, <2>2 DEF AreaInv, TypeOK
  <2>4. CASE kind = 1
    <3>1. n \in todo /\ selected \cap todo = {}
      BY <1>1, <2>1, <2>4 DEF Visit, AreaInv
    <3>2. \A m \in Shards \ todo' : \A l \in todo' : dump[m].area >= dump[l].area
      <4>1. \A l \in todo \ {n} : dump[n].area >= dump[l].area
        BY <1>1, <1>b DEF Visit, Leads, TypeOK
      <4> QED
        BY <2>1, <2>4, <4>1 DEF AreaInv, TypeOK
    <3>3. selected' \cap todo' = {}
      BY <2>1, <2>2, <3>1
    <3>4. \E m \in selected' : /\ CoverPair(1, m) = CoverPair(1, n)
                               /\ dump[m].area >= dump[n].area
      <4>1. CASE CoverPair(1, n) \in covered
        <5>1. PICK m \in selected : CoverPair(1, n) \in CoverPairs(m)
          BY <2>1, <4>1 DEF CoverInv
        <5>2. PICK k \in 1..4 : CoverPair(1, n) = CoverPair(k, m)
          BY <5>1, KindsFact DEF CoverPairs
        <5>3. k = 1
          BY <5>2 DEF CoverPair, Kinds
        <5>4. m \in Shards \ todo
          BY <3>1, <5>1 DEF TypeOK
        <5>5. dump[m].area >= dump[n].area
          BY <2>1, <2>4, <3>1, <5>4 DEF AreaInv
        <5> QED
          BY <2>2, <5>1, <5>2, <5>3, <5>5
      <4>2. CASE CoverPair(1, n) \notin covered
        BY <1>1, <1>b, <2>4, <4>2 DEF Visit
      <4> QED
        BY <4>1, <4>2
    <3>5. \A l \in Shards : l \notin todo' =>
              \E m \in selected' : /\ CoverPair(1, m) = CoverPair(1, l)
                                   /\ dump[m].area >= dump[l].area
      BY <2>1, <2>2, <2>4, <3>4 DEF AreaInv
    <3> QED
      BY <1>a, <2>1, <2>4, <3>2, <3>3, <3>5 DEF AreaInv
  <2> QED
    BY <2>3, <2>4 DEF TypeOK
<1>2. CASE NextKind
  <2>1. perClass /\ todo = {} /\ selected' = selected /\ kind' \in {kind, kind + 1}
    BY <1>2 DEF NextKind, CoverInv
  <2>2. CASE kind' = kind + 1
    BY <1>a, <2>1, <2>2 DEF AreaInv, TypeOK
  <2>3. CASE kind' = kind
    <3>1. todo' = todo
      BY <1>2, <2>3 DEF NextKind, TypeOK
    <3> QED
      BY <1>a, <2>1, <2>3, <3>1 DEF AreaInv
  <2> QED
    BY <2>1, <2>2, <2>3
<1>3. ASSUME NEW n \in Shards, Warm(n) PROVE AreaInv'
  BY <1>3, <1>a DEF Warm, AreaInv
<1>4. CASE Check \/ Served \/ UNCHANGED vars
  BY <1>4, <1>a DEF Check, Served, vars, AreaInv
<1> QED
  BY <1>1, <1>2, <1>3, <1>4 DEF Next, Ended

\* A shard that carries the key of another one at the first kind has its
\* zerocheck key.
LEMMA FirstKind == \A n, m : CoverPair(1, m) = CoverPair(1, n) =>
    CoverKeys(dump, manifest, m).zerocheck = CoverKeys(dump, manifest, n).zerocheck
BY DEF CoverPair, Kinds

\* Every zerocheck class is warmed by its area-max carrier.
THEOREM CarrierIsAreaMax == Spec => []AreaMaxCarrier
<1>1. TypeOK /\ CoverInv /\ AreaInv => AreaMaxCarrier
  <2> SUFFICES ASSUME TypeOK, CoverInv, AreaInv, pc \in {"warm", "served"},
                      NEW n \in Shards
               PROVE  \E m \in selected :
                        /\ CoverKeys(dump, manifest, m).zerocheck
                             = CoverKeys(dump, manifest, n).zerocheck
                        /\ dump[m].area >= dump[n].area
    BY DEF AreaMaxCarrier
  <2>1. CASE perClass
    <3>1. n \notin todo
      BY <2>1 DEF CoverInv
    <3>2. PICK m \in selected : /\ CoverPair(1, m) = CoverPair(1, n)
                               /\ dump[m].area >= dump[n].area
      BY <2>1, <3>1 DEF AreaInv
    <3> QED
      BY <3>2, FirstKind
  <2>2. CASE ~perClass
    BY <2>2, AreaType DEF CoverInv
  <2> QED
    BY <2>1, <2>2 DEF TypeOK
<1>2. Init => TypeOK /\ CoverInv /\ AreaInv
  BY InitTypeOK, InitCoverInv, InitAreaInv
<1>3. TypeOK /\ CoverInv /\ AreaInv /\ [Next]_vars => (TypeOK /\ CoverInv /\ AreaInv)'
  BY TypeStep, CoverStep, AreaStep
<1> QED
  BY <1>1, <1>2, <1>3, PTL DEF Spec

-----------------------------------------------------------------------------
(* The cache.                                                              *)

LEMMA InitCacheInv == Init => CacheInv
BY DEF Init, CacheInv

\* The cache holds what the workers that did not fail asked for.
LEMMA CacheStep == TypeOK /\ CacheInv /\ [Next]_vars => CacheInv'
<1> SUFFICES ASSUME TypeOK, CacheInv, [Next]_vars PROVE CacheInv'
  OBVIOUS
<1>a. \A n : ProvePairs(n)' = ProvePairs(n)
  BY PairsFixed
<1>1. ASSUME NEW n \in Shards, Visit(n) PROVE CacheInv'
  BY <1>1, <1>a DEF Visit, CacheInv
<1>2. ASSUME NEW n \in Shards, Warm(n) PROVE CacheInv'
  <2>1. n \notin warmed /\ n \notin failed /\ warmed' = warmed \cup {n} /\ pc' = "warm"
    BY <1>2 DEF Warm, TypeOK
  <2>2. CASE Admitted(dump[n], manifest, n)
    <3>1. cache' = cache \cup ProvePairs(n) /\ failed' = failed
      BY <1>2, <2>2 DEF Warm
    <3>2. warmed' \ failed' = (warmed \ failed) \cup {n}
      BY <2>1, <3>1
    <3>3. UNION {ProvePairs(m) : m \in warmed' \ failed'}
            = (UNION {ProvePairs(m) : m \in warmed \ failed}) \cup ProvePairs(n)
      BY <3>2
    <3> QED
      BY <1>a, <2>1, <3>1, <3>3 DEF CacheInv
  <2>3. CASE ~Admitted(dump[n], manifest, n)
    <3>1. cache' = cache /\ failed' = failed \cup {n}
      BY <1>2, <2>3 DEF Warm
    <3>2. warmed' \ failed' = warmed \ failed
      BY <2>1, <3>1
    <3> QED
      BY <1>a, <2>1, <3>1, <3>2 DEF CacheInv
  <2> QED
    BY <2>2, <2>3
<1>3. CASE NextKind
  BY <1>3, <1>a DEF NextKind, CacheInv
<1>4. CASE Check \/ UNCHANGED vars
  BY <1>4, <1>a DEF Check, vars, CacheInv
<1>5. CASE Served
  BY <1>5, <1>a DEF Served, CacheInv
<1> QED
  BY <1>1, <1>2, <1>3, <1>4, <1>5 DEF Next, Ended

-----------------------------------------------------------------------------
(* The planner's keys decide the prove's.                                  *)

\* Without class flags a class is the shard's own with what the entry pins.
LEMMA Unpinned ==
    \A c, slot, e : Resolve(c, slot, NoEntry, e) = Pinned(OwnClass(c, slot), c.order, e)
<1> SUFFICES ASSUME NEW c, NEW slot, NEW e
             PROVE  Resolve(c, slot, NoEntry, e) = Pinned(OwnClass(c, slot), c.order, e)
  OBVIOUS
<1>1. \A field : ~Has(NoEntry, field)
  BY DEF Has, NoEntry
<1>2. Pinned(OwnClass(c, slot), c.order, NoEntry) = OwnClass(c, slot)
  BY <1>1 DEF Pinned, OwnClass
<1> QED
  BY <1>2 DEF Resolve

\* An entry that pins every field leaves nothing to the class flags.
LEMMA FlagsYield ==
    ASSUME NEW c, NEW slot, NEW flags, NEW e,
           Has(e, "area_cap"), Has(e, "gkr"), Has(e, "gkr_slot_cap")
    PROVE  Resolve(c, slot, flags, e) = Resolve(c, slot, NoEntry, e)
BY DEF Resolve, Pinned

\* A shard without an entry for its chips has its own heights for bounds, and
\* the slots they imply are the tight ones.
LEMMA OwnSlots ==
    ASSUME TypeOK, NEW n \in Shards, NEW e, ~Has(e, "gkr")
    PROVE  ResolvedSlot(dump[n], Resolve(dump[n], Unset, NoEntry, e)) = TightSlots(dump[n])
<1> DEFINE c == dump[n]
           r == Resolve(c, Unset, NoEntry, e)
           bounds == [chip \in Chips(c.order) |->
                        r.bounds[CHOOSE i \in DOMAIN c.order : c.order[i] = chip]]
<1>1. c.heights \in [Chips(c.order) -> Nat]
  BY CoverAssumption DEF TypeOK, IsDump, Shards
<1>2. r.bounds = [i \in DOMAIN c.order |-> c.heights[c.order[i]]] /\ r.slot = Unset
  BY Unpinned DEF Pinned, OwnClass
<1>3. ASSUME NEW chip \in Chips(c.order) PROVE bounds[chip] = c.heights[chip]
  <2>1. \E i \in DOMAIN c.order : c.order[i] = chip
    BY DEF Chips, Range
  <2> DEFINE i == CHOOSE j \in DOMAIN c.order : c.order[j] = chip
  <2>2. i \in DOMAIN c.order /\ c.order[i] = chip
    BY <2>1
  <2> HIDE DEF i
  <2>3. r.bounds[i] = c.heights[chip]
    BY <1>2, <2>2
  <2> QED
    BY <2>3 DEF i
<1>4. bounds = c.heights
  <2> HIDE DEF c, r
  <2>1. bounds = [chip \in Chips(c.order) |-> c.heights[chip]]
    BY ONLY <1>3
  <2>2. c.heights = [chip \in Chips(c.order) |-> c.heights[chip]]
    BY ONLY <1>1
  <2> QED
    BY ONLY <2>1, <2>2
<1>5. ResolvedSlot(c, r) = SlotTotal(c.order, bounds)
  BY <1>2 DEF ResolvedSlot
<1> QED
  BY <1>4, <1>5 DEF TightSlots

\* The slot a prove resolves is a function of what the planner counted.
CountedSlot(order, bounds, slot) ==
    IF slot # Unset THEN slot
    ELSE SlotTotal(order, [chip \in Chips(order) |->
             bounds[CHOOSE i \in DOMAIN order : order[i] = chip]])

LEMMA SlotIsCounted ==
    ASSUME TypeOK, NEW n \in Shards
    PROVE  LET key == CoverKeys(dump, manifest, n)
               proved == ProveKeys(dump[n], NoEntry, manifest, n)
           IN  /\ proved.zerocheck = key.zerocheck
               /\ proved.chipset = key.chipset
               /\ proved.jagged = key.jagged
               /\ key.gkr[1] = dump[n].order
               /\ proved.gkr = <<key.gkr[1], key.gkr[2],
                                 CountedSlot(key.gkr[1], key.gkr[2], key.gkr[3])>>
<1> DEFINE c == dump[n]
           e == EntryFor(manifest, c.order, n)
           r == Resolve(c, TightSlots(c), NoEntry, e)
           p == Resolve(c, Unset, NoEntry, e)
           key == CoverKeys(dump, manifest, n)
           proved == ProveKeys(c, NoEntry, manifest, n)
<1>1. p.area = r.area /\ p.bounds = r.bounds
  BY Unpinned DEF Pinned, OwnClass
<1>2. /\ key = [zerocheck |-> <<c.order, r.area>>, gkr |-> <<c.order, r.bounds, r.slot>>,
                chipset |-> c.order, jagged |-> <<c.order, c.jagged>>]
      /\ proved = [zerocheck |-> <<c.order, p.area>>,
                   gkr |-> <<c.order, p.bounds, ResolvedSlot(c, p)>>,
                   chipset |-> c.order, jagged |-> <<c.order, c.jagged>>]
  BY DEF CoverKeys, ProveKeys, ProveClass, KeysOf
<1>3. CASE Has(e, "gkr")
  <2>1. p.slot = r.slot
    BY <1>3, Unpinned DEF Pinned, OwnClass
  <2>2. ResolvedSlot(c, p) = CountedSlot(c.order, r.bounds, r.slot)
    BY <1>1, <2>1 DEF ResolvedSlot, CountedSlot
  <2> HIDE DEF r, p, key, proved
  <2> QED
    BY <1>1, <1>2, <2>2 DEF key, proved
<1>4. CASE ~Has(e, "gkr")
  <2>1. r.slot = TightSlots(c) /\ p.slot = Unset
    BY <1>4, Unpinned DEF Pinned, OwnClass
  <2>2. ResolvedSlot(c, p) = TightSlots(c)
    BY <1>4, OwnSlots
  <2>3. ResolvedSlot(c, p) = CountedSlot(c.order, r.bounds, Unset)
    BY <1>1, <2>1 DEF ResolvedSlot, CountedSlot
  <2>4. ResolvedSlot(c, p) = CountedSlot(c.order, r.bounds, r.slot)
    BY <2>1, <2>2, <2>3 DEF CountedSlot
  <2> HIDE DEF r, p, key, proved
  <2> QED
    BY <1>1, <1>2, <2>4 DEF key, proved
<1> QED
  BY <1>3, <1>4

\* Shards the planner counts under one key of a kind compile one key of it.
LEMMA ProveFollowsCover ==
    ASSUME TypeOK, NEW n \in Shards, NEW m \in Shards, NEW k \in DOMAIN Kinds,
           CoverPair(k, n) \in CoverPairs(m)
    PROVE  ProveKeys(dump[n], NoEntry, manifest, n)[Kinds[k]] = ProveKeys(dump[m], NoEntry, manifest, m)[Kinds[k]]
<1> DEFINE keyN == CoverKeys(dump, manifest, n)
           keyM == CoverKeys(dump, manifest, m)
<1>1. k \in 1..4
  BY KindsFact
<1>2. PICK j \in 1..4 : CoverPair(k, n) = CoverPair(j, m)
  BY KindsFact DEF CoverPairs
<1>3. Kinds[k] = Kinds[j] /\ keyN[Kinds[k]] = keyM[Kinds[k]]
  BY <1>2 DEF CoverPair
<1> HIDE DEF keyN, keyM
<1>4. CASE k = 1
  BY <1>3, <1>4, SlotIsCounted DEF Kinds, keyN, keyM
<1>5. CASE k = 2
  <2>1. keyN.gkr = keyM.gkr
    BY <1>3, <1>5 DEF Kinds
  <2> QED
    BY <1>5, <2>1, SlotIsCounted DEF Kinds, keyN, keyM
<1>6. CASE k = 3
  BY <1>3, <1>6, SlotIsCounted DEF Kinds, keyN, keyM
<1>7. CASE k = 4
  BY <1>3, <1>7, SlotIsCounted DEF Kinds, keyN, keyM
<1> QED
  BY <1>1, <1>4, <1>5, <1>6, <1>7

\* The subset selected by the planner's keys is enough for the keys of the prove.
LEMMA CacheServes ==
    ASSUME TypeOK, CoverInv, CacheInv, pc = "served", failed = {}, NEW n \in Shards
    PROVE  ProvePairs(n) \subseteq cache
<1> SUFFICES ASSUME NEW pair \in ProvePairs(n) PROVE pair \in cache
  OBVIOUS
<1> DEFINE Proved(m) == ProveKeys(dump[m], NoEntry, manifest, m)
<1>1. PICK k \in DOMAIN Kinds : pair = <<Kinds[k], Proved(n)[Kinds[k]]>>
  BY KindsFact DEF ProvePairs, ProvePairsUnder, ProveKeys, KeysOf, Kinds
<1>2. PICK m \in selected : CoverPair(k, n) \in CoverPairs(m)
  BY SelectedCarry
<1>3. m \in Shards
  BY DEF TypeOK
<1>4. Proved(n)[Kinds[k]] = Proved(m)[Kinds[k]]
  BY <1>2, <1>3, ProveFollowsCover
<1>5. Kinds[k] \in DOMAIN Proved(m)
  BY <1>1, KindsFact DEF ProveKeys, KeysOf, Kinds
<1>6. pair \in ProvePairs(m)
  BY <1>1, <1>4, <1>5 DEF ProvePairs, ProvePairsUnder
<1> QED
  BY <1>2, <1>6 DEF CacheInv

-----------------------------------------------------------------------------
(* The planned manifest.                                                   *)

\* What the planner folds: the members of a shard's chip set.
LEMMA DumpFact == TypeOK => IsDump(dump)
BY CoverAssumption DEF TypeOK

LEMMA Members ==
    ASSUME IsDump(dump), NEW n \in Shards
    PROVE  /\ n \in SameSet(dump, n)
           /\ SameSet(dump, n) \subseteq Shards
           /\ IsFiniteSet(SameSet(dump, n))
<1>1. SameSet(dump, n) \in SUBSET (DOMAIN dump) /\ n \in SameSet(dump, n)
  BY DEF SameSet, Shards
<1> QED
  BY <1>1, FS_Subset DEF IsDump, Shards

\* The maximum of a count over the members bounds each of them.
LEMMA MemberMax ==
    ASSUME IsDump(dump), NEW n \in Shards, NEW count \in [Shards -> Nat]
    PROVE  LET top == Max({count[m] : m \in SameSet(dump, n)})
           IN  top \in Nat /\ \A m \in SameSet(dump, n) : count[m] <= top
<1> DEFINE S == SameSet(dump, n)
           T == {count[m] : m \in S}
           f == [m \in S |-> count[m]]
<1>1. S \subseteq Shards /\ n \in S /\ IsFiniteSet(S)
  BY Members
<1>2. f \in Surjection(S, T)
  BY DEF Surjection
<1>3. IsFiniteSet(T)
  BY <1>1, <1>2, FS_Surjection
<1>4. T \subseteq Nat /\ T # {}
  BY <1>1
<1>5. Max(T) \in T /\ \A y \in T : y <= Max(T)
  <2>1. T \subseteq Int
    BY <1>4
  <2> HIDE DEF T
  <2> QED
    BY <1>3, <1>4, <2>1, FiniteMax
<1> QED
  BY <1>4, <1>5

\* The entry of a chip set bounds the area, the heights and the slots of every
\* member, whatever its order.
LEMMA EntryBounds ==
    ASSUME IsDump(dump), NEW n \in Shards, NEW m \in SameSet(dump, n)
    PROVE  LET entry == EntryOf(dump, n)
           IN  /\ DOMAIN entry = {"area_cap", "gkr", "gkr_slot_cap"}
               /\ DOMAIN entry.gkr = Chips(dump[n].order)
               /\ entry.area_cap \in Nat /\ dump[m].area <= entry.area_cap
               /\ \A c \in Chips(dump[n].order) : dump[m].heights[c] <= entry.gkr[c]
               /\ entry.gkr_slot_cap \in Nat
               /\ TightSlots(dump[m]) <= entry.gkr_slot_cap
<1> DEFINE S == SameSet(dump, n)
           entry == EntryOf(dump, n)
<1>1. \A l \in Shards : /\ dump[l].area \in Nat
                        /\ dump[l].heights \in [Chips(dump[l].order) -> Nat]
                        /\ TightSlots(dump[l]) \in Nat
  BY DEF IsDump, Shards
<1>2. \A l \in S : l \in Shards /\ Chips(dump[l].order) = Chips(dump[n].order)
  BY DEF SameSet, Shards
<1>3. entry.area_cap \in Nat /\ dump[m].area <= entry.area_cap
  <2> DEFINE count == [l \in Shards |-> dump[l].area]
             top == Max({count[l] : l \in S})
  <2>1. count \in [Shards -> Nat]
    BY <1>1
  <2>2. top \in Nat /\ count[m] <= top
    BY <2>1, MemberMax
  <2>3. {count[l] : l \in S} = {dump[l].area : l \in S}
    BY <1>2
  <2>4. entry.area_cap = QuantizeArea(top)
    BY <2>3 DEF EntryOf
  <2> HIDE DEF top
  <2>5. PICK num \in Nat, den \in Nat \ {0} : AreaHeadroom = <<num, den>>
    BY QuantizerAssumption DEF Headrooms
  <2>6. AreaQuantum \in Nat \ {0}
    BY QuantizerAssumption
  <2>7. QuantizeArea(top) \in Nat /\ top <= QuantizeArea(top)
    BY <2>2, <2>5, <2>6, QuantizeCovers DEF QuantizeArea
  <2> QED
    BY <1>1, <1>2, <2>2, <2>4, <2>7
<1>4. ASSUME NEW c \in Chips(dump[n].order) PROVE dump[m].heights[c] <= entry.gkr[c]
  <2> DEFINE count == [l \in Shards |->
                         IF c \in Chips(dump[l].order) THEN dump[l].heights[c] ELSE 0]
             top == Max({count[l] : l \in S})
  <2>1. count \in [Shards -> Nat]
    BY <1>1
  <2>2. top \in Nat /\ count[m] <= top
    BY <2>1, MemberMax
  <2>3. {count[l] : l \in S} = {dump[l].heights[c] : l \in S}
    BY <1>2
  <2>4. entry.gkr[c] = QuantizeHeight(top)
    BY <2>3 DEF EntryOf
  <2>5. count[m] = dump[m].heights[c]
    BY <1>2
  <2> HIDE DEF top, count
  <2>6. QuantizeHeight(top) \in Nat /\ top <= QuantizeHeight(top)
    BY <2>2, QuantizeHeightCovers
  <2>7. dump[m].heights[c] \in Nat
    BY <1>1, <1>2
  <2> QED
    BY <2>2, <2>4, <2>5, <2>6, <2>7
<1>5. entry.gkr_slot_cap \in Nat /\ TightSlots(dump[m]) <= entry.gkr_slot_cap
  <2> DEFINE count == [l \in Shards |-> TightSlots(dump[l])]
             top == Max({count[l] : l \in S})
  <2>1. count \in [Shards -> Nat]
    BY <1>1
  <2>2. top \in Nat /\ count[m] <= top
    BY <2>1, MemberMax
  <2>3. {count[l] : l \in S} = {TightSlots(dump[l]) : l \in S}
    BY <1>2
  <2>4. entry.gkr_slot_cap = QuantizeSlot(top)
    BY <2>3 DEF EntryOf
  <2>5. count[m] = TightSlots(dump[m])
    BY <1>2
  <2> HIDE DEF top, count
  <2>6. PICK num \in Nat, den \in Nat \ {0} : SlotHeadroom = <<num, den>>
    BY QuantizerAssumption DEF Headrooms
  <2>7. SlotQuantum \in Nat \ {0}
    BY QuantizerAssumption
  <2>8. QuantizeSlot(top) \in Nat /\ top <= QuantizeSlot(top)
    BY <2>2, <2>6, <2>7, QuantizeCovers DEF QuantizeSlot
  <2>9. TightSlots(dump[m]) \in Nat
    BY <1>1, <1>2
  <2> QED
    BY <2>2, <2>4, <2>5, <2>8, <2>9
<1> QED
  BY <1>3, <1>4, <1>5 DEF EntryOf

LEMMA EntryShape ==
    \A d, n : /\ DOMAIN EntryOf(d, n) = {"area_cap", "gkr", "gkr_slot_cap"}
             /\ DOMAIN EntryOf(d, n).gkr = Chips(d[n].order)
BY DEF EntryOf

\* Under the planned manifest a shard is given the one entry of its chip set.
PlannedFor(n) == Plan(dump)[ClassOf(dump[n])]

LEMMA PlanEntry ==
    ASSUME IsDump(dump), NEW n \in Shards
    PROVE  /\ EntryFor(Plan(dump), dump[n].order, n) = PlannedFor(n)
           /\ \E m \in Shards : n \in SameSet(dump, m) /\ PlannedFor(n) = EntryOf(dump, m)
<1> DEFINE chips == Chips(dump[n].order)
           keys == {ClassName(Chips(dump[m].order)) : m \in DOMAIN dump}
           Lead(key) == CHOOSE m \in DOMAIN dump : ClassName(Chips(dump[m].order)) = key
           plan == Plan(dump)
           key == ClassOf(dump[n])
           same == {k \in DOMAIN plan : Exact(plan[k], chips)}
<1>1. /\ DOMAIN plan = keys
      /\ \A k \in keys : plan[k] = EntryOf(dump, Lead(k))
  BY DEF Plan
<1>2. \A k \in keys : Lead(k) \in DOMAIN dump /\ ClassName(Chips(dump[Lead(k)].order)) = k
  OBVIOUS
<1>3. key \in keys
  BY DEF ClassOf, Shards
<1> HIDE DEF Lead, plan, keys
<1>4. \A k \in keys : /\ plan[k] = EntryOf(dump, Lead(k))
                      /\ Has(plan[k], "gkr")
                      /\ DOMAIN plan[k].gkr = Chips(dump[Lead(k)].order)
  BY <1>1, EntryShape DEF Has
<1>5. Chips(dump[Lead(key)].order) = chips
  <2>1. ClassOf(dump[Lead(key)]) = ClassOf(dump[n]) /\ Lead(key) \in DOMAIN dump
    BY <1>2, <1>3 DEF ClassOf
  <2> QED
    BY <2>1 DEF IsDump, Shards
<1>6. same = {key}
  <2>1. key \in same
    BY <1>1, <1>3, <1>4, <1>5 DEF Exact
  <2>2. \A k \in same : k = key
    BY <1>1, <1>2, <1>4 DEF Exact, ClassOf
  <2> QED
    BY <2>1, <2>2
<1>7. n \notin DOMAIN plan
  <2>1. \A k \in keys : k \notin DOMAIN dump
    BY <1>2 DEF IsDump, ClassOf
  <2> QED
    BY <1>1, <2>1 DEF Shards
<1>8. EntryFor(plan, dump[n].order, n) = plan[key]
  <2> DEFINE Best(k) == \A j \in same \ {k} :
                 \/ AreaOr(plan[k]) > AreaOr(plan[j])
                 \/ AreaOr(plan[k]) = AreaOr(plan[j]) /\ k > j
  <2>1. EntryFor(plan, dump[n].order, n) = plan[CHOOSE k \in same : Best(k)]
    BY <1>6, <1>7 DEF EntryFor
  <2>2. Best(key)
    BY <1>6
  <2> HIDE DEF Best, same
  <2>3. (CHOOSE k \in same : Best(k)) = key
    BY <1>6, <2>2
  <2> QED
    BY <2>1, <2>3
<1>9. Lead(key) \in Shards /\ n \in SameSet(dump, Lead(key))
  BY <1>2, <1>3, <1>5 DEF Shards, SameSet
<1>10. plan[key] = EntryOf(dump, Lead(key))
  BY <1>3, <1>4
<1> QED
  BY <1>8, <1>9, <1>10 DEF PlannedFor, plan

\* The stages admit every shard to the classes the planned manifest pins.
LEMMA PlanAdmits ==
    ASSUME IsDump(dump), NEW n \in Shards
    PROVE  Admitted(dump[n], Plan(dump), n)
<1> DEFINE c == dump[n]
<1>1. PICK m \in Shards : n \in SameSet(dump, m) /\ PlannedFor(n) = EntryOf(dump, m)
  BY PlanEntry
<1> DEFINE entry == EntryOf(dump, m)
<1>2. /\ DOMAIN entry = {"area_cap", "gkr", "gkr_slot_cap"}
      /\ DOMAIN entry.gkr = Chips(dump[m].order)
      /\ c.area <= entry.area_cap
      /\ \A chip \in Chips(dump[m].order) : c.heights[chip] <= entry.gkr[chip]
      /\ entry.gkr_slot_cap \in Nat
      /\ TightSlots(c) <= entry.gkr_slot_cap
  BY <1>1, EntryBounds
<1>3. Chips(c.order) = Chips(dump[m].order)
  BY <1>1 DEF SameSet
<1>4. ProveClass(c, NoEntry, Plan(dump), n) = Resolve(c, Unset, NoEntry, entry)
  BY <1>1, PlanEntry DEF ProveClass
<1> HIDE DEF entry
<1> DEFINE r == Resolve(c, Unset, NoEntry, entry)
<1>5. /\ r.area = entry.area_cap
      /\ r.bounds = [i \in DOMAIN c.order |-> entry.gkr[c.order[i]]]
      /\ r.slot = entry.gkr_slot_cap
  BY <1>2, Unpinned DEF Pinned, OwnClass, Has
<1>6. ResolvedSlot(c, r) = entry.gkr_slot_cap
  BY <1>2, <1>5 DEF ResolvedSlot, Unset
<1>7. \A i \in DOMAIN c.order : c.order[i] \in Chips(dump[m].order)
  BY <1>3 DEF Chips, Range
<1> HIDE DEF r
<1>8. \A i \in DOMAIN c.order : c.heights[c.order[i]] <= r.bounds[i]
  BY <1>2, <1>5, <1>7
<1> QED
  BY <1>2, <1>4, <1>5, <1>6, <1>8 DEF Admitted, r

\* Under the planned manifest the class flags change no key of a prove.
LEMMA FlagsIgnored ==
    ASSUME IsDump(dump), manifest = Plan(dump), NEW n \in Shards, NEW flags
    PROVE  ProvePairsUnder(flags, n) = ProvePairs(n)
<1> DEFINE c == dump[n]
           e == EntryFor(manifest, c.order, n)
<1>1. DOMAIN e = {"area_cap", "gkr", "gkr_slot_cap"}
  BY PlanEntry, EntryBounds
<1> HIDE DEF e
<1>2. Resolve(c, Unset, flags, e) = Resolve(c, Unset, NoEntry, e)
  BY <1>1, FlagsYield DEF Has
<1>3. ProveClass(c, flags, manifest, n) = ProveClass(c, NoEntry, manifest, n)
  BY <1>2 DEF ProveClass, e
<1> QED
  BY <1>3 DEF ProvePairs, ProvePairsUnder, ProveKeys

\* After a warm whose workers all succeeded, every class-keyed compile of every
\* shard of the dump is in the cache, for any dump and any manifest: the subset
\* selected by the planner's keys is enough for the keys of the prove, and under
\* the planned manifest whatever class flags the prove is given.
THEOREM WarmIsComplete == Spec => []NoColdProve
<1>1. TypeOK /\ CoverInv /\ CacheInv => NoColdProve
  <2> SUFFICES ASSUME TypeOK, CoverInv, CacheInv, pc = "served", failed = {},
                      NEW n \in Shards
               PROVE  /\ ProvePairs(n) \subseteq cache
                      /\ manifest = Plan(dump) =>
                            \A flags \in ClassFlags :
                                ProvePairsUnder(flags, n) \subseteq cache
    BY DEF NoColdProve
  <2>1. ProvePairs(n) \subseteq cache
    BY CacheServes
  <2>2. manifest = Plan(dump) =>
            \A flags \in ClassFlags : ProvePairsUnder(flags, n) = ProvePairs(n)
    BY DumpFact, FlagsIgnored
  <2> QED
    BY <2>1, <2>2
<1>2. Init => TypeOK /\ CoverInv /\ CacheInv
  BY InitTypeOK, InitCoverInv, InitCacheInv
<1>3. TypeOK /\ CoverInv /\ CacheInv /\ [Next]_vars => (TypeOK /\ CoverInv /\ CacheInv)'
  BY TypeStep, CoverStep, CacheStep
<1> QED
  BY <1>1, <1>2, <1>3, PTL DEF Spec

\* Under the analyzed manifest no worker is refused, whatever the dump.
THEOREM PlannedCapsHold == Spec => []PlannedCapsAdmit
<1>1. Init => PlannedCapsAdmit
  BY DEF Init, PlannedCapsAdmit
<1>2. TypeOK /\ PlannedCapsAdmit /\ [Next]_vars => PlannedCapsAdmit'
  <2> SUFFICES ASSUME TypeOK, PlannedCapsAdmit, [Next]_vars, manifest = Plan(dump)
               PROVE  failed' = {}
    BY KeysFixed DEF PlannedCapsAdmit
  <2>1. failed = {}
    BY DEF PlannedCapsAdmit
  <2>2. ASSUME NEW n \in Shards, Warm(n) PROVE failed' = {}
    <3>1. Admitted(dump[n], manifest, n)
      BY DumpFact, PlanAdmits
    <3> QED
      BY <2>1, <2>2, <3>1 DEF Warm
  <2>3. ASSUME NEW n \in Shards, Visit(n) PROVE failed' = {}
    BY <2>1, <2>3 DEF Visit
  <2>4. CASE NextKind \/ Check \/ Served \/ UNCHANGED vars
    BY <2>1, <2>4 DEF NextKind, Check, Served, vars
  <2> QED
    BY <2>2, <2>3, <2>4 DEF Next, Ended
<1> QED
  BY <1>1, <1>2, CoverTypeCorrect, PTL DEF Spec

\* What a prove compiles under an entry that pins everything is decided by the
\* entry and the chip order.
LEMMA PinnedKeys ==
    ASSUME NEW c, NEW e, DOMAIN e = {"area_cap", "gkr", "gkr_slot_cap"},
           e.gkr_slot_cap \in Nat
    PROVE  LET r == Resolve(c, Unset, NoEntry, e)
           IN  /\ r.area = e.area_cap
               /\ r.bounds = [i \in DOMAIN c.order |-> e.gkr[c.order[i]]]
               /\ ResolvedSlot(c, r) = e.gkr_slot_cap
<1> DEFINE r == Resolve(c, Unset, NoEntry, e)
<1>1. /\ r.area = e.area_cap
      /\ r.bounds = [i \in DOMAIN c.order |-> e.gkr[c.order[i]]]
      /\ r.slot = e.gkr_slot_cap
  BY Unpinned DEF Pinned, OwnClass, Has
<1> QED
  BY <1>1 DEF ResolvedSlot, Unset

\* Under the analyzed manifest the shards of one chip order compile one
\* zerocheck and one GKR class.
THEOREM OneClassHolds == Spec => []OneClassPerSet
<1>1. TypeOK => OneClassPerSet
  <2> SUFFICES ASSUME TypeOK, manifest = Plan(dump),
                      NEW n \in Shards, NEW m \in Shards, dump[n].order = dump[m].order
               PROVE  LET keysN == ProveKeys(dump[n], NoEntry, manifest, n)
                          keysM == ProveKeys(dump[m], NoEntry, manifest, m)
                      IN  keysN.zerocheck = keysM.zerocheck /\ keysN.gkr = keysM.gkr
    BY DEF OneClassPerSet
  <2> DEFINE e == PlannedFor(n)
             r(l) == Resolve(dump[l], Unset, NoEntry, e)
  <2>1. PlannedFor(m) = e
    BY DEF PlannedFor, ClassOf
  <2>2. \A l \in {n, m} : EntryFor(manifest, dump[l].order, l) = e
    BY <2>1, DumpFact, PlanEntry
  <2>3. DOMAIN e = {"area_cap", "gkr", "gkr_slot_cap"} /\ e.gkr_slot_cap \in Nat
    BY DumpFact, PlanEntry, EntryBounds
  <2> HIDE DEF e
  <2>4. \A l \in {n, m} :
            /\ r(l).area = e.area_cap
            /\ r(l).bounds = [i \in DOMAIN dump[l].order |-> e.gkr[dump[l].order[i]]]
            /\ ResolvedSlot(dump[l], r(l)) = e.gkr_slot_cap
    BY <2>3, PinnedKeys
  <2>5. \A l \in {n, m} : ProveClass(dump[l], NoEntry, manifest, l) = r(l)
    BY <2>2 DEF ProveClass
  <2> HIDE DEF r
  <2>6. \A l \in {n, m} :
            LET keys == ProveKeys(dump[l], NoEntry, manifest, l)
            IN  /\ keys.zerocheck = <<dump[l].order, e.area_cap>>
                /\ keys.gkr = <<dump[l].order,
                                [i \in DOMAIN dump[l].order |-> e.gkr[dump[l].order[i]]],
                                e.gkr_slot_cap>>
    BY <2>4, <2>5 DEF ProveKeys, KeysOf
  <2> QED
    BY <2>6
<1> QED
  BY <1>1, CoverTypeCorrect, PTL

-----------------------------------------------------------------------------
(* Any manifest.                                                           *)

\* The planned manifest has what is asked of a registry.
LEMMA PlanIsManifest == IsDump(dump) => IsManifest(Plan(dump))
<1> SUFFICES ASSUME IsDump(dump) PROVE IsManifest(Plan(dump))
  OBVIOUS
<1> DEFINE Key(m) == ClassName(Chips(dump[m].order))
           keys == {Key(m) : m \in DOMAIN dump}
           Lead(k) == CHOOSE m \in DOMAIN dump : Key(m) = k
           f == [m \in DOMAIN dump |-> Key(m)]
<1>1. DOMAIN Plan(dump) = keys /\ \A k \in keys : Plan(dump)[k] = EntryOf(dump, Lead(k))
  BY DEF Plan
<1>2. IsFiniteSet(keys)
  <2>1. f \in Surjection(DOMAIN dump, keys)
    BY DEF Surjection
  <2> QED
    BY <2>1, FS_Surjection DEF IsDump
<1>3. keys \subseteq Int
  BY DEF IsDump, ClassOf
<1>4. ASSUME NEW k \in keys PROVE AreaOr(Plan(dump)[k]) \in Int
  <2>1. Lead(k) \in Shards
    BY DEF Shards
  <2> DEFINE m == Lead(k)
  <2> HIDE DEF m
  <2>2. m \in Shards
    BY <2>1 DEF m
  <2>3. "area_cap" \in DOMAIN EntryOf(dump, m)
    BY EntryShape
  <2>4. EntryOf(dump, m).area_cap \in Nat
    BY <2>2, Members, EntryBounds
  <2>5. AreaOr(EntryOf(dump, m)) \in Int
    BY <2>3, <2>4 DEF AreaOr, Has
  <2> QED
    BY <1>1, <2>5 DEF m
<1> QED
  BY <1>1, <1>2, <1>3, <1>4 DEF IsManifest

\* Among finitely many keys one leads by area, then by key.
LEMMA BestExists ==
    ASSUME NEW S, IsFiniteSet(S), S # {}, S \subseteq Int, NEW a \in [S -> Int]
    PROVE  \E k \in S : \A j \in S \ {k} : a[k] > a[j] \/ (a[k] = a[j] /\ k > j)
<1> DEFINE T == {a[k] : k \in S}
<1>1. IsFiniteSet(T) /\ T # {} /\ T \subseteq Int
  <2>1. a \in Surjection(S, T)
    BY DEF Surjection
  <2> QED
    BY <2>1, FS_Surjection
<1> HIDE DEF T
<1>2. Max(T) \in T /\ \A y \in T : y <= Max(T)
  BY <1>1, FiniteMax
<1> DEFINE top == Max(T)
           U == {k \in S : a[k] = top}
<1> HIDE DEF top
<1>3. top \in T /\ \A y \in T : y <= top
  BY <1>2 DEF top
<1>4. U # {} /\ U \subseteq Int
  BY <1>3 DEF T
<1>5. IsFiniteSet(U)
  BY FS_Subset
<1> HIDE DEF U
<1>6. Max(U) \in U /\ \A y \in U : y <= Max(U)
  BY <1>4, <1>5, FiniteMax
<1> DEFINE k == Max(U)
<1> HIDE DEF k
<1>7. k \in U /\ \A y \in U : y <= k
  BY <1>6 DEF k
<1>8. k \in S /\ a[k] = top
  BY <1>7 DEF U
<1>9. ASSUME NEW j \in S \ {k} PROVE a[k] > a[j] \/ (a[k] = a[j] /\ k > j)
  <2>1. a[j] \in Int /\ a[j] <= top /\ top \in Int /\ k \in Int /\ j \in Int
    BY <1>1, <1>3, <1>8 DEF T
  <2>2. CASE a[j] = top
    <3>1. j \in U
      BY <2>2 DEF U
    <3>2. j <= k /\ j # k
      BY <1>7, <3>1
    <3> QED
      BY <1>8, <2>1, <2>2, <3>2
  <2> QED
    BY <1>8, <2>1, <2>2
<1> QED
  BY <1>8, <1>9

\* A registry entry for other chips never pins a shard, and an entry for its
\* chips is never passed over for one without chips.
THEOREM ForeignClassRefused == Spec => []ForeignClassNeverServed
<1>1. TypeOK => ForeignClassNeverServed
  <2> SUFFICES ASSUME TypeOK, NEW n \in Shards
               PROVE  LET entry == EntryFor(manifest, dump[n].order, n)
                          chips == Chips(dump[n].order)
                      IN  /\ Has(entry, "gkr") => DOMAIN entry.gkr = chips
                          /\ ~Has(entry, "gkr") =>
                               \A k \in DOMAIN manifest : ~Exact(manifest[k], chips)
    BY DEF ForeignClassNeverServed
  <2> DEFINE chips == Chips(dump[n].order)
             entry == EntryFor(manifest, dump[n].order, n)
             same == {k \in DOMAIN manifest : Exact(manifest[k], chips)}
             area == [k \in same |-> AreaOr(manifest[k])]
             Best(k) == \A j \in same \ {k} :
                           \/ AreaOr(manifest[k]) > AreaOr(manifest[j])
                           \/ AreaOr(manifest[k]) = AreaOr(manifest[j]) /\ k > j
             named == n \in DOMAIN manifest
  <2>1. IsManifest(manifest)
    BY CoverAssumption, DumpFact, PlanIsManifest DEF TypeOK
  <2>2. same # {} => \E k \in same : Best(k)
    <3>1. IsFiniteSet(same) /\ same \subseteq Int /\ area \in [same -> Int]
      BY <2>1, FS_Subset DEF IsManifest
    <3> HIDE DEF same
    <3>2. ASSUME same # {}
          PROVE  \E k \in same : \A j \in same \ {k} :
                    area[k] > area[j] \/ (area[k] = area[j] /\ k > j)
      BY <3>1, <3>2, BestExists
    <3> QED
      BY <3>2
  <2>3. entry = IF named /\ n \in same THEN manifest[n]
                ELSE IF same # {} THEN manifest[CHOOSE k \in same : Best(k)]
                ELSE IF named /\ ~Has(manifest[n], "gkr") THEN manifest[n]
                ELSE NoEntry
    BY DEF EntryFor
  <2> HIDE DEF Best, entry
  <2>4. CASE same # {}
    <3>1. \E k \in same : entry = manifest[k]
      BY <2>2, <2>3, <2>4
    <3>2. Exact(entry, chips)
      BY <3>1
    <3> QED
      BY <3>2 DEF Exact, entry
  <2>5. CASE same = {}
    <3>1. ~Has(entry, "gkr")
      BY <2>3, <2>5 DEF Has, NoEntry
    <3> QED
      BY <2>5, <3>1 DEF entry
  <2> QED
    BY <2>4, <2>5
<1> QED
  BY <1>1, CoverTypeCorrect, PTL
=============================================================================
