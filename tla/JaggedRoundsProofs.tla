------------------------ MODULE JaggedRoundsProofs --------------------------
(***************************************************************************)
(* The static caps of the zerocheck rounds hold the live data, and the     *)
(* packed engine implements the fold of the bare columns, for every        *)
(* machine, shard, class and chunk plan.  The order is the engine's: the   *)
(* caps; then values, segments and gathers, the arrivals, the chunked      *)
(* prefix, the eq table and the windows; then the invariant that says all  *)
(* of them are exact, and the refinement.                                  *)
(***************************************************************************)
EXTENDS JaggedRounds, RecurrencesProofs

(***************************************************************************)
(* Arithmetic of one column.                                               *)
(***************************************************************************)
LEMMA PairsOf ==
    ASSUME NEW h \in Nat
    PROVE  /\ Pairs(h) \in Nat /\ EvenPad(h) \in Nat /\ EvenPad(h) = 2 * Pairs(h)
           /\ EvenPad(h) \div 2 = Pairs(h)
           /\ 2 * EvenPad(Pairs(h)) <= EvenPad(h) + 2
           /\ EvenPad(Pairs(h)) <= EvenPad(h)
BY Z3 DEF Pairs, EvenPad

LEMMA PairsMonotone ==
    ASSUME NEW h \in Nat, NEW k \in Nat, h <= k
    PROVE  Pairs(h) <= Pairs(k)
BY Z3 DEF Pairs

\* The next area holds half of any area the last one held, rounded up by two
\* rows a column, and is even.
LEMMA NextAreaHolds ==
    ASSUME NEW a \in Nat, NEW b \in Nat, NEW n \in Nat, NEW c \in Nat,
           SumCols = c, a <= b, 2 * n <= a + 2 * c
    PROVE  NextArea(b) \in Nat /\ NextArea(b) % 2 = 0 /\ n <= NextArea(b)
BY Z3 DEF NextArea, EvenPad

\* Every chip has a column.
LEMMA ColsHold ==
    /\ Cols \in Seq(Nat) /\ Len(Cols) \in Nat /\ Len(Cols) >= 1
    /\ \A i \in ChipIds : Cols[i] \in Nat /\ Cols[i] >= 1
    /\ ChipIds = 1..Len(Cols)
<1>1. Cols \in Seq(Nat \ {0}) /\ Cols # <<>>
  BY RoundsAssumption
<1>2. Len(Cols) \in Nat /\ Cols \in [1..Len(Cols) -> Nat \ {0}]
  BY <1>1
<1>3. Len(Cols) # 0
  BY <1>1
<1>4. Cols \in [1..Len(Cols) -> Nat]
  BY <1>2
<1>5. Cols \in Seq(Nat)
  BY <1>2, <1>4
<1>6. \A i \in 1..Len(Cols) : Cols[i] \in Nat /\ Cols[i] >= 1
  BY <1>2
<1> QED
  BY <1>2, <1>3, <1>5, <1>6 DEF ChipIds

(***************************************************************************)
(* The live area, and what a fold of the heights makes of it.              *)
(***************************************************************************)
Weighted(hs) == [i \in ChipIds |-> Cols[i] * EvenPad(hs[i])]

LEMMA WeightedSeq ==
    ASSUME NEW hs \in [ChipIds -> Nat]
    PROVE  /\ Weighted(hs) \in Seq(Nat) /\ Len(Weighted(hs)) = Len(Cols)
           /\ \A i \in 1..Len(Cols) : Weighted(hs)[i] = Cols[i] * EvenPad(hs[i])
           /\ AreaOf(hs) = Prefix(Weighted(hs))[Len(Cols)]
           /\ AreaOffsets(hs) = Prefix(Weighted(hs))
           /\ AreaOf(hs) \in Nat
<1>1. Cols \in Seq(Nat) /\ Len(Cols) \in Nat
  BY ColsHold
<1>2. ASSUME NEW i \in ChipIds PROVE Cols[i] * EvenPad(hs[i]) \in Nat
  <2>1. Cols[i] \in Nat
    BY <1>1 DEF ChipIds
  <2>2. hs[i] \in Nat
    OBVIOUS
  <2>3. EvenPad(hs[i]) \in Nat
    BY <2>2, PairsOf
  <2> QED
    BY <2>1, <2>3
<1>3. Weighted(hs) \in [1..Len(Cols) -> Nat]
  BY <1>2 DEF Weighted, ChipIds
<1>4. Weighted(hs) \in Seq(Nat) /\ Len(Weighted(hs)) = Len(Cols)
  BY <1>1, <1>3
<1>5. AreaOf(hs) = Prefix(Weighted(hs))[Len(Cols)]
  BY <1>4 DEF AreaOf, Total, Weighted
<1>6. AreaOf(hs) \in Nat
  BY <1>1, <1>4, <1>5, PrefixDef
<1> QED
  BY <1>4, <1>5, <1>6 DEF AreaOffsets, Weighted, ChipIds

LEMMA SumColsNat == SumCols \in Nat
<1>1. Cols \in Seq(Nat) /\ Len(Cols) \in 0..Len(Cols)
  BY ColsHold
<1> QED
  BY <1>1, PrefixDef DEF SumCols, Total

LEMMA AreaEven ==
    ASSUME NEW hs \in [ChipIds -> Nat]
    PROVE  AreaOf(hs) % 2 = 0
<1> DEFINE half == [i \in ChipIds |-> Cols[i] * Pairs(hs[i])]
<1>1. Cols \in Seq(Nat) /\ Len(Cols) \in Nat
  BY ColsHold
<1>2. ASSUME NEW i \in ChipIds
      PROVE  half[i] \in Nat /\ Weighted(hs)[i] = 2 * half[i]
  <2>1. Cols[i] \in Nat
    BY <1>1 DEF ChipIds
  <2>2. Pairs(hs[i]) \in Nat /\ EvenPad(hs[i]) = 2 * Pairs(hs[i])
    BY PairsOf
  <2>3. Weighted(hs)[i] = Cols[i] * EvenPad(hs[i]) /\ half[i] = Cols[i] * Pairs(hs[i])
    BY DEF Weighted
  <2>4. Cols[i] * (2 * Pairs(hs[i])) = 2 * (Cols[i] * Pairs(hs[i]))
    BY <2>1, <2>2, Z3
  <2>5. Cols[i] * Pairs(hs[i]) \in Nat
    BY <2>1, <2>2, Z3
  <2> QED
    BY <2>2, <2>3, <2>4, <2>5
<1>3. half \in [1..Len(Cols) -> Nat]
  BY <1>2 DEF ChipIds
<1> HIDE DEF half
<1>4. half \in Seq(Nat) /\ Len(half) = Len(Cols)
  BY <1>1, <1>3
<1>5. \A i \in 1..Len(half) : Weighted(hs)[i] = 2 * half[i]
  BY <1>2, <1>4 DEF ChipIds
<1>6. \A n \in 0..Len(half) : Prefix(Weighted(hs))[n] = 2 * Prefix(half)[n]
  BY <1>4, <1>5, WeightedSeq, PrefixDoubled
<1>7. AreaOf(hs) = 2 * Prefix(half)[Len(Cols)] /\ Prefix(half)[Len(Cols)] \in Nat
  BY <1>1, <1>4, <1>6, WeightedSeq, PrefixDef
<1> QED
  BY <1>7

LEMMA AreaFolds ==
    ASSUME NEW hs \in [ChipIds -> Nat], NEW next \in [ChipIds -> Nat],
           \A i \in ChipIds : next[i] = Pairs(hs[i])
    PROVE  /\ 2 * AreaOf(next) <= AreaOf(hs) + 2 * SumCols
           /\ AreaOf(next) <= AreaOf(hs)
<1> DEFINE c == Weighted(hs)
           d == Weighted(next)
           w == [i \in ChipIds |-> 2 * Cols[i]]
<1>1. Cols \in Seq(Nat) /\ Len(Cols) \in Nat /\ Len(Cols) \in 0..Len(Cols)
  BY ColsHold
<1>2. c \in Seq(Nat) /\ d \in Seq(Nat) /\ Len(c) = Len(Cols) /\ Len(d) = Len(Cols)
  BY WeightedSeq
<1>3. w \in Seq(Nat) /\ Len(w) = Len(Cols) /\ \A i \in 1..Len(Cols) : w[i] = 2 * Cols[i]
  <2>1. w \in [1..Len(Cols) -> Nat]
    BY <1>1 DEF ChipIds
  <2> QED
    BY <1>1, <2>1 DEF ChipIds
<1> HIDE DEF w
<1>4. ASSUME NEW i \in 1..Len(Cols)
      PROVE  2 * d[i] <= c[i] + w[i] /\ d[i] <= c[i]
  <2> DEFINE p == EvenPad(hs[i])
             q == EvenPad(Pairs(hs[i]))
             k == Cols[i]
  <2>1. k \in Nat
    BY <1>1
  <2>2. i \in ChipIds /\ hs[i] \in Nat /\ Pairs(hs[i]) \in Nat
    BY PairsOf DEF ChipIds
  <2>3. p \in Nat /\ q \in Nat /\ 2 * q <= p + 2 /\ q <= p
    BY <2>2, PairsOf
  <2>4. c[i] = k * p /\ d[i] = k * q /\ w[i] = 2 * k
    BY <2>2, <1>3, WeightedSeq
  <2> HIDE DEF p, q, k
  <2>5. k * (2 * q) <= k * (p + 2) /\ k * q <= k * p
    BY <2>1, <2>3, Z3
  <2>6. k * (2 * q) = 2 * (k * q) /\ k * (p + 2) = k * p + 2 * k
    BY <2>1, <2>3, Z3
  <2> HIDE DEF c, d
  <2> QED
    BY <2>4, <2>5, <2>6
<1> HIDE DEF c, d
<1>5. 2 * Prefix(d)[Len(Cols)] <= Prefix(c)[Len(Cols)] + Prefix(w)[Len(Cols)]
  BY <1>1, <1>2, <1>3, <1>4, PrefixHalved
<1>6. Prefix(d)[Len(Cols)] <= Prefix(c)[Len(Cols)]
  BY <1>1, <1>2, <1>4, PrefixPointwise
<1>7. Prefix(w)[Len(Cols)] = 2 * SumCols
  BY <1>1, <1>3, PrefixDoubled DEF SumCols, Total
<1>8. AreaOf(hs) = Prefix(c)[Len(Cols)] /\ AreaOf(next) = Prefix(d)[Len(Cols)]
  BY WeightedSeq DEF c, d
<1> QED
  BY <1>5, <1>6, <1>7, <1>8

(***************************************************************************)
(* The static caps.                                                        *)
(***************************************************************************)
CapHolds == AreaCap \in Nat /\ AreaCap % 2 = 0

LEMMA UnrolledNat == Unrolled \in Nat /\ Unrolled <= NumVars
BY RoundsAssumption DEF Unrolled, MinOf

LEMMA EqWidthHolds ==
    ASSUME NEW r \in Nat
    PROVE  /\ EqWidth(r) \in Nat
           /\ r < NumVars => Pow2(NumVars - 1 - r) <= EqWidth(r)
<1> DEFINE e == MaxOf(NumVars - 1 - r, 0)
<1>1. NumVars \in Nat
  BY RoundsAssumption
<1>2. e \in Nat /\ (r < NumVars => e = NumVars - 1 - r)
  BY <1>1 DEF MaxOf
<1> HIDE DEF e
<1>3. Pow2(e) \in Nat
  BY <1>2, Pow2Def
<1>4. EqWidth(r) = MaxOf(Pow2(e), 2)
  BY DEF EqWidth, e
<1>5. MaxOf(Pow2(e), 2) \in Nat /\ Pow2(e) <= MaxOf(Pow2(e), 2)
  BY <1>3 DEF MaxOf
<1> QED
  BY <1>2, <1>4, <1>5

LEMMA NextAreaNat ==
    ASSUME NEW a \in Nat
    PROVE  NextArea(a) \in Nat /\ NextArea(a) % 2 = 0
BY SumColsNat, NextAreaHolds

\* The bound of every round is an even number, the first the class area.
LEMMA AreaBoundDef ==
    ASSUME CapHolds
    PROVE  /\ AreaBound(0) = AreaCap
           /\ \A r \in Nat : /\ AreaBound(r) \in Nat /\ AreaBound(r) % 2 = 0
                             /\ AreaBound(r + 1) = NextArea(AreaBound(r))
<1> DEFINE f == [a \in Nat |-> NextArea(a)]
           D == Nat
           a0 == AreaCap
<1>1. a0 \in D /\ f \in [D -> D]
  BY NextAreaNat DEF CapHolds
<1>2. \A r : AreaBound(r) = Iterate(f, a0, r)
  BY DEF AreaBound
<1>3. \A a \in D : f[a] = NextArea(a)
  OBVIOUS
<1>a. D = Nat
  OBVIOUS
<1> HIDE DEF f, D, a0
<1>4. /\ Iterate(f, a0, 0) = a0
      /\ \A n \in Nat : /\ Iterate(f, a0, n) \in D
                        /\ Iterate(f, a0, n + 1) = f[Iterate(f, a0, n)]
  BY <1>1, IterateDef
<1>5. AreaBound(0) = AreaCap
  BY <1>2, <1>4 DEF a0
<1>6. ASSUME NEW r \in Nat
      PROVE  AreaBound(r) \in Nat /\ AreaBound(r + 1) = NextArea(AreaBound(r))
  <2>1. r + 1 \in Nat
    OBVIOUS
  <2>2. AreaBound(r) \in D /\ AreaBound(r + 1) = f[AreaBound(r)]
    BY <1>2, <1>4, <2>1
  <2> QED
    BY <1>3, <1>a, <2>2
<1>7. ASSUME NEW r \in Nat
      PROVE  AreaBound(r) % 2 = 0
  <2>1. CASE r = 0
    BY <2>1, <1>5 DEF CapHolds
  <2>2. CASE r # 0
    <3>1. r - 1 \in Nat /\ (r - 1) + 1 = r
      BY <2>2
    <3>2. AreaBound(r) = NextArea(AreaBound(r - 1)) /\ AreaBound(r - 1) \in Nat
      BY <1>6, <3>1
    <3> QED
      BY <3>2, NextAreaNat
  <2> QED
    BY <2>1, <2>2
<1> QED
  BY <1>5, <1>6, <1>7

\* The cap of a round is the bound of its live area and the window tail.
LEMMA CapOfRound ==
    ASSUME CapHolds, NEW r \in Nat
    PROVE  /\ CapOf(r) \in Nat
           /\ 2 * (CapOf(r) \div 2) = CapOf(r)
           /\ CapOf(r) = AreaBound(MinOf(r, Unrolled)) + 2 * WindowOf(r)
           /\ WindowOf(r) \in Nat
           /\ r <= Unrolled => CapOf(r) = BufferCap(r)
<1> DEFINE m == MinOf(r, Unrolled)
           b == AreaBound(m)
           w == EqWidth(m)
<1>1. m \in Nat /\ (r <= Unrolled => m = r)
  BY UnrolledNat DEF MinOf
<1>2. CapOf(r) = b + 2 * w /\ WindowOf(r) = w /\ CapOf(r) = BufferCap(m)
  BY DEF CapOf, BufferCap, WindowOf
<1> HIDE DEF m
<1>3. b \in Nat /\ b % 2 = 0 /\ w \in Nat
  BY <1>1, AreaBoundDef, EqWidthHolds
<1> HIDE DEF b, w
<1>4. b + 2 * w \in Nat /\ 2 * ((b + 2 * w) \div 2) = b + 2 * w
  BY <1>3, Z3
<1>5. CapOf(r) = AreaBound(m) + 2 * WindowOf(r)
  BY <1>2 DEF b
<1>6. r <= Unrolled => CapOf(r) = BufferCap(r)
  BY <1>1, <1>2
<1>7. CapOf(r) \in Nat /\ 2 * (CapOf(r) \div 2) = CapOf(r)
  BY <1>2, <1>4
<1>8. WindowOf(r) \in Nat
  BY <1>2, <1>3
<1> QED
  BY <1>5, <1>6, <1>7, <1>8 DEF m

\* A live area within its bound leaves room for the window behind every chip.
LEMMA WindowFits ==
    ASSUME CapHolds, NEW r \in Nat, NEW hs \in [ChipIds -> Nat],
           AreaOf(hs) <= AreaBound(MinOf(r, Unrolled)), NEW i \in ChipIds
    PROVE  AreaOffsets(hs)[i] \div 2 + WindowOf(r) <= CapOf(r) \div 2
<1> DEFINE off == AreaOffsets(hs)[i]
           b == AreaBound(MinOf(r, Unrolled))
           w == WindowOf(r)
<1>1. /\ Weighted(hs) \in Seq(Nat) /\ Len(Weighted(hs)) = Len(Cols)
      /\ AreaOf(hs) = Prefix(Weighted(hs))[Len(Cols)]
      /\ off = Prefix(Weighted(hs))[i]
  BY WeightedSeq
<1>2. Len(Cols) \in Nat
  BY RoundsAssumption
<1>3. i \in 0..Len(Cols) /\ Len(Cols) \in i..Len(Cols)
  BY <1>2 DEF ChipIds
<1>4. Prefix(Weighted(hs))[i] <= Prefix(Weighted(hs))[Len(Cols)]
  BY <1>1, <1>3, PrefixMonotone
<1>5. off \in Nat
  BY <1>1, <1>3, PrefixDef
<1>6. off <= AreaOf(hs) /\ AreaOf(hs) <= b /\ AreaOf(hs) \in Nat
  BY <1>1, <1>4, WeightedSeq
<1>7. CapOf(r) = b + 2 * w /\ w \in Nat
  BY CapOfRound
<1>8. MinOf(r, Unrolled) \in Nat
  BY UnrolledNat DEF MinOf
<1>9. b \in Nat
  BY <1>8, AreaBoundDef
<1> HIDE DEF off, b, w
<1>10. off <= b
  BY <1>5, <1>6, <1>9
<1>11. off \div 2 + w <= (b + 2 * w) \div 2
  BY <1>5, <1>7, <1>9, <1>10, Z3
<1>12. off \div 2 + w <= CapOf(r) \div 2
  BY <1>7, <1>11
<1> QED
  BY <1>12 DEF off, w

\* Folding the heights keeps the area within the bound of the next round,
\* unrolled or scanned.
LEMMA AreaStays ==
    ASSUME CapHolds, NEW r \in Nat,
           NEW hs \in [ChipIds -> Nat], NEW next \in [ChipIds -> Nat],
           \A i \in ChipIds : next[i] = Pairs(hs[i]),
           AreaOf(hs) <= AreaBound(MinOf(r, Unrolled))
    PROVE  AreaOf(next) <= AreaBound(MinOf(r + 1, Unrolled))
<1>1. /\ 2 * AreaOf(next) <= AreaOf(hs) + 2 * SumCols
      /\ AreaOf(next) <= AreaOf(hs)
  BY AreaFolds
<1>2. AreaOf(next) \in Nat /\ AreaOf(hs) \in Nat
  BY WeightedSeq
<1>3. CASE r < Unrolled
  <2>1. MinOf(r, Unrolled) = r /\ MinOf(r + 1, Unrolled) = r + 1
    BY <1>3, UnrolledNat DEF MinOf
  <2>2. AreaBound(r) \in Nat /\ AreaBound(r + 1) = NextArea(AreaBound(r))
    BY AreaBoundDef
  <2>3. AreaOf(next) <= NextArea(AreaBound(r))
    BY <1>1, <1>2, <2>1, <2>2, SumColsNat, NextAreaHolds
  <2> QED
    BY <2>1, <2>2, <2>3
<1>4. CASE ~(r < Unrolled)
  <2>1. MinOf(r, Unrolled) = Unrolled /\ MinOf(r + 1, Unrolled) = Unrolled
    BY <1>4, UnrolledNat DEF MinOf
  <2>2. AreaBound(Unrolled) \in Nat
    BY UnrolledNat, AreaBoundDef
  <2>3. AreaOf(hs) <= AreaBound(Unrolled)
    BY <2>1
  <2>4. AreaOf(next) <= AreaBound(Unrolled)
    BY <1>1, <1>2, <2>2, <2>3
  <2> QED
    BY <2>1, <2>4
<1> QED
  BY <1>3, <1>4

\* A chunk class halves like the heights it covers.
LEMMA CeilShiftHalves ==
    ASSUME NEW n \in Nat, NEW e \in Nat
    PROVE  /\ CeilShift(n, e) \in Nat
           /\ Pairs(CeilShift(n, e)) = CeilShift(n, e + 1)
           /\ CeilShift(n, 0) = n
<1> DEFINE w == Pow2(e)
<1>1. w \in Nat /\ w >= 1 /\ Pow2(e + 1) = 2 * w /\ Pow2(0) = 1
  BY Pow2Def
<1> HIDE DEF w
<1>2. /\ (n + w - 1) \div w \in Nat
      /\ ((n + w - 1) \div w + 1) \div 2 = (n + 2 * w - 1) \div (2 * w)
  BY <1>1, CeilHalves
<1>3. CeilShift(n, e) = (n + w - 1) \div w
  BY DEF CeilShift, w
<1>4. CeilShift(n, e + 1) = (n + 2 * w - 1) \div (2 * w)
  BY <1>1 DEF CeilShift
<1>5. CeilShift(n, 0) = (n + 1 - 1) \div 1
  BY <1>1 DEF CeilShift
<1>6. (n + 1 - 1) \div 1 = n
  BY Z3
<1> QED
  BY <1>2, <1>3, <1>4, <1>5, <1>6 DEF Pairs

(***************************************************************************)
(* The inductive invariant.                                                *)
(***************************************************************************)
\* How far the prove is.
Progress ==
    /\ IsSeq(messages)
    /\ Round <= NumVars
    /\ pc = "check" => Round = 0
    /\ pc = "chunks" => Round <= Depth

\* The heights: each halved once a round, within a chunk class of the arrival
\* and within the hypercube.
HeightsHold ==
    /\ heights \in [ChipIds -> Nat]
    /\ heights = [i \in ChipIds |-> CeilShift(shard[i], Round)]
    /\ pc = "check" /\ plan.form # "traces" =>
           \A i \in ChipIds : heights[i] <= Pow2(NumVars - Round)
    /\ pc = "chunks" =>
           \A i \in ChipIds : /\ heights[i] <= CeilShift(plan.chunk.caps[i], Round)
                              /\ heights[i] <= Pow2(NumVars - Round)

\* The buffer: the class covers the live area, the halves have the cap of the
\* round.
BufferHolds ==
    /\ pc \in {"chunks", "rounds"} =>
           CapHolds /\ AreaOf(heights) <= AreaBound(MinOf(Round, Unrolled))
    /\ pc = "rounds" => 2 * Len(halves) = CapOf(Round)

\* The eq table: a row for every row of the window.
EqHolds == Len(eq) \in Nat /\ (pc \in {"check", "chunks", "rounds"} => Len(eq) >= WindowOf(Round))

IInv ==
    /\ shard \in Shards /\ plan \in Plans
    /\ pc \in {"check", "refused", "chunks", "rounds", "done"}
    /\ Progress /\ HeightsHold /\ BufferHolds /\ EqHolds

\* What the class and the plan fix stays while they do.
LEMMA Statics ==
    ASSUME shard' = shard, plan' = plan
    PROVE  /\ AreaCap' = AreaCap /\ Depth' = Depth /\ CapHolds' = CapHolds
           /\ \A r : AreaBound(r)' = AreaBound(r) /\ BufferCap(r)' = BufferCap(r)
                     /\ CapOf(r)' = CapOf(r)
<1>1. AreaCap' = AreaCap /\ Depth' = Depth
  BY DEF AreaCap, Depth
<1>2. CapHolds' = CapHolds
  BY <1>1 DEF CapHolds
<1>3. \A r : AreaBound(r)' = AreaBound(r)
  BY <1>1 DEF AreaBound
<1>4. \A r : BufferCap(r)' = BufferCap(r)
  BY <1>3 DEF BufferCap
<1>5. \A r : CapOf(r)' = CapOf(r)
  BY <1>4 DEF CapOf
<1> QED
  BY <1>1, <1>2, <1>3, <1>4, <1>5

LEMMA DepthNat ==
    ASSUME plan \in Plans
    PROVE  Depth \in Nat /\ Depth <= Unrolled /\ (Depth > 0 => plan.form = "chunked")
<1>1. plan.chunk.depth \in Nat
  BY RoundsAssumption
<1> QED
  BY <1>1, UnrolledNat DEF Depth, MinOf

LEMMA ShardHeights ==
    ASSUME shard \in Shards
    PROVE  /\ shard \in [ChipIds -> Nat]
           /\ shard = [i \in ChipIds |-> CeilShift(shard[i], 0)]
<1>1. shard \in [ChipIds -> Nat]
  BY RoundsAssumption
<1>2. \A i \in ChipIds : CeilShift(shard[i], 0) = shard[i]
  <2>1. 0 \in Nat
    OBVIOUS
  <2> QED
    BY <1>1, <2>1, CeilShiftHalves
<1> QED
  BY <1>1, <1>2

LEMMA InitIInv == Init => IInv
<1> SUFFICES ASSUME Init PROVE IInv
  OBVIOUS
<1> USE DEF Init
<1>1. Round = 0 /\ IsSeq(messages)
  <2>1. messages = <<>> /\ <<>> \in Seq({})
    OBVIOUS
  <2> QED
    BY <2>1 DEF Round, IsSeq
<1>2. Progress
  BY <1>1, RoundsAssumption DEF Progress
<1>3. shard \in [ChipIds -> Nat] /\ shard = [i \in ChipIds |-> CeilShift(shard[i], 0)]
  BY ShardHeights
<1>4. HeightsHold
  <2>1. NumVars - Round = NumVars
    BY <1>1, RoundsAssumption
  <2>2. plan.form # "traces" => \A i \in ChipIds : heights[i] <= Pow2(NumVars - Round)
    BY <2>1 DEF Width
  <2>3. pc # "chunks"
    OBVIOUS
  <2> QED
    BY <1>1, <1>3, <2>2, <2>3 DEF HeightsHold
<1>5. BufferHolds
  BY DEF BufferHolds
<1>6. EqHolds
  <2>1. EqWidth(0) \in Nat
    BY EqWidthHolds
  <2>2. Len(eq) = EqWidth(0)
    <3>1. eq = [k \in 1..EqWidth(0) |-> eq[k]]
      BY DEF FirstEq
    <3> QED
      BY <2>1, <3>1, TabulatedSeq
  <2>3. WindowOf(Round) = EqWidth(0)
    <3>1. MinOf(0, Unrolled) = 0
      BY UnrolledNat DEF MinOf
    <3> QED
      BY <1>1, <3>1 DEF WindowOf
  <2> QED
    BY <2>1, <2>2, <2>3 DEF EqHolds
<1> QED
  BY <1>2, <1>4, <1>5, <1>6 DEF IInv

\* The window shrinks no faster than the floored table, and not in the scan.
LEMMA WindowShrinks ==
    ASSUME NEW r \in Nat
    PROVE  /\ WindowOf(r) \in Nat
           /\ r < Unrolled => WindowOf(r + 1) <= MaxOf(WindowOf(r) \div 2, 2)
           /\ ~(r < Unrolled) => WindowOf(r + 1) = WindowOf(r)
<1>1. MinOf(r, Unrolled) \in Nat /\ r + 1 \in Nat
  BY UnrolledNat DEF MinOf
<1>2. WindowOf(r) \in Nat
  BY <1>1, EqWidthHolds DEF WindowOf
<1>3. ~(r < Unrolled) => WindowOf(r + 1) = WindowOf(r)
  <2>1. ~(r < Unrolled) => MinOf(r, Unrolled) = MinOf(r + 1, Unrolled)
    BY UnrolledNat DEF MinOf
  <2> QED
    BY <2>1 DEF WindowOf
<1>4. ASSUME r < Unrolled
      PROVE  WindowOf(r + 1) <= MaxOf(WindowOf(r) \div 2, 2)
  <2>1. MinOf(r, Unrolled) = r /\ MinOf(r + 1, Unrolled) = r + 1
    BY <1>4, UnrolledNat DEF MinOf
  <2>2. WindowOf(r) = EqWidth(r) /\ WindowOf(r + 1) = EqWidth(r + 1)
    BY <2>1 DEF WindowOf
  <2>3. NumVars \in Nat /\ r < NumVars
    BY <1>4, RoundsAssumption, UnrolledNat
  <2>4. EqWidth(r) = MaxOf(Pow2(NumVars - 1 - r), 2)
    <3>1. MaxOf(NumVars - 1 - r, 0) = NumVars - 1 - r
      BY <2>3 DEF MaxOf
    <3> QED
      BY <3>1 DEF EqWidth
  <2>5. CASE NumVars - 1 - r = 0
    <3>1. MaxOf(NumVars - 1 - (r + 1), 0) = 0
      BY <2>3, <2>5 DEF MaxOf
    <3>2. EqWidth(r + 1) = MaxOf(1, 2)
      BY <3>1, Pow2Def DEF EqWidth
    <3>3. MaxOf(1, 2) <= MaxOf(WindowOf(r) \div 2, 2)
      BY <1>2 DEF MaxOf
    <3> QED
      BY <2>2, <3>2, <3>3
  <2>6. CASE NumVars - 1 - r # 0
    <3> DEFINE e == NumVars - 1 - (r + 1)
               p == Pow2(e)
    <3>1. e \in Nat /\ e + 1 = NumVars - 1 - r /\ MaxOf(e, 0) = e
      BY <2>3, <2>6 DEF MaxOf
    <3>2. EqWidth(r + 1) = MaxOf(p, 2)
      BY <3>1 DEF EqWidth
    <3> HIDE DEF e
    <3>3. p \in Nat /\ Pow2(NumVars - 1 - r) = 2 * p
      BY <3>1, Pow2Def
    <3>4. EqWidth(r) = MaxOf(2 * p, 2)
      BY <2>4, <3>3
    <3> HIDE DEF p
    <3>5. MaxOf(p, 2) <= MaxOf(MaxOf(2 * p, 2) \div 2, 2)
      BY <3>3, Z3 DEF MaxOf
    <3> QED
      BY <2>2, <3>2, <3>4, <3>5
  <2> QED
    BY <2>5, <2>6
<1> QED
  BY <1>2, <1>3, <1>4

\* Whatever a round sends, it folds the scalars.
LEMMA SendStep ==
    ASSUME IInv, pc \in {"chunks", "rounds"}, Round < NumVars,
           NEW message, NEW shrink, shrink = (Round < Unrolled),
           Send(message, shrink), shard' = shard, plan' = plan
    PROVE  /\ Round \in Nat /\ Round' = Round + 1 /\ IsSeq(messages')
           /\ heights' \in [ChipIds -> Nat]
           /\ \A i \in ChipIds : heights'[i] = Pairs(heights[i])
           /\ heights' = [i \in ChipIds |-> CeilShift(shard[i], Round + 1)]
           /\ CapHolds /\ AreaOf(heights') <= AreaBound(MinOf(Round + 1, Unrolled))
           /\ Len(eq') \in Nat /\ Len(eq') >= WindowOf(Round + 1)
<1>1. IsSeq(messages)
  BY DEF IInv, Progress
<1>2. messages' = Append(messages, message)
  BY DEF Send
<1>3. Round \in Nat /\ Round' = Round + 1 /\ IsSeq(messages')
  BY <1>1, <1>2, LongerSeq DEF Round
<1>4. heights \in [ChipIds -> Nat] /\ heights = [i \in ChipIds |-> CeilShift(shard[i], Round)]
  BY DEF IInv, HeightsHold
<1>5. heights' = [i \in ChipIds |-> Pairs(heights[i])]
  BY DEF Send
<1>6. \A i \in ChipIds : heights'[i] = Pairs(heights[i])
  BY <1>5
<1>7. heights' \in [ChipIds -> Nat]
  <2>1. \A i \in ChipIds : Pairs(heights[i]) \in Nat
    BY <1>4, PairsOf
  <2> QED
    BY <1>5, <2>1
<1>8. heights' = [i \in ChipIds |-> CeilShift(shard[i], Round + 1)]
  <2>1. shard \in [ChipIds -> Nat]
    BY ShardHeights DEF IInv
  <2>2. ASSUME NEW i \in ChipIds
        PROVE  Pairs(heights[i]) = CeilShift(shard[i], Round + 1)
    <3>1. shard[i] \in Nat
      BY <2>1
    <3>2. heights[i] = CeilShift(shard[i], Round)
      BY <1>4
    <3> QED
      BY <1>3, <3>1, <3>2, CeilShiftHalves
  <2> QED
    BY <1>5, <2>2
<1>9. CapHolds /\ AreaOf(heights) <= AreaBound(MinOf(Round, Unrolled))
  BY DEF IInv, BufferHolds
<1>10. AreaOf(heights') <= AreaBound(MinOf(Round + 1, Unrolled))
  BY <1>3, <1>4, <1>6, <1>7, <1>9, AreaStays
<1>11. Len(eq') \in Nat /\ Len(eq') >= WindowOf(Round + 1)
  <2> DEFINE c == Len(eq) \div 2
             n == IF shrink THEN MaxOf(c, 2) ELSE Len(eq)
  <2>1. Len(eq) \in Nat /\ Len(eq) >= WindowOf(Round)
    BY DEF IInv, EqHolds
  <2>2. c \in Nat
    BY <2>1
  <2>3. n \in Nat
    BY <2>1, <2>2 DEF MaxOf
  <2>4. eq' = [k \in 1..n |-> IF k <= c THEN eq[2 * k - 1] \cup eq[2 * k] ELSE {}]
    BY DEF Send, FoldEq
  <2>5. n >= WindowOf(Round + 1)
    <3>1. WindowOf(Round) \in Nat
      BY <1>3, WindowShrinks
    <3>2. CASE Round < Unrolled
      <4>1. WindowOf(Round + 1) <= MaxOf(WindowOf(Round) \div 2, 2)
        BY <1>3, <3>2, WindowShrinks
      <4>2. MaxOf(WindowOf(Round) \div 2, 2) <= MaxOf(c, 2)
        BY <2>1, <2>2, <3>1 DEF MaxOf
      <4>3. WindowOf(Round + 1) \in Nat
        BY <1>3, WindowShrinks
      <4>4. MaxOf(c, 2) \in Nat /\ MaxOf(WindowOf(Round) \div 2, 2) \in Int
        BY <2>2, <3>1 DEF MaxOf
      <4>5. n = MaxOf(c, 2)
        BY <3>2, Zenon
      <4> HIDE DEF n, c
      <4> QED
        BY <4>1, <4>2, <4>3, <4>4, <4>5
    <3>3. CASE ~(Round < Unrolled)
      BY <1>3, <2>1, <3>3, WindowShrinks
    <3> QED
      BY <3>2, <3>3
  <2> HIDE DEF n
  <2>6. eq' = [k \in 1..n |-> eq'[k]]
    BY <2>4
  <2>7. Len(eq') = n
    BY <2>3, <2>6, TabulatedSeq
  <2> QED
    BY <2>3, <2>5, <2>7
<1> QED
  BY <1>3, <1>6, <1>7, <1>8, <1>9, <1>10, <1>11

LEMMA GatherLength ==
    ASSUME NEW cap, NEW live, NEW off, NEW stride, NEW source
    PROVE  LET f == GatherHalves(cap, live, off, stride, source)
           IN  f = [p \in 1..cap \div 2 |-> f[p]]
<1> DEFINE f == GatherHalves(cap, live, off, stride, source)
<1>1. DOMAIN f = 1..cap \div 2
  BY Zenon DEF GatherHalves
<1>2. f = [p \in DOMAIN f |-> f[p]]
  BY Zenon DEF GatherHalves
<1> HIDE DEF f
<1>3. f = [p \in 1..cap \div 2 |-> f[p]]
  BY <1>1, <1>2
<1> QED
  BY <1>3 DEF f

\* A shard that is not refused is within its class.
LEMMA AreaFits ==
    ASSUME shard \in [ChipIds -> Nat], plan \in Plans, ~Refused
    PROVE  CapHolds /\ AreaOf(shard) <= AreaCap
<1>1. AreaOf(shard) \in Nat /\ AreaOf(shard) % 2 = 0
  BY WeightedSeq, AreaEven
<1>2. plan.area = Unset \/ (plan.area \in Nat /\ plan.area % 2 = 0)
  BY RoundsAssumption
<1>3. AreaCap \in Nat /\ AreaCap % 2 = 0
  BY <1>1, <1>2 DEF AreaCap
<1>4. ~(AreaCap < AreaOf(shard))
  BY DEF Refused
<1> QED
  BY <1>1, <1>3, <1>4 DEF CapHolds

LEMMA ArriveIInv == IInv /\ Arrive => IInv'
<1> SUFFICES ASSUME IInv, Arrive PROVE IInv'
  OBVIOUS
<1>1. /\ pc = "check" /\ ~Refused /\ shard' = shard /\ plan' = plan
      /\ heights' = heights /\ eq' = eq /\ messages' = messages
  BY DEF Arrive
<1>2. pc' = IF Depth > 0 THEN "chunks" ELSE "rounds"
  BY DEF Arrive
<1>3. shard \in Shards /\ plan \in Plans /\ shard \in [ChipIds -> Nat] /\ Round = 0
  BY <1>1, ShardHeights DEF IInv, Progress
<1>4. heights = shard
  BY <1>3, ShardHeights DEF IInv, HeightsHold
<1>5. CapHolds /\ AreaOf(shard) <= AreaCap
  BY <1>1, <1>3, AreaFits
<1>6. Depth \in Nat /\ Depth <= Unrolled /\ (Depth > 0 => plan.form = "chunked")
  BY <1>3, DepthNat
<1>7. Progress'
  <2>1. Round' = Round
    BY <1>1 DEF Round
  <2>2. Depth' = Depth
    BY <1>1 DEF Depth
  <2> QED
    BY <1>1, <1>2, <1>3, <1>6, <2>1, <2>2 DEF IInv, Progress
<1>8. Round' = 0
  BY <1>1, <1>3 DEF Round
<1>9. HeightsHold'
  <2>1. heights' \in [ChipIds -> Nat] /\ heights' = [i \in ChipIds |-> CeilShift(shard'[i], Round')]
    BY <1>1, <1>3, <1>8 DEF IInv, HeightsHold
  <2>2. ASSUME Depth > 0, NEW i \in ChipIds
        PROVE  /\ heights[i] <= CeilShift(plan.chunk.caps[i], 0)
               /\ heights[i] <= Pow2(NumVars - 0)
    <3>1. plan.form = "chunked"
      BY <1>6, <2>2
    <3>2. ~(shard[i] > plan.chunk.caps[i])
      BY <1>1, <3>1 DEF Refused
    <3>3. plan.chunk.caps[i] \in Nat /\ 0 \in Nat
      BY <1>3, RoundsAssumption
    <3>4. CeilShift(plan.chunk.caps[i], 0) = plan.chunk.caps[i]
      BY <3>3, CeilShiftHalves
    <3>5. heights[i] \in Nat /\ heights[i] <= plan.chunk.caps[i]
      BY <1>3, <1>4, <3>2, <3>3
    <3>6. heights[i] <= Pow2(NumVars - Round)
      BY <1>1, <3>1 DEF IInv, HeightsHold
    <3> QED
      BY <1>3, <3>4, <3>5, <3>6
  <2>3. pc' = "chunks" =>
           \A i \in ChipIds : /\ heights'[i] <= CeilShift(plan'.chunk.caps[i], Round')
                              /\ heights'[i] <= Pow2(NumVars - Round')
    BY <1>1, <1>2, <1>8, <2>2
  <2>4. pc' # "check"
    BY <1>2
  <2> QED
    BY <2>1, <2>3, <2>4 DEF HeightsHold
<1>10. BufferHolds'
  <2>1. MinOf(0, Unrolled) = 0
    BY UnrolledNat DEF MinOf
  <2>2. AreaBound(0) = AreaCap
    BY <1>5, AreaBoundDef
  <2>3. /\ CapHolds' = CapHolds /\ AreaBound(0)' = AreaBound(0)
        /\ BufferCap(0)' = BufferCap(0) /\ CapOf(0)' = CapOf(0) /\ AreaCap' = AreaCap
    BY <1>1, Statics
  <2>4. AreaOf(heights') <= AreaBound(MinOf(Round, Unrolled))'
    BY <1>1, <1>4, <1>5, <1>8, <2>1, <2>2, <2>3
  <2>5. ASSUME pc' = "rounds"
        PROVE  2 * Len(halves') = CapOf(Round)'
    <3>1. 0 \in Nat /\ 0 <= Unrolled
      BY UnrolledNat
    <3>2. CapOf(0) = BufferCap(0) /\ CapOf(0) \in Nat /\ 2 * (CapOf(0) \div 2) = CapOf(0)
      BY <1>5, <3>1, CapOfRound
    <3>3. halves' = FirstHalves(arrival')
      BY <1>2, <2>5 DEF Arrive
    <3>4. Len(halves') = CapOf(0) \div 2
      <4> DEFINE n == CapOf(0) \div 2
      <4>1. n \in Nat
        BY <3>2
      <4>2. halves' = [p \in 1..n |-> halves'[p]]
        <5>1. CASE plan.form \in {"traces", "padded"}
          BY <3>2, <3>3, <5>1, GatherLength DEF FirstHalves
        <5>2. CASE ~(plan.form \in {"traces", "padded"})
          <6> DEFINE m == AreaCap + 2 * EqWidth(0)
          <6>1. arrival' = PackFlatArrival
            BY <5>2 DEF Arrive
          <6>2. m = BufferCap(0) /\ m \in Nat
            BY <2>2, <3>2 DEF BufferCap
          <6>3. arrival' = [p \in 1..m |-> arrival'[p]]
            BY <6>1 DEF PackFlatArrival
          <6> HIDE DEF m
          <6>4. Len(arrival') = m
            BY <6>2, <6>3, TabulatedSeq
          <6>5. halves' = [j \in 1..Len(arrival') \div 2 |->
                              <<arrival'[2 * j - 1], arrival'[2 * j]>>]
            BY <3>3, <5>2 DEF FirstHalves
          <6>6. Len(arrival') \div 2 = n
            BY <3>2, <6>2, <6>4
          <6> HIDE DEF n
          <6> QED
            BY <6>5, <6>6
        <5> QED
          BY <5>1, <5>2
      <4> HIDE DEF n
      <4>3. Len(halves') = n
        BY <4>1, <4>2, TabulatedSeq
      <4> QED
        BY <4>3 DEF n
    <3> QED
      BY <1>8, <2>3, <3>2, <3>4
  <2> QED
    BY <1>5, <2>3, <2>4, <2>5 DEF BufferHolds
<1>11. EqHolds'
  BY <1>1, <1>3, <1>8 DEF IInv, EqHolds
<1> QED
  BY <1>1, <1>2, <1>3, <1>7, <1>9, <1>10, <1>11 DEF IInv

LEMMA RoundStepIInv == IInv /\ RoundStep => IInv'
<1> SUFFICES ASSUME IInv, RoundStep PROVE IInv'
  OBVIOUS
<1> DEFINE message == [i \in ChipIds |-> RoundPoly(i, WindowTerms(i))]
           shrink == Round < Unrolled
<1>1. /\ pc = "rounds" /\ Round < NumVars /\ pc' = pc /\ shard' = shard /\ plan' = plan
      /\ Send(message, shrink)
  BY DEF RoundStep
<1>2. shrink = (Round < Unrolled)
  OBVIOUS
<1> HIDE DEF message, shrink
<1>3. /\ Round \in Nat /\ Round' = Round + 1 /\ IsSeq(messages')
      /\ heights' \in [ChipIds -> Nat]
      /\ heights' = [i \in ChipIds |-> CeilShift(shard[i], Round + 1)]
      /\ CapHolds /\ AreaOf(heights') <= AreaBound(MinOf(Round + 1, Unrolled))
      /\ Len(eq') \in Nat /\ Len(eq') >= WindowOf(Round + 1)
  BY <1>1, <1>2, SendStep
<1>4. Progress'
  BY <1>1, <1>3, RoundsAssumption DEF Progress
<1>5. HeightsHold'
  BY <1>1, <1>3 DEF HeightsHold
<1>6. EqHolds'
  BY <1>3 DEF EqHolds
<1>7. BufferHolds'
  <2>1. /\ CapHolds' = CapHolds
        /\ \A r : AreaBound(r)' = AreaBound(r) /\ CapOf(r)' = CapOf(r)
    BY <1>1, Statics
  <2>2. AreaOf(heights') <= AreaBound(MinOf(Round, Unrolled))'
    BY <1>3, <2>1
  <2>3. 2 * Len(halves') = CapOf(Round)'
    <3> DEFINE n == CapOf(Round + 1) \div 2
    <3>1. Round + 1 \in Nat
      BY <1>3
    <3>2. CapOf(Round + 1) \in Nat /\ 2 * n = CapOf(Round + 1)
      BY <1>3, <3>1, CapOfRound
    <3>3. PICK off, stride, source :
              halves' = GatherHalves(CapOf(Round + 1), heights', off, stride, source)
      BY Zenon DEF RoundStep, FoldedHalves
    <3> DEFINE cap == CapOf(Round + 1)
               live == heights'
               new == halves'
    <3> HIDE DEF cap, live, new
    <3>a. new = GatherHalves(cap, live, off, stride, source)
      BY <3>3 DEF cap, live, new
    <3>b. new = [p \in 1..cap \div 2 |-> new[p]]
      BY <3>a, GatherLength
    <3>4. halves' = [p \in 1..n |-> halves'[p]]
      BY <3>b DEF cap, new
    <3>5. n \in Nat
      BY <3>2
    <3> HIDE DEF n
    <3>6. Len(halves') = n
      BY <3>4, <3>5, TabulatedSeq
    <3> QED
      BY <1>3, <2>1, <3>2, <3>6
  <2> QED
    BY <1>3, <2>1, <2>2, <2>3 DEF BufferHolds
<1> QED
  BY <1>1, <1>4, <1>5, <1>6, <1>7 DEF IInv

LEMMA ChunkRoundIInv == IInv /\ ChunkRound => IInv'
<1> SUFFICES ASSUME IInv, ChunkRound PROVE IInv'
  OBVIOUS
<1> DEFINE message == [i \in ChipIds |-> RoundPoly(i, ChunkTerms(i))]
<1>1. /\ pc = "chunks" /\ Round < Depth /\ pc' = pc /\ shard' = shard /\ plan' = plan
      /\ Send(message, TRUE)
  BY DEF ChunkRound
<1> HIDE DEF message
<1>2. shard \in Shards /\ plan \in Plans
  BY DEF IInv
<1>3. Depth \in Nat /\ Depth <= Unrolled /\ Unrolled <= NumVars /\ Round \in Nat
  <2>1. Round \in Nat
    BY LongerSeq DEF IInv, Progress, Round
  <2> QED
    BY <1>2, <2>1, DepthNat, UnrolledNat
<1>4. Round < Unrolled /\ Round < NumVars /\ NumVars \in Nat
  BY <1>1, <1>3, UnrolledNat, RoundsAssumption
<1>5. TRUE = (Round < Unrolled)
  BY <1>4
<1>6. /\ Round' = Round + 1 /\ IsSeq(messages')
      /\ heights' \in [ChipIds -> Nat]
      /\ \A i \in ChipIds : heights'[i] = Pairs(heights[i])
      /\ heights' = [i \in ChipIds |-> CeilShift(shard[i], Round + 1)]
      /\ CapHolds /\ AreaOf(heights') <= AreaBound(MinOf(Round + 1, Unrolled))
      /\ Len(eq') \in Nat /\ Len(eq') >= WindowOf(Round + 1)
  BY <1>1, <1>4, <1>5, SendStep
<1>7. Progress'
  <2>1. Depth' = Depth
    BY <1>1, Statics
  <2> QED
    BY <1>1, <1>3, <1>4, <1>6, <2>1 DEF Progress
<1>8. HeightsHold'
  <2>1. ASSUME NEW i \in ChipIds
        PROVE  /\ heights'[i] <= CeilShift(plan.chunk.caps[i], Round + 1)
               /\ heights'[i] <= Pow2(NumVars - (Round + 1))
    <3>1. /\ heights[i] \in Nat /\ heights[i] <= CeilShift(plan.chunk.caps[i], Round)
          /\ heights[i] <= Pow2(NumVars - Round) /\ heights'[i] = Pairs(heights[i])
      BY <1>1, <1>6 DEF IInv, HeightsHold
    <3>2. plan.chunk.caps[i] \in Nat
      BY <1>2, RoundsAssumption
    <3>3. /\ CeilShift(plan.chunk.caps[i], Round) \in Nat
          /\ Pairs(CeilShift(plan.chunk.caps[i], Round)) = CeilShift(plan.chunk.caps[i], Round + 1)
      BY <1>3, <3>2, CeilShiftHalves
    <3>4. Pairs(heights[i]) <= CeilShift(plan.chunk.caps[i], Round + 1)
      BY <3>1, <3>3, PairsMonotone
    <3> DEFINE e == NumVars - (Round + 1)
               p == Pow2(e)
    <3>5. e \in Nat /\ e + 1 = NumVars - Round
      BY <1>3, <1>4
    <3> HIDE DEF e
    <3>6. p \in Nat /\ Pow2(NumVars - Round) = 2 * p
      BY <3>5, Pow2Def
    <3> HIDE DEF p
    <3>7. Pairs(heights[i]) <= p
      BY <3>1, <3>6, Z3 DEF Pairs
    <3> QED
      BY <3>1, <3>4, <3>7 DEF p, e
  <2> QED
    BY <1>1, <1>6, <2>1 DEF HeightsHold
<1>9. EqHolds'
  BY <1>6 DEF EqHolds
<1>10. BufferHolds'
  <2>1. CapHolds' = CapHolds /\ \A r : AreaBound(r)' = AreaBound(r)
    BY <1>1, Statics
  <2>2. AreaOf(heights') <= AreaBound(MinOf(Round, Unrolled))'
    BY <1>6, <2>1
  <2> QED
    BY <1>1, <1>6, <2>1, <2>2 DEF BufferHolds
<1> QED
  BY <1>1, <1>2, <1>7, <1>8, <1>9, <1>10 DEF IInv

LEMMA MaterializeIInv == IInv /\ Materialize => IInv'
<1> SUFFICES ASSUME IInv, Materialize PROVE IInv'
  OBVIOUS
<1>1. /\ pc = "chunks" /\ pc' = "rounds" /\ Round = Depth
      /\ shard' = shard /\ plan' = plan /\ heights' = heights /\ eq' = eq
      /\ messages' = messages /\ halves' = MaterializedHalves
  BY DEF Materialize
<1>2. shard \in Shards /\ plan \in Plans
  BY DEF IInv
<1>3. Depth \in Nat /\ Depth <= Unrolled
  BY <1>2, DepthNat
<1>4. Round' = Round
  BY <1>1 DEF Round
<1>5. Progress'
  BY <1>1, <1>4 DEF IInv, Progress
<1>6. HeightsHold'
  BY <1>1, <1>4 DEF IInv, HeightsHold
<1>7. EqHolds'
  BY <1>1, <1>4 DEF IInv, EqHolds
<1>8. BufferHolds'
  <2>1. /\ CapHolds' = CapHolds
        /\ \A r : AreaBound(r)' = AreaBound(r) /\ CapOf(r)' = CapOf(r)
    BY <1>1, Statics
  <2>2. CapHolds /\ AreaOf(heights) <= AreaBound(MinOf(Round, Unrolled))
    BY <1>1 DEF IInv, BufferHolds
  <2>3. AreaOf(heights') <= AreaBound(MinOf(Round, Unrolled))'
    BY <1>1, <1>4, <2>1, <2>2
  <2>4. 2 * Len(halves') = CapOf(Round)'
    <3> DEFINE n == BufferCap(Depth) \div 2
    <3>1. CapOf(Depth) = BufferCap(Depth) /\ CapOf(Depth) \in Nat /\ 2 * n = CapOf(Depth)
      BY <1>3, <2>2, CapOfRound
    <3>2. halves' = [p \in 1..n |-> halves'[p]]
      BY <1>1 DEF MaterializedHalves
    <3>3. n \in Nat
      BY <3>1
    <3> HIDE DEF n
    <3>4. Len(halves') = n
      BY <3>2, <3>3, TabulatedSeq
    <3> QED
      BY <1>1, <1>4, <2>1, <3>1, <3>4
  <2> QED
    BY <2>1, <2>2, <2>3, <2>4 DEF BufferHolds
<1> QED
  BY <1>1, <1>2, <1>5, <1>6, <1>7, <1>8 DEF IInv

\* Steps that only end the prove.
LEMMA EndIInv ==
    ASSUME IInv, shard' = shard, plan' = plan, heights' = heights, eq' = eq,
           messages' = messages, pc' \in {"done", "refused"}
    PROVE  IInv'
<1>1. Round' = Round
  BY DEF Round
<1>2. Progress' /\ BufferHolds' /\ EqHolds'
  BY <1>1 DEF IInv, Progress, BufferHolds, EqHolds
<1>3. HeightsHold'
  BY <1>1 DEF IInv, HeightsHold
<1> QED
  BY <1>2, <1>3 DEF IInv

LEMMA StutterIInv == IInv /\ UNCHANGED vars => IInv'
<1> SUFFICES ASSUME IInv, UNCHANGED vars PROVE IInv'
  OBVIOUS
<1>1. /\ shard' = shard /\ plan' = plan /\ heights' = heights /\ eq' = eq
      /\ messages' = messages /\ pc' = pc /\ halves' = halves
  BY DEF vars
<1>2. Round' = Round /\ Depth' = Depth /\ CapHolds' = CapHolds
      /\ \A r : AreaBound(r)' = AreaBound(r) /\ CapOf(r)' = CapOf(r)
  BY <1>1, Statics DEF Round
<1>3. Progress' /\ EqHolds'
  BY <1>1, <1>2 DEF IInv, Progress, EqHolds
<1>4. HeightsHold'
  BY <1>1, <1>2 DEF IInv, HeightsHold
<1>5. BufferHolds'
  <2>1. AreaBound(MinOf(Round, Unrolled))' = AreaBound(MinOf(Round, Unrolled))
    BY <1>2
  <2>2. CapOf(Round)' = CapOf(Round)
    BY <1>2
  <2> QED
    BY <1>1, <1>2, <2>1, <2>2 DEF IInv, BufferHolds
<1> QED
  BY <1>1, <1>3, <1>4, <1>5 DEF IInv

LEMMA NextIInv == IInv /\ [Next]_vars => IInv'
<1> SUFFICES ASSUME IInv, [Next]_vars PROVE IInv'
  OBVIOUS
<1>1. CASE Refuse
  BY <1>1, EndIInv DEF Refuse
<1>2. CASE Arrive
  BY <1>2, ArriveIInv
<1>3. CASE RoundStep
  BY <1>3, RoundStepIInv
<1>4. CASE ChunkRound
  BY <1>4, ChunkRoundIInv
<1>5. CASE Materialize
  BY <1>5, MaterializeIInv
<1>6. CASE Finish
  BY <1>6, EndIInv DEF Finish
<1>7. CASE Ended
  BY <1>7, StutterIInv DEF Ended
<1>8. CASE UNCHANGED vars
  BY <1>8, StutterIInv
<1> QED
  BY <1>1, <1>2, <1>3, <1>4, <1>5, <1>6, <1>7, <1>8 DEF Next

(***************************************************************************)
(* The theorems.                                                           *)
(***************************************************************************)

\* Under any class, cap schedule and chunk plan a prove accepts, the heights
\* are the shard's halved once a round and the eq table covers the window.
THEOREM TypeCorrect == Spec => []TypeOK
<1>1. IInv => TypeOK
  BY DEF IInv, Progress, HeightsHold, EqHolds, TypeOK
<1> QED
  BY <1>1, InitIInv, NextIInv, PTL DEF Spec

LEMMA ChunksHold ==
    ASSUME IInv, pc = "chunks", NEW i \in ChipIds
    PROVE  /\ Round < Depth => Pairs(heights[i]) <= PairCap(i, Round)
           /\ Round = Depth => EvenPad(heights[i]) \div 2 <= BlockHalf(i)
<1> DEFINE cap == plan.chunk.caps[i]
           h == heights[i]
<1>1. /\ h \in Nat /\ h <= CeilShift(cap, Round) /\ h <= Pow2(NumVars - Round)
      /\ plan \in Plans /\ Round \in Nat
  BY LongerSeq DEF IInv, HeightsHold, Progress, Round
<1>2. cap \in Nat
  BY <1>1, RoundsAssumption
<1>3. Depth \in Nat /\ Depth <= NumVars /\ NumVars \in Nat
  BY <1>1, DepthNat, UnrolledNat, RoundsAssumption
<1> HIDE DEF cap, h
<1>4. /\ CeilShift(cap, Round) \in Nat /\ CeilShift(cap, Round + 1) \in Nat
      /\ Pairs(CeilShift(cap, Round)) = CeilShift(cap, Round + 1)
  <2>1. Round + 1 \in Nat
    BY <1>1
  <2> QED
    BY <1>1, <1>2, <2>1, CeilShiftHalves
<1>5. Pairs(h) <= CeilShift(cap, Round + 1) /\ Pairs(h) \in Nat
  BY <1>1, <1>4, PairsMonotone, PairsOf
<1>6. CeilShift(cap, Round + 1) <= MaxOf(CeilShift(cap, Round + 1), 1)
  BY <1>4 DEF MaxOf
<1>7. MaxOf(CeilShift(cap, Round + 1), 1) \in Nat
  BY <1>4 DEF MaxOf
<1>8. ASSUME Round < Depth
      PROVE  Pairs(h) <= PairCap(i, Round)
  <2> DEFINE e == NumVars - 1 - Round
             p == Pow2(e)
  <2>1. e \in Nat /\ e + 1 = NumVars - Round /\ Round < NumVars
    BY <1>1, <1>3, <1>8
  <2>2. p <= EqWidth(Round) /\ EqWidth(Round) \in Nat
    BY <1>1, <2>1, EqWidthHolds
  <2> HIDE DEF e
  <2>3. p \in Nat /\ Pow2(NumVars - Round) = 2 * p
    BY <2>1, Pow2Def
  <2> HIDE DEF p
  <2>4. Pairs(h) <= p
    BY <1>1, <2>3, Z3 DEF Pairs
  <2>5. PairCap(i, Round) = MinOf(MaxOf(CeilShift(cap, Round + 1), 1), EqWidth(Round))
    BY DEF PairCap, cap
  <2> QED
    BY <1>4, <1>5, <1>6, <1>7, <2>2, <2>3, <2>4, <2>5 DEF MinOf
<1>9. ASSUME Round = Depth
      PROVE  EvenPad(h) \div 2 <= BlockHalf(i)
  <2>1. EvenPad(h) \div 2 = Pairs(h)
    BY <1>1, PairsOf
  <2>2. BlockHalf(i) = MaxOf(CeilShift(cap, Round + 1), 1)
    BY <1>9 DEF BlockHalf, cap
  <2> QED
    BY <1>4, <1>5, <1>6, <1>7, <2>1, <2>2
<1> QED
  BY <1>8, <1>9 DEF h

\* The live rows never outgrow the static bound of their round, no window
\* read reaches past the buffer, and a chunk class covers every live pair it
\* is asked for, whatever the shard, the class and the chunk plan.
THEOREM CapsHoldTheArea == Spec => []AreaWithinCap
<1>1. IInv => AreaWithinCap
  <2> SUFFICES ASSUME IInv PROVE AreaWithinCap
    OBVIOUS
  <2>1. pc \in {"chunks", "rounds"} => AreaOf(heights) <= AreaBound(MinOf(Round, Unrolled))
    BY DEF IInv, BufferHolds
  <2>2. ASSUME pc = "rounds"
        PROVE  /\ 2 * Len(halves) = CapOf(Round)
               /\ \A i \in ChipIds :
                      AreaOffsets(heights)[i] \div 2 + WindowOf(Round) <= Len(halves)
    <3>1. CapHolds /\ 2 * Len(halves) = CapOf(Round)
      BY <2>2 DEF IInv, BufferHolds
    <3>2. Round \in Nat /\ heights \in [ChipIds -> Nat]
      BY LongerSeq DEF IInv, Progress, HeightsHold, Round
    <3>3. CapOf(Round) \div 2 = Len(halves)
      <4>1. CapOf(Round) \in Nat /\ 2 * (CapOf(Round) \div 2) = CapOf(Round)
        BY <3>1, <3>2, CapOfRound
      <4> QED
        BY <3>1, <4>1
    <3>4. \A i \in ChipIds :
              AreaOffsets(heights)[i] \div 2 + WindowOf(Round) <= CapOf(Round) \div 2
      BY <2>1, <2>2, <3>1, <3>2, WindowFits
    <3> QED
      BY <3>1, <3>3, <3>4
  <2>3. pc = "chunks" =>
           \A i \in ChipIds :
               /\ Round < Depth => Pairs(heights[i]) <= PairCap(i, Round)
               /\ Round = Depth => EvenPad(heights[i]) \div 2 <= BlockHalf(i)
    BY ChunksHold
  <2> QED
    BY <2>1, <2>2, <2>3 DEF AreaWithinCap
<1> QED
  BY <1>1, InitIInv, NextIInv, PTL DEF Spec

(***************************************************************************)
(* Folded values.                                                          *)
(***************************************************************************)

\* The powers of the promise are the engine's.
LEMMA PromisePow2 == \A n : Promise!Pow2(n) = Pow2(n)
BY DEF Promise!Pow2, Promise!Iterate, Pow2, Iterate

\* The cells of a folded value, with the power and the first row named.
LEMMA ValueCells ==
    ASSUME NEW h, NEW i, NEW c, NEW r, NEW x, NEW w, w = Pow2(r), NEW f, f = x * w
    PROVE  Promise!Value(h, i, c, r, x) =
               {<<p, <<i, c, f + p>>>> : p \in {q \in 0..w - 1 : f + q < h}}
<1>1. f = x * Promise!Pow2(r) /\ w = Promise!Pow2(r)
  BY PromisePow2
<1> QED
  BY <1>1, Zenon DEF Promise!Value

\* A row at or past the folded height holds nothing.
LEMMA ValueZero ==
    ASSUME NEW h \in Nat, NEW i, NEW c, NEW r \in Nat, NEW x \in Nat, CeilShift(h, r) <= x
    PROVE  Promise!Value(h, i, c, r, x) = {}
<1> DEFINE w == Pow2(r)
<1>1. w \in Nat /\ w >= 1
  BY Pow2Def
<1> DEFINE f == x * w
<1>2. Promise!Value(h, i, c, r, x) =
          {<<p, <<i, c, f + p>>>> : p \in {q \in 0..w - 1 : f + q < h}}
  BY ValueCells
<1>3. CeilShift(h, r) = (h + w - 1) \div w
  BY DEF CeilShift
<1> HIDE DEF w
<1>4. h <= x * w /\ x * w \in Nat
  <2>1. x * w \in Nat
    BY <1>1, Z3
  <2> QED
    BY <1>1, <1>3, <2>1, CeilBounds
<1>5. {q \in 0..w - 1 : x * w + q < h} = {}
  BY <1>1, <1>4
<1> QED
  BY <1>2, <1>5

\* Before any fold a row is its own cell.
LEMMA ValueCell ==
    ASSUME NEW h \in Nat, NEW i \in Nat, NEW c \in Nat, NEW x \in Nat, x < h
    PROVE  Promise!Value(h, i, c, 0, x) = {<<0, <<i, c, x>>>>}
<1> DEFINE w == 1
<1>1. w = Pow2(0)
  BY Pow2Def
<1>2. Promise!Value(h, i, c, 0, x) =
          {<<p, <<i, c, x * w + p>>>> : p \in {q \in 0..w - 1 : x * w + q < h}}
  <2> HIDE DEF w
  <2> QED
    BY <1>1, ValueCells
<1>3. {q \in 0..w - 1 : x * w + q < h} = {0}
  OBVIOUS
<1>4. x * w + 0 = x
  OBVIOUS
<1> QED
  BY <1>2, <1>3, <1>4

\* The fold of a pair of rows is their row after one more fold.
LEMMA ValueFold ==
    ASSUME NEW h \in Nat, NEW i, NEW c, NEW r \in Nat, NEW x \in Nat
    PROVE  Fold(Promise!Value(h, i, c, r, 2 * x), Promise!Value(h, i, c, r, 2 * x + 1), r)
               = Promise!Value(h, i, c, r + 1, x)
<1> DEFINE w == Pow2(r)
           f == x * (2 * w)
           Even == {<<p, <<i, c, f + p>>>> : p \in {q \in 0..w - 1 : f + q < h}}
           Odd == {<<p, <<i, c, (f + w) + p>>>> : p \in {q \in 0..w - 1 : (f + w) + q < h}}
           Both == {<<p, <<i, c, f + p>>>> : p \in {q \in 0..2 * w - 1 : f + q < h}}
<1>1. w \in Nat /\ w >= 1 /\ Pow2(r + 1) = 2 * w
  BY Pow2Def
<1>2. /\ f \in Nat /\ (2 * x) * w = f /\ (2 * x + 1) * w = f + w
  <2> HIDE DEF w
  <2> QED
    BY <1>1, Z3
<1> DEFINE d == 2 * w
           g == f + w
<1>b. /\ w = Promise!Pow2(r) /\ d = Promise!Pow2(r + 1)
      /\ f = (2 * x) * Promise!Pow2(r) /\ g = (2 * x + 1) * Promise!Pow2(r)
      /\ f = x * Promise!Pow2(r + 1)
  BY <1>1, <1>2, PromisePow2
<1>3. Promise!Value(h, i, c, r, 2 * x) = Even
  <2> HIDE DEF w, f
  <2> QED
    BY <1>b, Zenon DEF Promise!Value
<1>4. Promise!Value(h, i, c, r, 2 * x + 1) = Odd
  <2>1. Promise!Value(h, i, c, r, 2 * x + 1) =
            {<<p, <<i, c, g + p>>>> : p \in {q \in 0..w - 1 : g + q < h}}
    <3> HIDE DEF w, f, g
    <3> QED
      BY <1>b, Zenon DEF Promise!Value
  <2> QED
    BY <2>1
<1>5. Promise!Value(h, i, c, r + 1, x) = Both
  <2>1. Promise!Value(h, i, c, r + 1, x) =
            {<<p, <<i, c, f + p>>>> : p \in {q \in 0..d - 1 : f + q < h}}
    <3> HIDE DEF w, f, d
    <3> QED
      BY <1>b, Zenon DEF Promise!Value
  <2> QED
    BY <2>1
<1>6. Fold(Even, Odd, r) = Even \cup {<<y[1] + w, y[2]>> : y \in Odd}
  BY DEF Fold
<1> HIDE DEF w, f
<1>7. ASSUME NEW z \in Even PROVE z \in Both
  <2>1. PICK p \in 0..w - 1 : f + p < h /\ z = <<p, <<i, c, f + p>>>>
    OBVIOUS
  <2>2. p \in 0..2 * w - 1
    BY <1>1
  <2> QED
    BY <2>1, <2>2
<1>8. ASSUME NEW y \in Odd PROVE <<y[1] + w, y[2]>> \in Both
  <2>1. PICK p \in 0..w - 1 : (f + w) + p < h /\ y = <<p, <<i, c, (f + w) + p>>>>
    OBVIOUS
  <2>2. p + w \in 0..2 * w - 1 /\ f + (p + w) = (f + w) + p
    BY <1>1, <1>2
  <2>3. <<y[1] + w, y[2]>> = <<p + w, <<i, c, f + (p + w)>>>>
    BY <2>1, <2>2
  <2>4. p + w \in {q \in 0..2 * w - 1 : f + q < h}
    BY <2>1, <2>2
  <2> QED
    BY <2>3, <2>4, Zenon
<1>9. ASSUME NEW z \in Both
      PROVE  z \in Even \/ \E y \in Odd : z = <<y[1] + w, y[2]>>
  <2>1. PICK p \in 0..2 * w - 1 : f + p < h /\ z = <<p, <<i, c, f + p>>>>
    OBVIOUS
  <2>2. CASE p < w
    <3>1. p \in 0..w - 1
      BY <1>1, <2>2
    <3> QED
      BY <2>1, <3>1
  <2>3. CASE ~(p < w)
    <3> DEFINE q == p - w
               y == <<q, <<i, c, (f + w) + q>>>>
    <3>1. q \in 0..w - 1 /\ (f + w) + q < h /\ (f + w) + q = f + p /\ q + w = p
      BY <1>1, <1>2, <2>1, <2>3
    <3>2. y \in Odd
      <4> HIDE DEF q
      <4> QED
        BY <3>1
    <3>3. z = <<y[1] + w, y[2]>>
      <4> HIDE DEF q
      <4> QED
        BY <2>1, <3>1
    <3> QED
      BY <3>2, <3>3
  <2> QED
    BY <2>2, <2>3
<1>10. Even \cup {<<y[1] + w, y[2]>> : y \in Odd} = Both
  <2> HIDE DEF Even, Odd, Both
  <2> QED
    BY <1>7, <1>8, <1>9
<1> QED
  BY <1>3, <1>4, <1>5, <1>6, <1>10

\* The rows past the real height, folded.
LEMMA BeyondOf ==
    ASSUME NEW h, NEW r, NEW x, NEW w, w = Pow2(r), NEW f, f = x * w
    PROVE  Promise!Beyond(h, r, x) = {p \in 0..w - 1 : f + p >= h}
<1>1. f = x * Promise!Pow2(r) /\ w = Promise!Pow2(r)
  BY PromisePow2
<1> QED
  BY <1>1, Zenon DEF Promise!Beyond

\* The points past the real height fold like the rows.
LEMMA BeyondFold ==
    ASSUME NEW h \in Nat, NEW r \in Nat, NEW x \in Nat
    PROVE  Promise!Beyond(h, r + 1, x) =
               Promise!Beyond(h, r, 2 * x)
                   \cup {p + Pow2(r) : p \in Promise!Beyond(h, r, 2 * x + 1)}
<1> DEFINE w == Pow2(r)
           f == x * (2 * w)
           Even == {p \in 0..w - 1 : f + p >= h}
           Odd == {p \in 0..w - 1 : (f + w) + p >= h}
           Both == {p \in 0..2 * w - 1 : f + p >= h}
<1>1. w \in Nat /\ w >= 1 /\ Pow2(r + 1) = 2 * w
  BY Pow2Def
<1>2. /\ f \in Nat /\ (2 * x) * w = f /\ (2 * x + 1) * w = f + w
  <2> HIDE DEF w
  <2> QED
    BY <1>1, Z3
<1> DEFINE d == 2 * w
           g == f + w
<1>b. /\ w = Promise!Pow2(r) /\ d = Promise!Pow2(r + 1)
      /\ f = (2 * x) * Promise!Pow2(r) /\ g = (2 * x + 1) * Promise!Pow2(r)
      /\ f = x * Promise!Pow2(r + 1)
  BY <1>1, <1>2, PromisePow2
<1>3. Promise!Beyond(h, r, 2 * x) = Even
  <2> HIDE DEF w, f
  <2> QED
    BY <1>b, Zenon DEF Promise!Beyond
<1>4. Promise!Beyond(h, r, 2 * x + 1) = Odd
  <2>1. Promise!Beyond(h, r, 2 * x + 1) = {p \in 0..w - 1 : g + p >= h}
    <3> HIDE DEF w, f, g
    <3> QED
      BY <1>b, Zenon DEF Promise!Beyond
  <2> QED
    BY <2>1
<1>5. Promise!Beyond(h, r + 1, x) = Both
  <2>1. Promise!Beyond(h, r + 1, x) = {p \in 0..d - 1 : f + p >= h}
    <3> HIDE DEF w, f, d
    <3> QED
      BY <1>b, Zenon DEF Promise!Beyond
  <2> QED
    BY <2>1
<1> HIDE DEF f
<1>6. Both = Even \cup {p + w : p \in Odd}
  <2> HIDE DEF w
  <2>1. \A p \in Even : p \in Both
    BY <1>1, <1>2
  <2>2. \A p \in Odd : p + w \in Both
    BY <1>1, <1>2
  <2>3. ASSUME NEW p \in Both PROVE p \in Even \/ \E q \in Odd : p = q + w
    <3>1. CASE p < w
      BY <1>1, <1>2, <3>1
    <3>2. CASE ~(p < w)
      <4>1. p - w \in Odd /\ p = (p - w) + w
        BY <1>1, <1>2, <3>2
      <4> QED
        BY <4>1
    <3> QED
      BY <3>1, <3>2
  <2> HIDE DEF Even, Odd, Both
  <2> QED
    BY <2>1, <2>2, <2>3
<1> QED
  BY <1>3, <1>4, <1>5, <1>6

\* The virtual geq of a chip holds, at every row, the rows past the height.
GeqExact(g, h, r) ==
    g.threshold \in Nat /\ \A x \in Nat : GeqAt(g, x, r) = Promise!Beyond(h, r, x)

\* The first virtual geq is exact.
LEMMA GeqFirst ==
    ASSUME NEW h \in Nat
    PROVE  GeqExact(VirtualGeq(h), h, 0)
<1> DEFINE g == VirtualGeq(h)
<1>1. g.threshold = h /\ g.at = {0}
  BY DEF VirtualGeq
<1>3. \A x, t, a : g.threshold = t /\ g.at = a =>
          GeqAt(g, x, 0) = IF x < t THEN {} ELSE IF x = t THEN a ELSE 0..0
  <2> HIDE DEF g
  <2>1. Pow2(0) - 1 = 0
    BY Pow2Def
  <2> QED
    BY <2>1, Zenon DEF GeqAt
<1> HIDE DEF g
<1>2. ASSUME NEW x \in Nat PROVE GeqAt(g, x, 0) = Promise!Beyond(h, 0, x)
  <2> DEFINE w == 1
  <2>1. w = Pow2(0)
    BY Pow2Def
  <2>2. Promise!Beyond(h, 0, x) = {p \in 0..w - 1 : x * w + p >= h}
    <3> HIDE DEF w
    <3> QED
      BY <2>1, BeyondOf
  <2>3. Promise!Beyond(h, 0, x) = {p \in {0} : x >= h}
    BY <2>2
  <2>4. GeqAt(g, x, 0) = IF x < h THEN {} ELSE IF x = h THEN {0} ELSE 0..0
    BY <1>1, <1>3
  <2> QED
    BY <2>3, <2>4
<1> QED
  BY <1>1, <1>2 DEF GeqExact, g

\* A folded virtual geq is exact.
LEMMA GeqFold ==
    ASSUME NEW g, NEW h \in Nat, NEW r \in Nat, GeqExact(g, h, r)
    PROVE  GeqExact(FixLastVariable(g, r), h, r + 1)
<1> DEFINE t == g.threshold
           half == t \div 2
           w == Pow2(r)
           n == FixLastVariable(g, r)
           Folded(x) == GeqAt(g, 2 * x, r) \cup {p + w : p \in GeqAt(g, 2 * x + 1, r)}
<1>1. t \in Nat /\ \A x \in Nat : GeqAt(g, x, r) = Promise!Beyond(h, r, x)
  BY DEF GeqExact
<1>2. n.threshold = half /\ n.at = Folded(half)
  BY DEF FixLastVariable
<1>3. half \in Nat /\ 2 * half <= t /\ t <= 2 * half + 1
  BY <1>1, Z3
<1>4. w \in Nat /\ w >= 1 /\ Pow2(r + 1) = 2 * w
  BY Pow2Def
<1>5. \A x : GeqAt(g, x, r) = IF x < t THEN {} ELSE IF x = t THEN g.at ELSE 0..w - 1
  BY DEF GeqAt
<1>6. \A x : GeqAt(n, x, r + 1) =
          IF x < half THEN {} ELSE IF x = half THEN Folded(half) ELSE 0..2 * w - 1
  BY <1>2, <1>4 DEF GeqAt
<1> HIDE DEF t, half, w, n
<1>7. ASSUME NEW x \in Nat PROVE GeqAt(n, x, r + 1) = Promise!Beyond(h, r + 1, x)
  <2>1. Promise!Beyond(h, r + 1, x) = Folded(x)
    <3>1. 2 * x \in Nat /\ 2 * x + 1 \in Nat
      OBVIOUS
    <3>2. /\ GeqAt(g, 2 * x, r) = Promise!Beyond(h, r, 2 * x)
          /\ GeqAt(g, 2 * x + 1, r) = Promise!Beyond(h, r, 2 * x + 1)
      BY <1>1, <3>1
    <3> QED
      BY <3>2, BeyondFold DEF w
  <2>2. CASE x < half
    <3>1. 2 * x < t /\ 2 * x + 1 < t
      BY <1>1, <1>3, <2>2
    <3>2. GeqAt(g, 2 * x, r) = {} /\ GeqAt(g, 2 * x + 1, r) = {}
      BY <1>5, <3>1
    <3> QED
      BY <1>6, <2>1, <2>2, <3>2
  <2>3. CASE x = half
    <3>1. ~(half < half)
      BY <1>3
    <3>2. GeqAt(n, half, r + 1) = Folded(half)
      <4> HIDE DEF Folded
      <4> QED
        BY <1>6, <3>1
    <3> QED
      BY <2>1, <2>3, <3>2
  <2>4. CASE x > half
    <3>1. 2 * x > t /\ 2 * x + 1 > t
      BY <1>1, <1>3, <2>4
    <3>2. ~(2 * x < t) /\ 2 * x # t /\ ~(2 * x + 1 < t) /\ 2 * x + 1 # t
      BY <1>1, <3>1
    <3>3. GeqAt(g, 2 * x, r) = 0..w - 1 /\ GeqAt(g, 2 * x + 1, r) = 0..w - 1
      BY <1>5, <3>2
    <3>4. 0..w - 1 \cup {p + w : p \in 0..w - 1} = 0..2 * w - 1
      <4>1. \A p \in 0..w - 1 : p \in 0..2 * w - 1 /\ p + w \in 0..2 * w - 1
        BY <1>4
      <4>2. ASSUME NEW p \in 0..2 * w - 1
            PROVE  p \in 0..w - 1 \/ \E q \in 0..w - 1 : p = q + w
        <5>1. CASE p < w
          BY <1>4, <5>1
        <5>2. CASE ~(p < w)
          <6>1. p - w \in 0..w - 1 /\ p = (p - w) + w
            BY <1>4, <5>2
          <6> QED
            BY <6>1
        <5> QED
          BY <5>1, <5>2
      <4> QED
        BY <4>1, <4>2
    <3>5. ~(x < half) /\ x # half
      BY <1>3, <2>4
    <3> QED
      BY <1>6, <2>1, <3>3, <3>4, <3>5
  <2> QED
    BY <1>3, <2>2, <2>3, <2>4
<1> QED
  BY <1>2, <1>3, <1>7 DEF GeqExact, n

(***************************************************************************)
(* Where a column's pairs lie in the packed halves.                        *)
(***************************************************************************)
HalfArea(hs) == [i \in ChipIds |-> Cols[i] * Pairs(hs[i])]
HalfOff(hs, n) == Prefix(HalfArea(hs))[n]

\* The half offsets are the offsets halved.
LEMMA HalfOffsets ==
    ASSUME NEW hs \in [ChipIds -> Nat]
    PROVE  /\ HalfArea(hs) \in Seq(Nat) /\ Len(HalfArea(hs)) = Len(Cols)
           /\ \A i \in 1..Len(Cols) : HalfArea(hs)[i] = Cols[i] * Pairs(hs[i])
           /\ \A n \in 0..Len(Cols) : /\ HalfOff(hs, n) \in Nat
                                      /\ AreaOffsets(hs)[n] = 2 * HalfOff(hs, n)
                                      /\ AreaOffsets(hs)[n] \div 2 = HalfOff(hs, n)
           /\ AreaOf(hs) = 2 * HalfOff(hs, Len(Cols))
           /\ HalfOff(hs, 0) = 0
<1> DEFINE half == HalfArea(hs)
<1>1. Cols \in Seq(Nat) /\ Len(Cols) \in Nat
  BY ColsHold
<1>2. ASSUME NEW i \in ChipIds
      PROVE  half[i] \in Nat /\ Weighted(hs)[i] = 2 * half[i]
  <2>1. Cols[i] \in Nat
    BY ColsHold
  <2>2. Pairs(hs[i]) \in Nat /\ EvenPad(hs[i]) = 2 * Pairs(hs[i])
    BY PairsOf
  <2>3. Weighted(hs)[i] = Cols[i] * EvenPad(hs[i]) /\ half[i] = Cols[i] * Pairs(hs[i])
    BY DEF Weighted, HalfArea
  <2>4. Cols[i] * (2 * Pairs(hs[i])) = 2 * (Cols[i] * Pairs(hs[i]))
    BY <2>1, <2>2, Z3
  <2>5. Cols[i] * Pairs(hs[i]) \in Nat
    BY <2>1, <2>2, Z3
  <2> QED
    BY <2>2, <2>3, <2>4, <2>5
<1>3. half \in [1..Len(Cols) -> Nat] /\ \A i \in 1..Len(Cols) : half[i] = Cols[i] * Pairs(hs[i])
  BY <1>2 DEF ChipIds, HalfArea
<1> HIDE DEF half
<1>4. half \in Seq(Nat) /\ Len(half) = Len(Cols)
  BY <1>1, <1>3
<1>5. \A i \in 1..Len(half) : Weighted(hs)[i] = 2 * half[i]
  BY <1>2, <1>4 DEF ChipIds
<1>6. \A n \in 0..Len(half) : Prefix(Weighted(hs))[n] = 2 * Prefix(half)[n]
  BY <1>4, <1>5, WeightedSeq, PrefixDoubled
<1>7. Prefix(half) \in [0..Len(Cols) -> Nat] /\ Prefix(half)[0] = 0
  BY <1>4, PrefixDef
<1>8. ASSUME NEW n \in 0..Len(Cols)
      PROVE  /\ Prefix(half)[n] \in Nat
             /\ AreaOffsets(hs)[n] = 2 * Prefix(half)[n]
             /\ AreaOffsets(hs)[n] \div 2 = Prefix(half)[n]
  <2>1. Prefix(half)[n] \in Nat
    BY <1>7
  <2>2. AreaOffsets(hs)[n] = 2 * Prefix(half)[n]
    BY <1>4, <1>6, WeightedSeq
  <2>3. (2 * Prefix(half)[n]) \div 2 = Prefix(half)[n]
    BY <2>1, Z3
  <2> QED
    BY <2>1, <2>2, <2>3
<1>9. AreaOf(hs) = 2 * Prefix(half)[Len(Cols)]
  <2>1. AreaOf(hs) = AreaOffsets(hs)[Len(Cols)] /\ Len(Cols) \in 0..Len(Cols)
    BY <1>1, WeightedSeq
  <2> QED
    BY <1>8, <2>1
<1> QED
  BY <1>3, <1>4, <1>7, <1>8, <1>9 DEF half, HalfOff

\* A column's pairs, from its chip's offset to the next chip's.
LEMMA SlotBounds ==
    ASSUME NEW hs \in [ChipIds -> Nat], NEW i \in ChipIds, NEW c \in 1..Cols[i]
    PROVE  /\ i \in 1..Len(Cols) /\ i - 1 \in 0..Len(Cols) /\ i \in 0..Len(Cols)
           /\ HalfOff(hs, i - 1) \in Nat /\ HalfOff(hs, i) \in Nat
           /\ HalfOff(hs, i) = HalfOff(hs, i - 1) + Cols[i] * Pairs(hs[i])
           /\ HalfOff(hs, i) <= HalfOff(hs, Len(Cols)) /\ HalfOff(hs, Len(Cols)) \in Nat
           /\ (c - 1) * Pairs(hs[i]) \in Nat /\ c * Pairs(hs[i]) \in Nat
           /\ c * Pairs(hs[i]) = (c - 1) * Pairs(hs[i]) + Pairs(hs[i])
           /\ c * Pairs(hs[i]) <= Cols[i] * Pairs(hs[i])
           /\ Pairs(hs[i]) \in Nat /\ Cols[i] \in Nat
<1> DEFINE s == HalfArea(hs)
           n == Pairs(hs[i])
           k == Cols[i]
<1>1. s \in Seq(Nat) /\ Len(s) = Len(Cols) /\ i \in 1..Len(s) /\ s[i] = k * n
  BY HalfOffsets DEF ChipIds
<1>2. Len(Cols) \in Nat
  BY ColsHold
<1>3. n \in Nat /\ k \in Nat /\ c \in Nat /\ 1 <= c /\ c <= k
  <2>1. k \in Nat
    BY ColsHold
  <2>2. hs[i] \in Nat
    OBVIOUS
  <2> QED
    BY <2>1, <2>2, PairsOf
<1>4. /\ (c - 1) * n \in Nat /\ c * n \in Nat /\ c * n = (c - 1) * n + n /\ c * n <= k * n
  <2> HIDE DEF n, k
  <2>1. c * n = (c - 1) * n + n /\ c * n \in Nat
    BY <1>3, Z3
  <2>2. (c - 1) * n \in Nat
    <3>1. c - 1 \in Nat
      BY <1>3
    <3> QED
      BY <1>3, <3>1, Z3
  <2>3. c * n <= k * n
    BY <1>3, Z3
  <2> QED
    BY <2>1, <2>2, <2>3
<1>5. /\ Prefix(s)[i - 1] \in Nat /\ Prefix(s)[i] \in Nat
      /\ Prefix(s)[i] = Prefix(s)[i - 1] + s[i]
      /\ Prefix(s)[i] <= Total(s) /\ Total(s) \in Nat
  <2> HIDE DEF s
  <2> QED
    BY <1>1, BlockBounds
<1>6. Total(s) = Prefix(s)[Len(Cols)]
  BY <1>1 DEF Total
<1>7. i - 1 \in 0..Len(Cols) /\ i \in 0..Len(Cols)
  BY <1>1, <1>2
<1> QED
  BY <1>1, <1>3, <1>4, <1>5, <1>6, <1>7 DEF HalfOff

\* The segments of a chip are its columns.
LEMMA SegmentAt ==
    ASSUME NEW i \in ChipIds, NEW c \in 1..Cols[i]
    PROVE  LET s == Prefix(Cols)[i - 1] + c
           IN  s \in 1..SumCols /\ SegChip[s] = i /\ SegCol[s] = c - 1
<1> DEFINE p == Prefix(Cols)
           s == p[i - 1] + c
<1>1. Cols \in Seq(Nat) /\ i \in 1..Len(Cols) /\ ChipIds = 1..Len(Cols)
  BY ColsHold
<1>2. /\ p[i - 1] \in Nat /\ p[i] \in Nat /\ p[i] = p[i - 1] + Cols[i] /\ Cols[i] \in Nat
      /\ p[i] <= SumCols /\ SumCols \in Nat
  BY <1>1, BlockBounds DEF SumCols
<1>3. s \in 1..SumCols /\ p[i - 1] < s /\ s <= p[i] /\ s \in Int
  <2> HIDE DEF p
  <2> QED
    BY <1>2
<1> HIDE DEF s
<1>4. SegChip[s] = CHOOSE j \in ChipIds : p[j - 1] < s /\ s <= p[j]
  BY <1>3 DEF SegChip
<1>5. p[SegChip[s] - 1] < s /\ s <= p[SegChip[s]] /\ SegChip[s] \in ChipIds
  <2> HIDE DEF p
  <2> QED
    BY <1>3, <1>4, Zenon
<1>6. SegChip[s] = i
  BY <1>1, <1>3, <1>5, BlockUnique
<1>7. SegCol[s] = s - p[i - 1] - 1
  BY <1>3, <1>6 DEF SegCol
<1>8. SegCol[s] = c - 1
  <2> HIDE DEF p
  <2> QED
    BY <1>2, <1>7 DEF s
<1> QED
  BY <1>3, <1>6, <1>8 DEF s

\* Every segment is some chip's.
LEMMA SegmentOf ==
    ASSUME NEW s \in 1..SumCols
    PROVE  SegChip[s] \in ChipIds
<1> DEFINE p == Prefix(Cols)
<1>1. \E j \in ChipIds : p[j - 1] < s /\ s <= p[j]
  BY ColsHold, BlockExists DEF SumCols
<1>2. SegChip[s] = CHOOSE j \in ChipIds : p[j - 1] < s /\ s <= p[j]
  BY DEF SegChip
<1> HIDE DEF p
<1> QED
  BY <1>1, <1>2, Zenon

\* There is a segment.
LEMMA SomeSegment == SumCols >= 1
<1>1. Cols \in Seq(Nat) /\ 1 \in 1..Len(Cols) /\ 1 \in ChipIds
  BY ColsHold
<1>2. Cols[1] >= 1 /\ Cols[1] \in Nat
  BY <1>1, ColsHold
<1>3. Prefix(Cols)[1] = Prefix(Cols)[1 - 1] + Cols[1] /\ Prefix(Cols)[1 - 1] \in Nat
      /\ Prefix(Cols)[1] <= Total(Cols) /\ Total(Cols) \in Nat
  BY <1>1, BlockBounds
<1> QED
  BY <1>2, <1>3 DEF SumCols

\* The segment starts of _gather_halves at some live heights.
SegHalves(live) == [s \in 1..SumCols |-> EvenPad(live[SegChip[s]]) \div 2]

\* The segments' lengths, in halves.
LEMMA SegHalvesSeq ==
    ASSUME NEW live \in [ChipIds -> Nat]
    PROVE  /\ SegHalves(live) \in Seq(Nat) /\ Len(SegHalves(live)) = SumCols
           /\ \A s \in 1..SumCols : SegHalves(live)[s] = Pairs(live[SegChip[s]])
<1>1. ASSUME NEW s \in 1..SumCols
      PROVE  EvenPad(live[SegChip[s]]) \div 2 = Pairs(live[SegChip[s]])
             /\ Pairs(live[SegChip[s]]) \in Nat
  <2>1. live[SegChip[s]] \in Nat
    BY SegmentOf
  <2> QED
    BY <2>1, PairsOf
<1>2. SegHalves(live) \in [1..SumCols -> Nat]
  BY <1>1 DEF SegHalves
<1>3. SumCols \in Nat
  BY SumColsNat
<1>4. SegHalves(live) \in Seq(Nat) /\ Len(SegHalves(live)) = SumCols
  BY <1>2, <1>3
<1> QED
  BY <1>1, <1>4 DEF SegHalves

\* Where each column's segment starts.
LEMMA SegmentStarts ==
    ASSUME NEW live \in [ChipIds -> Nat]
    PROVE  /\ \A i \in ChipIds : \A c \in 0..Cols[i] :
                  Prefix(SegHalves(live))[Prefix(Cols)[i - 1] + c]
                      = HalfOff(live, i - 1) + c * Pairs(live[i])
           /\ Total(SegHalves(live)) = HalfOff(live, Len(Cols))
<1> DEFINE p == Prefix(Cols)
           w == SegHalves(live)
           q == Prefix(w)
           N == Len(Cols)
           S == {m \in Nat : m <= N => q[p[m]] = HalfOff(live, m)}
<1>1. Cols \in Seq(Nat) /\ ChipIds = 1..N /\ N \in Nat
  BY ColsHold
<1>2. w \in Seq(Nat) /\ Len(w) = SumCols
  BY SegHalvesSeq
<1>3. p[0] = 0 /\ q[0] = 0 /\ HalfOff(live, 0) = 0 /\ p[N] = SumCols
  BY <1>1, <1>2, HalfOffsets, PrefixDef DEF SumCols, Total
<1>4. ASSUME NEW i \in ChipIds, NEW c \in 0..Cols[i]
      PROVE  q[p[i - 1] + c] = q[p[i - 1]] + c * Pairs(live[i])
  <2> DEFINE a == p[i - 1]
             b == a + c
             v == Pairs(live[i])
  <2>1. /\ a \in Nat /\ p[i] \in Nat /\ p[i] = a + Cols[i] /\ Cols[i] \in Nat
        /\ p[i] <= SumCols /\ SumCols \in Nat
    BY <1>1, BlockBounds DEF SumCols
  <2> HIDE DEF p
  <2>2. a \in 0..Len(w) /\ b \in a..Len(w)
    BY <1>2, <2>1
  <2>3. v \in Nat
    <3>1. live[i] \in Nat
      OBVIOUS
    <3> QED
      BY <3>1, PairsOf
  <2>4. ASSUME NEW s \in a + 1..b PROVE w[s] = v
    <3>1. s - a \in 1..Cols[i] /\ a + (s - a) = s /\ s \in 1..SumCols
      BY <2>1
    <3>2. SegChip[s] = i
      BY <3>1, SegmentAt DEF p
    <3> QED
      BY <3>1, <3>2, SegHalvesSeq
  <2> HIDE DEF w, a, b, v
  <2>5. q[b] = q[a] + (b - a) * v
    BY <1>2, <2>2, <2>3, <2>4, PrefixOfEqual
  <2>6. b - a = c
    BY <2>1 DEF b
  <2> QED
    BY <2>5, <2>6 DEF a, b, v
<1>5. 0 \in S
  BY <1>3
<1>6. ASSUME NEW m \in Nat, m \in S PROVE m + 1 \in S
  <2> SUFFICES ASSUME m + 1 <= N PROVE q[p[m + 1]] = HalfOff(live, m + 1)
    OBVIOUS
  <2> DEFINE i == m + 1
  <2>1. i \in ChipIds /\ i - 1 = m /\ m <= N
    BY <1>1
  <2>2. q[p[i - 1]] = HalfOff(live, i - 1)
    BY <1>6, <2>1
  <2> HIDE DEF i
  <2>3. Cols[i] \in Nat /\ 1 <= Cols[i]
    BY <2>1, ColsHold
  <2>4. Cols[i] \in 0..Cols[i] /\ 1 \in 1..Cols[i]
    BY <2>3
  <2>5. q[p[i - 1] + Cols[i]] = q[p[i - 1]] + Cols[i] * Pairs(live[i])
    BY <1>4, <2>1, <2>4
  <2>6. p[i] = p[i - 1] + Cols[i]
    BY <1>1, <2>1, BlockBounds
  <2>7. HalfOff(live, i) = HalfOff(live, i - 1) + Cols[i] * Pairs(live[i])
    BY <2>1, <2>4, SlotBounds
  <2> QED
    BY <2>2, <2>5, <2>6, <2>7 DEF i
<1> HIDE DEF S
<1>7. \A m \in Nat : m \in S
  BY <1>5, <1>6, NatSetInduction
<1>8. \A m \in 0..N : q[p[m]] = HalfOff(live, m)
  BY <1>7 DEF S
<1>9. ASSUME NEW i \in ChipIds, NEW c \in 0..Cols[i]
      PROVE  q[p[i - 1] + c] = HalfOff(live, i - 1) + c * Pairs(live[i])
  <2>1. i - 1 \in 0..N
    BY <1>1
  <2> QED
    BY <1>4, <1>8, <2>1
<1>10. Total(w) = HalfOff(live, N)
  <2>1. N \in 0..N
    BY <1>1
  <2> QED
    BY <1>2, <1>3, <1>8, <2>1 DEF Total
<1> QED
  BY <1>9, <1>10

(***************************************************************************)
(* What a gather lays down.                                                *)
(***************************************************************************)
SourceRow(live, off, stride, source, i, c, row) ==
    IF row < live[i] THEN Take(source, off[i] + (c - 1) * stride[i] + row) ELSE {}

SegmentRow(live, off, stride, source, s, row) ==
    IF row < live[SegChip[s]]
    THEN Take(source, off[SegChip[s]] + SegCol[s] * stride[SegChip[s]] + row)
    ELSE {}

\* The pair of row rh of a segment that holds place p.
SegmentHolding(live, p) ==
    MaxOf(1, MinOf(SumCols,
        Cardinality({t \in 0..SumCols : Prefix(SegHalves(live))[t] <= p - 1})))

\* What _gather_halves fetches at a place, by the segment that holds it.
LEMMA GatherSegment ==
    ASSUME NEW area, NEW live, NEW off, NEW stride, NEW source, NEW p \in 1..area \div 2,
           NEW s, s = SegmentHolding(live, p),
           NEW rh, rh = p - 1 - Prefix(SegHalves(live))[s - 1]
    PROVE  GatherHalves(area, live, off, stride, source)[p] =
               <<SegmentRow(live, off, stride, source, s, 2 * rh),
                 SegmentRow(live, off, stride, source, s, 2 * rh + 1)>>
BY Zenon DEF GatherHalves, SegHalves, SegmentRow, SegmentHolding

\* What it fetches at a pair of a column's segment.
LEMMA GatherAt ==
    ASSUME NEW area, NEW live \in [ChipIds -> Nat], NEW off, NEW stride, NEW source,
           NEW i \in ChipIds, NEW c \in 1..Cols[i], NEW k \in 1..Pairs(live[i]),
           NEW p \in 1..area \div 2, p = HalfOff(live, i - 1) + (c - 1) * Pairs(live[i]) + k
    PROVE  GatherHalves(area, live, off, stride, source)[p] =
               <<SourceRow(live, off, stride, source, i, c, 2 * (k - 1)),
                 SourceRow(live, off, stride, source, i, c, 2 * (k - 1) + 1)>>
<1> DEFINE w == SegHalves(live)
           s == Prefix(Cols)[i - 1] + c
           a == HalfOff(live, i - 1) + (c - 1) * Pairs(live[i])
<1>1. /\ HalfOff(live, i - 1) \in Nat /\ (c - 1) * Pairs(live[i]) \in Nat
      /\ c * Pairs(live[i]) = (c - 1) * Pairs(live[i]) + Pairs(live[i])
      /\ Pairs(live[i]) \in Nat /\ Cols[i] \in Nat
  BY SlotBounds
<1>2. s \in 1..SumCols /\ SegChip[s] = i /\ SegCol[s] = c - 1
  BY SegmentAt
<1>3. c \in 0..Cols[i] /\ c - 1 \in 0..Cols[i] /\ Prefix(Cols)[i - 1] \in Nat
  <2>1. Prefix(Cols)[i - 1] \in Nat
    BY ColsHold, BlockBounds
  <2> QED
    BY <1>1, <2>1
<1>4. s - 1 = Prefix(Cols)[i - 1] + (c - 1)
  BY <1>3
<1>5. Prefix(w)[s - 1] = a /\ Prefix(w)[s] = a + Pairs(live[i])
  <2>1. Prefix(w)[Prefix(Cols)[i - 1] + (c - 1)] = a
    BY <1>3, SegmentStarts
  <2>2. Prefix(w)[s] = HalfOff(live, i - 1) + c * Pairs(live[i])
    BY <1>3, SegmentStarts
  <2> QED
    BY <1>1, <1>4, <2>1, <2>2
<1>6. p - 1 \in Nat /\ a <= p - 1 /\ p - 1 < a + Pairs(live[i]) /\ p - 1 - a = k - 1 /\ a \in Nat
  BY <1>1
<1>7. w \in Seq(Nat) /\ Len(w) = SumCols
  BY SegHalvesSeq
<1> HIDE DEF w, s, a
<1>8. Cardinality({t \in 0..SumCols : Prefix(w)[t] <= p - 1}) = s
  <2>1. s \in 1..Len(w) /\ Prefix(w)[s - 1] <= p - 1 /\ p - 1 < Prefix(w)[s]
    BY <1>2, <1>5, <1>6, <1>7
  <2> QED
    BY <1>6, <1>7, <2>1, StartsCounted
<1>9. s = MaxOf(1, MinOf(SumCols, s))
  BY <1>2, SumColsNat DEF MaxOf, MinOf
<1>10. s = SegmentHolding(live, p)
  BY <1>8, <1>9 DEF w, SegmentHolding
<1> DEFINE At(row) == SegmentRow(live, off, stride, source, s, row)
           rh == p - 1 - Prefix(SegHalves(live))[s - 1]
<1>11. GatherHalves(area, live, off, stride, source)[p] = <<At(2 * rh), At(2 * rh + 1)>>
  <2>1. rh = p - 1 - Prefix(SegHalves(live))[s - 1]
    OBVIOUS
  <2> HIDE DEF rh
  <2> QED
    BY <1>10, <2>1, GatherSegment
<1>12. rh = k - 1
  BY <1>5, <1>6 DEF w
<1>13. \A row : At(row) = SourceRow(live, off, stride, source, i, c, row)
  BY <1>2 DEF SourceRow, SegmentRow
<1> QED
  BY <1>11, <1>12, <1>13

\* Behind the segments it finds zeros.
LEMMA GatherPast ==
    ASSUME NEW area, NEW live \in [ChipIds -> Nat], NEW off, NEW stride, NEW source,
           NEW p \in 1..area \div 2, p \in Nat, p > HalfOff(live, Len(Cols))
    PROVE  GatherHalves(area, live, off, stride, source)[p] = <<{}, {}>>
<1> DEFINE w == SegHalves(live)
           s == SumCols
           n == Pairs(live[SegChip[s]])
<1>1. w \in Seq(Nat) /\ Len(w) = s
  BY SegHalvesSeq
<1>2. s \in Nat /\ s >= 1 /\ s \in 1..s
  BY SumColsNat, SomeSegment
<1>3. SegChip[s] \in ChipIds
  BY <1>2, SegmentOf
<1>4. live[SegChip[s]] \in Nat /\ n \in Nat /\ w[s] = n
  <2>1. live[SegChip[s]] \in Nat
    BY <1>3
  <2> QED
    BY <1>2, <2>1, PairsOf, SegHalvesSeq
<1>5. live[SegChip[s]] <= 2 * n
  BY <1>4, Z3 DEF Pairs
<1> HIDE DEF w, s, n
<1>6. /\ Prefix(w)[s - 1] \in Nat /\ Prefix(w)[s] = Prefix(w)[s - 1] + w[s]
      /\ Prefix(w)[s] = Total(w)
  BY <1>1, <1>2, BlockBounds DEF Total
<1>7. Total(w) = HalfOff(live, Len(Cols))
  BY SegmentStarts DEF w
<1>8. p - 1 \in Nat /\ Total(w) <= p - 1
  BY <1>4, <1>6, <1>7
<1>9. Cardinality({t \in 0..s : Prefix(w)[t] <= p - 1}) = s + 1
  BY <1>1, <1>8, StartsAllCounted
<1>10. s = MaxOf(1, MinOf(s, s + 1))
  BY <1>2 DEF MaxOf, MinOf
<1>11. s = SegmentHolding(live, p)
  BY <1>9, <1>10 DEF w, s, SegmentHolding
<1> DEFINE At(row) == SegmentRow(live, off, stride, source, s, row)
           rh == p - 1 - Prefix(SegHalves(live))[s - 1]
<1>12. GatherHalves(area, live, off, stride, source)[p] = <<At(2 * rh), At(2 * rh + 1)>>
  <2>1. rh = p - 1 - Prefix(SegHalves(live))[s - 1]
    OBVIOUS
  <2> HIDE DEF rh
  <2> QED
    BY <1>11, <2>1, GatherSegment
<1>13. rh \in Nat /\ rh >= n
  BY <1>4, <1>6, <1>8 DEF w
<1>14. ~(2 * rh < live[SegChip[s]]) /\ ~(2 * rh + 1 < live[SegChip[s]])
  <2> HIDE DEF rh
  <2> QED
    BY <1>4, <1>5, <1>13
<1>15. At(2 * rh) = {} /\ At(2 * rh + 1) = {}
  <2> HIDE DEF rh
  <2> QED
    BY <1>14 DEF SegmentRow
<1> QED
  BY <1>12, <1>15

(***************************************************************************)
(* The exact packed state: every column's pairs of rows, at a height, and  *)
(* zeros behind them.                                                      *)
(***************************************************************************)
Pair(h, i, c, r, k) ==
    <<Promise!Value(h, i, c, r, 2 * (k - 1)), Promise!Value(h, i, c, r, 2 * (k - 1) + 1)>>

Slot(hs, i, c, k) == HalfOff(hs, i - 1) + (c - 1) * Pairs(hs[i]) + k

Exact(packed, sh, hs, r) ==
    /\ \A i \in ChipIds : \A c \in 1..Cols[i] : \A k \in 1..Pairs(hs[i]) :
           packed[Slot(hs, i, c, k)] = Pair(sh[i], i, c, r, k)
    /\ \A p \in HalfOff(hs, Len(Cols)) + 1..Len(packed) : packed[p] = <<{}, {}>>

HeightsAt(hs, sh, r) == \A i \in ChipIds : hs[i] = CeilShift(sh[i], r)

\* A slot lies in its chip's block, and in the live area.
LEMMA SlotInside ==
    ASSUME NEW hs \in [ChipIds -> Nat], NEW i \in ChipIds, NEW c \in 1..Cols[i],
           NEW k \in 1..Pairs(hs[i])
    PROVE  /\ Slot(hs, i, c, k) \in Nat /\ 1 <= Slot(hs, i, c, k)
           /\ HalfOff(hs, i - 1) < Slot(hs, i, c, k)
           /\ Slot(hs, i, c, k) <= HalfOff(hs, i) /\ HalfOff(hs, i) \in Nat
           /\ Slot(hs, i, c, k) <= HalfOff(hs, Len(Cols)) /\ HalfOff(hs, Len(Cols)) \in Nat
<1> DEFINE n == Pairs(hs[i])
           a == HalfOff(hs, i - 1)
           b == (c - 1) * n
           d == Cols[i] * n
           e == c * n
<1>1. /\ a \in Nat /\ HalfOff(hs, i) = a + d /\ HalfOff(hs, i) \in Nat
      /\ HalfOff(hs, i) <= HalfOff(hs, Len(Cols)) /\ HalfOff(hs, Len(Cols)) \in Nat
      /\ b \in Nat /\ e \in Nat /\ e = b + n /\ e <= d /\ n \in Nat
  BY SlotBounds
<1>2. Slot(hs, i, c, k) = a + b + k
  BY DEF Slot
<1>3. k \in Nat /\ 1 <= k /\ k <= n
  BY <1>1
<1>4. d \in Nat
  <2>1. Cols[i] \in Nat
    BY ColsHold
  <2> HIDE DEF n
  <2> QED
    BY <1>1, <2>1, Z3
<1> HIDE DEF n, a, b, d, e
<1> QED
  BY <1>1, <1>2, <1>3, <1>4 DEF a

\* An index inside the buffer is not clipped.
LEMMA TakeInside ==
    ASSUME NEW source, Len(source) \in Nat, NEW q \in Nat, q < Len(source)
    PROVE  Take(source, q) = source[q + 1]
<1>1. Clamped(q, Len(source) - 1) = q
  BY DEF Clamped, MaxOf, MinOf
<1> QED
  BY <1>1 DEF Take

\* A gather whose source holds every live row leaves the exact state.
LEMMA GatherExact ==
    ASSUME NEW sh \in [ChipIds -> Nat], NEW r \in Nat,
           NEW hs \in [ChipIds -> Nat], HeightsAt(hs, sh, r),
           NEW area, area \div 2 \in Nat, HalfOff(hs, Len(Cols)) <= area \div 2,
           NEW off, NEW stride, NEW source,
           \A i \in ChipIds : \A c \in 1..Cols[i] : \A row \in 0..hs[i] - 1 :
               Take(source, off[i] + (c - 1) * stride[i] + row)
                   = Promise!Value(sh[i], i, c, r, row)
    PROVE  Exact(GatherHalves(area, hs, off, stride, source), sh, hs, r)
<1> DEFINE g == GatherHalves(area, hs, off, stride, source)
<1>1. Len(g) = area \div 2
  <2> DEFINE n == area \div 2
  <2>1. g = [p \in 1..n |-> g[p]]
    BY GatherLength
  <2>2. n \in Nat
    OBVIOUS
  <2> HIDE DEF g, n
  <2>3. Len(g) = n
    BY <2>1, <2>2, TabulatedSeq
  <2> QED
    BY <2>3 DEF n
<1>2. ASSUME NEW i \in ChipIds, NEW c \in 1..Cols[i], NEW row \in Nat
      PROVE  SourceRow(hs, off, stride, source, i, c, row) = Promise!Value(sh[i], i, c, r, row)
  <2>1. CASE row < hs[i]
    <3>1. row \in 0..hs[i] - 1
      BY <2>1
    <3> QED
      BY <2>1, <3>1 DEF SourceRow
  <2>2. CASE ~(row < hs[i])
    <3>1. CeilShift(sh[i], r) <= row /\ sh[i] \in Nat
      BY <2>2 DEF HeightsAt
    <3>2. Promise!Value(sh[i], i, c, r, row) = {}
      BY <3>1, ValueZero
    <3> QED
      BY <2>2, <3>2 DEF SourceRow
  <2> QED
    BY <2>1, <2>2
<1>3. ASSUME NEW i \in ChipIds, NEW c \in 1..Cols[i], NEW k \in 1..Pairs(hs[i])
      PROVE  g[Slot(hs, i, c, k)] = Pair(sh[i], i, c, r, k)
  <2> DEFINE p == Slot(hs, i, c, k)
  <2>1. p \in 1..area \div 2
    BY SlotInside
  <2>2. p = HalfOff(hs, i - 1) + (c - 1) * Pairs(hs[i]) + k
    BY DEF Slot
  <2> HIDE DEF p
  <2>3. g[p] = <<SourceRow(hs, off, stride, source, i, c, 2 * (k - 1)),
                 SourceRow(hs, off, stride, source, i, c, 2 * (k - 1) + 1)>>
    BY <2>1, <2>2, GatherAt
  <2>4. 2 * (k - 1) \in Nat /\ 2 * (k - 1) + 1 \in Nat
    <3>1. Pairs(hs[i]) \in Nat
      BY SlotBounds
    <3> QED
      BY <3>1
  <2> QED
    BY <1>2, <2>3, <2>4 DEF Pair, p
<1>4. ASSUME NEW p \in HalfOff(hs, Len(Cols)) + 1..Len(g)
      PROVE  g[p] = <<{}, {}>>
  <2>1. HalfOff(hs, Len(Cols)) \in Nat
    <3>1. Len(Cols) \in 0..Len(Cols)
      BY ColsHold
    <3> QED
      BY <3>1, HalfOffsets
  <2>2. p \in 1..area \div 2 /\ p \in Nat /\ p > HalfOff(hs, Len(Cols))
    BY <1>1, <2>1
  <2> QED
    BY <2>2, GatherPast
<1> QED
  BY <1>3, <1>4 DEF Exact

\* Folding every pair and gathering at the next heights keeps it exact.
LEMMA FoldExact ==
    ASSUME NEW sh \in [ChipIds -> Nat], NEW r \in Nat,
           NEW hs \in [ChipIds -> Nat], HeightsAt(hs, sh, r),
           NEW next \in [ChipIds -> Nat], \A i \in ChipIds : next[i] = Pairs(hs[i]),
           NEW packed, Len(packed) \in Nat, HalfOff(hs, Len(Cols)) <= Len(packed),
           Exact(packed, sh, hs, r),
           NEW area, area \div 2 \in Nat, HalfOff(next, Len(Cols)) <= area \div 2,
           NEW off, off = [i \in ChipIds |-> AreaOffsets(hs)[i - 1] \div 2],
           NEW stride, stride = [i \in ChipIds |-> EvenPad(hs[i]) \div 2],
           NEW source,
           source = [j \in 1..Len(packed) |-> Fold(packed[j][1], packed[j][2], r)]
    PROVE  /\ HeightsAt(next, sh, r + 1)
           /\ Exact(GatherHalves(area, next, off, stride, source), sh, next, r + 1)
<1>1. Len(source) = Len(packed)
  <2> DEFINE n == Len(packed)
  <2>1. source = [j \in 1..n |-> source[j]]
    OBVIOUS
  <2>2. n \in Nat
    OBVIOUS
  <2> HIDE DEF n
  <2>3. Len(source) = n
    BY <2>1, <2>2, TabulatedSeq
  <2> QED
    BY <2>3 DEF n
<1>2. HeightsAt(next, sh, r + 1)
  <2>1. ASSUME NEW i \in ChipIds PROVE next[i] = CeilShift(sh[i], r + 1)
    <3>1. sh[i] \in Nat /\ hs[i] = CeilShift(sh[i], r)
      BY DEF HeightsAt
    <3> QED
      BY <3>1, CeilShiftHalves
  <2> QED
    BY <2>1 DEF HeightsAt
<1>3. ASSUME NEW i \in ChipIds, NEW c \in 1..Cols[i], NEW row \in 0..next[i] - 1
      PROVE  Take(source, off[i] + (c - 1) * stride[i] + row)
                 = Promise!Value(sh[i], i, c, r + 1, row)
  <2> DEFINE k == row + 1
             p == Slot(hs, i, c, k)
  <2>1. hs[i] \in Nat /\ next[i] = Pairs(hs[i]) /\ next[i] \in Nat
    OBVIOUS
  <2>2. k \in 1..Pairs(hs[i]) /\ row \in Nat /\ k - 1 = row
    BY <2>1
  <2>3. stride[i] = Pairs(hs[i])
    BY <2>1, PairsOf
  <2>4. off[i] = HalfOff(hs, i - 1) /\ HalfOff(hs, i - 1) \in Nat
    <3>1. i - 1 \in 0..Len(Cols)
      BY ColsHold
    <3> QED
      BY <3>1, HalfOffsets
  <2>5. (c - 1) * Pairs(hs[i]) \in Nat
    BY SlotBounds
  <2> HIDE DEF k
  <2>6. p \in Nat /\ 1 <= p /\ p <= HalfOff(hs, Len(Cols)) /\ HalfOff(hs, Len(Cols)) \in Nat
    BY <2>2, SlotInside
  <2>7. off[i] + (c - 1) * stride[i] + row = p - 1
    <3>1. p = HalfOff(hs, i - 1) + (c - 1) * Pairs(hs[i]) + k
      BY DEF Slot
    <3>2. off[i] + (c - 1) * stride[i] + row = HalfOff(hs, i - 1) + (c - 1) * Pairs(hs[i]) + row
      BY <2>3, <2>4
    <3> DEFINE a == HalfOff(hs, i - 1)
               b == (c - 1) * Pairs(hs[i])
    <3> HIDE DEF a, b, p
    <3>3. a \in Nat /\ b \in Nat /\ p = a + b + k
      BY <2>4, <2>5, <3>1 DEF a, b
    <3>4. a + b + row = p - 1
      BY <2>2, <3>3
    <3> QED
      BY <3>2, <3>4 DEF a, b
  <2>8. packed[p] = <<Promise!Value(sh[i], i, c, r, 2 * row),
                      Promise!Value(sh[i], i, c, r, 2 * row + 1)>>
    <3>1. packed[p] = Pair(sh[i], i, c, r, k)
      BY <2>2 DEF Exact
    <3> HIDE DEF p
    <3> QED
      BY <2>2, <3>1 DEF Pair
  <2> HIDE DEF p
  <2>9. p - 1 \in Nat /\ p - 1 < Len(source) /\ (p - 1) + 1 = p /\ p \in 1..Len(packed)
    BY <1>1, <2>6
  <2>10. Take(source, p - 1) = source[p]
    BY <1>1, <2>9, TakeInside
  <2>11. source[p] = Fold(Promise!Value(sh[i], i, c, r, 2 * row),
                          Promise!Value(sh[i], i, c, r, 2 * row + 1), r)
    BY <2>8, <2>9
  <2>12. sh[i] \in Nat
    OBVIOUS
  <2> QED
    BY <2>2, <2>7, <2>10, <2>11, <2>12, ValueFold
<1>4. r + 1 \in Nat
  OBVIOUS
<1>5. Exact(GatherHalves(area, next, off, stride, source), sh, next, r + 1)
  BY <1>2, <1>3, <1>4, GatherExact
<1> QED
  BY <1>2, <1>5

(***************************************************************************)
(* The arrivals.                                                           *)
(***************************************************************************)

\* The block that place p of blocks laid one behind the other lies in.
Holder(w, p) == CHOOSE j \in 1..Len(w) : Prefix(w)[j - 1] < p /\ p <= Prefix(w)[j]

\* Block i of some blocks is k columns of n rows; the place of a row of one of
\* its columns, which tells the block, the column and the row.
IsBlock(w, i, k, n) == /\ w \in Seq(Nat) /\ i \in 1..Len(w)
                       /\ k \in Nat /\ n \in Nat /\ w[i] = k * n
Place(w, i, n, c, row) == Prefix(w)[i - 1] + (c - 1) * n + row
Placed(w, i, n, c, row, p) ==
    /\ p \in Nat /\ 1 <= p /\ p <= Prefix(w)[i] /\ Prefix(w)[i] \in Nat
    /\ Prefix(w)[i] <= Total(w) /\ Total(w) \in Nat
    /\ Holder(w, p) = i
    /\ (p - Prefix(w)[i - 1] - 1) \div n = c - 1
    /\ (p - Prefix(w)[i - 1] - 1) % n = row

\* The place of a row tells the block, the column and the row.
LEMMA BlockPlace ==
    ASSUME NEW w, NEW i, NEW k, NEW n, IsBlock(w, i, k, n), NEW c \in 1..k, NEW row \in 0..n - 1
    PROVE  /\ Placed(w, i, n, c, row, Place(w, i, n, c, row) + 1)
           /\ Place(w, i, n, c, row) \in Nat
<1> DEFINE q == Place(w, i, n, c, row)
           a == Prefix(w)[i - 1]
           b == (c - 1) * n
           e == Prefix(w)[i]
           d == k * n
<1>0. w \in Seq(Nat) /\ i \in 1..Len(w) /\ k \in Nat /\ n \in Nat /\ w[i] = d
  BY DEF IsBlock
<1>1. a \in Nat /\ e \in Nat /\ e = a + d /\ e <= Total(w) /\ Total(w) \in Nat
  BY <1>0, BlockBounds
<1>2. c - 1 \in Nat /\ row \in Nat /\ row < n
  BY <1>0
<1>3. b \in Nat /\ b + n <= d /\ d \in Nat
  <2>1. b \in Nat /\ d \in Nat
    BY <1>0, <1>2, Z3
  <2>2. b + n = c * n /\ c * n <= k * n
    BY <1>0, Z3
  <2> QED
    BY <2>1, <2>2
<1>4. (b + row) \div n = c - 1 /\ (b + row) % n = row
  BY <1>0, <1>2, DivMod
<1>5. q = a + b + row
  BY DEF Place
<1> PICK p : p = q + 1
  OBVIOUS
<1> HIDE DEF a, b, d, e, q
<1>6. q \in Nat /\ p \in Nat /\ 1 <= p /\ a < p /\ p <= e /\ p - a - 1 = b + row /\ p \in Int
  <2>1. e = a + d /\ a \in Nat /\ b \in Nat /\ d \in Nat /\ row \in Nat /\ row < n /\ b + n <= d
        /\ n \in Nat /\ q = a + b + row /\ p = q + 1
    BY <1>0, <1>1, <1>2, <1>3, <1>5
  <2> QED
    BY ONLY <2>1
<1> DEFINE j == Holder(w, p)
<1>7. j \in 1..Len(w) /\ Prefix(w)[j - 1] < p /\ p <= Prefix(w)[j]
  <2>1. Prefix(w)[i - 1] < p /\ p <= Prefix(w)[i]
    BY <1>6 DEF a, e
  <2> QED
    BY <1>0, <2>1, Zenon DEF Holder
<1> HIDE DEF j
<1>8. j = i
  <2>1. Prefix(w)[i - 1] < p /\ p <= Prefix(w)[i]
    BY <1>6 DEF a, e
  <2> QED
    BY <1>0, <1>6, <1>7, <2>1, BlockUnique
<1>9. /\ (p - Prefix(w)[i - 1] - 1) \div n = c - 1
      /\ (p - Prefix(w)[i - 1] - 1) % n = row
  BY ONLY <1>4, <1>6, Zenon DEF a
<1>10. /\ p <= Prefix(w)[i] /\ Prefix(w)[i] \in Nat
       /\ Prefix(w)[i] <= Total(w) /\ Total(w) \in Nat
  BY ONLY <1>1, <1>6, Zenon DEF e
<1>11. p \in Nat /\ 1 <= p /\ Holder(w, p) = i
  BY ONLY <1>6, <1>8, Zenon DEF j
<1>12. Placed(w, i, n, c, row, p)
  BY ONLY <1>9, <1>10, <1>11, Zenon DEF Placed
<1> QED
  BY <1>6, <1>12 DEF q

\* The flat arrival: a place of a column's even-padded segment holds the row
\* or the pad's zero; behind the segments there are zeros.
FlatPlace(hs, i, c, row) == AreaOffsets(hs)[i - 1] + (c - 1) * EvenPad(hs[i]) + row

\* The cell pack_flat_arrival puts at a place.
LEMMA ArrivalCell ==
    ASSUME NEW i, NEW c, NEW row, NEW p, Placed(Weighted(shard), i, EvenPad(shard[i]), c, row, p),
           p \in 1..AreaCap + 2 * EqWidth(0), ~(p > AreaOffsets(shard)[Len(Cols)]),
           Len(Weighted(shard)) = Len(Cols)
    PROVE  PackFlatArrival[p] = IF row < shard[i] THEN Cell(i, c - 1, row) ELSE {}
<1>0. /\ Holder(Weighted(shard), p) = i
      /\ (p - AreaOffsets(shard)[i - 1] - 1) \div EvenPad(shard[i]) = c - 1
      /\ (p - AreaOffsets(shard)[i - 1] - 1) % EvenPad(shard[i]) = row
  <2>1. AreaOffsets(shard) = Prefix(Weighted(shard))
    BY Zenon DEF AreaOffsets, Weighted
  <2> QED
    BY <2>1, Zenon DEF Placed
<1>1. i = CHOOSE j \in ChipIds : AreaOffsets(shard)[j - 1] < p /\ p <= AreaOffsets(shard)[j]
  BY <1>0, Zenon DEF Holder, AreaOffsets, Weighted, ChipIds
<1>2. PackFlatArrival[p] =
          IF p > AreaOffsets(shard)[Len(Cols)] THEN {}
          ELSE LET j == CHOOSE k \in ChipIds : AreaOffsets(shard)[k - 1] < p
                                               /\ p <= AreaOffsets(shard)[k]
                   o == p - AreaOffsets(shard)[j - 1] - 1
               IN  IF o % EvenPad(shard[j]) < shard[j]
                   THEN Cell(j, o \div EvenPad(shard[j]), o % EvenPad(shard[j])) ELSE {}
  BY <1>0, Zenon DEF PackFlatArrival
<1>3. PackFlatArrival[p] =
          LET o == p - AreaOffsets(shard)[i - 1] - 1
          IN  IF o % EvenPad(shard[i]) < shard[i]
              THEN Cell(i, o \div EvenPad(shard[i]), o % EvenPad(shard[i])) ELSE {}
  BY <1>1, <1>2, Zenon
<1> QED
  BY ONLY <1>0, <1>3, Zenon

\* The flat arrival holds every real row at its place, and zeros elsewhere.
LEMMA FlatArrival ==
    ASSUME shard \in [ChipIds -> Nat], AreaCap \in Nat, AreaOf(shard) <= AreaCap
    PROVE  /\ Len(PackFlatArrival) = AreaCap + 2 * EqWidth(0) /\ EqWidth(0) \in Nat
           /\ AreaOf(shard) \in Nat
           /\ \A i \in ChipIds : \A c \in 1..Cols[i] : \A row \in 0..EvenPad(shard[i]) - 1 :
                  /\ FlatPlace(shard, i, c, row) \in Nat
                  /\ FlatPlace(shard, i, c, row) < AreaOf(shard)
                  /\ PackFlatArrival[FlatPlace(shard, i, c, row) + 1]
                         = Promise!Value(shard[i], i, c, 0, row)
           /\ \A p \in AreaOf(shard) + 1..AreaCap + 2 * EqWidth(0) :
                  PackFlatArrival[p] = {}
<1> DEFINE n == AreaCap + 2 * EqWidth(0)
           w == Weighted(shard)
<1>1. EqWidth(0) \in Nat /\ n \in Nat
  BY EqWidthHolds
<1>2. /\ w \in Seq(Nat) /\ Len(w) = Len(Cols) /\ AreaOffsets(shard) = Prefix(w)
      /\ AreaOf(shard) = Prefix(w)[Len(Cols)] /\ AreaOf(shard) \in Nat
      /\ \A i \in 1..Len(Cols) : w[i] = Cols[i] * EvenPad(shard[i])
  BY WeightedSeq
<1>3. Len(PackFlatArrival) = n
  <2>1. PackFlatArrival = [p \in 1..n |-> PackFlatArrival[p]]
    BY DEF PackFlatArrival
  <2> HIDE DEF n
  <2> QED
    BY <1>1, <2>1, TabulatedSeq
<1>4. ASSUME NEW p \in AreaOf(shard) + 1..n
      PROVE  PackFlatArrival[p] = {}
  <2>1. p \in 1..n /\ p > AreaOffsets(shard)[Len(Cols)]
    BY <1>1, <1>2
  <2> QED
    BY <2>1, Zenon DEF PackFlatArrival
<1>5. ASSUME NEW i \in ChipIds, NEW c \in 1..Cols[i], NEW row \in 0..EvenPad(shard[i]) - 1
      PROVE  /\ FlatPlace(shard, i, c, row) \in Nat
             /\ FlatPlace(shard, i, c, row) < AreaOf(shard)
             /\ PackFlatArrival[FlatPlace(shard, i, c, row) + 1]
                    = Promise!Value(shard[i], i, c, 0, row)
  <2> DEFINE q == FlatPlace(shard, i, c, row)
             e == EvenPad(shard[i])
             a == Prefix(w)[i - 1]
  <2>1. /\ i \in 1..Len(w) /\ Cols[i] \in Nat /\ e \in Nat /\ w[i] = Cols[i] * e
        /\ shard[i] \in Nat /\ ChipIds = 1..Len(w)
    <3>1. shard[i] \in Nat
      OBVIOUS
    <3> QED
      BY <1>2, <3>1, ColsHold, PairsOf DEF ChipIds
  <2>2. q = Place(w, i, e, c, row)
    BY <1>2 DEF FlatPlace, Place
  <2> HIDE DEF e, q, w
  <2>3. Placed(w, i, e, c, row, q + 1) /\ q \in Nat
    <3>1. IsBlock(w, i, Cols[i], e)
      BY <1>2, <2>1 DEF IsBlock
    <3>2. row \in 0..e - 1 /\ c \in 1..Cols[i]
      BY DEF e
    <3> QED
      BY ONLY <2>2, <3>1, <3>2, BlockPlace, Zenon
  <2>4. q \in Nat /\ q < AreaOf(shard)
    <3>1. Total(w) = AreaOf(shard)
      BY <1>2 DEF Total
    <3>2. q + 1 <= Prefix(w)[i] /\ Prefix(w)[i] <= Total(w) /\ Prefix(w)[i] \in Nat
      BY <2>3, Zenon DEF Placed
    <3> QED
      BY <1>2, <2>3, <3>1, <3>2
  <2>8. PackFlatArrival[q + 1] = IF row < shard[i] THEN Cell(i, c - 1, row) ELSE {}
    <3>1. q + 1 \in 1..AreaCap + 2 * EqWidth(0) /\ ~(q + 1 > AreaOffsets(shard)[Len(Cols)])
      BY <1>1, <1>2, <2>4
    <3>2. Placed(Weighted(shard), i, EvenPad(shard[i]), c, row, q + 1)
          /\ Len(Weighted(shard)) = Len(Cols)
      BY <1>2, <2>3, Zenon DEF w, e
    <3> QED
      BY ONLY <3>1, <3>2, ArrivalCell, Zenon
  <2>9. row \in Nat /\ c \in Nat /\ (c - 1) + 1 = c /\ i \in Nat
    BY <2>1 DEF e
  <2>10. CASE row < shard[i]
    <3>1. Promise!Value(shard[i], i, c, 0, row) = {<<0, <<i, c, row>>>>}
      BY <2>1, <2>9, <2>10, ValueCell
    <3>2. Cell(i, c - 1, row) = {<<0, <<i, c, row>>>>}
      BY <2>9 DEF Cell
    <3> QED
      BY <2>4, <2>8, <2>10, <3>1, <3>2 DEF q
  <2>11. CASE ~(row < shard[i])
    <3>1. CeilShift(shard[i], 0) <= row
      <4>1. 0 \in Nat
        OBVIOUS
      <4>2. CeilShift(shard[i], 0) = shard[i]
        BY <2>1, <4>1, CeilShiftHalves
      <4>3. shard[i] <= row
        BY <2>1, <2>9, <2>11
      <4> QED
        BY <4>2, <4>3
    <3>2. Promise!Value(shard[i], i, c, 0, row) = {}
      BY <2>1, <2>9, <3>1, ValueZero
    <3> QED
      BY <2>4, <2>8, <2>11, <3>2 DEF q
  <2> QED
    BY <2>10, <2>11
<1> QED
  BY <1>1, <1>2, <1>3, <1>4, <1>5

\* The concatenated traces hold every live row.
TraceSizes == [i \in ChipIds |-> Cols[i] * TraceRows[i]]

\* The cell the concatenated traces hold at a place.
LEMMA TraceCell ==
    ASSUME NEW i, NEW c, NEW row, NEW p, Placed(TraceSizes, i, TraceRows[i], c, row, p),
           p \in 1..TraceOffsets[Len(Cols)], Len(TraceSizes) = Len(Cols)
    PROVE  ConcatenatedTraces[p] = IF row < shard[i] THEN Cell(i, c - 1, row) ELSE {}
<1>0. /\ Holder(TraceSizes, p) = i
      /\ (p - TraceOffsets[i - 1] - 1) \div TraceRows[i] = c - 1
      /\ (p - TraceOffsets[i - 1] - 1) % TraceRows[i] = row
  <2>1. TraceOffsets = Prefix(TraceSizes)
    BY Zenon DEF TraceOffsets, TraceSizes
  <2> QED
    BY <2>1, Zenon DEF Placed
<1>1. i = CHOOSE j \in ChipIds : TraceOffsets[j - 1] < p /\ p <= TraceOffsets[j]
  BY <1>0, Zenon DEF Holder, TraceOffsets, TraceSizes, ChipIds
<1>2. ConcatenatedTraces[p] =
          LET j == CHOOSE k \in ChipIds : TraceOffsets[k - 1] < p /\ p <= TraceOffsets[k]
              o == p - TraceOffsets[j - 1] - 1
          IN  IF o % TraceRows[j] < shard[j]
              THEN Cell(j, o \div TraceRows[j], o % TraceRows[j]) ELSE {}
  BY <1>0, Zenon DEF ConcatenatedTraces
<1>3. ConcatenatedTraces[p] =
          LET o == p - TraceOffsets[i - 1] - 1
          IN  IF o % TraceRows[i] < shard[i]
              THEN Cell(i, o \div TraceRows[i], o % TraceRows[i]) ELSE {}
  BY ONLY <1>1, <1>2, Zenon
<1> QED
  BY ONLY <1>0, <1>3, Zenon

\* The concatenated traces hold every real row at its place.
LEMMA Traces ==
    ASSUME shard \in [ChipIds -> Nat],
           plan.form = "padded" => \A i \in ChipIds : shard[i] <= Width,
           NEW i \in ChipIds, NEW c \in 1..Cols[i], NEW row \in 0..shard[i] - 1
    PROVE  Take(ConcatenatedTraces, TraceOffsets[i - 1] + (c - 1) * TraceRows[i] + row)
               = Promise!Value(shard[i], i, c, 0, row)
<1> DEFINE w == TraceSizes
           n == TraceRows[i]
           q == TraceOffsets[i - 1] + (c - 1) * TraceRows[i] + row
<1>1. Cols \in Seq(Nat) /\ Len(Cols) \in Nat /\ ChipIds = 1..Len(Cols)
      /\ \A j \in ChipIds : Cols[j] \in Nat
  BY ColsHold
<1>2. ASSUME NEW j \in ChipIds PROVE TraceRows[j] \in Nat /\ shard[j] <= TraceRows[j]
  <2>0. shard[j] \in Nat
    OBVIOUS
  <2>1. CASE plan.form = "padded"
    <3>1. TraceRows[j] = 2 * EqWidth(0)
      BY <2>1 DEF TraceRows
    <3>2. EqWidth(0) \in Nat /\ Width <= 2 * EqWidth(0)
      <4>1. EqWidth(0) \in Nat /\ (0 < NumVars => Pow2(NumVars - 1 - 0) <= EqWidth(0))
        BY EqWidthHolds
      <4>2. CASE 0 < NumVars
        <5>1. NumVars - 1 - 0 \in Nat /\ (NumVars - 1 - 0) + 1 = NumVars
          BY <4>2, RoundsAssumption
        <5> DEFINE e == NumVars - 1 - 0
        <5> HIDE DEF e
        <5>2. Pow2(e + 1) = 2 * Pow2(e) /\ Pow2(e) \in Nat
          BY <5>1, Pow2Def DEF e
        <5>3. Width = 2 * Pow2(e) /\ Pow2(e) <= EqWidth(0)
          BY <4>1, <4>2, <5>1, <5>2 DEF Width, e
        <5> QED
          BY <4>1, <5>2, <5>3
      <4>3. CASE ~(0 < NumVars)
        <5>1. NumVars = 0
          BY <4>3, RoundsAssumption
        <5>2. Width = 1
          BY <5>1, Pow2Def DEF Width
        <5>3. EqWidth(0) >= 2
          <6>1. EqWidth(0) = MaxOf(Pow2(MaxOf(NumVars - 1 - 0, 0)), 2)
            BY DEF EqWidth
          <6>2. MaxOf(NumVars - 1 - 0, 0) = 0
            BY <5>1 DEF MaxOf
          <6>3. EqWidth(0) = MaxOf(1, 2)
            BY <6>1, <6>2, Pow2Def
          <6> QED
            BY <6>3 DEF MaxOf
        <5> QED
          BY <4>1, <5>2, <5>3
      <4> QED
        BY <4>2, <4>3
    <3>3. shard[j] <= Width
      BY <2>1
    <3>4. Width \in Nat
      BY RoundsAssumption, Pow2Def DEF Width
    <3> QED
      BY <2>0, <3>1, <3>2, <3>3, <3>4
  <2>2. CASE plan.form # "padded"
    BY <2>0, <2>2 DEF TraceRows
  <2> QED
    BY <2>1, <2>2
<1>3. \A j \in ChipIds : Cols[j] * TraceRows[j] \in Nat
  <2> SUFFICES ASSUME NEW j \in ChipIds PROVE Cols[j] * TraceRows[j] \in Nat
    OBVIOUS
  <2>1. Cols[j] \in Nat /\ TraceRows[j] \in Nat
    BY <1>1, <1>2
  <2> QED
    BY <2>1, Z3
<1>4. w \in Seq(Nat) /\ Len(w) = Len(Cols) /\ w[i] = Cols[i] * n /\ TraceOffsets = Prefix(w)
  <2>1. w \in [1..Len(Cols) -> Nat]
    BY <1>1, <1>3 DEF TraceSizes
  <2>2. w \in Seq(Nat) /\ Len(w) = Len(Cols)
    <3>1. Len(Cols) \in Nat
      BY <1>1
    <3> QED
      BY ONLY <2>1, <3>1
  <2>3. TraceOffsets = Prefix(w)
    BY Zenon DEF TraceOffsets, TraceSizes
  <2>4. w[i] = Cols[i] * n
    BY DEF TraceSizes
  <2> QED
    BY <2>2, <2>3, <2>4
<1>5. n \in Nat /\ row \in 0..n - 1 /\ row \in Nat /\ row < shard[i] /\ shard[i] \in Nat
  <2>1. n \in Nat /\ shard[i] <= n /\ shard[i] \in Nat
    BY <1>2
  <2> HIDE DEF n
  <2> QED
    BY <2>1
<1>6. q = Place(w, i, n, c, row)
  BY <1>4 DEF Place
<1> HIDE DEF w, n, q
<1>7. Placed(w, i, n, c, row, q + 1) /\ q \in Nat
  <2>1. IsBlock(w, i, Cols[i], n)
    BY <1>1, <1>4, <1>5 DEF IsBlock
  <2>2. c \in 1..Cols[i]
    OBVIOUS
  <2> QED
    BY ONLY <1>5, <1>6, <2>1, <2>2, BlockPlace, Zenon
<1>8. q \in Nat /\ q < TraceOffsets[Len(Cols)] /\ TraceOffsets[Len(Cols)] \in Nat
  <2>1. Total(w) = TraceOffsets[Len(Cols)]
    BY <1>4 DEF Total
  <2>2. /\ q + 1 <= Prefix(w)[i] /\ Prefix(w)[i] <= Total(w)
        /\ Prefix(w)[i] \in Nat /\ Total(w) \in Nat
    BY <1>7, Zenon DEF Placed
  <2> QED
    BY <1>7, <2>1, <2>2
<1>9. Len(ConcatenatedTraces) = TraceOffsets[Len(Cols)]
  <2> DEFINE m == TraceOffsets[Len(Cols)]
  <2>1. ConcatenatedTraces = [p \in 1..m |-> ConcatenatedTraces[p]]
    BY DEF ConcatenatedTraces
  <2>2. m \in Nat
    BY <1>8
  <2> HIDE DEF m
  <2>3. Len(ConcatenatedTraces) = m
    BY <2>1, <2>2, TabulatedSeq
  <2> QED
    BY <2>3 DEF m
<1>10. Take(ConcatenatedTraces, q) = ConcatenatedTraces[q + 1]
  <2>1. Len(ConcatenatedTraces) \in Nat /\ q \in Nat /\ q < Len(ConcatenatedTraces)
    BY <1>8, <1>9
  <2> QED
    BY <2>1, TakeInside, Zenon
<1>13. ConcatenatedTraces[q + 1] = Cell(i, c - 1, row)
  <2>1. q + 1 \in 1..TraceOffsets[Len(Cols)]
    BY <1>8
  <2>2. Placed(TraceSizes, i, TraceRows[i], c, row, q + 1) /\ Len(TraceSizes) = Len(Cols)
    BY <1>4, <1>7, Zenon DEF w, n
  <2>3. ConcatenatedTraces[q + 1] = IF row < shard[i] THEN Cell(i, c - 1, row) ELSE {}
    BY ONLY <2>1, <2>2, TraceCell, Zenon
  <2> QED
    BY <1>5, <2>3, Zenon
<1>14. c \in Nat /\ (c - 1) + 1 = c /\ i \in Nat
  BY <1>1
<1>15. Promise!Value(shard[i], i, c, 0, row) = {<<0, <<i, c, row>>>>}
  BY <1>5, <1>14, ValueCell
<1>16. Cell(i, c - 1, row) = {<<0, <<i, c, row>>>>}
  BY <1>14 DEF Cell
<1> QED
  BY <1>10, <1>13, <1>15, <1>16 DEF q

\* Either arrival is split into the exact state of round 0.
LEMMA FirstExact ==
    ASSUME shard \in [ChipIds -> Nat], CapHolds, AreaOf(shard) <= AreaCap,
           plan.form = "padded" => \A i \in ChipIds : shard[i] <= Width,
           NEW flat, flat = IF plan.form \in {"traces", "padded"} THEN ConcatenatedTraces
                            ELSE PackFlatArrival
    PROVE  Exact(FirstHalves(flat), shard, shard, 0)
<1>1. HeightsAt(shard, shard, 0)
  <2>1. \A i \in ChipIds : CeilShift(shard[i], 0) = shard[i]
    <3>1. 0 \in Nat
      OBVIOUS
    <3> QED
      BY <3>1, CeilShiftHalves
  <2> QED
    BY <2>1 DEF HeightsAt
<1>2. /\ AreaOf(shard) = 2 * HalfOff(shard, Len(Cols))
      /\ HalfOff(shard, Len(Cols)) \in Nat
  <2>1. Len(Cols) \in 0..Len(Cols)
    BY ColsHold
  <2> QED
    BY <2>1, HalfOffsets
<1>3. /\ CapOf(0) = BufferCap(0) /\ BufferCap(0) \in Nat
      /\ 2 * (BufferCap(0) \div 2) = BufferCap(0)
      /\ BufferCap(0) = AreaCap + 2 * EqWidth(0) /\ EqWidth(0) \in Nat
  <2>1. 0 \in Nat /\ 0 <= Unrolled
    BY UnrolledNat
  <2>2. BufferCap(0) = AreaCap + 2 * EqWidth(0)
    BY AreaBoundDef DEF BufferCap
  <2> QED
    BY <2>1, <2>2, CapOfRound, EqWidthHolds
<1>4. CASE plan.form \in {"traces", "padded"}
  <2> DEFINE off == [i \in ChipIds |-> TraceOffsets[i - 1]]
             g == GatherHalves(BufferCap(0), shard, off, TraceRows, flat)
  <2>1. FirstHalves(flat) = g
    BY <1>4 DEF FirstHalves
  <2>2. flat = ConcatenatedTraces
    BY <1>4
  <2>3. \A i \in ChipIds : off[i] = TraceOffsets[i - 1]
    OBVIOUS
  <2>4. BufferCap(0) \div 2 \in Nat /\ HalfOff(shard, Len(Cols)) <= BufferCap(0) \div 2
    <3> DEFINE a == BufferCap(0)
               b == HalfOff(shard, Len(Cols))
               x == EqWidth(0)
    <3>1. a \in Nat /\ b \in Nat /\ x \in Nat /\ a = AreaCap + 2 * x /\ 2 * b <= AreaCap
          /\ AreaCap \in Nat
      BY <1>2, <1>3 DEF CapHolds
    <3> HIDE DEF a, b, x
    <3>2. a \div 2 \in Nat /\ b <= a \div 2
      BY <3>1, Z3
    <3> QED
      BY <3>2 DEF a, b
  <2> HIDE DEF off
  <2>5. Exact(g, shard, shard, 0)
    <3>1. \A i \in ChipIds : \A c \in 1..Cols[i] : \A row \in 0..shard[i] - 1 :
              Take(flat, off[i] + (c - 1) * TraceRows[i] + row)
                  = Promise!Value(shard[i], i, c, 0, row)
      BY <2>2, <2>3, Traces
    <3>2. 0 \in Nat
      OBVIOUS
    <3> QED
      BY <1>1, <2>4, <3>1, <3>2, GatherExact
  <2> QED
    BY <2>1, <2>5
<1>5. CASE ~(plan.form \in {"traces", "padded"})
  <2> DEFINE g == FirstHalves(flat)
             n == AreaCap + 2 * EqWidth(0)
  <2>1. flat = PackFlatArrival
    BY <1>5
  <2>2. AreaCap \in Nat
    BY DEF CapHolds
  <2>3. /\ Len(flat) = n
        /\ \A i \in ChipIds : \A c \in 1..Cols[i] : \A row \in 0..EvenPad(shard[i]) - 1 :
               /\ FlatPlace(shard, i, c, row) \in Nat
               /\ FlatPlace(shard, i, c, row) < AreaOf(shard)
               /\ flat[FlatPlace(shard, i, c, row) + 1] = Promise!Value(shard[i], i, c, 0, row)
        /\ \A p \in AreaOf(shard) + 1..n : flat[p] = {}
    BY <2>1, <2>2, FlatArrival
  <2>4. n \in Nat /\ 2 * (n \div 2) = n /\ n \div 2 \in Nat /\ AreaOf(shard) <= n
        /\ AreaOf(shard) \in Nat
    <3>1. n \in Nat /\ 2 * (n \div 2) = n /\ AreaOf(shard) <= n /\ AreaOf(shard) \in Nat
      BY <1>2, <1>3, <2>2
    <3> HIDE DEF n
    <3> QED
      BY <3>1, Z3
  <2> HIDE DEF n
  <2>5. g = [j \in 1..n \div 2 |-> <<flat[2 * j - 1], flat[2 * j]>>]
    BY <1>5, <2>3 DEF FirstHalves
  <2> HIDE DEF g
  <2>6. Len(g) = n \div 2
    <3> DEFINE m == n \div 2
    <3>1. g = [j \in 1..m |-> g[j]] /\ m \in Nat
      BY <2>4, <2>5
    <3> HIDE DEF m
    <3>2. Len(g) = m
      BY <3>1, TabulatedSeq
    <3> QED
      BY <3>2 DEF m
  <2>7. ASSUME NEW i \in ChipIds, NEW c \in 1..Cols[i], NEW k \in 1..Pairs(shard[i])
        PROVE  g[Slot(shard, i, c, k)] = Pair(shard[i], i, c, 0, k)
    <3> DEFINE j == Slot(shard, i, c, k)
               row == 2 * (k - 1)
               a == HalfOff(shard, i - 1)
               d == (c - 1) * Pairs(shard[i])
    <3>1. /\ a \in Nat /\ d \in Nat /\ Pairs(shard[i]) \in Nat /\ i - 1 \in 0..Len(Cols)
          /\ shard[i] \in Nat
      BY SlotBounds
    <3>2. EvenPad(shard[i]) = 2 * Pairs(shard[i]) /\ AreaOffsets(shard)[i - 1] = 2 * a
      BY <3>1, PairsOf, HalfOffsets
    <3>3. (c - 1) * EvenPad(shard[i]) = 2 * d
      <4>1. (c - 1) * (2 * Pairs(shard[i])) = 2 * ((c - 1) * Pairs(shard[i]))
        <5> DEFINE x == c - 1
                   y == Pairs(shard[i])
        <5>1. x \in Int /\ y \in Int
          BY <3>1, ColsHold
        <5> HIDE DEF x, y
        <5>2. x * (2 * y) = 2 * (x * y)
          BY <5>1, Z3
        <5> QED
          BY <5>2 DEF x, y
      <4> QED
        BY <3>2, <4>1
    <3>4. k \in Nat /\ 1 <= k /\ row \in 0..EvenPad(shard[i]) - 1
          /\ row + 1 \in 0..EvenPad(shard[i]) - 1
      BY <3>1, <3>2
    <3>5. j = a + d + k /\ j \in Nat /\ 1 <= j /\ j <= HalfOff(shard, Len(Cols))
      BY SlotInside DEF Slot
    <3>6. FlatPlace(shard, i, c, row) + 1 = 2 * j - 1
          /\ FlatPlace(shard, i, c, row + 1) + 1 = 2 * j
      <4>1. FlatPlace(shard, i, c, row) = 2 * a + 2 * d + row
            /\ FlatPlace(shard, i, c, row + 1) = 2 * a + 2 * d + (row + 1)
        BY <3>2, <3>3 DEF FlatPlace
      <4> HIDE DEF a, d, j
      <4> QED
        BY <3>1, <3>4, <3>5, <4>1
    <3> HIDE DEF j, row, a, d
    <3>7. j \in 1..n \div 2
      <4>1. 2 * j <= n
        BY <1>2, <2>4, <3>5
      <4> QED
        BY <2>4, <3>5, <4>1
    <3>8. g[j] = <<flat[2 * j - 1], flat[2 * j]>>
      BY <2>5, <3>7
    <3>9. flat[2 * j - 1] = Promise!Value(shard[i], i, c, 0, row)
          /\ flat[2 * j] = Promise!Value(shard[i], i, c, 0, row + 1)
      BY <2>3, <3>4, <3>6
    <3> QED
      BY <3>8, <3>9 DEF Pair, j, row
  <2>8. ASSUME NEW p \in HalfOff(shard, Len(Cols)) + 1..Len(g)
        PROVE  g[p] = <<{}, {}>>
    <3>1. /\ p \in Nat /\ p \in 1..n \div 2 /\ 2 * p <= n
          /\ 2 * p - 1 \in AreaOf(shard) + 1..n /\ 2 * p \in AreaOf(shard) + 1..n
      BY <1>2, <2>4, <2>6
    <3>2. g[p] = <<flat[2 * p - 1], flat[2 * p]>>
      BY <2>5, <3>1
    <3> QED
      BY <2>3, <3>1, <3>2
  <2>9. Exact(g, shard, shard, 0)
    BY <2>7, <2>8 DEF Exact
  <2> QED
    BY <2>9 DEF g
<1> QED
  BY <1>4, <1>5

(***************************************************************************)
(* The chunked prefix: the pairs of a window, rebuilt from the arrival,    *)
(* are the exact ones.                                                     *)
(***************************************************************************)
\* What a chunked prefix starts from.
Arrived ==
    /\ shard \in [ChipIds -> Nat]
    /\ AreaCap \in Nat /\ AreaOf(shard) <= AreaCap
    /\ arrival = PackFlatArrival

\* A real row, read from the arrival.
LEMMA ArrivedRow ==
    ASSUME Arrived, NEW i \in ChipIds, NEW c \in 1..Cols[i], NEW row \in Nat, row < shard[i]
    PROVE  Take(arrival, AreaOffsets(shard)[i - 1] + (c - 1) * EvenPad(shard[i]) + row)
               = Promise!Value(shard[i], i, c, 0, row)
<1> DEFINE q == FlatPlace(shard, i, c, row)
<1>0. shard \in [ChipIds -> Nat] /\ AreaCap \in Nat /\ AreaOf(shard) <= AreaCap
      /\ arrival = PackFlatArrival
  BY DEF Arrived
<1>1. shard[i] \in Nat /\ EvenPad(shard[i]) \in Nat /\ shard[i] <= EvenPad(shard[i])
  <2>1. shard[i] \in Nat
    BY <1>0
  <2> QED
    BY <2>1 DEF EvenPad
<1>2. row \in 0..EvenPad(shard[i]) - 1
  BY <1>1
<1>3. /\ q \in Nat /\ q < AreaOf(shard)
      /\ PackFlatArrival[q + 1] = Promise!Value(shard[i], i, c, 0, row)
      /\ Len(PackFlatArrival) = AreaCap + 2 * EqWidth(0) /\ EqWidth(0) \in Nat
      /\ AreaOf(shard) \in Nat
  BY <1>0, <1>2, FlatArrival
<1>4. Take(arrival, q) = arrival[q + 1]
  <2>1. Len(arrival) \in Nat /\ q < Len(arrival) /\ q \in Nat
    <3> HIDE DEF q
    <3> QED
      BY <1>0, <1>3
  <2> HIDE DEF q
  <2> QED
    BY ONLY <2>1, TakeInside, Zenon
<1> QED
  BY <1>0, <1>3, <1>4, Zenon DEF FlatPlace

\* The levels of a window: the rows of the arrival, and each level's folds.
Ground(i, first, d, rows) ==
    [x \in 1..(2 * rows) * Pow2(d) |-> [c \in 1..Cols[i] |->
        IF (2 * first) * Pow2(d) + x - 1 < shard[i]
        THEN Take(arrival, AreaOffsets(shard)[i - 1] + (c - 1) * EvenPad(shard[i])
                           + (2 * first) * Pow2(d) + x - 1)
        ELSE {}]]
Above(i, first, d, rows, l, below) ==
    [x \in 1..(2 * rows) * Pow2(d - l) |-> [c \in 1..Cols[i] |->
        IF ((2 * first) * Pow2(d)) \div Pow2(l) + x - 1 < CeilShift(shard[i], l)
        THEN Fold(below[2 * x - 1][c], below[2 * x][c], l - 1)
        ELSE {}]]
Levels(i, first, d, rows, f) ==
    f = [l \in 0..d |-> IF l = 0 THEN Ground(i, first, d, rows)
                        ELSE Above(i, first, d, rows, l, f[l - 1])]

\* What they hold.
LevelRows(i, first, d, rows, l) ==
    [x \in 1..(2 * rows) * Pow2(d - l) |-> [c \in 1..Cols[i] |->
        Promise!Value(shard[i], i, c, l, (2 * first) * Pow2(d - l) + x - 1)]]

\* The lowest level of a chunk is its rows.
LEMMA GroundExact ==
    ASSUME Arrived, NEW i \in ChipIds, NEW first \in Nat, NEW d \in Nat, NEW rows \in Nat
    PROVE  Ground(i, first, d, rows) = LevelRows(i, first, d, rows, 0)
<1> DEFINE b == (2 * first) * Pow2(d)
           w == (2 * rows) * Pow2(d)
<1>1. d - 0 = d
  OBVIOUS
<1>2. Pow2(d) \in Nat
  BY Pow2Def
<1>3. b \in Nat /\ w \in Nat
  BY <1>2, Z3
<1>4. shard[i] \in Nat
  BY DEF Arrived
<1>5. Ground(i, first, d, rows) =
          [x \in 1..w |-> [c \in 1..Cols[i] |->
              IF b + x - 1 < shard[i]
              THEN Take(arrival, AreaOffsets(shard)[i - 1] + (c - 1) * EvenPad(shard[i])
                                 + b + x - 1)
              ELSE {}]]
  BY DEF Ground
<1>6. LevelRows(i, first, d, rows, 0) =
          [x \in 1..w |-> [c \in 1..Cols[i] |->
              Promise!Value(shard[i], i, c, 0, b + x - 1)]]
  BY <1>1, Zenon DEF LevelRows
<1> HIDE DEF b, w
<1>7. ASSUME NEW x \in 1..w, NEW c \in 1..Cols[i]
      PROVE  (IF b + x - 1 < shard[i]
              THEN Take(arrival, AreaOffsets(shard)[i - 1] + (c - 1) * EvenPad(shard[i])
                                 + b + x - 1)
              ELSE {}) = Promise!Value(shard[i], i, c, 0, b + x - 1)
  <2> PICK row : row = b + x - 1
    OBVIOUS
  <2>1. row \in Nat
    BY <1>3
  <2>2. CASE row < shard[i]
    <3> PICK a : a = AreaOffsets(shard)[i - 1]
      OBVIOUS
    <3> PICK e : e = (c - 1) * EvenPad(shard[i])
      OBVIOUS
    <3>1. a \in Int /\ e \in Int
      <4>1. shard \in [ChipIds -> Nat]
        BY DEF Arrived
      <4>2. a = 2 * HalfOff(shard, i - 1) /\ HalfOff(shard, i - 1) \in Nat
        BY <4>1, SlotBounds, HalfOffsets
      <4>3. c - 1 \in Int /\ EvenPad(shard[i]) \in Int
        BY <1>4, PairsOf
      <4> QED
        BY <4>2, <4>3, Z3
    <3>2. a + e + b + x - 1 = a + e + row
      BY ONLY <1>3, <2>1, <3>1, x \in 1..w, row = b + x - 1
    <3>3. Take(arrival, a + e + row) = Promise!Value(shard[i], i, c, 0, row)
      BY <2>1, <2>2, ArrivedRow
    <3> QED
      BY <2>2, <3>2, <3>3
  <2>3. CASE ~(row < shard[i])
    <3>1. CeilShift(shard[i], 0) <= row
      <4>1. 0 \in Nat
        OBVIOUS
      <4>2. CeilShift(shard[i], 0) = shard[i]
        BY <1>4, <4>1, CeilShiftHalves
      <4> QED
        BY <1>4, <2>1, <2>3, <4>2
    <3>2. Promise!Value(shard[i], i, c, 0, row) = {}
      BY <1>4, <2>1, <3>1, ValueZero
    <3> QED
      BY <2>3, <3>2
  <2> QED
    BY <2>2, <2>3
<1> QED
  BY ONLY <1>5, <1>6, <1>7

\* A level folded from exact rows holds exact rows.
LEMMA AboveExact ==
    ASSUME Arrived, NEW i \in ChipIds, NEW first \in Nat, NEW d \in Nat, NEW rows \in Nat,
           NEW l \in 1..d
    PROVE  Above(i, first, d, rows, l, LevelRows(i, first, d, rows, l - 1))
               = LevelRows(i, first, d, rows, l)
<1> PICK e \in Nat : e = d - l
  OBVIOUS
<1> PICK k \in Nat : k = l - 1
  OBVIOUS
<1> DEFINE f == (2 * first) * Pow2(e)
           w == (2 * rows) * Pow2(e)
           h == shard[i]
<1>1. /\ Pow2(e) \in Nat /\ Pow2(l) \in Nat /\ Pow2(l) >= 1 /\ Pow2(e + 1) = 2 * Pow2(e)
      /\ l = k + 1 /\ d - k = e + 1 /\ l \in Nat /\ d = e + l
  BY Pow2Def
<1>2. f \in Nat /\ w \in Nat
  BY <1>1, Z3
<1>3. ((2 * first) * Pow2(d)) \div Pow2(l) = f
  <2>1. Pow2(d) = Pow2(e) * Pow2(l)
    BY <1>1, Pow2Sum
  <2> PICK a \in Nat : a = Pow2(e)
    BY <1>1
  <2> PICK n \in Nat : n = Pow2(l) /\ n >= 1
    BY <1>1
  <2> PICK g \in Nat : g = 2 * first
    OBVIOUS
  <2>2. g * (a * n) = (g * a) * n + 0
    BY ONLY a \in Nat, n \in Nat, g \in Nat, Z3
  <2> PICK m \in Nat : m = g * a
    BY ONLY a \in Nat, g \in Nat, Z3
  <2>3. (m * n + 0) \div n = m
    <3>1. 0 \in Nat /\ 0 < n
      OBVIOUS
    <3> QED
      BY <3>1, DivMod
  <2>4. (g * (a * n)) \div n = m
    BY <2>2, <2>3
  <2>5. f = m
    BY ONLY m = g * a, g = 2 * first, a = Pow2(e) DEF f
  <2> QED
    BY ONLY <2>1, <2>4, <2>5, g = 2 * first, a = Pow2(e), n = Pow2(l), Zenon
<1>4. (2 * first) * Pow2(e + 1) = 2 * f /\ (2 * rows) * Pow2(e + 1) = 2 * w
  <2> PICK a \in Nat : a = Pow2(e)
    BY <1>1
  <2>1. (2 * first) * (2 * a) = 2 * ((2 * first) * a)
    BY Z3
  <2>2. (2 * rows) * (2 * a) = 2 * ((2 * rows) * a)
    BY Z3
  <2> QED
    BY <1>1, <2>1, <2>2
<1>5. h \in Nat
  BY DEF Arrived
<1> DEFINE B == LevelRows(i, first, d, rows, l - 1)
<1>6. B = [x \in 1..2 * w |-> [c \in 1..Cols[i] |->
              Promise!Value(h, i, c, k, 2 * f + x - 1)]]
  <2>1. B = [x \in 1..(2 * rows) * Pow2(e + 1) |-> [c \in 1..Cols[i] |->
              Promise!Value(h, i, c, k, (2 * first) * Pow2(e + 1) + x - 1)]]
    BY <1>1, Zenon DEF LevelRows
  <2> HIDE DEF B, f, w, h
  <2> QED
    BY ONLY <2>1, <1>4, Zenon
<1> HIDE DEF B
<1>7. Above(i, first, d, rows, l, B) =
          [x \in 1..w |-> [c \in 1..Cols[i] |->
              IF f + x - 1 < CeilShift(h, l) THEN Fold(B[2 * x - 1][c], B[2 * x][c], k) ELSE {}]]
  <2>1. Above(i, first, d, rows, l, B) =
          [x \in 1..(2 * rows) * Pow2(d - l) |-> [c \in 1..Cols[i] |->
              IF ((2 * first) * Pow2(d)) \div Pow2(l) + x - 1 < CeilShift(shard[i], l)
              THEN Fold(B[2 * x - 1][c], B[2 * x][c], l - 1) ELSE {}]]
    BY Zenon DEF Above
  <2>2. e = d - l /\ k = l - 1
    OBVIOUS
  <2>3. w = (2 * rows) * Pow2(e) /\ h = shard[i]
    OBVIOUS
  <2> HIDE DEF f, w, h
  <2> QED
    BY ONLY <2>1, <2>2, <2>3, <1>3, Zenon
<1>8. LevelRows(i, first, d, rows, l) =
          [x \in 1..w |-> [c \in 1..Cols[i] |-> Promise!Value(h, i, c, l, f + x - 1)]]
  <2>1. e = d - l
    OBVIOUS
  <2> QED
    BY ONLY <2>1, Zenon DEF LevelRows, f, w, h
<1> HIDE DEF f, w, h
<1>9. ASSUME NEW x \in 1..w, NEW c \in 1..Cols[i]
      PROVE  (IF f + x - 1 < CeilShift(h, l) THEN Fold(B[2 * x - 1][c], B[2 * x][c], k) ELSE {})
                 = Promise!Value(h, i, c, l, f + x - 1)
  <2> PICK y : y = f + x - 1
    OBVIOUS
  <2>1. /\ y \in Nat /\ 2 * x - 1 \in 1..2 * w /\ 2 * x \in 1..2 * w
        /\ 2 * f + (2 * x - 1) - 1 = 2 * y /\ 2 * f + 2 * x - 1 = 2 * y + 1
    BY <1>2
  <2>2. B[2 * x - 1][c] = Promise!Value(h, i, c, k, 2 * y)
        /\ B[2 * x][c] = Promise!Value(h, i, c, k, 2 * y + 1)
    BY <1>6, <2>1
  <2>3. CASE y < CeilShift(h, l)
    <3>1. Fold(Promise!Value(h, i, c, k, 2 * y), Promise!Value(h, i, c, k, 2 * y + 1), k)
              = Promise!Value(h, i, c, k + 1, y)
      BY <1>5, <2>1, ValueFold
    <3> QED
      BY <1>1, <2>2, <2>3, <3>1
  <2>4. CASE ~(y < CeilShift(h, l))
    <3>1. CeilShift(h, l) \in Nat
      BY <1>1, <1>5, CeilShiftHalves
    <3>2. CeilShift(h, l) <= y
      BY <2>1, <2>4, <3>1
    <3>3. Promise!Value(h, i, c, l, y) = {}
      BY <1>1, <1>5, <2>1, <3>2, ValueZero
    <3> QED
      BY <2>4, <3>3
  <2> QED
    BY <2>3, <2>4
<1>10. Above(i, first, d, rows, l, B) = LevelRows(i, first, d, rows, l)
  BY ONLY <1>7, <1>8, <1>9
<1> QED
  BY <1>10 DEF B

\* The pairs of row k of a chip's columns after d folds.
PairRow(i, d, k) == [c \in 1..Cols[i] |-> Pair(shard[i], i, c, d, k)]
PairRows(i, d, first, rows) == [k \in 1..rows |-> PairRow(i, d, first + k)]

\* _chunk_build finds the pairs the rounds would have folded.
LEMMA ChunkExact ==
    ASSUME Arrived, NEW i \in ChipIds, NEW first \in Nat, NEW d \in Nat, NEW rows \in Nat
    PROVE  ChunkBuild(i, first, d, rows) = PairRows(i, d, first, rows)
<1> DEFINE G == [l \in 0..d |-> LevelRows(i, first, d, rows, l)]
           level == CHOOSE f : Levels(i, first, d, rows, f)
<1>1. /\ \A l \in 0..d : G[l] = LevelRows(i, first, d, rows, l)
      /\ G[0] = Ground(i, first, d, rows)
      /\ \A l \in 1..d : G[l] = Above(i, first, d, rows, l, G[l - 1])
  <2>1. \A l \in 1..d : l - 1 \in 0..d /\ l \in 0..d
    OBVIOUS
  <2>2. 0 \in 0..d
    OBVIOUS
  <2> QED
    BY <2>1, <2>2, GroundExact, AboveExact
<1>2. Levels(i, first, d, rows, G)
  <2>1. \A l \in 0..d : G[l] = IF l = 0 THEN Ground(i, first, d, rows)
                               ELSE Above(i, first, d, rows, l, G[l - 1])
    <3>1. \A l \in 0..d : l # 0 => l \in 1..d
      OBVIOUS
    <3> HIDE DEF G
    <3> QED
      BY <1>1, <3>1
  <2>2. G = [l \in 0..d |-> G[l]]
    OBVIOUS
  <2> HIDE DEF G
  <2> QED
    BY <2>1, <2>2, Zenon DEF Levels
<1>3. Levels(i, first, d, rows, level)
  <2> HIDE DEF G
  <2> QED
    BY <1>2, Zenon
<1>4. ChunkBuild(i, first, d, rows) =
          [k \in 1..rows |-> [c \in 1..Cols[i] |->
              <<level[d][2 * k - 1][c], level[d][2 * k][c]>>]]
  BY Zenon DEF ChunkBuild, Levels, Ground, Above
<1> HIDE DEF G, level
<1>5. level[0] = G[0] /\ \A l \in 1..d : level[l] = Above(i, first, d, rows, l, level[l - 1])
  <2>1. level = [l \in 0..d |-> IF l = 0 THEN Ground(i, first, d, rows)
                                ELSE Above(i, first, d, rows, l, level[l - 1])]
    BY <1>3, Zenon DEF Levels
  <2>2. 0 \in 0..d /\ \A l \in 1..d : l \in 0..d /\ l # 0
    OBVIOUS
  <2> QED
    BY <1>1, <2>1, <2>2
<1>6. level[d] = LevelRows(i, first, d, rows, d)
  <2>1. \A l \in 0..d : level[l] = G[l]
    BY <1>1, <1>5, StepsAgree
  <2>2. d \in 0..d
    OBVIOUS
  <2> QED
    BY <1>1, <2>1, <2>2
<1>7. level[d] = [x \in 1..2 * rows |-> [c \in 1..Cols[i] |->
                     Promise!Value(shard[i], i, c, d, 2 * first + x - 1)]]
  <2>1. d - d = 0 /\ Pow2(0) = 1 /\ (2 * rows) * 1 = 2 * rows /\ (2 * first) * 1 = 2 * first
    BY Pow2Def
  <2> QED
    BY <1>6, <2>1 DEF LevelRows
<1>8. ASSUME NEW k \in 1..rows, NEW c \in 1..Cols[i]
      PROVE  <<level[d][2 * k - 1][c], level[d][2 * k][c]>> = Pair(shard[i], i, c, d, first + k)
  <2>1. /\ 2 * k - 1 \in 1..2 * rows /\ 2 * k \in 1..2 * rows
        /\ 2 * first + (2 * k - 1) - 1 = 2 * (first + k - 1)
        /\ 2 * first + 2 * k - 1 = 2 * (first + k - 1) + 1
    OBVIOUS
  <2>2. /\ level[d][2 * k - 1][c] = Promise!Value(shard[i], i, c, d, 2 * (first + k - 1))
        /\ level[d][2 * k][c] = Promise!Value(shard[i], i, c, d, 2 * (first + k - 1) + 1)
    BY <1>7, <2>1
  <2> QED
    BY ONLY <2>2 DEF Pair
<1> QED
  BY <1>4, <1>8, Zenon DEF PairRow, PairRows

(***************************************************************************)
(* The windows of a chunk cover its rows, each once and in order, so their *)
(* pairs joined are the pairs of the chip.                                 *)
(***************************************************************************)
\* Rows of the first m windows.
Upto(n, w, m) == MinOf(m * w, n)

Covering(n, w, v) ==
    /\ Len(v) \in Nat
    /\ Upto(n, w, 0) = 0 /\ Upto(n, w, Len(v)) = n
    /\ \A m \in 0..Len(v) : Upto(n, w, m) \in Nat
    /\ \A m \in 1..Len(v) : /\ Upto(n, w, m - 1) <= Upto(n, w, m)
                            /\ v[m][1] = Upto(n, w, m - 1)
                            /\ v[m][2] = Upto(n, w, m) - Upto(n, w, m - 1)

\* The windows of a zone cover its rows, one behind the other.
LEMMA WindowsCover ==
    ASSUME NEW n \in Nat, NEW w \in Nat, w >= 1
    PROVE  Covering(n, w, Windows(n, w))
<1> PICK v : v = Windows(n, w)
  OBVIOUS
<1> DEFINE M == (n + w - 1) \div w
<1>1. M \in Nat /\ n <= M * w /\ \A x \in Nat : n <= x * w <=> M <= x
  BY CeilBounds
<1>2. v = [m \in 1..M |-> <<(m - 1) * w, MinOf(w, n - (m - 1) * w)>>]
  BY Zenon DEF Windows
<1> HIDE DEF M
<1>3. Len(v) = M
  <2>1. v = [m \in 1..M |-> v[m]]
    BY ONLY <1>2
  <2> QED
    BY ONLY <1>1, <2>1, TabulatedSeq
<1>4. ASSUME NEW m \in Nat PROVE Upto(n, w, m) \in Nat /\ m * w \in Nat
  <2>1. m * w \in Nat
    BY Z3
  <2> QED
    BY <2>1 DEF Upto, MinOf
<1>5. Upto(n, w, 0) = 0 /\ Upto(n, w, M) = n
  <2>1. 0 * w = 0 /\ M * w \in Nat
    BY <1>1, Z3
  <2> QED
    BY <1>1, <2>1 DEF Upto, MinOf
<1>6. ASSUME NEW m \in 1..M
      PROVE  /\ Upto(n, w, m - 1) <= Upto(n, w, m)
             /\ v[m][1] = Upto(n, w, m - 1)
             /\ v[m][2] = Upto(n, w, m) - Upto(n, w, m - 1)
  <2>1. m - 1 \in Nat /\ m \in Nat /\ ~(M <= m - 1)
    BY <1>1
  <2> PICK a : a = (m - 1) * w
    OBVIOUS
  <2>2. a \in Nat /\ m * w = a + w
    BY <2>1, Z3
  <2>3. ~(n <= a)
    BY <1>1, <2>1
  <2>4. v[m] = <<a, MinOf(w, n - a)>>
    BY <1>2
  <2>5. Upto(n, w, m - 1) = a
    BY <2>2, <2>3 DEF Upto, MinOf
  <2>6. Upto(n, w, m) = a + MinOf(w, n - a)
    <3>1. Upto(n, w, m) = MinOf(a + w, n)
      BY <2>2 DEF Upto
    <3> QED
      BY <2>2, <2>3, <3>1 DEF MinOf
  <2>7. MinOf(w, n - a) \in Nat
    BY <2>2, <2>3 DEF MinOf
  <2> PICK b \in Nat : b = MinOf(w, n - a)
    BY <2>7
  <2> QED
    BY <2>2, <2>4, <2>5, <2>6
<1>7. Covering(n, w, v)
  BY <1>1, <1>3, <1>4, <1>5, <1>6 DEF Covering
<1> QED
  BY <1>7

\* A window has at least a row.
LEMMA ChunkRowsHold ==
    ASSUME NEW cells \in Nat, NEW cols \in Nat, cols >= 1, NEW d \in Nat,
           NEW pairCap \in Nat, pairCap >= 1
    PROVE  /\ ChunkPairRows(cells, cols, d, pairCap) \in Nat
           /\ ChunkPairRows(cells, cols, d, pairCap) >= 1
<1>1. d + 1 \in Nat
  OBVIOUS
<1> PICK n \in Nat : n = Pow2(d + 1) /\ n >= 1
  BY <1>1, Pow2Def
<1>2. cols * n \in Nat /\ cols * n >= 1
  BY Z3
<1> PICK m \in Nat : m = cols * n /\ m >= 1
  BY <1>2
<1>3. cells \div m \in Nat
  BY ONLY cells \in Nat, m \in Nat, m >= 1, Z3
<1> QED
  BY <1>3 DEF ChunkPairRows, MaxOf, MinOf

\* A chunk plan's caps leave room for a row.
LEMMA CapsPositive ==
    ASSUME plan \in Plans, NEW i \in ChipIds
    PROVE  /\ plan.chunk.cells \in Nat
           /\ \A r \in Nat : PairCap(i, r) \in Nat /\ PairCap(i, r) >= 1
           /\ BlockHalf(i) \in Nat /\ BlockHalf(i) >= 1
<1>1. plan.chunk.caps[i] \in Nat /\ plan.chunk.cells \in Nat
  BY RoundsAssumption
<1>2. ASSUME NEW r \in Nat PROVE CeilShift(plan.chunk.caps[i], r + 1) \in Nat
  <2>1. r + 1 \in Nat
    OBVIOUS
  <2> QED
    BY <1>1, <2>1, CeilShiftHalves
<1>3. ASSUME NEW r \in Nat PROVE EqWidth(r) \in Nat /\ EqWidth(r) >= 2
  <2>1. EqWidth(r) \in Nat
    BY EqWidthHolds
  <2>2. Pow2(MaxOf(NumVars - 1 - r, 0)) \in Nat
    <3>1. MaxOf(NumVars - 1 - r, 0) \in Nat
      BY RoundsAssumption DEF MaxOf
    <3> QED
      BY <3>1, Pow2Def
  <2>3. EqWidth(r) = MaxOf(Pow2(MaxOf(NumVars - 1 - r, 0)), 2)
    BY DEF EqWidth
  <2> PICK x \in Nat : x = Pow2(MaxOf(NumVars - 1 - r, 0))
    BY <2>2
  <2> QED
    BY <2>1, <2>3 DEF MaxOf
<1>4. ASSUME NEW r \in Nat PROVE PairCap(i, r) \in Nat /\ PairCap(i, r) >= 1
  <2>1. PairCap(i, r) = MinOf(MaxOf(CeilShift(plan.chunk.caps[i], r + 1), 1), EqWidth(r))
    BY DEF PairCap
  <2> PICK x \in Nat : x = CeilShift(plan.chunk.caps[i], r + 1)
    BY <1>2
  <2> PICK y \in Nat : y = EqWidth(r) /\ y >= 2
    BY <1>3
  <2> QED
    BY <2>1 DEF MinOf, MaxOf
<1>5. BlockHalf(i) \in Nat /\ BlockHalf(i) >= 1
  <2>1. Depth \in Nat
    BY DepthNat
  <2> PICK x \in Nat : x = CeilShift(plan.chunk.caps[i], Depth + 1)
    BY <1>2, <2>1
  <2> QED
    BY DEF BlockHalf, MaxOf
<1> QED
  BY <1>1, <1>4, <1>5

\* The windows of the rebuilt state, joined.
LEMMA ChipBlockExact ==
    ASSUME Arrived, plan \in Plans, NEW i \in ChipIds
    PROVE  ChipBlock(i) = [k \in 1..BlockHalf(i) |-> PairRow(i, Depth, k)]
<1> DEFINE n == BlockHalf(i)
           w == ChunkPairRows(plan.chunk.cells, Cols[i], Depth, n)
           v == Windows(n, w)
           u == [m \in 0..Len(v) |-> Upto(n, w, m)]
           t == [m \in 1..Len(v) |-> ChunkBuild(i, v[m][1], Depth, v[m][2])]
           F == [k \in 1..n |-> PairRow(i, Depth, k)]
           rows == CHOOSE f : f = [m \in 0..Len(v) |->
                       IF m = 0 THEN <<>> ELSE f[m - 1] \o ChunkBuild(i, v[m][1], Depth, v[m][2])]
<1>1. Depth \in Nat /\ n \in Nat /\ n >= 1 /\ plan.chunk.cells \in Nat
  BY DepthNat, CapsPositive
<1>2. Cols[i] \in Nat /\ Cols[i] >= 1
  BY ColsHold
<1>3. ChipBlock(i) = rows[Len(v)]
  BY Zenon DEF ChipBlock
<1>4. w \in Nat /\ w >= 1
  <2> HIDE DEF n
  <2> QED
    BY <1>1, <1>2, ChunkRowsHold
<1> HIDE DEF n, w
<1>5. /\ Len(v) \in Nat
      /\ Upto(n, w, 0) = 0 /\ Upto(n, w, Len(v)) = n
      /\ \A m \in 0..Len(v) : Upto(n, w, m) \in Nat
      /\ \A m \in 1..Len(v) : /\ Upto(n, w, m - 1) <= Upto(n, w, m)
                              /\ v[m][1] = Upto(n, w, m - 1)
                              /\ v[m][2] = Upto(n, w, m) - Upto(n, w, m - 1)
  <2>1. Covering(n, w, v)
    BY ONLY <1>1, <1>4, WindowsCover, Zenon DEF v
  <2> HIDE DEF v
  <2> QED
    BY ONLY <2>1, Zenon DEF Covering
<1> HIDE DEF v
<1>6. /\ u[0] = 0 /\ u[Len(v)] = n /\ \A m \in 0..Len(v) : u[m] \in Nat
      /\ \A m \in 1..Len(v) : /\ u[m - 1] <= u[m] /\ u[m] <= n
                              /\ v[m][1] = u[m - 1] /\ v[m][2] = u[m] - u[m - 1]
  <2>1. 0 \in 0..Len(v) /\ Len(v) \in 0..Len(v)
        /\ \A m \in 1..Len(v) : m - 1 \in 0..Len(v) /\ m \in 0..Len(v)
    BY <1>5
  <2>2. \A m \in 0..Len(v) : Upto(n, w, m) <= n
    <3> SUFFICES ASSUME NEW m \in 0..Len(v) PROVE Upto(n, w, m) <= n
      OBVIOUS
    <3> PICK x : x = m * w
      OBVIOUS
    <3>1. x \in Nat
      BY <1>4, <1>5, Z3
    <3> QED
      BY <1>1, <3>1 DEF Upto, MinOf
  <2> QED
    BY <1>5, <2>1, <2>2
<1> HIDE DEF u
<1>7. \A m \in 1..Len(v) : t[m] = [k \in 1..u[m] - u[m - 1] |-> F[u[m - 1] + k]]
  <2> SUFFICES ASSUME NEW m \in 1..Len(v)
               PROVE  t[m] = [k \in 1..u[m] - u[m - 1] |-> F[u[m - 1] + k]]
    OBVIOUS
  <2>0. m - 1 \in 0..Len(v) /\ m \in 0..Len(v)
    BY <1>5
  <2> PICK a \in Nat : a = u[m - 1]
    BY <1>6, <2>0
  <2> PICK b \in Nat : b = u[m] - u[m - 1] /\ a + b <= n
    BY <1>1, <1>6, <2>0
  <2>1. t[m] = ChunkBuild(i, a, Depth, b)
    BY <1>6
  <2>3. \A k \in 1..b : F[a + k] = PairRow(i, Depth, a + k)
    BY <1>1
  <2> HIDE DEF F, t
  <2>2. t[m] = [k \in 1..b |-> PairRow(i, Depth, a + k)]
    <3>1. ChunkBuild(i, a, Depth, b) = PairRows(i, Depth, a, b)
      BY ONLY Arrived, i \in ChipIds, a \in Nat, b \in Nat, <1>1, ChunkExact, Zenon
    <3> QED
      BY ONLY <2>1, <3>1, Zenon DEF PairRows
  <2>4. t[m] = [k \in 1..b |-> F[a + k]]
    BY ONLY <2>2, <2>3
  <2> QED
    BY ONLY <2>4, a = u[m - 1], b = u[m] - u[m - 1]
<1>8. ASSUME NEW f
      PROVE  Joins(Len(v), t, f) <=>
                 f = [m \in 0..Len(v) |->
                       IF m = 0 THEN <<>> ELSE f[m - 1] \o ChunkBuild(i, v[m][1], Depth, v[m][2])]
  <2>1. ASSUME NEW m \in 0..Len(v)
        PROVE  (IF m = 0 THEN <<>> ELSE f[m - 1] \o t[m]) =
                   (IF m = 0 THEN <<>> ELSE f[m - 1] \o ChunkBuild(i, v[m][1], Depth, v[m][2]))
    <3>1. CASE m = 0
      BY <3>1
    <3>2. CASE m # 0
      <4>1. m \in 1..Len(v)
        BY <1>5, <3>2
      <4>2. t[m] = ChunkBuild(i, v[m][1], Depth, v[m][2])
        BY <4>1
      <4> HIDE DEF t
      <4> QED
        BY ONLY <4>2, Zenon
    <3> QED
      BY <3>1, <3>2
  <2> HIDE DEF t
  <2>2. [m \in 0..Len(v) |-> IF m = 0 THEN <<>> ELSE f[m - 1] \o t[m]] =
        [m \in 0..Len(v) |->
            IF m = 0 THEN <<>> ELSE f[m - 1] \o ChunkBuild(i, v[m][1], Depth, v[m][2])]
    BY ONLY <2>1, Zenon
  <2> QED
    BY ONLY <2>2, Zenon DEF Joins
<1> HIDE DEF F, t
<1>9. /\ \E f : Joins(Len(v), t, f)
      /\ \A f : Joins(Len(v), t, f) => f[Len(v)] = TableOf(F, u[Len(v)])
  <2>1. \A m \in 1..Len(v) :
            /\ u[m - 1] <= u[m]
            /\ t[m] = [k \in 1..u[m] - u[m - 1] |-> F[u[m - 1] + k]]
    BY ONLY <1>6, <1>7, Zenon
  <2> QED
    <3>1. Tables(Len(v), t, u, F)
      BY ONLY <1>5, <1>6, <2>1, Zenon DEF Tables
    <3> QED
      BY ONLY <3>1, TablesSum
<1>10. Joins(Len(v), t, rows)
  BY ONLY <1>8, <1>9, Zenon DEF rows
<1> HIDE DEF rows
<1>11. rows[Len(v)] = TableOf(F, n)
  BY ONLY <1>6, <1>9, <1>10, Zenon
<1>12. \A k \in 1..n : F[k] = PairRow(i, Depth, k)
  BY DEF F
<1> QED
  BY ONLY <1>3, <1>11, <1>12 DEF n, TableOf

\* The terms of a window that a chip's live pairs reach.
TermsOf(i, v) ==
    LET live  == MaxOf(0, MinOf(Pairs(heights[i]) - v[1], v[2]))
        pairs == ChunkBuild(i, v[1], Round, v[2])
    IN  [k \in 1..live |-> <<eq[v[1] + k], pairs[k]>>]
LiveTerm(i, k) == <<eq[k], PairRow(i, Round, k)>>
LiveTerms(i, first, n) == [k \in 1..n |-> LiveTerm(i, first + k)]

\* The terms of a window are its live ones.
LEMMA TermsOfExact ==
    ASSUME Arrived, Round \in Nat, NEW i \in ChipIds, NEW v, NEW a \in Nat, NEW b \in Nat,
           NEW p \in Nat, Pairs(heights[i]) = p, v[1] = a, v[2] = b,
           NEW n \in Nat, n = IF p <= a THEN 0 ELSE MinOf(a + b, p) - a
    PROVE  TermsOf(i, v) = LiveTerms(i, a, n)
<1>1. n <= b /\ MaxOf(0, MinOf(p - a, b)) = n
  BY DEF MaxOf, MinOf
<1>2. ChunkBuild(i, a, Round, b) = PairRows(i, Round, a, b)
  BY ChunkExact
<1> DEFINE pairs == ChunkBuild(i, a, Round, b)
<1>3. \A k \in 1..n : pairs[k] = PairRow(i, Round, a + k)
  <2>1. pairs = [k \in 1..b |-> PairRow(i, Round, a + k)]
    BY ONLY <1>2 DEF PairRows
  <2>2. \A k \in 1..n : k \in 1..b
    BY <1>1
  <2> HIDE DEF pairs
  <2> QED
    BY ONLY <2>1, <2>2
<1>4. TermsOf(i, v) = [k \in 1..n |-> <<eq[a + k], pairs[k]>>]
  BY <1>1, Zenon DEF TermsOf
<1> HIDE DEF pairs
<1> QED
  BY ONLY <1>3, <1>4 DEF LiveTerms, LiveTerm

\* The windows' terms, added up, are the chip's live terms.
LEMMA ChunkTermsExact ==
    ASSUME Arrived, plan \in Plans, Round \in Nat, NEW i \in ChipIds,
           Pairs(heights[i]) \in Nat, Pairs(heights[i]) <= PairCap(i, Round)
    PROVE  ChunkTerms(i) = LiveTerms(i, 0, Pairs(heights[i]))
<1> DEFINE n == PairCap(i, Round)
           p == Pairs(heights[i])
           w == ChunkPairRows(plan.chunk.cells, Cols[i], Round, n)
           v == Windows(n, w)
           u == [m \in 0..Len(v) |-> MinOf(Upto(n, w, m), p)]
           t == [m \in 1..Len(v) |-> TermsOf(i, v[m])]
           F == [k \in 1..p |-> LiveTerm(i, k)]
           rows == CHOOSE f : f = [m \in 0..Len(v) |->
                                      IF m = 0 THEN <<>> ELSE f[m - 1] \o TermsOf(i, v[m])]
<1>1. n \in Nat /\ n >= 1 /\ plan.chunk.cells \in Nat /\ p \in Nat /\ p <= n
  BY CapsPositive
<1>2. Cols[i] \in Nat /\ Cols[i] >= 1
  BY ColsHold
<1>3. ChunkTerms(i) = rows[Len(v)]
  BY Zenon DEF ChunkTerms, TermsOf
<1>4. w \in Nat /\ w >= 1
  <2> HIDE DEF n
  <2> QED
    BY <1>1, <1>2, ChunkRowsHold
<1> HIDE DEF n, w
<1>5. /\ Len(v) \in Nat
      /\ Upto(n, w, 0) = 0 /\ Upto(n, w, Len(v)) = n
      /\ \A m \in 0..Len(v) : Upto(n, w, m) \in Nat
      /\ \A m \in 1..Len(v) : /\ Upto(n, w, m - 1) <= Upto(n, w, m)
                              /\ v[m][1] = Upto(n, w, m - 1)
                              /\ v[m][2] = Upto(n, w, m) - Upto(n, w, m - 1)
  <2>1. Covering(n, w, v)
    BY ONLY <1>1, <1>4, WindowsCover, Zenon DEF v
  <2> HIDE DEF v
  <2> QED
    BY ONLY <2>1, Zenon DEF Covering
<1> HIDE DEF v, p
<1>6. /\ u[0] = 0 /\ u[Len(v)] = p /\ \A m \in 0..Len(v) : u[m] \in Nat /\ u[m] <= p
      /\ \A m \in 0..Len(v) : u[m] = MinOf(Upto(n, w, m), p)
  <2>1. 0 \in 0..Len(v) /\ Len(v) \in 0..Len(v)
    BY <1>5
  <2>2. \A m \in 0..Len(v) : u[m] = MinOf(Upto(n, w, m), p)
    OBVIOUS
  <2> HIDE DEF u
  <2> QED
    BY <1>1, <1>5, <2>1, <2>2 DEF MinOf
<1> HIDE DEF u
<1>7. ASSUME NEW m \in 1..Len(v)
      PROVE  u[m - 1] <= u[m] /\ t[m] = LiveTerms(i, u[m - 1], u[m] - u[m - 1])
  <2>0. m - 1 \in 0..Len(v) /\ m \in 0..Len(v)
    BY <1>5
  <2> PICK a \in Nat : a = Upto(n, w, m - 1)
    BY <1>5, <2>0
  <2> PICK e \in Nat : e = Upto(n, w, m)
    BY <1>5, <2>0
  <2> PICK b \in Nat : b = e - a
    BY <1>5
  <2>1. v[m][1] = a /\ v[m][2] = b
    BY <1>5
  <2>2. u[m - 1] = MinOf(a, p) /\ u[m] = MinOf(a + b, p)
    BY <1>6, <2>0
  <2> PICK l \in Nat : l = IF p <= a THEN 0 ELSE MinOf(a + b, p) - a
    <3>1. (IF p <= a THEN 0 ELSE MinOf(a + b, p) - a) \in Nat
      BY ONLY <1>1, a \in Nat, b \in Nat DEF MinOf
    <3> QED
      BY ONLY <3>1
  <2>3. u[m - 1] <= u[m] /\ u[m] - u[m - 1] = l /\ (l # 0 => u[m - 1] = a)
    BY ONLY <1>1, <2>2, l = IF p <= a THEN 0 ELSE MinOf(a + b, p) - a, a \in Nat, b \in Nat
       DEF MinOf
  <2>4. TermsOf(i, v[m]) = LiveTerms(i, a, l)
    <3>1. Pairs(heights[i]) = p /\ p \in Nat
      BY <1>1 DEF p
    <3> HIDE DEF t, F
    <3> QED
      BY ONLY <2>1, <3>1, Arrived, Round \in Nat, i \in ChipIds, a \in Nat, b \in Nat, l \in Nat,
         l = IF p <= a THEN 0 ELSE MinOf(a + b, p) - a, TermsOfExact
  <2>5. LiveTerms(i, a, l) = LiveTerms(i, u[m - 1], l)
    <3>1. CASE l = 0
      BY ONLY <3>1 DEF LiveTerms
    <3>2. CASE l # 0
      BY <2>3, <3>2
    <3> QED
      BY <3>1, <3>2
  <2>6. t[m] = TermsOf(i, v[m])
    OBVIOUS
  <2> HIDE DEF t
  <2> QED
    BY ONLY <2>3, <2>4, <2>5, <2>6, Zenon
<1>8. ASSUME NEW f
      PROVE  Joins(Len(v), t, f) <=>
                 f = [m \in 0..Len(v) |-> IF m = 0 THEN <<>> ELSE f[m - 1] \o TermsOf(i, v[m])]
  <2>1. ASSUME NEW m \in 0..Len(v)
        PROVE  (IF m = 0 THEN <<>> ELSE f[m - 1] \o t[m]) =
                   (IF m = 0 THEN <<>> ELSE f[m - 1] \o TermsOf(i, v[m]))
    <3>1. CASE m = 0
      BY <3>1
    <3>2. CASE m # 0
      <4>1. m \in 1..Len(v)
        BY <1>5, <3>2
      <4>2. t[m] = TermsOf(i, v[m])
        BY <4>1
      <4> HIDE DEF t
      <4> QED
        BY ONLY <4>2, Zenon
    <3> QED
      BY <3>1, <3>2
  <2> HIDE DEF t
  <2>2. [m \in 0..Len(v) |-> IF m = 0 THEN <<>> ELSE f[m - 1] \o t[m]] =
        [m \in 0..Len(v) |-> IF m = 0 THEN <<>> ELSE f[m - 1] \o TermsOf(i, v[m])]
    BY ONLY <2>1, Zenon
  <2> QED
    BY ONLY <2>2, Zenon DEF Joins
<1> HIDE DEF t
<1>12. ASSUME NEW a \in Nat, NEW l \in Nat, a + l <= p
       PROVE  LiveTerms(i, a, l) = [k \in 1..l |-> F[a + k]]
  <2>1. \A k \in 1..l : F[a + k] = LiveTerm(i, a + k)
    BY <1>1, <1>12
  <2> HIDE DEF F
  <2> QED
    BY ONLY <2>1 DEF LiveTerms
<1>9. /\ \E f : Joins(Len(v), t, f)
      /\ \A f : Joins(Len(v), t, f) => f[Len(v)] = TableOf(F, u[Len(v)])
  <2>1. ASSUME NEW m \in 1..Len(v)
        PROVE  /\ u[m - 1] <= u[m]
               /\ t[m] = [k \in 1..u[m] - u[m - 1] |-> F[u[m - 1] + k]]
    <3>0. m - 1 \in 0..Len(v) /\ m \in 0..Len(v)
      BY <1>5
    <3>1. u[m - 1] <= u[m] /\ t[m] = LiveTerms(i, u[m - 1], u[m] - u[m - 1])
      BY <1>7
    <3>2. u[m - 1] \in Nat /\ u[m] \in Nat /\ u[m] <= p
      BY <1>6, <3>0
    <3> PICK a \in Nat : a = u[m - 1]
      BY <3>2
    <3> PICK l \in Nat : l = u[m] - u[m - 1] /\ a + l <= p
      BY <1>1, <3>1, <3>2
    <3> HIDE DEF F
    <3>3. LiveTerms(i, a, l) = [k \in 1..l |-> F[a + k]]
      BY <1>12
    <3> QED
      BY ONLY <3>1, <3>3, a = u[m - 1], l = u[m] - u[m - 1]
  <2> HIDE DEF F
  <2>2. Tables(Len(v), t, u, F)
    BY ONLY <1>5, <1>6, <2>1, Zenon DEF Tables
  <2> QED
    BY ONLY <2>2, TablesSum
<1>10. Joins(Len(v), t, rows)
  <2> HIDE DEF F
  <2> QED
    BY ONLY <1>8, <1>9, Zenon DEF rows
<1> HIDE DEF rows
<1>11. rows[Len(v)] = TableOf(F, p)
  <2> HIDE DEF F
  <2> QED
    BY ONLY <1>6, <1>9, <1>10, Zenon
<1>13. TableOf(F, p) = LiveTerms(i, 0, p)
  <2>1. \A k \in 1..p : F[k] = LiveTerm(i, 0 + k)
    BY <1>1
  <2> HIDE DEF F
  <2> QED
    BY ONLY <2>1 DEF TableOf, LiveTerms
<1> QED
  BY ONLY <1>3, <1>11, <1>13, Zenon DEF p

(***************************************************************************)
(* The eq table.                                                           *)
(***************************************************************************)
\* A window is an even number of rows, halves as the floored table does, and
\* covers the hypercube's row pairs of its round.
LEMMA WindowExact ==
    ASSUME NEW r \in Nat
    PROVE  /\ WindowOf(r) \in Nat /\ WindowOf(r) >= 2
           /\ 2 * (WindowOf(r) \div 2) = WindowOf(r)
           /\ r < Unrolled => WindowOf(r + 1) = MaxOf(WindowOf(r) \div 2, 2)
           /\ r < NumVars => Pow2(NumVars - 1 - r) <= WindowOf(r)
<1>0. NumVars \in Nat /\ Unrolled \in Nat /\ Unrolled <= NumVars
  BY RoundsAssumption, UnrolledNat
<1>1. ASSUME NEW m \in Nat
      PROVE  /\ EqWidth(m) \in Nat /\ EqWidth(m) >= 2 /\ 2 * (EqWidth(m) \div 2) = EqWidth(m)
             /\ EqWidth(m + 1) = MaxOf(EqWidth(m) \div 2, 2)
  <2> DEFINE e == NumVars - 1 - m
  <2>1. EqWidth(m) = MaxOf(Pow2(MaxOf(e, 0)), 2)
        /\ EqWidth(m + 1) = MaxOf(Pow2(MaxOf(e - 1, 0)), 2)
    <3>1. NumVars - 1 - (m + 1) = e - 1
      BY <1>0
    <3> QED
      BY <3>1, Zenon DEF EqWidth
  <2>2. e \in Int
    BY <1>0
  <2> HIDE DEF e
  <2>3. CASE e <= 0
    <3>1. MaxOf(e, 0) = 0 /\ MaxOf(e - 1, 0) = 0
      BY <2>2, <2>3 DEF MaxOf
    <3>2. EqWidth(m) = MaxOf(1, 2) /\ EqWidth(m + 1) = MaxOf(1, 2)
      BY <2>1, <3>1, Pow2Def
    <3> QED
      BY <3>2 DEF MaxOf
  <2>4. CASE ~(e <= 0)
    <3> PICK d \in Nat : d = e - 1
      BY <2>2, <2>4
    <3>1. MaxOf(e, 0) = d + 1 /\ MaxOf(e - 1, 0) = d
      BY <2>2, <2>4 DEF MaxOf
    <3>2. Pow2(d) \in Nat /\ Pow2(d) >= 1 /\ Pow2(d + 1) = 2 * Pow2(d)
      BY Pow2Def
    <3> PICK p \in Nat : p = Pow2(d) /\ p >= 1
      BY <3>2
    <3>3. EqWidth(m) = MaxOf(2 * p, 2) /\ EqWidth(m + 1) = MaxOf(p, 2)
      BY <2>1, <3>1, <3>2
    <3>4. MaxOf(2 * p, 2) = 2 * p /\ (2 * p) \div 2 = p
      BY DEF MaxOf
    <3> QED
      BY <3>3, <3>4
  <2> QED
    BY <2>3, <2>4
<1> PICK m : m = MinOf(r, Unrolled)
  OBVIOUS
<1>2. m \in Nat /\ m <= r /\ (r < Unrolled => m = r /\ MinOf(r + 1, Unrolled) = m + 1)
  BY <1>0 DEF MinOf
<1>3. WindowOf(r) = EqWidth(m)
  BY DEF WindowOf
<1>4. r < Unrolled => WindowOf(r + 1) = EqWidth(m + 1)
  BY <1>2 DEF WindowOf
<1>5. r < NumVars => Pow2(NumVars - 1 - r) <= WindowOf(r)
  <2> SUFFICES ASSUME r < NumVars PROVE Pow2(NumVars - 1 - r) <= EqWidth(m)
    BY <1>3
  <2> PICK d \in Nat : d = r - m
    BY <1>2
  <2> PICK e \in Nat : e = NumVars - 1 - r
    BY <1>0
  <2>1. NumVars - 1 - m = e + d /\ m < NumVars
    BY <1>0, <1>2
  <2>2. Pow2(e) <= Pow2(e + d)
    BY Pow2Monotone
  <2>3. Pow2(e + d) <= EqWidth(m)
    BY <1>2, <2>1, EqWidthHolds
  <2>4. Pow2(e) \in Nat /\ Pow2(e + d) \in Nat /\ EqWidth(m) \in Nat
    <3>1. e + d \in Nat
      OBVIOUS
    <3> QED
      BY <1>1, <1>2, <3>1, Pow2Def
  <2> QED
    BY <2>2, <2>3, <2>4
<1> QED
  BY <1>1, <1>2, <1>3, <1>4, <1>5

\* The window's rows reach every base pair of the hypercube.
LEMMA WindowReach ==
    ASSUME NEW r \in Nat, r < NumVars
    PROVE  /\ Width <= WindowOf(r) * Pow2(r + 1)
           /\ Width \div 2 <= WindowOf(r) * Pow2(r)
           /\ Width \in Nat
<1> PICK e \in Nat : e = NumVars - 1 - r
  BY RoundsAssumption
<1> PICK a \in Nat : a = Pow2(e)
  BY Pow2Def
<1> PICK p \in Nat : p = Pow2(r)
  BY Pow2Def
<1> PICK w \in Nat : w = WindowOf(r) /\ a <= w
  BY WindowExact
<1>1. Pow2(r + 1) = 2 * p
  BY Pow2Def
<1>2. Width = a * (2 * p)
  <2>1. NumVars = e + (r + 1) /\ r + 1 \in Nat
    BY RoundsAssumption
  <2>2. Pow2(e + (r + 1)) = Pow2(e) * Pow2(r + 1)
    BY <2>1, Pow2Sum
  <2> QED
    BY <1>1, <2>1, <2>2 DEF Width
<1>3. a * (2 * p) <= w * (2 * p) /\ (a * (2 * p)) \div 2 <= w * p /\ a * (2 * p) \in Nat
  <2>1. a * (2 * p) = 2 * (a * p) /\ w * (2 * p) = 2 * (w * p)
    BY Z3
  <2>2. a * p \in Nat /\ w * p \in Nat /\ a * p <= w * p
    BY Z3
  <2> PICK x \in Nat : x = a * p
    BY <2>2
  <2> PICK y \in Nat : y = w * p
    BY <2>2
  <2>3. x <= y
    BY <2>2
  <2>4. 2 * x <= 2 * y /\ (2 * x) \div 2 <= y /\ 2 * x \in Nat
    BY ONLY <2>3, x \in Nat, y \in Nat
  <2> QED
    BY ONLY <2>1, <2>4, x = a * p, y = w * p
<1> QED
  BY <1>1, <1>2, <1>3

\* The table of the first round, and its contraction.
EqExact(table, r) == table = [k \in 1..WindowOf(r) |-> Promise!EqMass(r, k - 1)]

\* An eq mass, in the width of the hypercube.
LEMMA EqMassOf ==
    ASSUME NEW r, NEW k
    PROVE  Promise!EqMass(r, k) = {b \in 0..Width \div 2 - 1 : b \div Pow2(r) = k}
<1>1. Promise!Pow2(r) = Pow2(r) /\ Promise!Pow2(NumVars) = Pow2(NumVars)
  BY PromisePow2
<1> QED
  BY <1>1, Zenon DEF Promise!EqMass, Width

\* The first table is exact.
LEMMA EqFirst == EqExact(FirstEq, 0)
<1>1. Pow2(0) = 1 /\ Width \in Nat
  BY Pow2Def, RoundsAssumption DEF Width
<1>2. WindowOf(0) = EqWidth(0)
  BY UnrolledNat DEF WindowOf, MinOf
<1>3. FirstEq = [k \in 1..EqWidth(0) |-> IF k <= Width \div 2 THEN {k - 1} ELSE {}]
  BY DEF FirstEq
<1>4. ASSUME NEW k \in 1..EqWidth(0)
      PROVE  (IF k <= Width \div 2 THEN {k - 1} ELSE {}) = Promise!EqMass(0, k - 1)
  <2> PICK n \in Nat : n = Width \div 2
    BY <1>1
  <2>1. Promise!EqMass(0, k - 1) = {b \in 0..n - 1 : b \div 1 = k - 1}
    <3>1. Promise!EqMass(0, k - 1) = {b \in 0..Width \div 2 - 1 : b \div Pow2(0) = k - 1}
      BY EqMassOf
    <3> QED
      BY <1>1, <3>1
  <2>2. EqWidth(0) \in Nat /\ k \in Nat /\ k >= 1
    BY EqWidthHolds
  <2>3. {b \in 0..n - 1 : b \div 1 = k - 1} = IF k <= n THEN {k - 1} ELSE {}
    BY ONLY n \in Nat, <2>2
  <2> QED
    BY <2>1, <2>3
<1> QED
  BY ONLY <1>2, <1>3, <1>4 DEF EqExact

\* Two neighbours' masses are the mass of their fold.
LEMMA EqMassFold ==
    ASSUME NEW r \in Nat, NEW k \in Nat
    PROVE  Promise!EqMass(r, 2 * k) \cup Promise!EqMass(r, 2 * k + 1) = Promise!EqMass(r + 1, k)
<1> PICK w \in Nat : w = Pow2(r) /\ w >= 1
  BY Pow2Def
<1>1. Pow2(r + 1) = 2 * w
  BY Pow2Def
<1>2. ASSUME NEW b \in Nat
      PROVE  b \div (2 * w) = k <=> (b \div w = 2 * k \/ b \div w = 2 * k + 1)
  <2> PICK q \in Nat : q = b \div w
    BY ONLY b \in Nat, w \in Nat, w >= 1, Z3
  <2>1. q * w <= b /\ b < q * w + w
    BY ONLY q = b \div w, q \in Nat, b \in Nat, w \in Nat, w >= 1, Z3
  <2> PICK h \in Nat : h = q \div 2
    OBVIOUS
  <2> PICK s \in Nat : s = q % 2 /\ s <= 1
    OBVIOUS
  <2>2. q = 2 * h + s
    BY ONLY q \in Nat, h = q \div 2, s = q % 2
  <2> PICK c \in Nat : c = b - q * w
    BY ONLY <2>1, q \in Nat, w \in Nat, b \in Nat, Z3
  <2>3. b = h * (2 * w) + (s * w + c) /\ s * w + c < 2 * w /\ s * w + c \in Nat /\ 2 * w \in Nat
    <3>1. q * w = h * (2 * w) + s * w
      BY ONLY <2>2, q \in Nat, h \in Nat, s \in Nat, w \in Nat, Z3
    <3>2. c < w
      BY ONLY <2>1, c = b - q * w, q \in Nat, w \in Nat, b \in Nat, c \in Nat, Z3
    <3>3. s * w \in Nat /\ s * w <= w
      <4>1. s = 0 \/ s = 1
        OBVIOUS
      <4> QED
        BY ONLY <4>1, w \in Nat
    <3>4. q * w \in Nat /\ h * (2 * w) \in Nat
      BY ONLY q \in Nat, h \in Nat, w \in Nat, Z3
    <3> QED
      BY ONLY <3>1, <3>2, <3>3, <3>4, c = b - q * w, b \in Nat, c \in Nat, w \in Nat
  <2>4. b \div (2 * w) = h
    <3> PICK v \in Nat : v = 2 * w
      OBVIOUS
    <3> PICK t \in Nat : t = s * w + c /\ t < v /\ b = h * v + t
      BY <2>3
    <3>1. (h * v + t) \div v = h
      BY ONLY h \in Nat, v \in Nat, t \in Nat, t < v, DivMod
    <3> QED
      BY ONLY <3>1, b = h * v + t, v = 2 * w
  <2>5. h = k <=> (q = 2 * k \/ q = 2 * k + 1)
    BY ONLY <2>2, q \in Nat, h \in Nat, s \in Nat, s <= 1, k \in Nat
  <2> QED
    BY ONLY <2>4, <2>5, q = b \div w
<1>3. /\ Promise!EqMass(r, 2 * k) = {b \in 0..Width \div 2 - 1 : b \div w = 2 * k}
      /\ Promise!EqMass(r, 2 * k + 1) = {b \in 0..Width \div 2 - 1 : b \div w = 2 * k + 1}
      /\ Promise!EqMass(r + 1, k) = {b \in 0..Width \div 2 - 1 : b \div (2 * w) = k}
  BY <1>1, EqMassOf
<1>4. 0..Width \div 2 - 1 \subseteq Nat
  OBVIOUS
<1> QED
  BY ONLY <1>2, <1>3, <1>4

\* A folded table is exact, at a shrinking and at a fixed width.
LEMMA EqFold ==
    ASSUME NEW r \in Nat, r < NumVars, NEW table, EqExact(table, r),
           NEW shrink, shrink = (r < Unrolled)
    PROVE  EqExact(FoldEq(table, shrink), r + 1)
<1> PICK w \in Nat : w = WindowOf(r) /\ w >= 2 /\ 2 * (w \div 2) = w
  BY WindowExact
<1>1. table = [k \in 1..w |-> Promise!EqMass(r, k - 1)] /\ Len(table) = w
  <2>1. table = [k \in 1..w |-> Promise!EqMass(r, k - 1)]
    BY DEF EqExact
  <2>2. table = [k \in 1..w |-> table[k]]
    BY ONLY <2>1
  <2> QED
    BY ONLY <2>1, <2>2, w \in Nat, TabulatedSeq
<1> PICK c \in Nat : c = w \div 2
  OBVIOUS
<1> PICK n : n = IF shrink THEN MaxOf(c, 2) ELSE w
  OBVIOUS
<1>2. FoldEq(table, shrink) =
          [k \in 1..n |-> IF k <= c THEN table[2 * k - 1] \cup table[2 * k] ELSE {}]
  BY <1>1, Zenon DEF FoldEq
<1>3. n = WindowOf(r + 1) /\ n \in Nat
  <2>1. CASE r < Unrolled
    BY <2>1, WindowExact DEF MaxOf
  <2>2. CASE ~(r < Unrolled)
    BY <2>2, WindowShrinks
  <2> QED
    BY <2>1, <2>2
<1>4. ASSUME NEW k \in 1..n
      PROVE  (IF k <= c THEN table[2 * k - 1] \cup table[2 * k] ELSE {})
                 = Promise!EqMass(r + 1, k - 1)
  <2> PICK j \in Nat : j = k - 1
    BY <1>3
  <2>1. CASE k <= c
    <3>1. 2 * k - 1 \in 1..w /\ 2 * k \in 1..w /\ (2 * k - 1) - 1 = 2 * j /\ 2 * k - 1 = 2 * j + 1
      BY <1>3, <2>1
    <3>2. table[2 * k - 1] = Promise!EqMass(r, 2 * j) /\ table[2 * k] = Promise!EqMass(r, 2 * j + 1)
      BY <1>1, <3>1
    <3>3. table[2 * k - 1] \cup table[2 * k] = Promise!EqMass(r + 1, j)
      BY <3>2, EqMassFold
    <3> QED
      BY <2>1, <3>3
  <2>2. CASE ~(k <= c)
    <3>1. Promise!EqMass(r + 1, j) = {b \in 0..Width \div 2 - 1 : b \div Pow2(r + 1) = j}
      BY EqMassOf
    <3> PICK p \in Nat : p = Pow2(r) /\ p >= 1
      BY Pow2Def
    <3>2. Pow2(r + 1) = 2 * p
      BY Pow2Def
    <3>3. Width \div 2 <= w * p /\ Width \div 2 \in Nat
      BY WindowReach
    <3> PICK h \in Nat : h = Width \div 2 /\ h <= w * p
      BY <3>3
    <3>4. ASSUME NEW b \in 0..h - 1, b \div (2 * p) = j PROVE FALSE
      <4>1. j >= c /\ w = 2 * c
        BY <1>3, <2>2
      <4>2. j * (2 * p) <= b
        BY ONLY b \in 0..h - 1, b \div (2 * p) = j, <3>4, p \in Nat, p >= 1, j \in Nat, h \in Nat, Z3
      <4>3. c * (2 * p) <= j * (2 * p) /\ c * (2 * p) = w * p
        BY ONLY <4>1, c \in Nat, j \in Nat, p \in Nat, w \in Nat, Z3
      <4> PICK x \in Int : x = w * p
        BY Z3
      <4> PICK y \in Int : y = j * (2 * p)
        BY Z3
      <4>4. x <= y /\ y <= b /\ h <= x
        BY ONLY <4>2, <4>3, x = w * p, y = j * (2 * p), h <= w * p
      <4> QED
        BY ONLY <4>4, x \in Int, y \in Int, h \in Nat, b \in 0..h - 1
    <3>5. Promise!EqMass(r + 1, j) = {}
      BY ONLY <3>1, <3>2, <3>4, h = Width \div 2
    <3> QED
      BY <2>2, <3>5
  <2> QED
    BY <2>1, <2>2
<1> QED
  BY ONLY <1>2, <1>3, <1>4 DEF EqExact

(***************************************************************************)
(* The messages.                                                           *)
(***************************************************************************)
LiveHeight(h, r, x) ==
    /\ x \in Nat /\ Pairs(x) \in Nat /\ (x = 0 <=> h = 0)
    /\ (x # 0 => Pairs(x) >= 1) /\ (x = 0 => Pairs(x) = 0)
    /\ r < NumVars /\ h <= Width => Pairs(x) <= WindowOf(r)

\* A live height folds to zero exactly if it is zero, and its pairs fit the window.
LEMMA LiveHeights ==
    ASSUME NEW h \in Nat, NEW r \in Nat
    PROVE  LiveHeight(h, r, CeilShift(h, r))
<1> PICK x : x = CeilShift(h, r)
  OBVIOUS
<1>1. x \in Nat /\ Pairs(x) = CeilShift(h, r + 1)
  BY CeilShiftHalves
<1>2. Pairs(x) \in Nat
  BY <1>1, PairsOf
<1>3. x = 0 <=> h = 0
  <2> PICK w \in Nat : w = Pow2(r) /\ w >= 1
    BY Pow2Def
  <2>1. x = (h + w - 1) \div w
    BY DEF CeilShift
  <2>2. \A y \in Nat : h <= y * w <=> x <= y
    BY <2>1, CeilBounds
  <2>3. 0 \in Nat /\ 0 * w = 0
    OBVIOUS
  <2>4. h <= 0 <=> x <= 0
    BY ONLY <2>2, <2>3
  <2> QED
    BY <1>1, <2>4
<1>4. (x # 0 => Pairs(x) >= 1) /\ (x = 0 => Pairs(x) = 0)
  BY <1>1 DEF Pairs
<1>5. ASSUME r < NumVars, h <= Width PROVE Pairs(x) <= WindowOf(r)
  <2>0. r + 1 \in Nat
    OBVIOUS
  <2> PICK w \in Nat : w = Pow2(r + 1) /\ w >= 1
    BY <2>0, Pow2Def
  <2> PICK n \in Nat : n = WindowOf(r)
    BY WindowExact
  <2>1. Pairs(x) = (h + w - 1) \div w
    BY <1>1 DEF CeilShift
  <2>2. \A y \in Nat : h <= y * w <=> Pairs(x) <= y
    BY <2>1, CeilBounds
  <2>3. Width <= n * w /\ Width \in Nat
    BY <1>5, WindowReach
  <2>4. n * w \in Nat
    BY ONLY n \in Nat, w \in Nat, Z3
  <2>5. h <= n * w
    BY ONLY <2>3, <2>4, <1>5, h \in Nat
  <2> QED
    BY <2>2, <2>5
<1> QED
  BY ONLY <1>1, <1>2, <1>3, <1>4, <1>5, x = CeilShift(h, r) DEF LiveHeight

\* A chip's round of live terms is its message.
LEMMA MessageExact ==
    ASSUME shard \in [ChipIds -> Nat], NEW i \in ChipIds, NEW r \in Nat, Round = r, r < NumVars,
           heights[i] = CeilShift(shard[i], r), shard[i] <= Width,
           EqExact(eq, r), GeqExact(geq[i], shard[i], r),
           NEW terms, terms = LiveTerms(i, 0, Pairs(heights[i]))
    PROVE  RoundPoly(i, terms) = Promise!ChipMessage(shard[i], i, r)
<1> PICK h \in Nat : h = shard[i]
  OBVIOUS
<1>0. LiveHeight(h, r, heights[i])
  <2>1. LiveHeight(h, r, CeilShift(h, r))
    BY LiveHeights
  <2> QED
    BY ONLY <2>1, h = shard[i], heights[i] = CeilShift(shard[i], r), Zenon
<1> PICK n \in Nat : n = Pairs(heights[i])
  BY ONLY <1>0 DEF LiveHeight
<1>1. /\ heights[i] \in Nat /\ (heights[i] = 0 <=> h = 0) /\ (heights[i] # 0 => n >= 1)
      /\ (heights[i] = 0 => n = 0) /\ n <= WindowOf(r) /\ WindowOf(r) \in Nat
  <2>1. h <= Width
    OBVIOUS
  <2> QED
    BY ONLY <1>0, <2>1, r < NumVars, r \in Nat, n = Pairs(heights[i]), WindowExact DEF LiveHeight
<1>2. (Promise!Folded(h, r) + 1) \div 2 = n
  <2>1. Promise!Pow2(r) = Pow2(r)
    BY PromisePow2
  <2>2. Promise!Folded(h, r) = heights[i]
    BY <2>1 DEF Promise!Folded, CeilShift
  <2> QED
    BY <2>2 DEF Pairs
<1>3. \A k \in 1..n : eq[k] = Promise!EqMass(r, k - 1)
  BY <1>1 DEF EqExact
<1>4. \A x \in Nat : GeqAt(geq[i], x, r) = Promise!Beyond(h, r, x)
  BY DEF GeqExact
<1>5. terms = [k \in 1..n |->
                  <<Promise!EqMass(r, k - 1),
                    [c \in 1..Cols[i] |-> <<Promise!Value(h, i, c, r, 2 * (k - 1)),
                                            Promise!Value(h, i, c, r, 2 * (k - 1) + 1)>>]>>]
  <2>1. ASSUME NEW k \in 1..n
        PROVE  LiveTerm(i, 0 + k) =
                  <<Promise!EqMass(r, k - 1),
                    [c \in 1..Cols[i] |-> <<Promise!Value(h, i, c, r, 2 * (k - 1)),
                                            Promise!Value(h, i, c, r, 2 * (k - 1) + 1)>>]>>
    <3>1. 0 + k = k
      OBVIOUS
    <3>2. LiveTerm(i, k) = <<eq[k], PairRow(i, r, k)>>
      BY Zenon DEF LiveTerm
    <3>3. PairRow(i, r, k) = [c \in 1..Cols[i] |->
              <<Promise!Value(h, i, c, r, 2 * (k - 1)), Promise!Value(h, i, c, r, 2 * (k - 1) + 1)>>]
      BY Zenon DEF PairRow, Pair
    <3>4. eq[k] = Promise!EqMass(r, k - 1)
      BY <1>3
    <3> QED
      BY ONLY <3>1, <3>2, <3>3, <3>4, Zenon
  <2>2. terms = [k \in 1..n |-> LiveTerm(i, 0 + k)]
    BY Zenon DEF LiveTerms
  <2> QED
    BY ONLY <2>1, <2>2, Zenon
<1>6. Promise!ChipMessage(h, i, r) =
         [terms |-> terms,
          correction |->
            IF h = 0 \/ i \notin Constrained THEN <<>>
            ELSE <<Promise!EqMass(r, n - 1), Promise!Beyond(h, r, 2 * n - 2),
                   Promise!Beyond(h, r, 2 * n - 1)>>,
          dropped |-> r = 0 /\ h # 0 /\ i \in Constrained]
  BY ONLY <1>2, <1>5, Zenon DEF Promise!ChipMessage
<1>7. CASE h = 0
  <2>1. heights[i] = 0 /\ n = 0
    BY <1>1, <1>7
  <2>2. RoundPoly(i, terms) = [terms |-> <<>>, correction |-> <<>>, dropped |-> FALSE]
    BY <2>1, Zenon DEF RoundPoly
  <2>3. terms = <<>>
    BY ONLY <1>5, <2>1
  <2>4. Promise!ChipMessage(h, i, r) = [terms |-> <<>>, correction |-> <<>>, dropped |-> FALSE]
    BY ONLY <1>6, <1>7, <2>3, Zenon
  <2> QED
    BY ONLY <2>2, <2>4, h = shard[i], Zenon
<1>8. CASE h # 0
  <2>1. heights[i] # 0 /\ n >= 1 /\ ~IsZeroChip(i)
    BY <1>1, <1>8 DEF IsZeroChip
  <2>2. MaxOf(Pairs(heights[i]) - 1, 0) = n - 1 /\ n - 1 \in Nat
    BY <2>1 DEF MaxOf
  <2>3. Adjusted(i) <=> i \in Constrained
    BY <2>1 DEF Adjusted
  <2>4. RoundPoly(i, terms) =
          [terms |-> terms,
           correction |->
              IF i \in Constrained
              THEN <<eq[(n - 1) + 1], GeqAt(geq[i], 2 * (n - 1), r),
                     GeqAt(geq[i], 2 * (n - 1) + 1, r)>>
              ELSE <<>>,
           dropped |-> r = 0 /\ i \in Constrained]
    BY <2>1, <2>2, <2>3, Zenon DEF RoundPoly
  <2>5. /\ eq[(n - 1) + 1] = Promise!EqMass(r, n - 1)
        /\ GeqAt(geq[i], 2 * (n - 1), r) = Promise!Beyond(h, r, 2 * n - 2)
        /\ GeqAt(geq[i], 2 * (n - 1) + 1, r) = Promise!Beyond(h, r, 2 * n - 1)
    <3>1. (n - 1) + 1 = n /\ n \in 1..n
      BY <2>1
    <3>2. /\ 2 * (n - 1) \in Nat /\ 2 * (n - 1) = 2 * n - 2
          /\ 2 * (n - 1) + 1 \in Nat /\ 2 * (n - 1) + 1 = 2 * n - 1
      BY <2>1
    <3> QED
      BY <1>3, <1>4, <3>1, <3>2
  <2>6. RoundPoly(i, terms) = Promise!ChipMessage(h, i, r)
    <3>1. CASE i \in Constrained
      BY ONLY <1>6, <1>8, <2>4, <2>5, <3>1, SMT
    <3>2. CASE i \notin Constrained
      BY ONLY <1>6, <1>8, <2>4, <3>2, SMT
    <3> QED
      BY ONLY <3>1, <3>2
  <2> QED
    BY ONLY <2>6, h = shard[i], Zenon
<1> QED
  BY <1>7, <1>8

\* What a round of the flat buffer finds in it.
Packed(r) ==
    /\ shard \in [ChipIds -> Nat] /\ heights \in [ChipIds -> Nat]
    /\ IsSeq(halves) /\ Exact(halves, shard, heights, r)
    /\ \A i \in ChipIds : HalfOff(heights, i) + WindowOf(r) <= Len(halves)

\* A slice that stays in the buffer, from a column's segment on.
LEMMA ColumnSlice ==
    ASSUME NEW r \in Nat, Packed(r), NEW i \in ChipIds, NEW c \in 1..Cols[i],
           Pairs(heights[i]) >= 1, NEW n \in 1..WindowOf(r),
           NEW k \in 1..n, k <= Pairs(heights[i]),
           NEW s, s = AreaOffsets(heights)[i - 1] \div 2 + (c - 1) * (EvenPad(heights[i]) \div 2)
    PROVE  Slice(halves, s, n)[k] = Pair(shard[i], i, c, r, k)
<1>0. /\ shard \in [ChipIds -> Nat] /\ heights \in [ChipIds -> Nat]
      /\ IsSeq(halves) /\ Exact(halves, shard, heights, r)
      /\ HalfOff(heights, i) + WindowOf(r) <= Len(halves) /\ WindowOf(r) \in Nat
  BY WindowExact DEF Packed
<1> PICK a \in Nat : a = HalfOff(heights, i - 1)
  BY <1>0, SlotBounds
<1> PICK p \in Nat : p = Pairs(heights[i])
  BY <1>0, SlotBounds
<1> PICK d \in Nat : d = (c - 1) * Pairs(heights[i])
  BY <1>0, SlotBounds
<1>1. /\ a + d <= HalfOff(heights, i) /\ HalfOff(heights, i) \in Nat
      /\ AreaOffsets(heights)[i - 1] \div 2 = a /\ EvenPad(heights[i]) \div 2 = p
  <2>1. i - 1 \in 0..Len(Cols) /\ heights[i] \in Nat
    BY <1>0, SlotBounds
  <2>2. AreaOffsets(heights)[i - 1] \div 2 = a
    BY <1>0, <2>1, HalfOffsets
  <2>3. EvenPad(heights[i]) \div 2 = p
    BY <2>1, PairsOf
  <2>4. a + d <= HalfOff(heights, i) /\ HalfOff(heights, i) \in Nat
    <3>1. 1 \in 1..Pairs(heights[i])
      BY <1>0, SlotBounds
    <3>2. Slot(heights, i, c, 1) <= HalfOff(heights, i) /\ HalfOff(heights, i) \in Nat
      BY <1>0, <3>1, SlotInside
    <3>3. Slot(heights, i, c, 1) = a + d + 1
      BY DEF Slot
    <3> QED
      BY <3>2, <3>3
  <2> QED
    BY <2>2, <2>3, <2>4
<1>2. s = a + d
  BY ONLY <1>1, s = AreaOffsets(heights)[i - 1] \div 2 + (c - 1) * (EvenPad(heights[i]) \div 2),
          d = (c - 1) * Pairs(heights[i]), p = Pairs(heights[i]), Zenon
<1>3. Len(halves) \in Nat
  BY <1>0 DEF IsSeq
<1>4. s \in Nat /\ s + n <= Len(halves) /\ n \in Nat
  BY ONLY <1>0, <1>1, <1>2, <1>3, a \in Nat, d \in Nat, n \in 1..WindowOf(r)
<1>5. Clamped(s, Len(halves) - n) = s
  BY ONLY <1>3, <1>4 DEF Clamped, MaxOf, MinOf
<1>6. Slice(halves, s, n) = SubSeq(halves, s + 1, s + n)
  BY <1>5 DEF Slice
<1>7. SubSeq(halves, s + 1, s + n)[k] = halves[s + k]
  <2>1. IsSeq(halves) /\ k \in 1..n
    BY <1>0
  <2> QED
    BY ONLY <2>1, <1>4, SliceInside
<1>8. halves[s + k] = Pair(shard[i], i, c, r, k)
  <2>1. k \in 1..Pairs(heights[i])
    BY <1>4
  <2>2. halves[Slot(heights, i, c, k)] = Pair(shard[i], i, c, r, k)
    BY <1>0, <2>1 DEF Exact
  <2>3. Slot(heights, i, c, k) = s + k
    BY <1>2 DEF Slot
  <2> QED
    BY <2>2, <2>3
<1> QED
  BY <1>6, <1>7, <1>8

\* The window cut out of the flat halves holds the chip's live terms.
LEMMA WindowTermsExact ==
    ASSUME NEW r \in Nat, Round = r, Packed(r), NEW i \in ChipIds,
           Pairs(heights[i]) <= WindowOf(r)
    PROVE  WindowTerms(i) = LiveTerms(i, 0, Pairs(heights[i]))
<1> PICK p \in Nat : p = Pairs(heights[i])
  <2>1. heights[i] \in Nat
    BY DEF Packed
  <2> QED
    BY <2>1, PairsOf
<1> PICK n \in Nat : n = WindowOf(r) /\ n >= 2
  BY WindowExact
<1> PICK s : s = [c \in 1..Cols[i] |->
        AreaOffsets(heights)[i - 1] \div 2 + (c - 1) * (EvenPad(heights[i]) \div 2)]
  OBVIOUS
<1> PICK column : column = [c \in 1..Cols[i] |-> Slice(halves,
        AreaOffsets(heights)[i - 1] \div 2 + (c - 1) * (EvenPad(heights[i]) \div 2), n)]
  OBVIOUS
<1>1. MinOf(Pairs(heights[i]), n) = p
  BY DEF MinOf
<1>2. WindowTerms(i) = [k \in 1..p |-> <<eq[k], [c \in 1..Cols[i] |-> column[c][k]]>>]
  BY <1>1, Zenon DEF WindowTerms
<1>3. ASSUME NEW k \in 1..p
      PROVE  [c \in 1..Cols[i] |-> column[c][k]] = PairRow(i, r, 0 + k)
  <2>1. ASSUME NEW c \in 1..Cols[i] PROVE column[c][k] = Pair(shard[i], i, c, r, 0 + k)
    <3>1. k \in 1..n /\ n \in 1..WindowOf(r) /\ 0 + k = k /\ k <= p /\ p >= 1
      OBVIOUS
    <3>2. column[c] = Slice(halves, s[c], n)
      OBVIOUS
    <3>3. s[c] = AreaOffsets(heights)[i - 1] \div 2 + (c - 1) * (EvenPad(heights[i]) \div 2)
      OBVIOUS
    <3>4. Slice(halves, s[c], n)[k] = Pair(shard[i], i, c, r, k)
      BY ONLY <3>1, <3>3, p = Pairs(heights[i]), r \in Nat, Packed(r), i \in ChipIds, c \in 1..Cols[i],
              ColumnSlice
    <3> QED
      BY ONLY <3>1, <3>2, <3>4
  <2> QED
    BY ONLY <2>1 DEF PairRow
<1>4. \A k \in 1..p : 0 + k = k
  OBVIOUS
<1>5. LiveTerms(i, 0, p) = [k \in 1..p |-> <<eq[0 + k], PairRow(i, r, 0 + k)>>]
  BY Zenon DEF LiveTerms, LiveTerm
<1> QED
  BY ONLY <1>2, <1>3, <1>4, <1>5, p = Pairs(heights[i])

\* The first row of a column's segment is its evaluation.
LEMMA FinalsExact ==
    ASSUME Packed(NumVars), NEW i \in ChipIds, NEW c \in 1..Cols[i],
           heights[i] = CeilShift(shard[i], NumVars)
    PROVE  (IF IsZeroChip(i) \/ heights[i] = 0 THEN {}
            ELSE Slice(halves, AreaOffsets(heights)[i - 1] \div 2
                               + (c - 1) * (EvenPad(heights[i]) \div 2), 1)[1][1])
               = Promise!Value(shard[i], i, c, NumVars, 0)
<1>0. NumVars \in Nat /\ shard[i] \in Nat /\ heights[i] \in Nat
  BY RoundsAssumption DEF Packed
<1>1. /\ (heights[i] = 0 <=> shard[i] = 0) /\ (heights[i] # 0 => Pairs(heights[i]) >= 1)
      /\ Pairs(heights[i]) \in Nat
  <2>1. LiveHeight(shard[i], NumVars, CeilShift(shard[i], NumVars))
    BY ONLY <1>0, LiveHeights
  <2> QED
    BY ONLY <2>1, heights[i] = CeilShift(shard[i], NumVars) DEF LiveHeight
<1>2. CASE heights[i] = 0
  <2>1. CeilShift(shard[i], NumVars) <= 0 /\ 0 \in Nat
    BY <1>2
  <2>2. Promise!Value(shard[i], i, c, NumVars, 0) = {}
    BY <1>0, <2>1, ValueZero
  <2> QED
    BY <1>2, <2>2
<1>3. CASE heights[i] # 0
  <2>1. ~IsZeroChip(i)
    BY <1>1, <1>3 DEF IsZeroChip
  <2> PICK s : s = AreaOffsets(heights)[i - 1] \div 2 + (c - 1) * (EvenPad(heights[i]) \div 2)
    OBVIOUS
  <2>2. Slice(halves, s, 1)[1] = Pair(shard[i], i, c, NumVars, 1)
    <3>1. 1 \in 1..WindowOf(NumVars) /\ 1 \in 1..1 /\ 1 <= Pairs(heights[i]) /\ Pairs(heights[i]) >= 1
      BY <1>0, <1>1, <1>3, WindowExact
    <3> QED
      BY <1>0, <3>1, ColumnSlice
  <2>3. Pair(shard[i], i, c, NumVars, 1)[1] = Promise!Value(shard[i], i, c, NumVars, 0)
    <3>1. 2 * (1 - 1) = 0
      OBVIOUS
    <3>2. Pair(shard[i], i, c, NumVars, 1) =
              <<Promise!Value(shard[i], i, c, NumVars, 2 * (1 - 1)),
                Promise!Value(shard[i], i, c, NumVars, 2 * (1 - 1) + 1)>>
      BY Zenon DEF Pair
    <3> PICK e : e = Promise!Value(shard[i], i, c, NumVars, 2 * (1 - 1))
      OBVIOUS
    <3> PICK o : o = Promise!Value(shard[i], i, c, NumVars, 2 * (1 - 1) + 1)
      OBVIOUS
    <3>3. Pair(shard[i], i, c, NumVars, 1)[1] = e
      BY ONLY <3>2, e = Promise!Value(shard[i], i, c, NumVars, 2 * (1 - 1)),
              o = Promise!Value(shard[i], i, c, NumVars, 2 * (1 - 1) + 1)
    <3> QED
      BY ONLY <3>1, <3>3, e = Promise!Value(shard[i], i, c, NumVars, 2 * (1 - 1))
  <2> QED
    BY <1>3, <2>1, <2>2, <2>3
<1> QED
  BY <1>2, <1>3

(***************************************************************************)
(* The materialized state.                                                 *)
(***************************************************************************)

\* What place o of chip i's block, and place p of the plane, shall hold; the
\* plane with the first chips laid in, and a chip's block with its overhang.
PlaceIn(i, o) ==
    Pair(shard[i], i, (o \div Pairs(heights[i])) + 1, Depth, (o % Pairs(heights[i])) + 1)
PlaceAt(p) ==
    LET i == Holder(HalfArea(heights), p)
    IN  PlaceIn(i, p - HalfOff(heights, i - 1) - 1)
PlaneUpto(n, i) == [p \in 1..n |-> IF p <= HalfOff(heights, i) THEN PlaceAt(p) ELSE <<{}, {}>>]
Overhung(i) ==
    [m \in 1..Cols[i] * BlockHalf(i) |->
        IF m - 1 < Cols[i] * Pairs(heights[i]) THEN PlaceIn(i, m - 1) ELSE <<{}, {}>>]

\* The blocks and the chips' live rows.
Laying ==
    /\ Arrived /\ plan \in Plans
    /\ heights \in [ChipIds -> Nat]
    /\ \A i \in ChipIds : Pairs(heights[i]) <= BlockHalf(i)

\* A chip's block, written at the chip's offset.
LEMMA BlockLaid ==
    ASSUME Laying, NEW i \in ChipIds, NEW plane
    PROVE  LayInChipState(plane, i) = Update(plane, Overhung(i), HalfOff(heights, i - 1))
<1> PICK b \in Nat : b = BlockHalf(i)
  BY CapsPositive DEF Laying
<1> PICK n \in Nat : n = Pairs(heights[i])
  BY PairsOf DEF Laying
<1> PICK k \in Nat : k = Cols[i]
  BY ColsHold
<1>1. n <= b /\ EvenPad(heights[i]) \div 2 = n /\ heights[i] \in Nat
  BY PairsOf DEF Laying
<1>2. AreaOffsets(heights)[i - 1] \div 2 = HalfOff(heights, i - 1)
  <2>1. i - 1 \in 0..Len(Cols)
    BY ColsHold
  <2> QED
    BY <2>1, HalfOffsets DEF Laying
<1> PICK block : block = ChipBlock(i)
  OBVIOUS
<1>3. block = [x \in 1..b |-> PairRow(i, Depth, x)]
  BY ChipBlockExact DEF Laying
<1>4. ASSUME NEW m \in 1..k * b, m - 1 < k * n
      PROVE  block[((m - 1) % n) + 1][((m - 1) \div n) + 1] = PlaceIn(i, m - 1)
  <2> PICK o \in Nat : o = m - 1
    <3>1. k * b \in Nat
      BY ONLY k \in Nat, b \in Nat, Z3
    <3> QED
      BY <3>1
  <2>0. o < k * n
    BY <1>4
  <2>1. n >= 1
    <3>1. CASE n = 0
      <4>1. k * n = 0
        BY ONLY <3>1, k \in Nat
      <4> QED
        BY ONLY <2>0, <4>1, o \in Nat
    <3> QED
      BY <3>1
  <2> PICK x \in Nat : x = o % n /\ x < n
    BY ONLY o \in Nat, n \in Nat, <2>1, Z3
  <2> PICK y \in Nat : y = o \div n
    BY ONLY o \in Nat, n \in Nat, <2>1, Z3
  <2>2. o = y * n + x
    BY ONLY o \in Nat, n \in Nat, <2>1, x = o % n, y = o \div n, Z3
  <2>3. y < k
    <3>1. CASE y >= k
      <4>1. y * n >= k * n
        BY ONLY <3>1, n \in Nat, y \in Nat, k \in Nat, Z3
      <4>2. y * n \in Nat /\ k * n \in Nat
        BY ONLY n \in Nat, y \in Nat, k \in Nat, Z3
      <4> PICK yn \in Nat : yn = y * n
        BY <4>2
      <4> PICK kn \in Nat : kn = k * n
        BY <4>2
      <4>3. yn >= kn /\ o = yn + x /\ o < kn
        BY ONLY <2>0, <2>2, <4>1, yn = y * n, kn = k * n, Zenon
      <4> QED
        BY ONLY <4>3, yn \in Nat, kn \in Nat, o \in Nat, x \in Nat
    <3> QED
      BY <3>1
  <2>4. x + 1 \in 1..b /\ y + 1 \in 1..k
    BY ONLY <1>1, <2>3, x \in Nat, y \in Nat, x < n, b \in Nat, n \in Nat, k \in Nat
  <2>5. block[x + 1] = PairRow(i, Depth, x + 1)
    BY ONLY <1>3, <2>4
  <2>6. PairRow(i, Depth, x + 1)[y + 1] = Pair(shard[i], i, y + 1, Depth, x + 1)
    BY ONLY <2>4, k = Cols[i] DEF PairRow
  <2>7. PlaceIn(i, o) = Pair(shard[i], i, y + 1, Depth, x + 1)
    BY ONLY x = o % n, y = o \div n, n = Pairs(heights[i]), Zenon DEF PlaceIn
  <2> QED
    BY ONLY <2>5, <2>6, <2>7, x = o % n, y = o \div n, o = m - 1
<1>5. LayInChipState(plane, i) =
          Update(plane, [m \in 1..k * b |->
                            IF m - 1 < k * n
                            THEN block[((m - 1) % n) + 1][((m - 1) \div n) + 1]
                            ELSE <<{}, {}>>], HalfOff(heights, i - 1))
  BY ONLY <1>1, <1>2, b = BlockHalf(i), k = Cols[i], block = ChipBlock(i), Zenon DEF LayInChipState
<1>6. Overhung(i) = [m \in 1..k * b |-> IF m - 1 < k * n THEN PlaceIn(i, m - 1) ELSE <<{}, {}>>]
  BY ONLY b = BlockHalf(i), k = Cols[i], n = Pairs(heights[i]), Zenon DEF Overhung
<1>7. Overhung(i) = [m \in 1..k * b |->
                        IF m - 1 < k * n
                        THEN block[((m - 1) % n) + 1][((m - 1) \div n) + 1]
                        ELSE <<{}, {}>>]
  BY ONLY <1>4, <1>6
<1> QED
  BY ONLY <1>5, <1>7, Zenon

Written(s, block, at) ==
    [p \in 1..Len(s) |-> IF p \in at + 1..at + Len(block) THEN block[p - at] ELSE s[p]]

\* A block that fits is written where it is told.
LEMMA UpdateInside ==
    ASSUME NEW s, Len(s) \in Nat, NEW block, Len(block) \in Nat,
           NEW at \in Nat, at + Len(block) <= Len(s)
    PROVE  Update(s, block, at) = Written(s, block, at)
<1>1. Clamped(at, Len(s) - Len(block)) = at
  BY DEF Clamped, MaxOf, MinOf
<1> QED
  BY <1>1, Zenon DEF Update, Written

\* A block lands behind the chips before it, whatever its overhang.
LEMMA PlaneStep ==
    ASSUME Laying, NEW i \in ChipIds, NEW n \in Nat,
           HalfOff(heights, i - 1) + Cols[i] * BlockHalf(i) <= n
    PROVE  Update(PlaneUpto(n, i - 1), Overhung(i), HalfOff(heights, i - 1)) = PlaneUpto(n, i)
<1>0. heights \in [ChipIds -> Nat] /\ heights[i] \in Nat /\ i \in 1..Len(Cols)
  BY ColsHold DEF Laying
<1>01. /\ i - 1 \in 0..Len(Cols) /\ i \in 0..Len(Cols)
       /\ HalfArea(heights) \in Seq(Nat) /\ Len(HalfArea(heights)) = Len(Cols)
       /\ HalfArea(heights)[i] = Cols[i] * Pairs(heights[i])
       /\ i \in 1..Len(HalfArea(heights))
  BY <1>0, HalfOffsets
<1> PICK a \in Nat : a = HalfOff(heights, i - 1)
  BY <1>0, <1>01, HalfOffsets
<1> PICK e \in Nat : e = HalfOff(heights, i)
  BY <1>0, <1>01, HalfOffsets
<1> PICK d \in Nat : d = Cols[i] * Pairs(heights[i])
  <2>1. Pairs(heights[i]) \in Nat /\ Cols[i] \in Nat
    BY <1>0, PairsOf, ColsHold
  <2> QED
    BY <2>1, Z3
<1> PICK l \in Nat : l = Cols[i] * BlockHalf(i) /\ d <= l
  <2>1. Pairs(heights[i]) \in Nat /\ Cols[i] \in Nat /\ BlockHalf(i) \in Nat
        /\ Pairs(heights[i]) <= BlockHalf(i)
    BY <1>0, PairsOf, ColsHold, CapsPositive DEF Laying
  <2>2. Cols[i] * BlockHalf(i) \in Nat /\ Cols[i] * Pairs(heights[i]) <= Cols[i] * BlockHalf(i)
    BY <2>1, Z3
  <2> QED
    BY <2>2
<1>1. e = a + d
  BY <1>01, BlockBounds DEF HalfOff
<1> PICK block : block = Overhung(i)
  OBVIOUS
<1> PICK plane : plane = PlaneUpto(n, i - 1)
  OBVIOUS
<1>2. block = [m \in 1..l |-> IF m - 1 < d THEN PlaceIn(i, m - 1) ELSE <<{}, {}>>]
  BY ONLY block = Overhung(i), l = Cols[i] * BlockHalf(i), d = Cols[i] * Pairs(heights[i]), Zenon
     DEF Overhung
<1>3. plane = [p \in 1..n |-> IF p <= a THEN PlaceAt(p) ELSE <<{}, {}>>]
  BY ONLY plane = PlaneUpto(n, i - 1), a = HalfOff(heights, i - 1), Zenon DEF PlaneUpto
<1>4. Len(block) = l /\ Len(plane) = n
  <2>1. block = [m \in 1..l |-> block[m]] /\ plane = [p \in 1..n |-> plane[p]]
    BY ONLY <1>2, <1>3
  <2> QED
    BY ONLY <2>1, TabulatedSeq, n \in Nat, l \in Nat
<1>5. Update(plane, block, a) =
          [p \in 1..n |-> IF p \in a + 1..a + l THEN block[p - a] ELSE plane[p]]
  <2>1. a + l <= n
    OBVIOUS
  <2>2. Update(plane, block, a) = Written(plane, block, a)
    BY ONLY <1>4, <2>1, a \in Nat, l \in Nat, n \in Nat, UpdateInside
  <2> QED
    BY ONLY <2>2, <1>4, Zenon DEF Written
<1>6. ASSUME NEW p \in 1..n, a < p, p <= e PROVE PlaceAt(p) = PlaceIn(i, p - a - 1)
  <2> PICK j : j = Holder(HalfArea(heights), p)
    OBVIOUS
  <2>1. Prefix(HalfArea(heights))[i - 1] < p /\ p <= Prefix(HalfArea(heights))[i]
    BY ONLY <1>6, a = HalfOff(heights, i - 1), e = HalfOff(heights, i), Zenon DEF HalfOff
  <2>2. j \in 1..Len(HalfArea(heights)) /\ Prefix(HalfArea(heights))[j - 1] < p
        /\ p <= Prefix(HalfArea(heights))[j]
    BY <1>01, <2>1, Zenon DEF Holder
  <2>3. p \in Int
    OBVIOUS
  <2>4. i = j
    BY ONLY <1>01, <2>1, <2>2, <2>3, BlockUnique
  <2> QED
    BY ONLY <2>4, j = Holder(HalfArea(heights), p), a = HalfOff(heights, i - 1), Zenon DEF PlaceAt
<1>7. ASSUME NEW p \in 1..n
      PROVE  (IF p \in a + 1..a + l THEN block[p - a] ELSE plane[p])
                 = IF p <= e THEN PlaceAt(p) ELSE <<{}, {}>>
  <2>0. p \in Nat /\ p >= 1
    OBVIOUS
  <2>1. CASE p <= a
    <3>1. p <= e /\ p \notin a + 1..a + l
      BY ONLY <1>1, <2>0, <2>1, a \in Nat, l \in Nat, d \in Nat
    <3>2. plane[p] = PlaceAt(p)
      BY ONLY <1>3, <2>1, p \in 1..n
    <3> QED
      BY ONLY <3>1, <3>2
  <2>2. CASE a < p /\ p <= e
    <3>1. p \in a + 1..a + l /\ p - a \in 1..l /\ (p - a) - 1 < d /\ (p - a) - 1 = p - a - 1
      BY ONLY <1>1, <2>0, <2>2, a \in Nat, l \in Nat, d \in Nat, d <= l
    <3>2. block[p - a] = PlaceIn(i, (p - a) - 1)
      BY ONLY <1>2, <3>1
    <3>3. PlaceAt(p) = PlaceIn(i, p - a - 1)
      BY ONLY <1>6, <2>2, p \in 1..n
    <3> QED
      BY ONLY <2>2, <3>1, <3>2, <3>3
  <2>3. CASE e < p /\ p <= a + l
    <3>1. p \in a + 1..a + l /\ p - a \in 1..l /\ ~((p - a) - 1 < d) /\ ~(p <= e)
      BY ONLY <1>1, <2>0, <2>3, a \in Nat, l \in Nat, d \in Nat, d <= l
    <3>2. block[p - a] = <<{}, {}>>
      BY ONLY <1>2, <3>1
    <3> QED
      BY ONLY <3>1, <3>2
  <2>4. CASE a + l < p
    <3>1. p \notin a + 1..a + l /\ ~(p <= a) /\ ~(p <= e)
      BY ONLY <1>1, <2>0, <2>4, a \in Nat, l \in Nat, d \in Nat, d <= l
    <3>2. plane[p] = <<{}, {}>>
      BY ONLY <1>3, <3>1, p \in 1..n
    <3> QED
      BY ONLY <3>1, <3>2
  <2> QED
    BY ONLY <1>1, <2>0, <2>1, <2>2, <2>3, <2>4, a \in Nat, l \in Nat, d \in Nat, d <= l
<1>8. PlaneUpto(n, i) = [p \in 1..n |-> IF p <= e THEN PlaceAt(p) ELSE <<{}, {}>>]
  BY ONLY e = HalfOff(heights, i), Zenon DEF PlaneUpto
<1>9. Update(plane, block, a) = PlaneUpto(n, i)
  BY ONLY <1>5, <1>7, <1>8
<1> QED
  BY ONLY <1>9, plane = PlaneUpto(n, i - 1), block = Overhung(i), a = HalfOff(heights, i - 1), Zenon

\* The pad is the largest block's.
LEMMA PadHolds ==
    ASSUME plan \in Plans
    PROVE  PlanePad \in Nat /\ \A i \in ChipIds : Cols[i] * BlockHalf(i) <= PlanePad
<1> DEFINE c == [i \in 1..Len(Cols) |-> Cols[i] * BlockHalf(i)]
           blocks == {Cols[i] * BlockHalf(i) : i \in ChipIds}
<1>1. \A i \in 1..Len(Cols) : Cols[i] * BlockHalf(i) \in Nat
  <2> SUFFICES ASSUME NEW i \in ChipIds PROVE Cols[i] * BlockHalf(i) \in Nat
    BY DEF ChipIds
  <2>1. Cols[i] \in Nat /\ BlockHalf(i) \in Nat
    BY ColsHold, CapsPositive
  <2> QED
    BY ONLY <2>1, Z3
<1>2. c \in Seq(Nat) /\ Len(c) = Len(Cols) /\ Len(c) # 0
  BY <1>1, ColsHold
<1>3. \A i \in 1..Len(Cols) : c[i] = Cols[i] * BlockHalf(i)
  OBVIOUS
<1> HIDE DEF c
<1> PICK m \in Nat : /\ \E s \in 1..Len(c) : m = c[s]
                     /\ \A s \in 1..Len(c) : c[s] <= m
  BY <1>2, GreatestExists
<1>4. m \in blocks /\ \A n \in blocks : n <= m
  BY <1>2, <1>3 DEF ChipIds
<1>5. PlanePad = CHOOSE x \in blocks : \A n \in blocks : n <= x
  BY Zenon DEF PlanePad
<1>6. PlanePad \in blocks /\ \A n \in blocks : n <= PlanePad
  <2> HIDE DEF blocks
  <2> QED
    BY <1>4, <1>5, Zenon
<1> QED
  BY <1>1, <1>6 DEF ChipIds

\* The planes, chip by chip.
Planes(f) ==
    f = [i \in 0..Len(Cols) |->
            IF i = 0 THEN [p \in 1..BufferCap(Depth) \div 2 + PlanePad |-> <<{}, {}>>]
            ELSE LayInChipState(f[i - 1], i)]

\* The blocks laid one behind the other.
LEMMA PlanesExact ==
    ASSUME Laying, NEW half \in Nat, half = BufferCap(Depth) \div 2,
           HalfOff(heights, Len(Cols)) <= half
    PROVE  MaterializedHalves =
               [p \in 1..half |-> PlaneUpto(half + PlanePad, Len(Cols))[p]]
<1> PICK n \in Nat : n = half + PlanePad
  BY PadHolds DEF Laying
<1> DEFINE G == [i \in 0..Len(Cols) |-> PlaneUpto(n, i)]
           plane == CHOOSE f : Planes(f)
<1>1. Len(Cols) \in Nat /\ ChipIds = 1..Len(Cols)
  BY ColsHold
<1>2. PlaneUpto(n, 0) = [p \in 1..n |-> <<{}, {}>>]
  <2>1. HalfOff(heights, 0) = 0
    BY HalfOffsets DEF Laying
  <2>2. \A p \in 1..n : ~(p <= 0)
    OBVIOUS
  <2>3. PlaneUpto(n, 0) = [p \in 1..n |-> IF p <= 0 THEN PlaceAt(p) ELSE <<{}, {}>>]
    BY ONLY <2>1, Zenon DEF PlaneUpto
  <2> QED
    BY ONLY <2>2, <2>3
<1>3. ASSUME NEW i \in 1..Len(Cols)
      PROVE  LayInChipState(PlaneUpto(n, i - 1), i) = PlaneUpto(n, i)
  <2>0. i \in ChipIds
    BY <1>1
  <2>1. HalfOff(heights, i - 1) + Cols[i] * BlockHalf(i) <= n
    <3>1. HalfOff(heights, i - 1) \in Nat /\ HalfOff(heights, Len(Cols)) \in Nat
      <4>1. i - 1 \in 0..Len(Cols) /\ Len(Cols) \in 0..Len(Cols)
        BY <1>1
      <4> QED
        BY <4>1, HalfOffsets DEF Laying
    <3>2. HalfOff(heights, i - 1) <= HalfOff(heights, Len(Cols))
      <4>1. HalfArea(heights) \in Seq(Nat) /\ Len(HalfArea(heights)) = Len(Cols)
        BY HalfOffsets DEF Laying
      <4>2. i - 1 \in 0..Len(HalfArea(heights))
            /\ Len(Cols) \in i - 1..Len(HalfArea(heights))
        BY <1>1, <4>1
      <4> QED
        BY ONLY <4>1, <4>2, PrefixMonotone DEF HalfOff
    <3>3. PlanePad \in Nat /\ Cols[i] * BlockHalf(i) <= PlanePad
      BY <2>0, PadHolds DEF Laying
    <3>4. Cols[i] * BlockHalf(i) \in Nat
      <4>1. Cols[i] \in Nat /\ BlockHalf(i) \in Nat
        BY <2>0, ColsHold, CapsPositive DEF Laying
      <4> QED
        BY ONLY <4>1, Z3
    <3> QED
      BY ONLY <3>1, <3>2, <3>3, <3>4, n = half + PlanePad, half \in Nat,
              HalfOff(heights, Len(Cols)) <= half
  <2>2. LayInChipState(PlaneUpto(n, i - 1), i)
            = Update(PlaneUpto(n, i - 1), Overhung(i), HalfOff(heights, i - 1))
    BY <2>0, BlockLaid
  <2>3. Update(PlaneUpto(n, i - 1), Overhung(i), HalfOff(heights, i - 1)) = PlaneUpto(n, i)
    BY <2>0, <2>1, PlaneStep
  <2> QED
    BY ONLY <2>2, <2>3, Zenon
<1>4. /\ \A i \in 0..Len(Cols) : G[i] = PlaneUpto(n, i)
      /\ G = [i \in 0..Len(Cols) |-> G[i]]
  OBVIOUS
<1> HIDE DEF G
<1>5. Planes(G)
  <2>1. \A i \in 0..Len(Cols) :
            G[i] = IF i = 0 THEN [p \in 1..n |-> <<{}, {}>>] ELSE LayInChipState(G[i - 1], i)
    <3> SUFFICES ASSUME NEW i \in 0..Len(Cols)
                 PROVE  G[i] = IF i = 0 THEN [p \in 1..n |-> <<{}, {}>>]
                               ELSE LayInChipState(G[i - 1], i)
      OBVIOUS
    <3>1. CASE i = 0
      BY <1>2, <1>4, <3>1, Zenon
    <3>2. CASE i # 0
      <4>1. i \in 1..Len(Cols) /\ i - 1 \in 0..Len(Cols)
        BY <1>1, <3>2
      <4> QED
        BY <1>3, <1>4, <3>2, <4>1, Zenon
    <3> QED
      BY <3>1, <3>2
  <2>2. G = [i \in 0..Len(Cols) |->
                IF i = 0 THEN [p \in 1..n |-> <<{}, {}>>] ELSE LayInChipState(G[i - 1], i)]
    BY ONLY <1>4, <2>1, Zenon
  <2> QED
    BY ONLY <2>2, n = half + PlanePad, half = BufferCap(Depth) \div 2, Zenon DEF Planes
<1>6. Planes(plane)
  BY <1>5, Zenon
<1>7. MaterializedHalves = [p \in 1..half |-> plane[Len(Cols)][p]]
  BY Zenon DEF MaterializedHalves, Planes
<1> HIDE DEF plane
<1>8. plane[0] = G[0] /\ \A i \in 1..Len(Cols) : plane[i] = LayInChipState(plane[i - 1], i)
  <2>1. plane = [i \in 0..Len(Cols) |->
                    IF i = 0 THEN [p \in 1..n |-> <<{}, {}>>]
                    ELSE LayInChipState(plane[i - 1], i)]
    BY ONLY <1>6, n = half + PlanePad, half = BufferCap(Depth) \div 2, Zenon DEF Planes
  <2>2. 0 \in 0..Len(Cols) /\ \A i \in 1..Len(Cols) : i \in 0..Len(Cols) /\ i # 0
    BY <1>1
  <2>3. plane[0] = [p \in 1..n |-> <<{}, {}>>]
    BY ONLY <2>1, <2>2, Zenon
  <2>4. \A i \in 1..Len(Cols) : plane[i] = LayInChipState(plane[i - 1], i)
    BY ONLY <2>1, <2>2, Zenon
  <2> QED
    BY ONLY <1>2, <1>4, <2>2, <2>3, <2>4, Zenon
<1>9. \A i \in 0..Len(Cols) : plane[i] = G[i]
  <2>1. \A i \in 1..Len(Cols) : plane[i - 1] = G[i - 1] => plane[i] = G[i]
    <3> SUFFICES ASSUME NEW i \in 1..Len(Cols), plane[i - 1] = G[i - 1] PROVE plane[i] = G[i]
      OBVIOUS
    <3>1. i \in 0..Len(Cols) /\ i - 1 \in 0..Len(Cols)
      BY <1>1
    <3> QED
      BY <1>3, <1>4, <1>8, <3>1, Zenon
  <2> PICK k \in Nat : k = Len(Cols)
    BY <1>1
  <2> PICK f : f = plane
    OBVIOUS
  <2> PICK g : g = G
    OBVIOUS
  <2>2. f[0] = g[0]
    BY ONLY <1>8, f = plane, g = G, Zenon
  <2>3. \A i \in 1..k : f[i - 1] = g[i - 1] => f[i] = g[i]
    BY ONLY <2>1, f = plane, g = G, k = Len(Cols), Zenon
  <2>4. \A i \in 0..k : f[i] = g[i]
    BY ONLY <2>2, <2>3, k \in Nat, StepsAgree
  <2> QED
    BY ONLY <2>4, f = plane, g = G, k = Len(Cols), Zenon
<1>10. plane[Len(Cols)] = PlaneUpto(n, Len(Cols))
  <2>1. Len(Cols) \in 0..Len(Cols)
    BY <1>1
  <2> QED
    BY ONLY <1>4, <1>9, <2>1, Zenon
<1> QED
  BY ONLY <1>7, <1>10, n = half + PlanePad, Zenon

\* The prefix leaves the state the rounds would have folded.
LEMMA MaterializedExact ==
    ASSUME Laying, HeightsAt(heights, shard, Depth),
           NEW half \in Nat, half = BufferCap(Depth) \div 2,
           HalfOff(heights, Len(Cols)) <= half
    PROVE  /\ Exact(MaterializedHalves, shard, heights, Depth)
           /\ IsSeq(MaterializedHalves) /\ Len(MaterializedHalves) = half
<1> PICK n \in Nat : n = half + PlanePad /\ half <= n
  BY PadHolds DEF Laying
<1> PICK e \in Nat : e = HalfOff(heights, Len(Cols)) /\ e <= half
  <2>1. Len(Cols) \in 0..Len(Cols)
    BY ColsHold
  <2> QED
    BY <2>1, HalfOffsets DEF Laying
<1> PICK m : m = MaterializedHalves
  OBVIOUS
<1>1. m = [p \in 1..half |-> PlaneUpto(n, Len(Cols))[p]]
  BY PlanesExact
<1>2. m = [p \in 1..half |-> IF p <= e THEN PlaceAt(p) ELSE <<{}, {}>>]
  <2>1. \A p \in 1..half : p \in 1..n
    OBVIOUS
  <2>2. PlaneUpto(n, Len(Cols)) = [p \in 1..n |-> IF p <= e THEN PlaceAt(p) ELSE <<{}, {}>>]
    BY ONLY e = HalfOff(heights, Len(Cols)), Zenon DEF PlaneUpto
  <2> QED
    BY ONLY <1>1, <2>1, <2>2
<1>3. IsSeq(m) /\ Len(m) = half
  <2>1. m = [p \in 1..half |-> m[p]]
    BY ONLY <1>2
  <2> QED
    BY ONLY <2>1, half \in Nat, TabulatedSeq
<1>4. ASSUME NEW i \in ChipIds, NEW c \in 1..Cols[i], NEW k \in 1..Pairs(heights[i])
      PROVE  m[Slot(heights, i, c, k)] = Pair(shard[i], i, c, Depth, k)
  <2> PICK w : w = HalfArea(heights)
    OBVIOUS
  <2> PICK q \in Nat : q = Pairs(heights[i])
    BY SlotBounds DEF Laying
  <2> PICK x : x = k - 1
    OBVIOUS
  <2>1. x \in 0..q - 1 /\ x + 1 = k
    OBVIOUS
  <2>2. IsBlock(w, i, Cols[i], q)
    BY HalfOffsets, SlotBounds, ColsHold DEF Laying, IsBlock
  <2> PICK p : p = Place(w, i, q, c, x) + 1
    OBVIOUS
  <2>3. Placed(w, i, q, c, x, p)
    BY ONLY <2>1, <2>2, c \in 1..Cols[i], p = Place(w, i, q, c, x) + 1, BlockPlace
  <2>4. p = Slot(heights, i, c, k)
    <3>1. Prefix(w)[i - 1] = HalfOff(heights, i - 1)
      BY ONLY w = HalfArea(heights), Zenon DEF HalfOff
    <3>2. HalfOff(heights, i - 1) \in Nat /\ (c - 1) * q \in Nat
      BY SlotBounds DEF Laying
    <3> PICK d \in Nat : d = (c - 1) * q
      BY <3>2
    <3>3. p = HalfOff(heights, i - 1) + d + x + 1
      BY ONLY <3>1, p = Place(w, i, q, c, x) + 1, d = (c - 1) * q, Zenon DEF Place
    <3>4. Slot(heights, i, c, k) = HalfOff(heights, i - 1) + d + k
      BY ONLY d = (c - 1) * q, q = Pairs(heights[i]), Zenon DEF Slot
    <3> QED
      BY ONLY <2>1, <3>2, <3>3, <3>4, d \in Nat, q \in Nat, k \in 1..q, Pairs(heights[i]) = q
  <2>5. p \in Nat /\ 1 <= p /\ p <= e
    <3>1. Slot(heights, i, c, k) \in Nat /\ 1 <= Slot(heights, i, c, k)
          /\ Slot(heights, i, c, k) <= HalfOff(heights, Len(Cols))
      BY SlotInside DEF Laying
    <3> QED
      BY ONLY <2>4, <3>1, e = HalfOff(heights, Len(Cols))
  <2>6. m[p] = PlaceAt(p)
    <3>1. p \in 1..half
      BY ONLY <2>5, half \in Nat, e \in Nat, e <= half
    <3> QED
      BY ONLY <1>2, <2>5, <3>1
  <2>7. PlaceAt(p) = Pair(shard[i], i, c, Depth, k)
    <3>1. /\ Holder(w, p) = i /\ (p - Prefix(w)[i - 1] - 1) \div q = c - 1
          /\ (p - Prefix(w)[i - 1] - 1) % q = x
      BY ONLY <2>3, Zenon DEF Placed
    <3>2. PlaceAt(p) = PlaceIn(i, p - Prefix(w)[i - 1] - 1)
      BY ONLY <3>1, w = HalfArea(heights), Zenon DEF PlaceAt, HalfOff
    <3>3. PlaceAt(p) = Pair(shard[i], i, (c - 1) + 1, Depth, x + 1)
      BY ONLY <3>1, <3>2, q = Pairs(heights[i]), Zenon DEF PlaceIn
    <3>4. (c - 1) + 1 = c
      OBVIOUS
    <3> QED
      BY ONLY <2>1, <3>3, <3>4, Zenon
  <2> QED
    BY ONLY <2>4, <2>6, <2>7, Zenon
<1>5. ASSUME NEW p \in HalfOff(heights, Len(Cols)) + 1..Len(m) PROVE m[p] = <<{}, {}>>
  <2>1. p \in 1..half /\ ~(p <= e)
    BY ONLY <1>3, e = HalfOff(heights, Len(Cols)), e \in Nat, half \in Nat,
            p \in HalfOff(heights, Len(Cols)) + 1..Len(m)
  <2> QED
    BY ONLY <1>2, <2>1
<1>6. Exact(m, shard, heights, Depth)
  BY ONLY <1>4, <1>5, Zenon DEF Exact
<1> QED
  BY ONLY <1>3, <1>6, m = MaterializedHalves, Zenon

(***************************************************************************)
(* What the engine keeps exact, round after round.                         *)
(***************************************************************************)
ScalarsExact ==
    pc \in {"check", "chunks", "rounds"} =>
        /\ EqExact(eq, Round)
        /\ \A i \in ChipIds : GeqExact(geq[i], shard[i], Round)
CubeHolds ==
    (pc = "check" /\ plan.form # "traces") \/ pc \in {"chunks", "rounds"} =>
        \A i \in ChipIds : shard[i] <= Width
StateExact ==
    /\ pc = "chunks" => Arrived
    /\ pc = "rounds" => IsSeq(halves) /\ Exact(halves, shard, heights, Round)
Unsent ==
    /\ pc = "check" => messages = <<>>
    /\ pc \in {"check", "chunks", "rounds"} => finals = <<>>
ExactInv == ScalarsExact /\ CubeHolds /\ StateExact /\ Unsent

\* Facts of a chip at a round, in the round's number.
AtRound(r) ==
    /\ r \in Nat /\ r = Round /\ r <= NumVars
    /\ shard \in [ChipIds -> Nat] /\ heights \in [ChipIds -> Nat]
    /\ plan \in Plans
    /\ \A i \in ChipIds : /\ heights[i] = CeilShift(shard[i], r) /\ shard[i] <= Width
                          /\ GeqExact(geq[i], shard[i], r)
    /\ EqExact(eq, r)

\* Those facts hold in every round.
LEMMA AtRoundHolds ==
    ASSUME IInv, ExactInv, pc \in {"chunks", "rounds"}
    PROVE  \E r \in Nat : AtRound(r)
<1>1. Round \in Nat /\ Round <= NumVars
  BY LongerSeq DEF IInv, Progress, Round
<1>2. shard \in Shards /\ plan \in Plans /\ shard \in [ChipIds -> Nat]
      /\ heights \in [ChipIds -> Nat]
  BY ShardHeights DEF IInv, HeightsHold
<1>3. \A i \in ChipIds : heights[i] = CeilShift(shard[i], Round)
  BY DEF IInv, HeightsHold
<1>4. EqExact(eq, Round) /\ \A i \in ChipIds : GeqExact(geq[i], shard[i], Round)
  BY DEF ExactInv, ScalarsExact
<1>5. \A i \in ChipIds : shard[i] <= Width
  BY DEF ExactInv, CubeHolds
<1>6. AtRound(Round)
  BY ONLY <1>1, <1>2, <1>3, <1>4, <1>5, Zenon DEF AtRound
<1> QED
  BY ONLY <1>1, <1>6, Zenon

\* A round's message, from the live terms of its chips.
LEMMA RoundMessage ==
    ASSUME NEW r, AtRound(r), r < NumVars, NEW terms,
           \A i \in ChipIds : terms[i] = LiveTerms(i, 0, Pairs(heights[i]))
    PROVE  [i \in ChipIds |-> RoundPoly(i, terms[i])]
               = [i \in ChipIds |-> Promise!ChipMessage(shard[i], i, r)]
<1> SUFFICES ASSUME NEW i \in ChipIds
             PROVE  RoundPoly(i, terms[i]) = Promise!ChipMessage(shard[i], i, r)
  BY Zenon
<1> PICK t : t = LiveTerms(i, 0, Pairs(heights[i]))
  OBVIOUS
<1>1. /\ shard \in [ChipIds -> Nat] /\ r \in Nat /\ Round = r
      /\ heights[i] = CeilShift(shard[i], r) /\ shard[i] <= Width
      /\ EqExact(eq, r) /\ GeqExact(geq[i], shard[i], r)
  BY DEF AtRound
<1>2. RoundPoly(i, t) = Promise!ChipMessage(shard[i], i, r)
  BY ONLY <1>1, r < NumVars, i \in ChipIds, t = LiveTerms(i, 0, Pairs(heights[i])), MessageExact
<1> QED
  BY ONLY <1>2, terms[i] = LiveTerms(i, 0, Pairs(heights[i])),
          t = LiveTerms(i, 0, Pairs(heights[i]))

\* The live pairs of a round fit its window.
LEMMA PairsFit ==
    ASSUME NEW r, AtRound(r), r < NumVars, NEW i \in ChipIds
    PROVE  Pairs(heights[i]) \in Nat /\ Pairs(heights[i]) <= WindowOf(r)
<1>1. /\ shard[i] \in Nat /\ r \in Nat
      /\ heights[i] = CeilShift(shard[i], r) /\ shard[i] <= Width
  BY DEF AtRound
<1>2. LiveHeight(shard[i], r, heights[i])
  BY ONLY <1>1, LiveHeights
<1> QED
  BY ONLY <1>1, <1>2, r < NumVars DEF LiveHeight

\* The scalars fold.
LEMMA ScalarsFold ==
    ASSUME NEW r, AtRound(r), r < NumVars, NEW message, NEW shrink, shrink = (r < Unrolled),
           Send(message, shrink)
    PROVE  /\ EqExact(eq', r + 1)
           /\ \A i \in ChipIds : GeqExact(geq'[i], shard[i], r + 1)
<1>1. r \in Nat /\ EqExact(eq, r) /\ Round = r
  BY DEF AtRound
<1>2. eq' = FoldEq(eq, shrink) /\ geq' = [i \in ChipIds |-> FixLastVariable(geq[i], r)]
  BY <1>1 DEF Send
<1>3. EqExact(eq', r + 1)
  BY ONLY <1>1, <1>2, r < NumVars, shrink = (r < Unrolled), EqFold
<1>4. ASSUME NEW i \in ChipIds PROVE GeqExact(geq'[i], shard[i], r + 1)
  <2>1. geq'[i] = FixLastVariable(geq[i], r)
    BY <1>2
  <2>2. shard[i] \in Nat /\ GeqExact(geq[i], shard[i], r)
    BY DEF AtRound
  <2> QED
    BY ONLY <1>1, <2>1, <2>2, GeqFold
<1> QED
  BY <1>3, <1>4

\* The packed state of a round, and its room.
LEMMA PackedHolds ==
    ASSUME IInv, ExactInv, pc = "rounds", NEW r, AtRound(r)
    PROVE  /\ Packed(r) /\ Len(halves) \in Nat
           /\ HalfOff(heights, Len(Cols)) <= Len(halves)
<1>1. /\ r \in Nat /\ Round = r
      /\ shard \in [ChipIds -> Nat] /\ heights \in [ChipIds -> Nat]
  BY DEF AtRound
<1>2. IsSeq(halves) /\ Exact(halves, shard, heights, r)
  BY <1>1 DEF ExactInv, StateExact
<1>3. Len(halves) \in Nat
  BY <1>2 DEF IsSeq
<1>4. CapHolds /\ AreaOf(heights) <= AreaBound(MinOf(r, Unrolled)) /\ 2 * Len(halves) = CapOf(r)
  BY <1>1 DEF IInv, BufferHolds
<1>5. ASSUME NEW i \in ChipIds PROVE HalfOff(heights, i) + WindowOf(r) <= Len(halves)
  <2>1. AreaOffsets(heights)[i] \div 2 + WindowOf(r) <= CapOf(r) \div 2
    BY ONLY <1>1, <1>4, i \in ChipIds, WindowFits
  <2>2. i \in 0..Len(Cols)
    BY ColsHold
  <2>3. AreaOffsets(heights)[i] \div 2 = HalfOff(heights, i)
    BY <1>1, <2>2, HalfOffsets
  <2>4. CapOf(r) \div 2 = Len(halves)
    BY ONLY <1>3, <1>4
  <2> QED
    BY ONLY <2>1, <2>3, <2>4
<1>6. Packed(r)
  BY ONLY <1>1, <1>2, <1>5, Zenon DEF Packed
<1>7. HalfOff(heights, Len(Cols)) <= Len(halves)
  <2>1. Len(Cols) \in ChipIds /\ Len(Cols) \in 0..Len(Cols)
    BY ColsHold
  <2>2. HalfOff(heights, Len(Cols)) \in Nat /\ WindowOf(r) \in Nat
    BY <1>1, <2>1, HalfOffsets, WindowExact
  <2> QED
    BY <1>3, <1>5, <2>1, <2>2
<1> QED
  BY <1>3, <1>6, <1>7

\* What the rounds promise, step by step.
LEMMA WindowRound ==
    ASSUME IInv, ExactInv, RoundStep
    PROVE  messages' = Append(messages,
               [i \in ChipIds |-> Promise!ChipMessage(shard[i], i, Len(messages))])
<1>1. pc = "rounds" /\ Round < NumVars
      /\ messages' = Append(messages, [i \in ChipIds |-> RoundPoly(i, WindowTerms(i))])
  BY DEF RoundStep, Send
<1> PICK r \in Nat : AtRound(r)
  BY <1>1, AtRoundHolds
<1> DEFINE terms == [i \in ChipIds |-> WindowTerms(i)]
<1>2. r = Round /\ r < NumVars
  BY <1>1 DEF AtRound
<1>3. Packed(r)
  BY <1>1, PackedHolds
<1>4. \A i \in ChipIds : WindowTerms(i) = LiveTerms(i, 0, Pairs(heights[i]))
  <2> SUFFICES ASSUME NEW i \in ChipIds
               PROVE  WindowTerms(i) = LiveTerms(i, 0, Pairs(heights[i]))
    OBVIOUS
  <2>1. Pairs(heights[i]) <= WindowOf(r)
    BY <1>2, PairsFit
  <2> QED
    BY ONLY r \in Nat, <1>2, <1>3, <2>1, i \in ChipIds, WindowTermsExact
<1>5. \A i \in ChipIds : terms[i] = WindowTerms(i)
  OBVIOUS
<1> HIDE DEF terms
<1>6. [i \in ChipIds |-> RoundPoly(i, terms[i])]
          = [i \in ChipIds |-> Promise!ChipMessage(shard[i], i, r)]
  BY <1>2, <1>4, <1>5, RoundMessage
<1>7. r = Len(messages)
  BY <1>2 DEF Round
<1>8. [i \in ChipIds |-> RoundPoly(i, WindowTerms(i))]
          = [i \in ChipIds |-> Promise!ChipMessage(shard[i], i, Len(messages))]
  BY <1>5, <1>6, <1>7, Zenon
<1> QED
  BY ONLY <1>1, <1>8, Zenon

\* A round of the chunked prefix sends the promised message.
LEMMA ChunkedRound ==
    ASSUME IInv, ExactInv, ChunkRound
    PROVE  messages' = Append(messages,
               [i \in ChipIds |-> Promise!ChipMessage(shard[i], i, Len(messages))])
<1>1. pc = "chunks" /\ Round < Depth
      /\ messages' = Append(messages, [i \in ChipIds |-> RoundPoly(i, ChunkTerms(i))])
  BY DEF ChunkRound, Send
<1> PICK r \in Nat : AtRound(r)
  BY <1>1, AtRoundHolds
<1> DEFINE terms == [i \in ChipIds |-> ChunkTerms(i)]
<1>2. r = Round /\ r < NumVars /\ plan \in Plans
  <2>1. r = Round /\ plan \in Plans
    BY DEF AtRound
  <2>2. Depth \in Nat /\ Depth <= Unrolled /\ Unrolled \in Nat /\ Unrolled <= NumVars
        /\ NumVars \in Nat
    BY <2>1, DepthNat, UnrolledNat, RoundsAssumption
  <2> QED
    BY <1>1, <2>1, <2>2
<1>3. Arrived
  BY <1>1 DEF ExactInv, StateExact
<1>4. \A i \in ChipIds : ChunkTerms(i) = LiveTerms(i, 0, Pairs(heights[i]))
  <2> SUFFICES ASSUME NEW i \in ChipIds
               PROVE  ChunkTerms(i) = LiveTerms(i, 0, Pairs(heights[i]))
    OBVIOUS
  <2>1. Pairs(heights[i]) \in Nat
    BY <1>2, PairsFit
  <2>2. Pairs(heights[i]) <= PairCap(i, Round)
    BY <1>1, ChunksHold
  <2>3. Round \in Nat
    BY <1>2
  <2> QED
    BY ONLY <1>2, <1>3, <2>1, <2>2, <2>3, i \in ChipIds, ChunkTermsExact
<1>5. \A i \in ChipIds : terms[i] = ChunkTerms(i)
  OBVIOUS
<1> HIDE DEF terms
<1>6. [i \in ChipIds |-> RoundPoly(i, terms[i])]
          = [i \in ChipIds |-> Promise!ChipMessage(shard[i], i, r)]
  BY <1>2, <1>4, <1>5, RoundMessage
<1>7. r = Len(messages)
  BY <1>2 DEF Round
<1>8. [i \in ChipIds |-> RoundPoly(i, ChunkTerms(i))]
          = [i \in ChipIds |-> Promise!ChipMessage(shard[i], i, Len(messages))]
  BY <1>5, <1>6, <1>7, Zenon
<1> QED
  BY ONLY <1>1, <1>8, Zenon

\* The last fold leaves the promised evaluations.
LEMMA LastFold ==
    ASSUME IInv, ExactInv, Finish
    PROVE  finals' = [i \in ChipIds |->
               [c \in 1..Cols[i] |-> Promise!Value(shard[i], i, c, NumVars, 0)]]
<1>1. pc = "rounds" /\ Round = NumVars
  BY DEF Finish
<1> PICK r \in Nat : AtRound(r)
  BY <1>1, AtRoundHolds
<1>2. Packed(NumVars) /\ \A i \in ChipIds : heights[i] = CeilShift(shard[i], NumVars)
  BY <1>1, PackedHolds DEF AtRound
<1> DEFINE Final(i, c) ==
        IF IsZeroChip(i) \/ heights[i] = 0 THEN {}
        ELSE Slice(halves, AreaOffsets(heights)[i - 1] \div 2
                           + (c - 1) * (EvenPad(heights[i]) \div 2), 1)[1][1]
<1>3. finals' = [i \in ChipIds |-> [c \in 1..Cols[i] |-> Final(i, c)]]
  BY DEF Finish
<1>4. ASSUME NEW i \in ChipIds, NEW c \in 1..Cols[i]
      PROVE  Final(i, c) = Promise!Value(shard[i], i, c, NumVars, 0)
  BY <1>2, FinalsExact
<1> HIDE DEF Final
<1> QED
  BY ONLY <1>3, <1>4, Zenon

\* The packed state of the next round.
LEMMA RoundState ==
    ASSUME IInv, ExactInv, RoundStep, NEW r, AtRound(r)
    PROVE  /\ Exact(halves', shard, heights', r + 1)
           /\ IsSeq(halves')
<1>1. /\ pc = "rounds" /\ r < NumVars /\ r \in Nat /\ Round = r
      /\ shard' = shard /\ plan' = plan
      /\ Send([i \in ChipIds |-> RoundPoly(i, WindowTerms(i))], Round < Unrolled)
      /\ shard \in [ChipIds -> Nat] /\ heights \in [ChipIds -> Nat]
  BY DEF RoundStep, AtRound
<1> PICK next : next = heights'
  OBVIOUS
<1>2. /\ next \in [ChipIds -> Nat] /\ \A i \in ChipIds : next[i] = Pairs(heights[i])
      /\ CapHolds /\ AreaOf(next) <= AreaBound(MinOf(r + 1, Unrolled))
  <2> DEFINE message == [i \in ChipIds |-> RoundPoly(i, WindowTerms(i))]
             shrink == Round < Unrolled
  <2>1. Send(message, shrink) /\ shrink = (Round < Unrolled) /\ Round < NumVars
    BY <1>1
  <2> HIDE DEF message, shrink
  <2> QED
    BY <1>1, <2>1, SendStep
<1> PICK area : area = CapOf(r + 1)
  OBVIOUS
<1>3. area \div 2 \in Nat /\ HalfOff(next, Len(Cols)) <= area \div 2
  <2>1. r + 1 \in Nat
    BY <1>1
  <2>2. CapOf(r + 1) \in Nat /\ 2 * (CapOf(r + 1) \div 2) = CapOf(r + 1)
        /\ CapOf(r + 1) = AreaBound(MinOf(r + 1, Unrolled)) + 2 * WindowOf(r + 1)
        /\ WindowOf(r + 1) \in Nat
    BY <1>2, <2>1, CapOfRound
  <2>3. AreaOf(next) = 2 * HalfOff(next, Len(Cols)) /\ AreaOf(next) \in Nat
    BY <1>2, HalfOffsets, WeightedSeq
  <2>4. Len(Cols) \in 0..Len(Cols)
    BY ColsHold
  <2>5. HalfOff(next, Len(Cols)) \in Nat
    BY <1>2, <2>4, HalfOffsets
  <2>6. MinOf(r + 1, Unrolled) \in Nat
    BY <2>1, UnrolledNat DEF MinOf
  <2>7. AreaBound(MinOf(r + 1, Unrolled)) \in Nat
    BY <1>2, <2>6, AreaBoundDef
  <2>8. area \div 2 \in Nat
    BY ONLY <2>2, area = CapOf(r + 1)
  <2> QED
    BY ONLY <1>2, <2>2, <2>3, <2>5, <2>7, <2>8, area = CapOf(r + 1)
<1> PICK off : off = [i \in ChipIds |-> AreaOffsets(heights)[i - 1] \div 2]
  OBVIOUS
<1> PICK stride : stride = [i \in ChipIds |-> EvenPad(heights[i]) \div 2]
  OBVIOUS
<1> PICK source :
        source = [j \in 1..Len(halves) |-> Fold(halves[j][1], halves[j][2], r)]
  OBVIOUS
<1>4. halves' = GatherHalves(area, next, off, stride, source)
  <2>1. halves' = FoldedHalves(heights')
    BY DEF RoundStep
  <2> QED
    BY ONLY <1>1, <2>1, next = heights', area = CapOf(r + 1),
            off = [i \in ChipIds |-> AreaOffsets(heights)[i - 1] \div 2],
            stride = [i \in ChipIds |-> EvenPad(heights[i]) \div 2],
            source = [j \in 1..Len(halves) |-> Fold(halves[j][1], halves[j][2], r)], Zenon
       DEF FoldedHalves
<1>5. /\ HeightsAt(heights, shard, r) /\ Exact(halves, shard, heights, r)
      /\ Len(halves) \in Nat /\ HalfOff(heights, Len(Cols)) <= Len(halves)
  <2>1. HeightsAt(heights, shard, r)
    BY DEF AtRound, HeightsAt
  <2> QED
    BY <1>1, <2>1, PackedHolds DEF Packed
<1>6. Exact(GatherHalves(area, next, off, stride, source), shard, next, r + 1)
  BY ONLY <1>1, <1>2, <1>3, <1>5, FoldExact,
          off = [i \in ChipIds |-> AreaOffsets(heights)[i - 1] \div 2],
          stride = [i \in ChipIds |-> EvenPad(heights[i]) \div 2],
          source = [j \in 1..Len(halves) |-> Fold(halves[j][1], halves[j][2], r)]
<1>7. IsSeq(halves')
  <2> PICK n \in Nat : n = area \div 2
    BY <1>3
  <2> PICK f : f = halves'
    OBVIOUS
  <2> PICK g : g = GatherHalves(area, next, off, stride, source)
    OBVIOUS
  <2>1. g = [p \in 1..area \div 2 |-> g[p]]
    BY ONLY g = GatherHalves(area, next, off, stride, source), GatherLength
  <2>2. f = [p \in 1..n |-> f[p]]
    BY ONLY <1>4, <2>1, f = halves', g = GatherHalves(area, next, off, stride, source),
            n = area \div 2
  <2>3. IsSeq(f)
    BY ONLY <2>2, n \in Nat, TabulatedSeq
  <2> QED
    BY ONLY <2>3, f = halves'
<1> QED
  BY ONLY <1>4, <1>6, <1>7, next = heights'

\* The invariant holds at first.
LEMMA InitExact == Init => ExactInv
<1> SUFFICES ASSUME Init PROVE ExactInv
  OBVIOUS
<1>1. /\ shard \in Shards /\ pc = "check" /\ messages = <<>> /\ finals = <<>>
      /\ geq = [i \in ChipIds |-> VirtualGeq(shard[i])] /\ eq = FirstEq
      /\ plan.form # "traces" => \A i \in ChipIds : shard[i] <= Width
  BY DEF Init
<1>2. Round = 0
  BY <1>1 DEF Round
<1>3. EqExact(eq, Round)
  BY ONLY <1>1, <1>2, EqFirst
<1>4. ASSUME NEW i \in ChipIds PROVE GeqExact(geq[i], shard[i], Round)
  <2>1. shard[i] \in Nat /\ geq[i] = VirtualGeq(shard[i])
    BY <1>1, ShardHeights
  <2> QED
    BY ONLY <1>2, <2>1, GeqFirst
<1> QED
  BY <1>1, <1>3, <1>4 DEF ExactInv, ScalarsExact, CubeHolds, StateExact, Unsent

\* The halves of either arrival are a buffer.
LEMMA FirstSeq ==
    ASSUME shard \in [ChipIds -> Nat], CapHolds, AreaOf(shard) <= AreaCap,
           NEW flat, flat = IF plan.form \in {"traces", "padded"} THEN ConcatenatedTraces
                            ELSE PackFlatArrival
    PROVE  IsSeq(FirstHalves(flat))
<1> PICK f : f = FirstHalves(flat)
  OBVIOUS
<1>1. CASE plan.form \in {"traces", "padded"}
  <2>1. 0 \in Nat /\ 0 <= Unrolled
    BY UnrolledNat
  <2>2. BufferCap(0) \div 2 \in Nat
    BY <2>1, CapOfRound
  <2> PICK n \in Nat : n = BufferCap(0) \div 2
    BY <2>2
  <2> PICK off, stride : f = GatherHalves(BufferCap(0), shard, off, stride, flat)
    BY <1>1, Zenon DEF FirstHalves
  <2>3. f = [p \in 1..BufferCap(0) \div 2 |-> f[p]]
    BY ONLY f = GatherHalves(BufferCap(0), shard, off, stride, flat), GatherLength
  <2>4. f = [p \in 1..n |-> f[p]]
    BY ONLY <2>3, n = BufferCap(0) \div 2
  <2>5. IsSeq(f)
    BY ONLY <2>4, n \in Nat, TabulatedSeq
  <2> QED
    BY ONLY <2>5, f = FirstHalves(flat)
<1>2. CASE plan.form \notin {"traces", "padded"}
  <2>1. flat = PackFlatArrival
    BY <1>2
  <2>2. Len(flat) = AreaCap + 2 * EqWidth(0) /\ EqWidth(0) \in Nat /\ AreaCap \in Nat
    BY <2>1, FlatArrival DEF CapHolds
  <2>3. Len(flat) \div 2 \in Nat
    BY ONLY <2>2
  <2> PICK n \in Nat : n = Len(flat) \div 2
    BY <2>3
  <2>4. f = [j \in 1..n |-> <<flat[2 * j - 1], flat[2 * j]>>]
    BY <1>2, Zenon DEF FirstHalves
  <2>5. f = [j \in 1..n |-> f[j]]
    BY ONLY <2>4
  <2>6. IsSeq(f)
    BY ONLY <2>5, n \in Nat, TabulatedSeq
  <2> QED
    BY ONLY <2>6, f = FirstHalves(flat)
<1> QED
  BY <1>1, <1>2

\* The packed arrival is a function of the shard and the plan.
LEMMA ArrivalStays ==
    ASSUME shard' = shard, plan' = plan
    PROVE  PackFlatArrival' = PackFlatArrival
<1>1. AreaCap' = AreaCap
  BY Statics
<1>2. PackFlatArrival' = PackFlatArrival
  BY <1>1 DEF PackFlatArrival
<1> QED
  BY <1>2

\* Either arrival packs the exact round-0 state.
LEMMA ArriveExact == IInv /\ ExactInv /\ Arrive => ExactInv'
<1> SUFFICES ASSUME IInv, ExactInv, Arrive PROVE ExactInv'
  OBVIOUS
<1>1. /\ pc = "check" /\ ~Refused /\ shard' = shard /\ plan' = plan
      /\ heights' = heights /\ eq' = eq /\ geq' = geq /\ messages' = messages
      /\ finals' = finals
  BY DEF Arrive
<1>2. /\ pc' = IF Depth > 0 THEN "chunks" ELSE "rounds"
      /\ pc' = "rounds" => halves' = FirstHalves(arrival')
      /\ arrival' = IF plan.form \in {"traces", "padded"} THEN ConcatenatedTraces
                    ELSE PackFlatArrival
  BY DEF Arrive
<1>3. shard \in Shards /\ plan \in Plans /\ shard \in [ChipIds -> Nat] /\ Round = 0
  BY <1>1, ShardHeights DEF IInv, Progress
<1>4. heights = shard
  BY <1>3, ShardHeights DEF IInv, HeightsHold
<1>5. CapHolds /\ AreaOf(shard) <= AreaCap
  BY <1>1, <1>3, AreaFits
<1>6. Depth \in Nat /\ (Depth > 0 => plan.form = "chunked")
  BY <1>3, DepthNat
<1>7. Round' = Round
  BY <1>1 DEF Round
<1>8. ScalarsExact'
  <2>1. EqExact(eq, Round) /\ \A i \in ChipIds : GeqExact(geq[i], shard[i], Round)
    BY <1>1 DEF ExactInv, ScalarsExact
  <2>2. EqExact(eq', Round') /\ \A i \in ChipIds : GeqExact(geq'[i], shard'[i], Round')
    BY ONLY <1>1, <1>7, <2>1
  <2> QED
    BY <2>2 DEF ScalarsExact
<1>9. \A i \in ChipIds : shard[i] <= Width
  <2>1. CASE plan.form = "traces"
    <3>1. Width \in Nat
      BY Pow2Def, RoundsAssumption DEF Width
    <3> QED
      BY <1>1, <1>3, <2>1, <3>1 DEF Refused
  <2>2. CASE plan.form # "traces"
    BY <1>1, <2>2 DEF ExactInv, CubeHolds
  <2> QED
    BY <2>1, <2>2
<1>10. CubeHolds'
  BY <1>1, <1>9 DEF CubeHolds
<1>11. pc' = "chunks" => Arrived'
  <2> SUFFICES ASSUME pc' = "chunks" PROVE Arrived'
    OBVIOUS
  <2>1. plan.form = "chunked"
    BY <1>2, <1>6
  <2>2. arrival' = PackFlatArrival
    BY <1>2, <2>1
  <2>3. AreaCap' = AreaCap
    BY <1>1, Statics
  <2>4. PackFlatArrival' = PackFlatArrival
    BY <1>1, ArrivalStays
  <2>5. AreaCap \in Nat
    BY <1>5 DEF CapHolds
  <2> QED
    BY <1>1, <1>3, <1>5, <2>2, <2>3, <2>4, <2>5 DEF Arrived
<1>12. pc' = "rounds" => IsSeq(halves') /\ Exact(halves', shard', heights', Round')
  <2> SUFFICES ASSUME pc' = "rounds"
               PROVE  IsSeq(halves') /\ Exact(halves', shard', heights', Round')
    OBVIOUS
  <2> PICK flat : flat = arrival'
    OBVIOUS
  <2>1. /\ halves' = FirstHalves(flat)
        /\ flat = IF plan.form \in {"traces", "padded"} THEN ConcatenatedTraces
                  ELSE PackFlatArrival
    BY <1>2
  <2>2. plan.form = "padded" => \A i \in ChipIds : shard[i] <= Width
    BY <1>9
  <2>3. Exact(FirstHalves(flat), shard, shard, 0)
    BY ONLY <1>3, <1>5, <2>1, <2>2, FirstExact
  <2>4. IsSeq(FirstHalves(flat))
    BY ONLY <1>3, <1>5, <2>1, FirstSeq
  <2> QED
    BY ONLY <1>1, <1>3, <1>4, <1>7, <2>1, <2>3, <2>4
<1>13. StateExact'
  BY <1>11, <1>12 DEF StateExact
<1>14. Unsent'
  BY <1>1, <1>2 DEF ExactInv, Unsent
<1> QED
  BY <1>8, <1>10, <1>13, <1>14 DEF ExactInv

\* A round sent keeps the scalars and what it leaves alone.
LEMMA SendExact ==
    ASSUME IInv, ExactInv, pc \in {"chunks", "rounds"}, Round < NumVars,
           NEW message, NEW shrink, shrink = (Round < Unrolled),
           Send(message, shrink), shard' = shard, plan' = plan, pc' = pc, finals' = finals
    PROVE  ScalarsExact' /\ CubeHolds' /\ Unsent' /\ Round' = Round + 1
<1> PICK r \in Nat : AtRound(r)
  BY AtRoundHolds
<1>1. r = Round /\ r < NumVars /\ shrink = (r < Unrolled)
  BY DEF AtRound
<1>2. EqExact(eq', r + 1) /\ \A i \in ChipIds : GeqExact(geq'[i], shard[i], r + 1)
  BY <1>1, ScalarsFold
<1>3. Round' = Round + 1
  BY SendStep
<1>4. EqExact(eq', Round') /\ \A i \in ChipIds : GeqExact(geq'[i], shard'[i], Round')
  <2>1. Round' = r + 1
    BY <1>1, <1>3
  <2> QED
    BY ONLY <1>2, <2>1, shard' = shard, Zenon
<1>5. ScalarsExact'
  BY <1>4 DEF ScalarsExact
<1>6. CubeHolds'
  BY DEF ExactInv, CubeHolds
<1>7. Unsent'
  BY DEF ExactInv, Unsent
<1> QED
  BY <1>3, <1>5, <1>6, <1>7

\* A round of the buffer keeps the state exact.
LEMMA RoundStepExact == IInv /\ ExactInv /\ RoundStep => ExactInv'
<1> SUFFICES ASSUME IInv, ExactInv, RoundStep PROVE ExactInv'
  OBVIOUS
<1> DEFINE message == [i \in ChipIds |-> RoundPoly(i, WindowTerms(i))]
           shrink == Round < Unrolled
<1>1. /\ pc = "rounds" /\ Round < NumVars /\ pc' = pc /\ shard' = shard /\ plan' = plan
      /\ finals' = finals /\ Send(message, shrink) /\ shrink = (Round < Unrolled)
  BY DEF RoundStep
<1> HIDE DEF message, shrink
<1>2. ScalarsExact' /\ CubeHolds' /\ Unsent' /\ Round' = Round + 1
  BY <1>1, SendExact
<1> PICK r \in Nat : AtRound(r)
  BY <1>1, AtRoundHolds
<1>3. Exact(halves', shard, heights', r + 1) /\ IsSeq(halves')
  BY RoundState
<1>4. r = Round
  BY DEF AtRound
<1>5. Exact(halves', shard', heights', Round')
  BY ONLY <1>1, <1>2, <1>3, <1>4, Zenon
<1>6. StateExact'
  BY <1>1, <1>3, <1>5 DEF StateExact
<1> QED
  BY <1>2, <1>6 DEF ExactInv

\* A round of the prefix keeps the arrival and the scalars exact.
LEMMA ChunkRoundExact == IInv /\ ExactInv /\ ChunkRound => ExactInv'
<1> SUFFICES ASSUME IInv, ExactInv, ChunkRound PROVE ExactInv'
  OBVIOUS
<1> DEFINE message == [i \in ChipIds |-> RoundPoly(i, ChunkTerms(i))]
           shrink == TRUE
<1>1. /\ pc = "chunks" /\ Round < Depth /\ pc' = pc /\ shard' = shard /\ plan' = plan
      /\ finals' = finals /\ arrival' = arrival /\ Send(message, shrink)
  BY DEF ChunkRound
<1>2. Round < NumVars /\ shrink = (Round < Unrolled)
  <2>1. plan \in Plans /\ Round \in Nat
    BY LongerSeq DEF IInv, Progress, Round
  <2>2. Depth \in Nat /\ Depth <= Unrolled /\ Unrolled \in Nat /\ Unrolled <= NumVars
        /\ NumVars \in Nat
    BY <2>1, DepthNat, UnrolledNat, RoundsAssumption
  <2> QED
    BY <1>1, <2>1, <2>2
<1> HIDE DEF message, shrink
<1>3. ScalarsExact' /\ CubeHolds' /\ Unsent' /\ Round' = Round + 1
  BY <1>1, <1>2, SendExact
<1>4. Arrived'
  <2>1. Arrived
    BY <1>1 DEF ExactInv, StateExact
  <2>2. AreaCap' = AreaCap
    BY <1>1, Statics
  <2>3. PackFlatArrival' = PackFlatArrival
    BY <1>1, ArrivalStays
  <2> QED
    BY <1>1, <2>1, <2>2, <2>3 DEF Arrived
<1>5. StateExact'
  BY <1>1, <1>4 DEF StateExact
<1> QED
  BY <1>3, <1>5 DEF ExactInv

\* The prefix hands over an exact state.
LEMMA MaterializeExact == IInv /\ ExactInv /\ Materialize => ExactInv'
<1> SUFFICES ASSUME IInv, ExactInv, Materialize PROVE ExactInv'
  OBVIOUS
<1>1. /\ pc = "chunks" /\ Round = Depth /\ pc' = "rounds" /\ halves' = MaterializedHalves
      /\ shard' = shard /\ plan' = plan /\ heights' = heights /\ geq' = geq /\ eq' = eq
      /\ messages' = messages /\ finals' = finals
  BY DEF Materialize
<1> PICK r \in Nat : AtRound(r)
  BY <1>1, AtRoundHolds
<1>2. r = Round /\ shard \in [ChipIds -> Nat] /\ heights \in [ChipIds -> Nat] /\ plan \in Plans
  BY DEF AtRound
<1>3. Laying
  <2>1. Arrived
    BY <1>1 DEF ExactInv, StateExact
  <2>2. ASSUME NEW i \in ChipIds PROVE Pairs(heights[i]) <= BlockHalf(i)
    <3>1. heights[i] \in Nat
      BY <1>2
    <3>2. EvenPad(heights[i]) \div 2 <= BlockHalf(i)
      BY <1>1, ChunksHold
    <3> QED
      BY ONLY <3>1, <3>2, PairsOf
  <2> QED
    BY <1>2, <2>1, <2>2 DEF Laying
<1>4. HeightsAt(heights, shard, Depth)
  BY <1>1, <1>2 DEF AtRound, HeightsAt
<1>5. BufferCap(Depth) \div 2 \in Nat /\ HalfOff(heights, Len(Cols)) <= BufferCap(Depth) \div 2
  <2>1. Depth \in Nat /\ Depth <= Unrolled
    BY <1>2, DepthNat
  <2>2. CapHolds /\ AreaOf(heights) <= AreaBound(MinOf(Depth, Unrolled))
    BY <1>1 DEF IInv, BufferHolds
  <2>3. CapOf(Depth) \in Nat /\ 2 * (CapOf(Depth) \div 2) = CapOf(Depth)
        /\ CapOf(Depth) = AreaBound(MinOf(Depth, Unrolled)) + 2 * WindowOf(Depth)
        /\ WindowOf(Depth) \in Nat /\ CapOf(Depth) = BufferCap(Depth)
    BY <2>1, <2>2, CapOfRound
  <2>4. Len(Cols) \in 0..Len(Cols)
    BY ColsHold
  <2>5. AreaOf(heights) = 2 * HalfOff(heights, Len(Cols)) /\ HalfOff(heights, Len(Cols)) \in Nat
    BY <1>2, <2>4, HalfOffsets
  <2>6. MinOf(Depth, Unrolled) \in Nat
    BY <2>1, UnrolledNat DEF MinOf
  <2>7. AreaBound(MinOf(Depth, Unrolled)) \in Nat
    BY <2>2, <2>6, AreaBoundDef
  <2>8. BufferCap(Depth) \div 2 \in Nat
    BY ONLY <2>3
  <2> QED
    BY ONLY <2>2, <2>3, <2>5, <2>7, <2>8
<1> PICK half \in Nat : half = BufferCap(Depth) \div 2
  BY <1>5
<1>6. Exact(MaterializedHalves, shard, heights, Depth) /\ IsSeq(MaterializedHalves)
  <2>1. HalfOff(heights, Len(Cols)) <= half
    BY <1>5
  <2> QED
    BY ONLY <1>3, <1>4, <2>1, half \in Nat, half = BufferCap(Depth) \div 2, MaterializedExact
<1>7. Round' = Round
  BY <1>1 DEF Round
<1>8. ScalarsExact'
  <2>1. EqExact(eq, Round) /\ \A i \in ChipIds : GeqExact(geq[i], shard[i], Round)
    BY <1>1 DEF ExactInv, ScalarsExact
  <2>2. EqExact(eq', Round') /\ \A i \in ChipIds : GeqExact(geq'[i], shard'[i], Round')
    BY ONLY <1>1, <1>7, <2>1
  <2> QED
    BY <2>2 DEF ScalarsExact
<1>9. CubeHolds'
  BY <1>1 DEF ExactInv, CubeHolds
<1>10. StateExact'
  <2>1. Exact(halves', shard', heights', Round') /\ IsSeq(halves')
    BY ONLY <1>1, <1>6, <1>7, Zenon
  <2> QED
    BY <1>1, <2>1 DEF StateExact
<1>11. Unsent'
  BY <1>1 DEF ExactInv, Unsent
<1> QED
  BY <1>8, <1>9, <1>10, <1>11 DEF ExactInv

\* Nothing is lost by standing still.
LEMMA StutterExact == ExactInv /\ UNCHANGED vars => ExactInv'
<1> SUFFICES ASSUME ExactInv, UNCHANGED vars PROVE ExactInv'
  OBVIOUS
<1>1. /\ shard' = shard /\ plan' = plan /\ pc' = pc /\ arrival' = arrival /\ halves' = halves
      /\ heights' = heights /\ geq' = geq /\ eq' = eq /\ messages' = messages /\ finals' = finals
  BY DEF vars
<1>2. Round' = Round
  BY <1>1 DEF Round
<1>3. AreaCap' = AreaCap
  BY <1>1, Statics
<1>4. PackFlatArrival' = PackFlatArrival
  BY <1>1, ArrivalStays
<1>5. Arrived => Arrived'
  BY <1>1, <1>3, <1>4 DEF Arrived
<1> QED
  BY <1>1, <1>2, <1>5 DEF ExactInv, ScalarsExact, CubeHolds, StateExact, Unsent

\* Every step keeps the invariant.
LEMMA NextExact == IInv /\ ExactInv /\ [Next]_vars => ExactInv'
<1> SUFFICES ASSUME IInv, ExactInv, [Next]_vars PROVE ExactInv'
  OBVIOUS
<1>1. CASE Refuse
  BY <1>1 DEF Refuse, ExactInv, ScalarsExact, CubeHolds, StateExact, Unsent
<1>2. CASE Arrive
  BY <1>2, ArriveExact
<1>3. CASE RoundStep
  BY <1>3, RoundStepExact
<1>4. CASE ChunkRound
  BY <1>4, ChunkRoundExact
<1>5. CASE Materialize
  BY <1>5, MaterializeExact
<1>6. CASE Finish
  BY <1>6 DEF Finish, ExactInv, ScalarsExact, CubeHolds, StateExact, Unsent
<1>7. CASE UNCHANGED vars
  BY <1>7, StutterExact
<1>8. CASE Ended
  BY <1>8, StutterExact DEF Ended
<1> QED
  BY <1>1, <1>2, <1>3, <1>4, <1>5, <1>6, <1>7, <1>8 DEF Next

\* The inductive invariant of the engine: the caps hold and the state is exact.
LEMMA RoundsInductive == Spec => [](IInv /\ ExactInv)
BY InitIInv, InitExact, NextIInv, NextExact, PTL DEF Spec

\* The packed state is the even-padded fold of every column at the offsets the
\* live heights give, and exact zeros to the end of the buffer, in every round,
\* whichever arrival packed it and whether the rounds' gathers folded it or the
\* chunked prefix rebuilt it from the arrival and laid it in chip by chip.
THEOREM PackedStateHolds == Spec => []PackedStateIsExact
<1>1. IInv /\ ExactInv => PackedStateIsExact
  <2> SUFFICES ASSUME IInv, ExactInv, pc = "rounds"
               PROVE  /\ \A i \in ChipIds : \A c \in 1..Cols[i] :
                             \A k \in 1..EvenPad(heights[i]) \div 2 :
                                 halves[AreaOffsets(heights)[i - 1] \div 2
                                        + (c - 1) * (EvenPad(heights[i]) \div 2) + k] =
                                     <<Promise!Value(shard[i], i, c, Round, 2 * (k - 1)),
                                       Promise!Value(shard[i], i, c, Round, 2 * (k - 1) + 1)>>
                      /\ \A p \in AreaOffsets(heights)[Len(Cols)] \div 2 + 1..Len(halves) :
                             halves[p] = <<{}, {}>>
    BY Zenon DEF PackedStateIsExact
  <2>1. heights \in [ChipIds -> Nat] /\ Exact(halves, shard, heights, Round)
    BY DEF IInv, HeightsHold, ExactInv, StateExact
  <2>2. ASSUME NEW i \in ChipIds, NEW c \in 1..Cols[i], NEW k \in 1..EvenPad(heights[i]) \div 2
        PROVE  halves[AreaOffsets(heights)[i - 1] \div 2
                      + (c - 1) * (EvenPad(heights[i]) \div 2) + k] =
                   <<Promise!Value(shard[i], i, c, Round, 2 * (k - 1)),
                     Promise!Value(shard[i], i, c, Round, 2 * (k - 1) + 1)>>
    <3>1. heights[i] \in Nat /\ i - 1 \in 0..Len(Cols)
      BY <2>1, ColsHold
    <3>2. EvenPad(heights[i]) \div 2 = Pairs(heights[i])
      BY <3>1, PairsOf
    <3>3. AreaOffsets(heights)[i - 1] \div 2 = HalfOff(heights, i - 1)
      BY <2>1, <3>1, HalfOffsets
    <3>4. k \in 1..Pairs(heights[i])
      BY <3>2
    <3>5. halves[Slot(heights, i, c, k)] = Pair(shard[i], i, c, Round, k)
      BY <2>1, <3>4, Zenon DEF Exact
    <3> QED
      BY ONLY <3>2, <3>3, <3>5, Zenon DEF Slot, Pair
  <2>3. ASSUME NEW p \in AreaOffsets(heights)[Len(Cols)] \div 2 + 1..Len(halves)
        PROVE  halves[p] = <<{}, {}>>
    <3>1. Len(Cols) \in 0..Len(Cols)
      BY ColsHold
    <3>2. AreaOffsets(heights)[Len(Cols)] \div 2 = HalfOff(heights, Len(Cols))
      BY <2>1, <3>1, HalfOffsets
    <3>3. p \in HalfOff(heights, Len(Cols)) + 1..Len(halves)
      BY <3>2, Zenon
    <3> QED
      BY <2>1, <3>3, Zenon DEF Exact
  <2> QED
    BY <2>2, <2>3, Zenon
<1> QED
  BY <1>1, RoundsInductive, PTL

\* A first state of the engine is a first state of the fold.
LEMMA PromiseInit == Init => Promise!Init
BY DEF Init, Promise!Init

\* A step of the engine is a step of the fold, or none it sees.
LEMMA PromiseStep == IInv /\ ExactInv /\ [Next]_vars => [Promise!Next]_(Promise!vars)
<1> SUFFICES ASSUME IInv, ExactInv, [Next]_vars PROVE [Promise!Next]_(Promise!vars)
  OBVIOUS
<1>0. IsSeq(messages) /\ Round = Len(messages)
  BY DEF IInv, Progress, Round
<1>1. CASE Refuse
  <2>1. /\ pc = "check" /\ pc' = "refused"
        /\ shard' = shard /\ messages' = messages /\ finals' = finals
    BY <1>1 DEF Refuse
  <2>2. messages = <<>> /\ finals = <<>>
    BY <2>1 DEF ExactInv, Unsent
  <2> QED
    BY <2>1, <2>2 DEF Promise!Next, Promise!Refuse
<1>2. CASE Arrive
  <2>1. /\ pc = "check" /\ pc' \in {"chunks", "rounds"}
        /\ shard' = shard /\ messages' = messages /\ finals' = finals
    BY <1>2 DEF Arrive
  <2> QED
    BY <2>1 DEF Promise!vars
<1>3. CASE RoundStep \/ ChunkRound
  <2>1. /\ pc \in {"chunks", "rounds"} /\ pc' = pc /\ shard' = shard /\ finals' = finals
    BY <1>3 DEF RoundStep, ChunkRound
  <2>2. messages' = Append(messages,
            [i \in ChipIds |-> Promise!ChipMessage(shard[i], i, Len(messages))])
    BY <1>3, WindowRound, ChunkedRound
  <2>3. Len(messages) < NumVars
    <3>1. CASE RoundStep
      BY <1>0, <3>1 DEF RoundStep
    <3>2. CASE ChunkRound
      <4>1. plan \in Plans /\ Len(messages) \in Nat /\ Len(messages) < Depth
        BY <1>0, <3>2, LongerSeq DEF ChunkRound, IInv
      <4>2. Depth \in Nat /\ Depth <= Unrolled /\ Unrolled \in Nat /\ Unrolled <= NumVars
            /\ NumVars \in Nat
        BY <4>1, DepthNat, UnrolledNat, RoundsAssumption
      <4> QED
        BY ONLY <4>1, <4>2
    <3> QED
      BY <1>3, <3>1, <3>2
  <2>4. Promise!ChipIds = ChipIds
    BY DEF Promise!ChipIds, ChipIds
  <2>5. Promise!Round
    BY ONLY <2>1, <2>2, <2>3, <2>4 DEF Promise!Round
  <2> QED
    BY ONLY <2>5 DEF Promise!Next
<1>4. CASE Materialize
  <2>1. /\ pc = "chunks" /\ pc' = "rounds"
        /\ shard' = shard /\ messages' = messages /\ finals' = finals
    BY <1>4 DEF Materialize
  <2> QED
    BY <2>1 DEF Promise!vars
<1>5. CASE Finish
  <2>1. /\ pc = "rounds" /\ pc' = "done" /\ Len(messages) = NumVars
        /\ shard' = shard /\ messages' = messages
    BY <1>0, <1>5 DEF Finish
  <2>2. finals = <<>>
    BY <2>1 DEF ExactInv, Unsent
  <2>3. finals' = [i \in ChipIds |->
            [c \in 1..Cols[i] |-> Promise!Value(shard[i], i, c, NumVars, 0)]]
    BY <1>5, LastFold
  <2>4. Promise!ChipIds = ChipIds
    BY DEF Promise!ChipIds, ChipIds
  <2>5. Promise!Finish
    BY ONLY <2>1, <2>2, <2>3, <2>4 DEF Promise!Finish
  <2> QED
    BY ONLY <2>5 DEF Promise!Next
<1>6. CASE UNCHANGED vars \/ Ended
  <2>1. shard' = shard /\ messages' = messages /\ finals' = finals /\ pc' = pc
    BY <1>6 DEF vars, Ended
  <2> QED
    BY <2>1 DEF Promise!vars
<1> QED
  BY <1>1, <1>2, <1>3, <1>4, <1>5, <1>6 DEF Next

\* The jagged engine implements the sumcheck of the bare columns: each round of
\* _prove_total_cap and of the chunked prefix sends the message ZerocheckFold
\* promises, the last fold leaves its evaluations, and a refusal comes before
\* any message.
THEOREM RoundsImplementTheFold == Spec => ImplementsFold
BY PromiseInit, PromiseStep, RoundsInductive, PTL DEF Spec, ImplementsFold, Promise!Spec
=============================================================================
