-------------------------- MODULE GkrLayoutProofs ---------------------------
(***************************************************************************)
(* The first layer is laid tight and exact, the pyramid fits its static    *)
(* widths and the traces open exactly, for every machine, class and shard. *)
(***************************************************************************)
EXTENDS GkrLayout, RecurrencesProofs

(***************************************************************************)
(* What the assumption says of the machine, its classes and its shards.    *)
(***************************************************************************)
LEMMA LayoutNumbers ==
    /\ NumChips \in Nat
    /\ \A i \in ChipIds : Len(Manifest[i].sends) \in Nat /\ Len(Manifest[i].recvs) \in Nat
    /\ NumRowVariables \in Nat \ {0} /\ RowStacking \in Nat \ {0}
    /\ \A heights \in Shards : heights \in [ChipIds -> Nat]
    /\ \A c \in Classes : c.caps \in [ChipIds -> Nat] /\ c.slotCap \in Nat \cup {Unset}
<1>1. NumChips \in Nat
  BY LayoutAssumption DEF NumChips
<1> QED
  BY ONLY <1>1, LayoutAssumption, Zenon

(***************************************************************************)
(* Segments.                                                               *)
(***************************************************************************)
LEMMA SlotCountHolds ==
    ASSUME NEW h \in Nat, NEW k \in Nat, h <= k
    PROVE  /\ SlotCount(h) \in Nat /\ SlotCount(k) \in Nat
           /\ 2 <= SlotCount(h) /\ SlotCount(h) <= SlotCount(k)
BY Z3 DEF SlotCount, MaxOf

LEMMA SegmentNumbers ==
    /\ InteractionCounts \in Seq(Nat) /\ Len(InteractionCounts) = NumChips
    /\ NumReal \in Nat /\ NumSegments \in Nat /\ NumSegments >= 1
    /\ NumReal <= NumSegments
<1>1. NumChips \in Nat
  BY LayoutNumbers
<1>2. InteractionCounts \in [1..NumChips -> Nat]
  <2>1. ASSUME NEW i \in ChipIds
        PROVE  (IF Stub(i) THEN 0 ELSE Len(Manifest[i].sends) + Len(Manifest[i].recvs)) \in Nat
    <3> DEFINE sends == Len(Manifest[i].sends)
               recvs == Len(Manifest[i].recvs)
               n == sends + recvs
    <3>a. sends \in Nat /\ recvs \in Nat
      BY LayoutNumbers, Zenon
    <3> HIDE DEF sends, recvs
    <3>1. n \in Nat
      BY <3>a
    <3>2. 0 \in Nat
      OBVIOUS
    <3> HIDE DEF n
    <3>3. (IF Stub(i) THEN 0 ELSE n) \in Nat
      BY <3>1, <3>2, Zenon
    <3> QED
      BY <3>3 DEF n, sends, recvs
  <2> QED
    BY <2>1 DEF InteractionCounts, ChipIds
<1>3. InteractionCounts \in Seq(Nat) /\ Len(InteractionCounts) = NumChips
  BY <1>1, <1>2
<1>4. NumReal \in Nat
  BY <1>1, <1>3, PrefixDef DEF NumReal, Total
<1>5. CeilLog2(NumReal) \in Nat /\ Pow2(CeilLog2(NumReal)) >= NumReal
  <2>1. CeilLog2(NumReal) \in 0..NumReal /\ Pow2(CeilLog2(NumReal)) >= NumReal
    BY <1>4, CeilLog2Def
  <2> QED
    BY <1>4, <2>1
<1>6. NumSegments \in Nat /\ NumSegments >= 1
  BY <1>5, Pow2Def DEF NumSegments
<1>7. NumReal <= NumSegments
  BY <1>4, <1>5, <1>6 DEF NumSegments
<1> QED
  BY <1>3, <1>4, <1>6, <1>7

\* Every real segment belongs to exactly one chip.
SegOfChip(s, i) == i \in ChipIds /\ s \in FirstSeg(i)..Prefix(InteractionCounts)[i]

LEMMA SegChipExists ==
    ASSUME NEW s \in 1..NumReal
    PROVE  SegOfChip(s, SegChip(s))
<1> DEFINE p == Prefix(InteractionCounts)
           T == {i \in Nat : i <= NumChips /\ s <= p[i]}
<1>1. NumChips \in Nat /\ NumReal \in Nat /\ s \in Nat /\ 1 <= s
  BY LayoutNumbers, SegmentNumbers
<1>2. p \in [0..NumChips -> Nat] /\ p[0] = 0 /\ p[NumChips] = NumReal
  BY SegmentNumbers, PrefixDef DEF NumReal, Total
<1> HIDE DEF p
<1>3. NumChips \in T /\ T \in SUBSET Nat /\ T # {}
  <2>1. s <= NumReal
    OBVIOUS
  <2> QED
    BY <1>1, <1>2, <2>1
<1>4. PICK m \in T : \A k \in T : m <= k
  <2> HIDE DEF T
  <2> QED
    BY <1>3, LeastNatural
<1>5. m \in Nat /\ m <= NumChips /\ s <= p[m]
  OBVIOUS
<1>6. m # 0
  BY <1>1, <1>2, <1>5
<1>7. m - 1 \in Nat /\ m - 1 <= NumChips /\ ~(m <= m - 1)
  BY <1>1, <1>5, <1>6
<1>8. ~(s <= p[m - 1])
  BY <1>4, <1>7
<1>9. p[m - 1] \in Nat /\ p[m] \in Nat
  BY <1>1, <1>2, <1>5, <1>7
<1>10. s \in p[m - 1] + 1..p[m]
  BY <1>1, <1>5, <1>8, <1>9
<1>11. m \in ChipIds
  BY <1>1, <1>5, <1>6 DEF ChipIds
<1>12. s \in FirstSeg(m)..Prefix(InteractionCounts)[m]
  BY <1>10 DEF FirstSeg, p
<1> QED
  BY <1>11, <1>12, Zenon DEF SegChip, SegOfChip

LEMMA ChipBounds ==
    ASSUME NEW i \in ChipIds
    PROVE  /\ Prefix(InteractionCounts)[i - 1] \in Nat /\ Prefix(InteractionCounts)[i] \in Nat
           /\ Prefix(InteractionCounts)[i] <= NumReal
           /\ Prefix(InteractionCounts)[i - 1] <= Prefix(InteractionCounts)[i]
           /\ FirstSeg(i) = Prefix(InteractionCounts)[i - 1] + 1
<1>1. /\ i - 1 \in 0..NumChips /\ i \in 0..NumChips /\ NumChips \in 0..NumChips
      /\ i \in (i - 1)..NumChips /\ NumChips \in i..NumChips
  BY LayoutNumbers DEF ChipIds
<1>2. /\ Prefix(InteractionCounts) \in [0..NumChips -> Nat]
      /\ Prefix(InteractionCounts)[NumChips] = NumReal
  BY SegmentNumbers, PrefixDef DEF NumReal, Total
<1>3. /\ Prefix(InteractionCounts)[i] <= Prefix(InteractionCounts)[NumChips]
      /\ Prefix(InteractionCounts)[i - 1] <= Prefix(InteractionCounts)[i]
  BY <1>1, SegmentNumbers, PrefixMonotone
<1> QED
  BY <1>1, <1>2, <1>3 DEF FirstSeg

LEMMA SegChipUnique ==
    ASSUME NEW s \in Nat, NEW i \in ChipIds, SegOfChip(s, i)
    PROVE  s \in 1..NumReal /\ SegChip(s) = i
<1> DEFINE p == Prefix(InteractionCounts)
<1>1. ASSUME NEW j \in ChipIds, NEW k \in ChipIds, SegOfChip(s, j), SegOfChip(s, k)
      PROVE  ~(j < k)
  <2>1. SUFFICES ASSUME j < k PROVE FALSE
    OBVIOUS
  <2>2. j \in 0..NumChips /\ k - 1 \in j..NumChips
    BY LayoutNumbers, <2>1 DEF ChipIds
  <2>3. p[j] <= p[k - 1]
    BY <2>2, SegmentNumbers, PrefixMonotone
  <2>4. p[j] \in Nat /\ p[k - 1] \in Nat /\ p[k] \in Nat /\ FirstSeg(k) = p[k - 1] + 1
    BY ChipBounds
  <2>5. s <= p[j] /\ p[k - 1] + 1 <= s
    BY <1>1, <2>4 DEF SegOfChip
  <2> HIDE DEF p
  <2> QED
    BY <2>3, <2>4, <2>5
<1>2. s \in 1..NumReal
  <2>1. p[i - 1] \in Nat /\ p[i] \in Nat /\ p[i] <= NumReal /\ FirstSeg(i) = p[i - 1] + 1
    BY ChipBounds
  <2>2. p[i - 1] + 1 <= s /\ s <= p[i]
    BY <2>1 DEF SegOfChip
  <2>3. NumReal \in Nat
    BY SegmentNumbers
  <2> HIDE DEF p
  <2> QED
    BY <2>1, <2>2, <2>3
<1>3. SegOfChip(s, SegChip(s)) /\ SegChip(s) \in ChipIds
  BY <1>2, SegChipExists DEF SegOfChip
<1>4. ~(SegChip(s) < i) /\ ~(i < SegChip(s))
  BY <1>1, <1>3
<1>5. SegChip(s) \in Nat /\ i \in Nat
  BY <1>3, LayoutNumbers DEF ChipIds
<1> QED
  BY <1>2, <1>4, <1>5

\* The slots of the segments.
LEMMA SlotCountsHold ==
    ASSUME NEW heights \in [ChipIds -> Nat]
    PROVE  /\ SlotCounts(heights) \in Seq(Nat) /\ Len(SlotCounts(heights)) = NumSegments
           /\ \A s \in 1..NumSegments :
                  /\ SegmentHeight(heights, s) \in Nat
                  /\ SlotCounts(heights)[s] = SlotCount(SegmentHeight(heights, s))
                  /\ SlotCounts(heights)[s] \in Nat /\ 2 <= SlotCounts(heights)[s]
<1>1. ASSUME NEW s \in 1..NumSegments
      PROVE  SegmentHeight(heights, s) \in Nat
  <2>1. CASE s <= NumReal
    <3>1. s \in 1..NumReal
      BY <2>1, SegmentNumbers
    <3>2. SegChip(s) \in ChipIds
      BY <3>1, SegChipExists DEF SegOfChip
    <3> QED
      BY <2>1, <3>2 DEF SegmentHeight
  <2>2. CASE ~(s <= NumReal)
    BY <2>2 DEF SegmentHeight
  <2> QED
    BY <2>1, <2>2
<1>2. ASSUME NEW s \in 1..NumSegments
      PROVE  /\ SlotCount(SegmentHeight(heights, s)) \in Nat
             /\ 2 <= SlotCount(SegmentHeight(heights, s))
  <2>1. SegmentHeight(heights, s) \in Nat /\ SegmentHeight(heights, s) <= SegmentHeight(heights, s)
    BY <1>1
  <2> QED
    BY <2>1, SlotCountHolds
<1>3. NumSegments \in Nat
  BY SegmentNumbers
<1>4. SlotCounts(heights) \in [1..NumSegments -> Nat]
  BY <1>2 DEF SlotCounts
<1>5. \A s \in 1..NumSegments : SlotCounts(heights)[s] = SlotCount(SegmentHeight(heights, s))
  BY DEF SlotCounts
<1> QED
  BY <1>1, <1>2, <1>3, <1>4, <1>5

LEMMA SlotCountsMonotone ==
    ASSUME NEW h \in [ChipIds -> Nat], NEW k \in [ChipIds -> Nat],
           \A i \in ChipIds : h[i] <= k[i], NEW s \in 1..NumSegments
    PROVE  SlotCounts(h)[s] <= SlotCounts(k)[s]
<1>1. SegmentHeight(h, s) <= SegmentHeight(k, s)
  <2>1. CASE s <= NumReal
    <3>1. s \in 1..NumReal
      BY <2>1, SegmentNumbers
    <3>2. SegChip(s) \in ChipIds
      BY <3>1, SegChipExists DEF SegOfChip
    <3> QED
      BY <2>1, <3>2 DEF SegmentHeight
  <2>2. CASE ~(s <= NumReal)
    BY <2>2 DEF SegmentHeight
  <2> QED
    BY <2>1, <2>2
<1>2. SegmentHeight(h, s) \in Nat /\ SegmentHeight(k, s) \in Nat
  BY SlotCountsHold
<1>3. SlotCount(SegmentHeight(h, s)) <= SlotCount(SegmentHeight(k, s))
  BY <1>1, <1>2, SlotCountHolds
<1> QED
  BY <1>3, SlotCountsHold

(***************************************************************************)
(* Classes.                                                                *)
(***************************************************************************)
LEMMA RowCapHolds ==
    ASSUME NEW x \in Nat
    PROVE  RowCap(x) \in Nat /\ x <= RowCap(x)
<1>1. RowStacking \in Nat /\ RowStacking >= 1
  BY LayoutNumbers
<1>2. CASE x < RowStacking
  <2> DEFINE e == CeilLog2(x)
             m == MaxOf(2, e)
             d == m - e
  <2>1. e \in Nat /\ Pow2(e) >= x
    <3>1. CeilLog2(x) \in 0..x /\ Pow2(CeilLog2(x)) >= x
      BY CeilLog2Def
    <3> QED
      BY <3>1
  <2> HIDE DEF e
  <2>2. m \in Nat /\ d \in Nat /\ e + d = m
    BY <2>1 DEF MaxOf
  <2> HIDE DEF m, d
  <2>3. Pow2(e) <= Pow2(e + d) /\ Pow2(m) \in Nat /\ Pow2(e) \in Nat
    BY <2>1, <2>2, Pow2Monotone, Pow2Def
  <2>4. RowCap(x) = Pow2(m)
    BY <1>2 DEF RowCap, m, e
  <2> QED
    BY <2>1, <2>2, <2>3, <2>4
<1>3. CASE ~(x < RowStacking)
  <2> DEFINE r == RowStacking
  <2>1. RowCap(x) = ((x + r - 1) \div r) * r
    BY <1>3 DEF RowCap
  <2>2. r \in Nat /\ r >= 1
    BY <1>1
  <2> HIDE DEF r
  <2>3. (x + r - 1) \div r \in Nat /\ ((x + r - 1) \div r) * r \in Nat
    BY <2>2, Z3
  <2>4. x <= ((x + r - 1) \div r) * r
    BY <2>2, Z3
  <2> QED
    BY <2>1, <2>3, <2>4
<1> QED
  BY <1>2, <1>3

\* What a class is made of.
IsClass(c) == c.caps \in [ChipIds -> Nat] /\ c.slotCap \in Nat \cup {Unset}

LEMMA MaxCountHolds ==
    ASSUME NEW c, IsClass(c)
    PROVE  /\ MaxCount(c) \in Nat
           /\ \A s \in 1..NumSegments : SlotCounts(c.caps)[s] <= MaxCount(c)
<1> DEFINE counts == SlotCounts(c.caps)
           counted == {counts[s] : s \in 1..NumSegments}
<1>1. counts \in Seq(Nat) /\ Len(counts) = NumSegments
  BY SlotCountsHold DEF IsClass
<1>2. NumSegments # 0
  BY SegmentNumbers
<1>3. MaxCount(c) = CHOOSE m \in counted : \A n \in counted : n <= m
  BY DEF MaxCount
<1>4. \A s \in 1..NumSegments : counts[s] \in Nat
  BY SlotCountsHold DEF IsClass
<1> HIDE DEF counts
<1>5. \E m \in Nat : (\E s \in 1..NumSegments : m = counts[s])
                      /\ \A s \in 1..NumSegments : counts[s] <= m
  BY <1>1, <1>2, GreatestExists
<1>6. \E m \in counted : \A n \in counted : n <= m
  BY <1>5
<1>7. MaxCount(c) \in counted /\ \A n \in counted : n <= MaxCount(c)
  <2> HIDE DEF counted
  <2> QED
    BY <1>3, <1>6, Zenon
<1>8. MaxCount(c) \in Nat
  BY <1>4, <1>7
<1> QED
  BY <1>7, <1>8 DEF counts

LEMMA ClassNumbers ==
    ASSUME NEW c, IsClass(c)
    PROVE  /\ ResolvedSlotCap(c) \in Nat /\ Capacity(c) \in Nat
           /\ ResolvedSlotCap(c) <= Capacity(c)
           /\ OutWidth(c) \in Nat /\ Capacity(c) <= OutWidth(c)
           /\ ArenaLen(c) \in Nat /\ OutWidth(c) <= ArenaLen(c)
           /\ Capacity(c) + MaxCount(c) <= ArenaLen(c)
<1>1. ResolvedSlotCap(c) \in Nat
  <2>1. Total(SlotCounts(c.caps)) \in Nat
    <3>1. SlotCounts(c.caps) \in Seq(Nat)
      BY SlotCountsHold DEF IsClass
    <3>2. Len(SlotCounts(c.caps)) \in 0..Len(SlotCounts(c.caps))
      BY <3>1
    <3> QED
      BY <3>1, <3>2, PrefixDef DEF Total
  <2> QED
    BY <2>1 DEF ResolvedSlotCap, IsClass
<1>2. Capacity(c) \in Nat /\ ResolvedSlotCap(c) <= Capacity(c)
  BY <1>1 DEF Capacity, Even
<1>3. OutWidth(c) \in Nat /\ Capacity(c) <= OutWidth(c)
  BY <1>2, RowCapHolds DEF OutWidth
<1>4. MaxCount(c) \in Nat
  BY MaxCountHolds
<1>5. ArenaLen(c) \in Nat /\ OutWidth(c) <= ArenaLen(c) /\ Capacity(c) + MaxCount(c) <= ArenaLen(c)
  BY <1>2, <1>3, <1>4 DEF ArenaLen, MaxOf
<1> QED
  BY <1>1, <1>2, <1>3, <1>5

LEMMA ClassOfShard ==
    ASSUME shard \in Shards, class \in Classes \cup {FromHeights(shard)}
    PROVE  IsClass(class) /\ shard \in [ChipIds -> Nat]
<1>1. shard \in [ChipIds -> Nat]
  BY LayoutNumbers
<1>2. CASE class \in Classes
  BY <1>1, <1>2, LayoutNumbers DEF IsClass
<1>3. CASE class = FromHeights(shard)
  <2>1. \A i \in ChipIds : Even(shard[i]) \in Nat
    BY <1>1 DEF Even
  <2>2. class.caps = [i \in ChipIds |-> Even(shard[i])] /\ class.slotCap = Unset
    BY <1>3 DEF FromHeights
  <2> QED
    BY <1>1, <2>1, <2>2 DEF IsClass
<1> QED
  BY <1>2, <1>3

\* What the class checks establish of a shard.
Admitted ==
    /\ \A i \in ChipIds : shard[i] <= class.caps[i]
    /\ Total(SlotCounts(shard)) <= ResolvedSlotCap(class)
    /\ NumReal # 0

LEMMA BoundsKeepHeights ==
    ASSUME shard \in [ChipIds -> Nat], BoundsAdmit(class, shard)
    PROVE  FromHeights(shard).caps = shard
<1>1. \A i \in ChipIds : Even(shard[i]) = shard[i]
  BY DEF BoundsAdmit, Even
<1>2. FromHeights(shard).caps = [i \in ChipIds |-> Even(shard[i])]
  BY DEF FromHeights
<1> QED
  BY <1>1, <1>2

(***************************************************************************)
(* Starts of the tight layout.                                             *)
(***************************************************************************)
LEMMA StartsHold ==
    ASSUME NEW heights \in [ChipIds -> Nat]
    PROVE  /\ Prefix(SlotCounts(heights)) \in [0..NumSegments -> Nat]
           /\ Prefix(SlotCounts(heights))[0] = 0
           /\ Prefix(SlotCounts(heights))[NumSegments] = Total(SlotCounts(heights))
           /\ \A s \in 1..NumSegments :
                  Prefix(SlotCounts(heights))[s] =
                      Prefix(SlotCounts(heights))[s - 1] + SlotCounts(heights)[s]
           /\ \A s \in 0..NumSegments : \A t \in s..NumSegments :
                  Prefix(SlotCounts(heights))[s] <= Prefix(SlotCounts(heights))[t]
<1>1. SlotCounts(heights) \in Seq(Nat) /\ Len(SlotCounts(heights)) = NumSegments
  BY SlotCountsHold
<1>2. /\ Prefix(SlotCounts(heights)) \in [0..NumSegments -> Nat]
      /\ Prefix(SlotCounts(heights))[0] = 0
      /\ \A s \in 1..NumSegments :
                  Prefix(SlotCounts(heights))[s] =
                      Prefix(SlotCounts(heights))[s - 1] + SlotCounts(heights)[s]
  BY <1>1, PrefixDef
<1>3. \A s \in 0..NumSegments : \A t \in s..NumSegments :
          Prefix(SlotCounts(heights))[s] <= Prefix(SlotCounts(heights))[t]
  BY <1>1, PrefixMonotone
<1>4. Prefix(SlotCounts(heights))[NumSegments] = Total(SlotCounts(heights))
  BY <1>1 DEF Total
<1> QED
  BY <1>2, <1>3, <1>4

\* A chip's start plus a number of equal counts is the segment's start.
LEMMA TightStart ==
    ASSUME NEW heights \in [ChipIds -> Nat], NEW s \in 1..NumReal
    PROVE  LET tight == SlotCounts(heights)
               i == SegChip(s)
           IN  Prefix(tight)[FirstSeg(i) - 1] + (s - FirstSeg(i)) * tight[FirstSeg(i)]
                   = Prefix(tight)[s - 1]
<1> DEFINE tight == SlotCounts(heights)
           i == SegChip(s)
           f == FirstSeg(i)
           v == tight[f]
<1>1. i \in ChipIds /\ s \in f..Prefix(InteractionCounts)[i]
  BY SegChipExists DEF SegOfChip
<1>2. /\ f \in Nat /\ f >= 1 /\ Prefix(InteractionCounts)[i] <= NumReal
      /\ Prefix(InteractionCounts)[i] \in Nat
  BY <1>1, ChipBounds
<1>3. s \in Nat /\ f <= s /\ s <= Prefix(InteractionCounts)[i] /\ s <= NumReal
      /\ NumReal <= NumSegments /\ NumSegments \in Nat /\ NumReal \in Nat
  BY <1>1, <1>2, SegmentNumbers
<1>4. \A q \in f..s : SegOfChip(q, i)
  BY <1>1, <1>2, <1>3 DEF SegOfChip
<1> HIDE DEF i, f
<1>5. ASSUME NEW q \in f..s
      PROVE  tight[q] = SlotCount(heights[i])
  <2>1. q \in Nat /\ q \in 1..NumSegments
    BY <1>2, <1>3
  <2>2. q \in 1..NumReal /\ SegChip(q) = i
    BY <1>1, <1>4, <2>1, SegChipUnique
  <2>3. q <= NumReal
    BY <2>2, SegmentNumbers
  <2>4. SegmentHeight(heights, q) = heights[i]
    BY <2>2, <2>3 DEF SegmentHeight
  <2> QED
    BY <2>1, <2>4, SlotCountsHold
<1>6. f \in f..s
  BY <1>2, <1>3
<1>7. v = SlotCount(heights[i])
  BY <1>5, <1>6
<1>8. tight \in Seq(Nat) /\ Len(tight) = NumSegments
  BY SlotCountsHold
<1>9. v \in Nat
  <2>1. heights[i] \in Nat /\ heights[i] <= heights[i]
    BY <1>1
  <2> QED
    BY <1>7, <2>1, SlotCountHolds
<1>10. f - 1 \in 0..NumSegments /\ s - 1 \in (f - 1)..NumSegments
  BY <1>2, <1>3
<1>11. \A q \in (f - 1) + 1..s - 1 : tight[q] = v
  <2>1. \A q \in (f - 1) + 1..s - 1 : q \in f..s
    BY <1>2, <1>3
  <2> QED
    BY <1>5, <1>7, <2>1
<1> HIDE DEF tight, v
<1>12. Prefix(tight)[s - 1] = Prefix(tight)[f - 1] + ((s - 1) - (f - 1)) * v
  BY <1>8, <1>9, <1>10, <1>11, PrefixOfEqual
<1>13. (s - 1) - (f - 1) = s - f
  BY <1>2, <1>3
<1>14. Prefix(tight)[s - 1] = Prefix(tight)[f - 1] + (s - f) * v
  BY <1>12, <1>13
<1> QED
  BY <1>14 DEF tight, v, f, i

\* The padding segments' slots end the tight layout.
LEMMA PadSlots ==
    ASSUME NEW heights \in [ChipIds -> Nat]
    PROVE  /\ SlotCount(0) * NumPad \in Nat
           /\ Prefix(SlotCounts(heights))[NumReal] + SlotCount(0) * NumPad
                  = Prefix(SlotCounts(heights))[NumSegments]
<1> DEFINE tight == SlotCounts(heights)
           v == SlotCount(0)
<1>1. /\ NumReal \in 0..NumSegments /\ NumSegments \in NumReal..NumSegments
      /\ NumReal \in Nat /\ NumSegments \in Nat
  BY SegmentNumbers
<1>2. v \in Nat
  BY SlotCountHolds
<1>3. ASSUME NEW q \in NumReal + 1..NumSegments
      PROVE  tight[q] = v
  <2>1. q \in 1..NumSegments /\ ~(q <= NumReal)
    BY <1>1
  <2>2. SegmentHeight(heights, q) = 0
    BY <2>1 DEF SegmentHeight
  <2> QED
    BY <2>1, <2>2, SlotCountsHold
<1>4. tight \in Seq(Nat) /\ Len(tight) = NumSegments
  BY SlotCountsHold
<1> HIDE DEF tight, v
<1>5. Prefix(tight)[NumSegments] = Prefix(tight)[NumReal] + (NumSegments - NumReal) * v
  BY <1>1, <1>2, <1>3, <1>4, PrefixOfEqual
<1>6. NumPad \in Nat /\ NumPad = NumSegments - NumReal
  BY <1>1 DEF NumPad
<1>7. (NumSegments - NumReal) * v = v * NumPad /\ v * NumPad \in Nat
  BY <1>2, <1>6, Z3
<1>8. Prefix(tight)[NumReal] + v * NumPad = Prefix(tight)[NumSegments]
  BY <1>5, <1>7
<1> QED
  BY <1>7, <1>8 DEF tight, v

(***************************************************************************)
(* A write that stays inside the buffer is not clamped.                    *)
(***************************************************************************)
IsArray(s, n) == s = [p \in 1..n |-> s[p]]

LEMMA UpdateInside ==
    ASSUME NEW n \in Nat, NEW m \in Nat, NEW start \in Nat, start + m <= n,
           NEW s, IsArray(s, n), NEW block, IsArray(block, m)
    PROVE  Update(s, block, start) =
               [p \in 1..n |-> IF p \in start + 1..start + m THEN block[p - start] ELSE s[p]]
<1>1. Len(s) = n /\ Len(block) = m
  BY TabulatedSeq DEF IsArray
<1>2. Clamped(start, Len(s) - Len(block)) = start
  BY <1>1 DEF Clamped, MaxOf, MinOf
<1> QED
  BY <1>1, <1>2 DEF Update

(***************************************************************************)
(* The inductive invariant of the stage and of its arena.                  *)
(***************************************************************************)
Starts == Prefix(SlotCounts(shard))
Slot(s, o) == BlockSlot(SegChip(s), s - FirstSeg(SegChip(s)) + 1, o)

StageHolds ==
    /\ shard \in Shards /\ class \in Classes \cup {FromHeights(shard)} /\ pc \in States
    /\ laid \in 0..NumReal
    /\ pc \in {"pack", "admit"} => laid = 0
    /\ pc = "admit" => BoundsAdmit(class, shard)
    /\ pc \in {"lay", "guard", "fold", "prove", "done"} => Admitted
    /\ Laid => laid = NumReal
    /\ IsSeq(opened) /\ Len(opened) <= NumChips

SlotsLaid == \A s \in 1..laid : \A o \in 0..SlotCounts(shard)[s] - 1 :
                 planes[Starts[s - 1] + o + 1] = Slot(s, o)
BlankBehind == \A p \in Starts[laid] + MaxCount(class) + 1..ArenaLen(class) :
                   planes[p] = <<Blank, Blank>>
TailSwept ==
    /\ \A p \in Starts[NumReal] + 1..Starts[NumSegments] : planes[p] = <<Neutral, Neutral>>
    /\ \A p \in Starts[NumSegments] + 1..OutWidth(class) : planes[p] = <<Blank, Blank>>

ArenaHolds ==
    /\ Laying => IsArray(planes, ArenaLen(class)) /\ SlotsLaid /\ BlankBehind
    /\ Laid => IsArray(planes, OutWidth(class)) /\ SlotsLaid /\ TailSwept

\* The slots of a segment depend on the shard, the class and the arrival.
LEMMA SlotStays ==
    ASSUME shard' = shard, class' = class, arrival' = arrival
    PROVE  \A s, o : Slot(s, o)' = Slot(s, o)
<1>1. \A i, row : TraceRow(i, row)' = TraceRow(i, row)
  BY DEF TraceRow
<1>2. \A i, x, row : FormAt(i, x, row)' = FormAt(i, x, row)
  BY <1>1 DEF FormAt
<1>3. \A i, k, row : RowFraction(i, k, row)' = RowFraction(i, k, row)
  BY <1>2 DEF RowFraction
<1>4. \A i, k, o : BlockSlot(i, k, o)' = BlockSlot(i, k, o)
  BY <1>3 DEF BlockSlot
<1> QED
  BY <1>4 DEF Slot

LEMMA ArenaStays ==
    ASSUME ArenaHolds, shard' = shard, class' = class, arrival' = arrival,
           planes' = planes, laid' = laid, Laying' => Laying, Laid' => Laid
    PROVE  ArenaHolds'
<1>1. Starts' = Starts
  BY DEF Starts
<1>2. SlotsLaid' = SlotsLaid
  BY <1>1, SlotStays DEF SlotsLaid
<1>3. BlankBehind' = BlankBehind
  BY <1>1 DEF BlankBehind
<1>4. TailSwept' = TailSwept
  BY <1>1 DEF TailSwept
<1>5. Laying' => IsArray(planes', ArenaLen(class')) /\ SlotsLaid' /\ BlankBehind'
  BY <1>2, <1>3 DEF ArenaHolds
<1>6. Laid' => IsArray(planes', OutWidth(class')) /\ SlotsLaid' /\ TailSwept'
  BY <1>2, <1>4 DEF ArenaHolds
<1> QED
  BY <1>5, <1>6 DEF ArenaHolds

\* The shard's layout is within the class.
LEMMA ShardWithinClass ==
    ASSUME shard \in Shards, class \in Classes \cup {FromHeights(shard)}, Admitted
    PROVE  /\ Starts \in [0..NumSegments -> Nat]
           /\ \A s \in 0..NumSegments : Starts[s] <= Capacity(class)
           /\ \A s \in 1..NumSegments :
                  /\ SlotCounts(shard)[s] \in Nat
                  /\ SlotCounts(shard)[s] <= SlotCounts(class.caps)[s]
                  /\ SlotCounts(class.caps)[s] \in Nat
                  /\ SlotCounts(class.caps)[s] <= MaxCount(class)
                  /\ Starts[s] = Starts[s - 1] + SlotCounts(shard)[s]
           /\ \A s \in 0..NumSegments : \A t \in s..NumSegments : Starts[s] <= Starts[t]
<1>1. IsClass(class) /\ shard \in [ChipIds -> Nat] /\ class.caps \in [ChipIds -> Nat]
  BY ClassOfShard DEF IsClass
<1>2. /\ Starts \in [0..NumSegments -> Nat]
      /\ Starts[NumSegments] = Total(SlotCounts(shard))
      /\ \A s \in 1..NumSegments : Starts[s] = Starts[s - 1] + SlotCounts(shard)[s]
      /\ \A s \in 0..NumSegments : \A t \in s..NumSegments : Starts[s] <= Starts[t]
  BY <1>1, StartsHold DEF Starts
<1>3. /\ NumSegments \in Nat /\ Total(SlotCounts(shard)) <= ResolvedSlotCap(class)
      /\ ResolvedSlotCap(class) \in Nat /\ Capacity(class) \in Nat
      /\ ResolvedSlotCap(class) <= Capacity(class)
  BY <1>1, SegmentNumbers, ClassNumbers DEF Admitted
<1>4. ASSUME NEW s \in 0..NumSegments
      PROVE  Starts[s] <= Capacity(class)
  <2>1. NumSegments \in s..NumSegments /\ NumSegments \in 0..NumSegments
    BY <1>3
  <2>2. Starts[s] <= Starts[NumSegments]
    BY <1>2, <2>1
  <2>3. Starts[s] \in Nat /\ Starts[NumSegments] \in Nat
    BY <1>2, <2>1
  <2> QED
    BY <1>2, <1>3, <2>2, <2>3
<1>5. \A i \in ChipIds : shard[i] <= class.caps[i]
  BY DEF Admitted
<1>6. ASSUME NEW s \in 1..NumSegments
      PROVE  /\ SlotCounts(shard)[s] \in Nat
             /\ SlotCounts(shard)[s] <= SlotCounts(class.caps)[s]
             /\ SlotCounts(class.caps)[s] \in Nat
             /\ SlotCounts(class.caps)[s] <= MaxCount(class)
  <2>1. SlotCounts(shard)[s] \in Nat /\ SlotCounts(class.caps)[s] \in Nat
    BY <1>1, SlotCountsHold
  <2>2. SlotCounts(shard)[s] <= SlotCounts(class.caps)[s]
    BY <1>1, <1>5, SlotCountsMonotone
  <2>3. SlotCounts(class.caps)[s] <= MaxCount(class)
    BY <1>1, MaxCountHolds
  <2> QED
    BY <2>1, <2>2, <2>3
<1> QED
  BY <1>2, <1>4, <1>6

LEMMA AdmitArena ==
    ASSUME StageHolds, AdmitSlots, pc' = "lay"
    PROVE  Admitted' /\ ArenaHolds'
<1>1. pc = "admit" /\ shard' = shard /\ class' = class /\ laid' = laid /\ laid = 0
  BY DEF AdmitSlots, Raise, StageHolds
<1>2. ~(\/ ~SlotCapAdmits(class, shard) \/ OutWidth(class) < Capacity(class) \/ NumReal = 0)
  BY DEF AdmitSlots, Raise
<1>3. planes' = [p \in 1..ArenaLen(class) |-> <<Blank, Blank>>]
  BY <1>2 DEF AdmitSlots
<1>4. IsClass(class) /\ shard \in [ChipIds -> Nat] /\ BoundsAdmit(class, shard)
  BY <1>1, ClassOfShard DEF StageHolds
<1>5. Admitted
  <2>1. \A i \in ChipIds : shard[i] <= class.caps[i]
    BY <1>4 DEF BoundsAdmit
  <2>2. Total(SlotCounts(shard)) <= ResolvedSlotCap(class)
    BY <1>2, <1>4, BoundsKeepHeights DEF SlotCapAdmits
  <2> QED
    BY <1>2, <2>1, <2>2 DEF Admitted
<1>6. Admitted'
  BY <1>1, <1>5 DEF Admitted
<1>7. SlotsLaid'
  BY <1>1 DEF SlotsLaid
<1>8. BlankBehind'
  <2>1. Starts[0] = 0 /\ MaxCount(class) \in Nat /\ ArenaLen(class) \in Nat
    BY <1>4, StartsHold, MaxCountHolds, ClassNumbers DEF Starts
  <2>2. Starts' = Starts
    BY <1>1 DEF Starts
  <2>3. \A p \in Starts[0] + MaxCount(class) + 1..ArenaLen(class) : planes'[p] = <<Blank, Blank>>
    BY <1>3, <2>1
  <2> QED
    BY <1>1, <2>2, <2>3 DEF BlankBehind
<1>9. IsArray(planes', ArenaLen(class'))
  BY <1>1, <1>3 DEF IsArray
<1>10. ~(Laid')
  BY DEF Laid
<1> QED
  BY <1>6, <1>7, <1>8, <1>9, <1>10 DEF ArenaHolds

LEMMA LayInArena ==
    ASSUME StageHolds, ArenaHolds, LayIn
    PROVE  ArenaHolds'
<1> DEFINE s == laid + 1
           i == SegChip(s)
           k == s - FirstSeg(i)
           tight == SlotCounts(shard)
           start == LayStart(s)
           block == LayBlock(s)
           n == ArenaLen(class)
           m == SlotCount(class.caps[i])
           at == Starts[laid]
<1>1. /\ pc = "lay" /\ pc' = pc /\ laid < NumReal /\ laid' = s
      /\ shard' = shard /\ class' = class /\ arrival' = arrival
      /\ planes' = Update(planes, block, start)
  BY DEF LayIn
<1>2. /\ shard \in Shards /\ class \in Classes \cup {FromHeights(shard)} /\ Admitted
      /\ laid \in 0..NumReal
  BY <1>1 DEF StageHolds
<1>3. IsClass(class) /\ shard \in [ChipIds -> Nat] /\ class.caps \in [ChipIds -> Nat]
  BY <1>2, ClassOfShard DEF IsClass
<1>4. /\ NumReal \in Nat /\ NumSegments \in Nat /\ NumReal <= NumSegments
      /\ laid \in Nat /\ s \in Nat /\ s \in 1..NumReal /\ s \in 1..NumSegments
      /\ laid \in 0..NumSegments /\ s - 1 = laid /\ s <= NumReal
  BY <1>1, <1>2, SegmentNumbers
<1>5. IsArray(planes, n) /\ SlotsLaid /\ BlankBehind
  BY <1>1 DEF ArenaHolds, Laying
<1>6. /\ n \in Nat /\ Capacity(class) \in Nat /\ Capacity(class) + MaxCount(class) <= n
      /\ MaxCount(class) \in Nat
  BY <1>3, ClassNumbers, MaxCountHolds
<1>7. start = at
  <2>1. start = Prefix(tight)[s - 1]
    BY <1>3, <1>4, TightStart DEF LayStart
  <2> QED
    BY <1>4, <2>1 DEF Starts
<1>8. i \in ChipIds
  BY <1>4, SegChipExists DEF SegOfChip
<1>9. m = SlotCounts(class.caps)[s] /\ m \in Nat /\ m <= MaxCount(class) /\ tight[s] <= m
      /\ tight[s] \in Nat
  <2>1. SegmentHeight(class.caps, s) = class.caps[i]
    BY <1>4 DEF SegmentHeight
  <2>2. SlotCounts(class.caps)[s] = SlotCount(class.caps[i])
    BY <1>3, <1>4, <2>1, SlotCountsHold
  <2> QED
    BY <1>2, <1>4, <2>2, ShardWithinClass
<1>10. at \in Nat /\ at <= Capacity(class) /\ at + m <= n
  <2>1. at \in Nat /\ at <= Capacity(class)
    BY <1>2, <1>4, ShardWithinClass
  <2> HIDE DEF at, m, n
  <2> QED
    BY <1>6, <1>9, <2>1
<1>11. IsArray(block, m) /\ \A p \in 1..m : block[p] = BlockSlot(i, k + 1, p - 1)
  BY DEF SegmentBlock, LayBlock, IsArray
<1>12. planes' = [p \in 1..n |->
                    IF p \in at + 1..at + m THEN block[p - at] ELSE planes[p]]
  <2> HIDE DEF at, m, n, block, start
  <2>1. planes' = Update(planes, block, at)
    BY <1>1, <1>7
  <2>2. IsArray(block, m)
    BY <1>11
  <2>3. Update(planes, block, at)
            = [p \in 1..n |-> IF p \in at + 1..at + m THEN block[p - at] ELSE planes[p]]
    BY <1>5, <1>6, <1>9, <1>10, <2>2, UpdateInside
  <2> QED
    BY <2>1, <2>3
<1>13. Starts' = Starts /\ SlotCounts(shard') = SlotCounts(shard)
       /\ MaxCount(class') = MaxCount(class) /\ ArenaLen(class') = ArenaLen(class)
  BY <1>1 DEF Starts
<1>14. Starts[s] = at + tight[s] /\ Starts[s] <= Capacity(class) /\ Starts[s] \in Nat
  BY <1>2, <1>4, ShardWithinClass
<1>15. SlotsLaid'
  <2>1. ASSUME NEW t \in 1..s, NEW o \in 0..tight[t] - 1
        PROVE  planes'[Starts[t - 1] + o + 1] = Slot(t, o)
    <3>1. CASE t = s
      <4>1. o \in Nat /\ o + 1 \in 1..m /\ (at + o + 1) - at = o + 1
        BY <1>9, <1>10, <3>1
      <4>2. at + o + 1 \in 1..n /\ at + o + 1 \in at + 1..at + m
        <5> HIDE DEF at, m, n
        <5> QED
          BY <1>6, <1>9, <1>10, <4>1
      <4>3. planes'[at + o + 1] = block[o + 1]
        <5> HIDE DEF at, m, n, block
        <5> QED
          BY <1>12, <4>1, <4>2
      <4>4. block[o + 1] = BlockSlot(i, k + 1, o)
        <5>1. (o + 1) - 1 = o
          BY <4>1
        <5> QED
          BY <1>11, <4>1, <5>1
      <4>5. Starts[t - 1] = at
        BY <1>4, <3>1
      <4>6. Slot(t, o) = BlockSlot(i, k + 1, o)
        BY <3>1 DEF Slot
      <4> QED
        BY <4>3, <4>4, <4>5, <4>6
    <3>2. CASE t # s
      <4>1. t \in 1..laid /\ t \in 1..NumSegments /\ t - 1 \in 0..NumSegments
            /\ t \in 0..NumSegments /\ laid \in t..NumSegments
        BY <1>4, <3>2
      <4>2. /\ tight[t] \in Nat /\ Starts[t] = Starts[t - 1] + tight[t]
            /\ Starts[t] <= at /\ Starts[t - 1] \in Nat
        BY <1>2, <4>1, ShardWithinClass
      <4>3. o \in Nat /\ o + 1 <= tight[t]
        BY <4>2
      <4> DEFINE q == Starts[t - 1] + o + 1
      <4>4. q \in 1..n /\ ~(q \in at + 1..at + m)
        <5> HIDE DEF at, m, n
        <5> QED
          BY <1>6, <1>9, <1>10, <4>2, <4>3
      <4>5. planes'[q] = planes[q]
        <5> HIDE DEF at, m, n, block, q
        <5> QED
          BY <1>12, <4>4
      <4>6. planes[q] = Slot(t, o)
        BY <1>5, <4>1 DEF SlotsLaid
      <4> QED
        BY <4>5, <4>6
    <3> QED
      BY <3>1, <3>2
  <2>2. \A t, o : Slot(t, o)' = Slot(t, o)
    BY <1>1, SlotStays
  <2> QED
    BY <1>1, <1>13, <2>1, <2>2 DEF SlotsLaid
<1>16. BlankBehind'
  <2>1. ASSUME NEW p \in Starts[s] + MaxCount(class) + 1..n
        PROVE  planes'[p] = <<Blank, Blank>>
    <3> HIDE DEF at, m, n, tight
    <3>1. p \in 1..n /\ p \in at + MaxCount(class) + 1..n /\ ~(p \in at + 1..at + m)
      BY <1>6, <1>9, <1>10, <1>14
    <3>2. planes'[p] = planes[p]
      <4> HIDE DEF block
      <4> QED
        BY <1>12, <3>1
    <3> QED
      BY <1>5, <3>1, <3>2 DEF BlankBehind, at, n
  <2> QED
    BY <1>1, <1>13, <2>1 DEF BlankBehind
<1>17. IsArray(planes', ArenaLen(class'))
  <2> HIDE DEF at, m, n, block
  <2>1. IsArray(planes', n)
    BY <1>12 DEF IsArray
  <2> QED
    BY <1>13, <2>1 DEF n
<1>18. ~(Laid')
  BY <1>1 DEF Laid
<1> QED
  BY <1>15, <1>16, <1>17, <1>18 DEF ArenaHolds

LEMMA TrimArray ==
    ASSUME NEW n \in Nat, NEW m \in Nat, m <= n, NEW s, IsArray(s, n)
    PROVE  SubSeq(s, 1, m) = [p \in 1..m |-> s[p]]
<1>1. IsSeq(s) /\ Len(s) = n
  BY TabulatedSeq DEF IsArray
<1>2. PICK S : s \in Seq(S)
  BY <1>1 DEF IsSeq
<1> QED
  BY <1>1, <1>2

LEMMA LayTailArena ==
    ASSUME StageHolds, ArenaHolds, LayTail
    PROVE  ArenaHolds'
<1> DEFINE n == ArenaLen(class)
           w == OutWidth(class)
           pad == SlotCount(0) * NumPad
           m == pad + MaxCount(class)
           at == Starts[NumReal]
           end == Starts[NumSegments]
           tight == SlotCounts(shard)
<1>1. /\ pc = "lay" /\ pc' = "guard" /\ laid = NumReal /\ laid' = laid
      /\ shard' = shard /\ class' = class /\ arrival' = arrival
      /\ planes' = SubSeq(Swept, 1, w) /\ Swept = Update(planes, TailPatch, at)
  BY DEF LayTail, Swept, Starts
<1>2. /\ shard \in Shards /\ class \in Classes \cup {FromHeights(shard)} /\ Admitted
      /\ IsClass(class) /\ shard \in [ChipIds -> Nat]
  BY <1>1, ClassOfShard DEF StageHolds
<1>3. IsArray(planes, n) /\ SlotsLaid /\ BlankBehind
  BY <1>1 DEF ArenaHolds, Laying
<1>4. /\ n \in Nat /\ w \in Nat /\ w <= n /\ Capacity(class) \in Nat /\ Capacity(class) <= w
      /\ Capacity(class) + MaxCount(class) <= n /\ MaxCount(class) \in Nat
  BY <1>2, ClassNumbers, MaxCountHolds
<1>5. /\ NumReal \in Nat /\ NumSegments \in Nat /\ NumReal <= NumSegments
      /\ NumReal \in 0..NumSegments /\ NumSegments \in 0..NumSegments
  BY SegmentNumbers
<1>6. /\ at \in Nat /\ end \in Nat /\ at <= Capacity(class) /\ end <= Capacity(class)
  BY <1>2, <1>5, ShardWithinClass
<1>7. pad \in Nat /\ at + pad = end
  BY <1>2, PadSlots DEF Starts
<1>8. IsArray(TailPatch, m)
      /\ \A p \in 1..m : TailPatch[p] = IF p <= pad THEN <<Neutral, Neutral>> ELSE <<Blank, Blank>>
  BY DEF TailPatch, IsArray
<1> HIDE DEF pad, at, end, n, w
<1>9. m \in Nat /\ at + m <= n
  BY <1>4, <1>6, <1>7
<1>10. Swept = [p \in 1..n |-> IF p \in at + 1..at + m THEN TailPatch[p - at] ELSE planes[p]]
  <2> HIDE DEF m
  <2>1. IsArray(TailPatch, m)
    BY <1>8
  <2>2. Update(planes, TailPatch, at)
            = [p \in 1..n |-> IF p \in at + 1..at + m THEN TailPatch[p - at] ELSE planes[p]]
    BY <1>3, <1>4, <1>6, <1>9, <2>1, UpdateInside
  <2> QED
    BY <1>1, <2>2
<1>11. IsArray(Swept, n)
  BY <1>10 DEF IsArray
<1>12. planes' = [p \in 1..w |-> Swept[p]]
  BY <1>1, <1>4, <1>11, TrimArray
<1>13. IsArray(planes', OutWidth(class'))
  <2>1. IsArray(planes', w)
    BY <1>12 DEF IsArray
  <2> QED
    BY <1>1, <2>1 DEF w
<1>14. \A p \in 1..w : p \in 1..n /\ planes'[p] =
           IF p \in at + 1..at + m THEN TailPatch[p - at] ELSE planes[p]
  <2> HIDE DEF m
  <2> QED
    BY <1>4, <1>10, <1>12
<1>15. Starts' = Starts
  BY <1>1 DEF Starts
<1>16. SlotsLaid'
  <2>1. ASSUME NEW s \in 1..laid, NEW o \in 0..tight[s] - 1
        PROVE  planes'[Starts[s - 1] + o + 1] = Slot(s, o)
    <3>1. s \in 1..NumSegments /\ s - 1 \in 0..NumSegments /\ s \in 0..NumSegments
          /\ NumReal \in s..NumSegments
      BY <1>1, <1>5
    <3>2. /\ tight[s] \in Nat /\ Starts[s] = Starts[s - 1] + tight[s]
          /\ Starts[s] <= at /\ Starts[s - 1] \in Nat
      BY <1>2, <3>1, ShardWithinClass DEF at
    <3>3. o \in Nat /\ o + 1 <= tight[s]
      BY <3>2
    <3> DEFINE q == Starts[s - 1] + o + 1
    <3>4. q \in 1..w /\ ~(q \in at + 1..at + m)
      BY <1>4, <1>6, <3>2, <3>3
    <3>5. planes'[q] = planes[q]
      <4> HIDE DEF q, m
      <4> QED
        BY <1>14, <3>4
    <3>6. planes[q] = Slot(s, o)
      BY <1>3 DEF SlotsLaid
    <3> QED
      BY <3>5, <3>6
  <2>2. \A s, o : Slot(s, o)' = Slot(s, o)
    BY <1>1, SlotStays
  <2> QED
    BY <1>1, <1>15, <2>1, <2>2 DEF SlotsLaid
<1>17. ASSUME NEW p \in at + 1..end
       PROVE  planes'[p] = <<Neutral, Neutral>>
  <2>1. p \in 1..w /\ p \in at + 1..at + m /\ p - at \in 1..m /\ p - at <= pad
    BY <1>4, <1>6, <1>7
  <2> HIDE DEF m
  <2>2. planes'[p] = TailPatch[p - at]
    BY <1>14, <2>1
  <2> QED
    BY <1>8, <2>1, <2>2
<1>18. ASSUME NEW p \in end + 1..w
       PROVE  planes'[p] = <<Blank, Blank>>
  <2>1. p \in 1..w
    BY <1>4, <1>6
  <2>2. CASE p <= at + m
    <3>1. p \in at + 1..at + m /\ p - at \in 1..m /\ ~(p - at <= pad)
      BY <1>4, <1>6, <1>7, <2>2
    <3> HIDE DEF m
    <3>2. planes'[p] = TailPatch[p - at]
      BY <1>14, <2>1, <3>1
    <3> QED
      BY <1>8, <3>1, <3>2
  <2>3. CASE ~(p <= at + m)
    <3>1. ~(p \in at + 1..at + m)
      BY <2>3
    <3>2. p \in at + MaxCount(class) + 1..n
      BY <1>4, <1>6, <1>7, <2>1, <2>3
    <3>3. planes[p] = <<Blank, Blank>>
      BY <1>1, <1>3, <3>2 DEF BlankBehind, at, n
    <3> HIDE DEF m
    <3> QED
      BY <1>14, <2>1, <3>1, <3>3
  <2> QED
    BY <2>2, <2>3
<1>19. TailSwept'
  BY <1>1, <1>15, <1>17, <1>18 DEF TailSwept, at, end, w
<1>20. ~(Laying') /\ Laid'
  BY <1>1 DEF Laying, Laid
<1> QED
  BY <1>13, <1>16, <1>19, <1>20 DEF ArenaHolds

(***************************************************************************)
(* The pyramid.                                                            *)
(***************************************************************************)

\* The class counts and the uncapped widths, transition after transition.
ClassCounts(t) == Iterate([n \in Seq(Nat) |-> NextCounts(n)], SlotCounts(class.caps), t)

NextCount(n) == ((n + 3) \div 4) * 2

LEMMA NextCountHolds ==
    ASSUME NEW a \in Nat, NEW b \in Nat, a <= b
    PROVE  /\ NextCount(a) \in Nat /\ NextCount(b) \in Nat /\ NextCount(a) <= NextCount(b)
           /\ 2 * NextCount(a) <= a + 3
           /\ 2 <= a => 2 <= NextCount(a) /\ NextCount(a) <= a
BY Z3 DEF NextCount

LEMMA NextCountsHold ==
    ASSUME NEW c \in Seq(Nat)
    PROVE  /\ NextCounts(c) \in Seq(Nat) /\ Len(NextCounts(c)) = Len(c)
           /\ \A s \in 1..Len(c) : NextCounts(c)[s] = NextCount(c[s])
<1>1. Len(c) \in Nat /\ \A s \in 1..Len(c) : c[s] \in Nat
  OBVIOUS
<1>2. ASSUME NEW s \in 1..Len(c) PROVE NextCount(c[s]) \in Nat
  <2>1. c[s] \in Nat /\ c[s] <= c[s]
    BY <1>1
  <2> QED
    BY <2>1, NextCountHolds
<1>3. NextCounts(c) = [s \in 1..Len(c) |-> NextCount(c[s])]
  BY DEF NextCounts, NextCount
<1>4. NextCounts(c) \in [1..Len(c) -> Nat]
  BY <1>2, <1>3
<1> QED
  BY <1>1, <1>3, <1>4

LEMMA ClassCountsDef ==
    ASSUME IsClass(class)
    PROVE  /\ ClassCounts(0) = SlotCounts(class.caps)
           /\ \A t \in Nat : /\ ClassCounts(t) \in Seq(Nat)
                             /\ ClassCounts(t + 1) = NextCounts(ClassCounts(t))
<1> DEFINE D == Seq(Nat)
           f == [n \in Seq(Nat) |-> NextCounts(n)]
           a == SlotCounts(class.caps)
<1>1. a \in D /\ f \in [D -> D]
  BY SlotCountsHold, NextCountsHold DEF IsClass
<1>2. \A t : ClassCounts(t) = Iterate(f, a, t)
  BY DEF ClassCounts
<1>3. \A n \in D : f[n] = NextCounts(n)
  OBVIOUS
<1>4. D = Seq(Nat) /\ a = SlotCounts(class.caps)
  OBVIOUS
<1> HIDE DEF D, f, a
<1>5. /\ Iterate(f, a, 0) = a
      /\ \A n \in Nat : /\ Iterate(f, a, n) \in D
                        /\ Iterate(f, a, n + 1) = f[Iterate(f, a, n)]
  BY <1>1, IterateDef
<1>6. ASSUME NEW t \in Nat
      PROVE  ClassCounts(t) \in D /\ ClassCounts(t + 1) = f[ClassCounts(t)]
  <2>1. t + 1 \in Nat
    OBVIOUS
  <2> QED
    BY <1>2, <1>5, <2>1
<1> QED
  BY <1>2, <1>3, <1>4, <1>5, <1>6

LEMMA PyramidWidthDef ==
    ASSUME IsClass(class)
    PROVE  /\ PyramidWidth(0) = Capacity(class)
           /\ \A t \in Nat : /\ PyramidWidth(t) \in Nat
                             /\ PyramidWidth(t + 1) = NextWidth(PyramidWidth(t))
<1> DEFINE D == Nat
           f == [w \in Nat |-> NextWidth(w)]
           a == Capacity(class)
<1>1. a \in D /\ f \in [D -> D]
  <2>1. ASSUME NEW w \in Nat PROVE NextWidth(w) \in Nat
    BY SegmentNumbers DEF NextWidth, Even
  <2> QED
    BY <2>1, ClassNumbers
<1>2. \A t : PyramidWidth(t) = Iterate(f, a, t)
  BY DEF PyramidWidth
<1>3. \A n \in D : f[n] = NextWidth(n)
  OBVIOUS
<1>4. D = Nat /\ a = Capacity(class)
  OBVIOUS
<1> HIDE DEF D, f, a
<1>5. /\ Iterate(f, a, 0) = a
      /\ \A n \in Nat : /\ Iterate(f, a, n) \in D
                        /\ Iterate(f, a, n + 1) = f[Iterate(f, a, n)]
  BY <1>1, IterateDef
<1>6. ASSUME NEW t \in Nat
      PROVE  PyramidWidth(t) \in D /\ PyramidWidth(t + 1) = f[PyramidWidth(t)]
  <2>1. t + 1 \in Nat
    OBVIOUS
  <2> QED
    BY <1>2, <1>5, <2>1
<1> QED
  BY <1>2, <1>3, <1>4, <1>5, <1>6

\* What a layer of a shard keeps of its class.
LayerHolds(x, l) ==
    /\ x \in [counts : Seq(Nat), width : Nat]
    /\ Len(x.counts) = NumSegments
    /\ \A s \in 1..NumSegments :
           /\ 2 <= x.counts[s] /\ x.counts[s] <= ClassCounts(l - 1)[s]
           /\ x.counts[s] <= Pow2(NumRowVariables)
    /\ Len(ClassCounts(l - 1)) = NumSegments
    /\ Total(x.counts) <= PyramidWidth(l - 1)
    /\ x.width = RowCap(PyramidWidth(l - 1))

\* Half the slots and three more a segment fit in the next width.
LEMMA WidthHolds ==
    ASSUME NEW w \in Nat, NEW c \in Nat, NEW d \in Nat, NEW n \in Nat, n = NumSegments,
           2 * d <= c + 3 * n, c <= w
    PROVE  d <= NextWidth(w)
BY Z3 DEF NextWidth, Even

LEMMA NextLayerHolds ==
    ASSUME IsClass(class), NEW l \in Nat, l >= 1, NEW x, LayerHolds(x, l)
    PROVE  LayerHolds([counts |-> NextCounts(x.counts), width |-> RowCap(PyramidWidth(l))], l + 1)
<1> DEFINE c == x.counts
           d == NextCounts(c)
           k == ClassCounts(l - 1)
           y == [counts |-> d, width |-> RowCap(PyramidWidth(l))]
<1>1. l - 1 \in Nat /\ (l - 1) + 1 = l /\ (l + 1) - 1 = l
  OBVIOUS
<1>2. /\ c \in Seq(Nat) /\ Len(c) = NumSegments /\ NumSegments \in Nat
      /\ k \in Seq(Nat) /\ Len(k) = NumSegments
      /\ \A s \in 1..NumSegments : 2 <= c[s] /\ c[s] <= k[s] /\ c[s] <= Pow2(NumRowVariables)
      /\ Total(c) <= PyramidWidth(l - 1)
  BY <1>1, SegmentNumbers, ClassCountsDef DEF LayerHolds
<1>3. /\ PyramidWidth(l) \in Nat /\ PyramidWidth(l - 1) \in Nat
      /\ PyramidWidth(l) = NextWidth(PyramidWidth(l - 1))
      /\ ClassCounts(l) = NextCounts(k)
  BY <1>1, PyramidWidthDef, ClassCountsDef
<1> HIDE DEF c, k
<1>4. /\ d \in Seq(Nat) /\ Len(d) = NumSegments
      /\ \A s \in 1..NumSegments : d[s] = NextCount(c[s])
      /\ Len(ClassCounts(l)) = NumSegments
      /\ \A s \in 1..NumSegments : ClassCounts(l)[s] = NextCount(k[s])
  BY <1>2, <1>3, NextCountsHold
<1> HIDE DEF d
<1>5. ASSUME NEW s \in 1..NumSegments
      PROVE  /\ 2 <= d[s] /\ d[s] <= ClassCounts(l)[s] /\ d[s] <= Pow2(NumRowVariables)
             /\ 2 * d[s] <= c[s] + 3
  <2>1. c[s] \in Nat /\ k[s] \in Nat /\ 2 <= c[s] /\ c[s] <= k[s]
    BY <1>2
  <2>2. /\ NextCount(c[s]) \in Nat /\ NextCount(c[s]) <= NextCount(k[s])
        /\ 2 * NextCount(c[s]) <= c[s] + 3 /\ 2 <= NextCount(c[s]) /\ NextCount(c[s]) <= c[s]
    BY <2>1, NextCountHolds
  <2>3. c[s] <= Pow2(NumRowVariables) /\ Pow2(NumRowVariables) \in Nat
    <3>1. NumRowVariables \in Nat
      BY LayoutNumbers
    <3> QED
      BY <1>2, <3>1, Pow2Def
  <2>4. NextCount(c[s]) <= Pow2(NumRowVariables)
    BY <2>1, <2>2, <2>3
  <2> QED
    BY <1>4, <2>2, <2>4
<1>6. Total(d) <= PyramidWidth(l)
  <2> DEFINE three == [i \in 1..NumSegments |-> 3]
  <2>1. three \in Seq(Nat) /\ Len(three) = NumSegments /\ \A s \in 1..NumSegments : three[s] = 3
    <3>1. three \in [1..NumSegments -> Nat]
      OBVIOUS
    <3> QED
      BY <1>2, <3>1
  <2>2. Prefix(three)[NumSegments] = 3 * NumSegments
    BY <1>2, PrefixOfThrees
  <2> HIDE DEF three
  <2>3. \A n \in 0..Len(c) : 2 * Prefix(d)[n] <= Prefix(c)[n] + Prefix(three)[n]
    <3>1. \A s \in 1..Len(c) : 2 * d[s] <= c[s] + three[s]
      BY <1>2, <1>5, <2>1
    <3> QED
      BY <1>2, <1>4, <2>1, <3>1, PrefixHalved
  <2>4. NumSegments \in 0..NumSegments
    BY <1>2
  <2>5. 2 * Prefix(d)[NumSegments] <= Prefix(c)[NumSegments] + 3 * NumSegments
    BY <1>2, <2>2, <2>3, <2>4
  <2>6. Prefix(c)[NumSegments] \in Nat /\ Prefix(d)[NumSegments] \in Nat
    BY <1>2, <1>4, <2>4, PrefixDef
  <2>7. Total(c) = Prefix(c)[NumSegments] /\ Total(d) = Prefix(d)[NumSegments]
    BY <1>2, <1>4 DEF Total
  <2>8. 2 * Total(d) <= Total(c) + 3 * NumSegments /\ Total(c) \in Nat /\ Total(d) \in Nat
    BY <2>5, <2>6, <2>7
  <2>9. Total(d) <= NextWidth(PyramidWidth(l - 1))
    BY <1>2, <1>3, <2>8, WidthHolds
  <2> QED
    BY <1>3, <2>9
<1>7. y \in [counts : Seq(Nat), width : Nat] /\ y.counts = d /\ y.width = RowCap(PyramidWidth(l))
  BY <1>3, <1>4, RowCapHolds
<1> HIDE DEF y
<1>8. LayerHolds(y, l + 1)
  BY <1>1, <1>4, <1>5, <1>6, <1>7 DEF LayerHolds
<1> QED
  BY <1>8 DEF y, d, c

PyramidHolds ==
    /\ layers \in Seq([counts : Seq(Nat), width : Nat])
    /\ Len(layers) <= NumRowVariables
    /\ pc \in {"pack", "admit", "lay", "guard"} => layers = <<>>
    /\ pc = "fold" => layers # <<>>
    /\ layers # <<>> => \A s \in 1..NumSegments : ClassFloor(class)[s] = 2
    /\ \A l \in 1..Len(layers) : LayerHolds(layers[l], l)
    /\ pc = "prove" =>
           /\ Len(rounds) = Len(layers) /\ IsArray(rounds, Len(layers))
           /\ \A l \in 1..Len(layers) : layers[l].width <= rounds[l].elements

IInv == StageHolds /\ ArenaHolds /\ PyramidHolds

LEMMA InitIInv == Init => IInv
<1> SUFFICES ASSUME Init PROVE IInv
  OBVIOUS
<1> USE DEF Init
<1>1. IsSeq(opened) /\ Len(opened) = 0
  <2>1. opened = <<>> /\ <<>> \in Seq({})
    OBVIOUS
  <2> QED
    BY <2>1 DEF IsSeq
<1>2. 0 \in 0..NumReal /\ 0 <= NumChips
  BY SegmentNumbers, LayoutNumbers
<1>3. StageHolds
  BY <1>1, <1>2 DEF StageHolds, States, Laid
<1>4. ArenaHolds
  BY DEF ArenaHolds, Laying, Laid
<1>5. PyramidHolds
  <2>1. layers = <<>> /\ layers \in Seq([counts : Seq(Nat), width : Nat]) /\ Len(layers) = 0
    OBVIOUS
  <2>2. 0 <= NumRowVariables
    BY LayoutNumbers
  <2> QED
    BY <2>1, <2>2 DEF PyramidHolds
<1> QED
  BY <1>3, <1>4, <1>5 DEF IInv

\* Layers that stay, or lose their last, keep what they hold.
LEMMA LayersStay ==
    ASSUME class' = class
    PROVE  /\ \A t : ClassCounts(t)' = ClassCounts(t) /\ PyramidWidth(t)' = PyramidWidth(t)
           /\ \A x, l : LayerHolds(x, l)' = LayerHolds(x, l)
<1>1. \A t : ClassCounts(t)' = ClassCounts(t) /\ PyramidWidth(t)' = PyramidWidth(t)
  BY DEF ClassCounts, PyramidWidth
<1>2. \A x, l : LayerHolds(x, l)' = LayerHolds(x, l)
  BY <1>1 DEF LayerHolds
<1> QED
  BY <1>1, <1>2

LEMMA PyramidStays ==
    ASSUME PyramidHolds, class' = class, layers' = layers, rounds' = rounds,
           pc' \in {"pack", "admit", "lay", "guard"} => layers = <<>>,
           pc' = "fold" => pc = "fold", pc' = "prove" => pc = "prove"
    PROVE  PyramidHolds'
<1>1. \A x, l : LayerHolds(x, l)' = LayerHolds(x, l)
  BY LayersStay
<1>2. \A l \in 1..Len(layers') : LayerHolds(layers[l], l)'
  BY <1>1 DEF PyramidHolds
<1> QED
  BY <1>2 DEF PyramidHolds

\* A step that only raises.
LEMMA RaiseIInv == IInv /\ Raise => IInv'
<1> SUFFICES ASSUME IInv, Raise PROVE IInv'
  OBVIOUS
<1>1. /\ pc' = "raised" /\ shard' = shard /\ class' = class /\ arrival' = arrival
      /\ laid' = laid /\ planes' = planes /\ layers' = layers /\ rounds' = rounds
      /\ opened' = opened
  BY DEF Raise
<1>2. StageHolds'
  BY <1>1 DEF IInv, StageHolds, States, Laid
<1>3. ArenaHolds'
  BY <1>1 DEF ArenaHolds, Laying, Laid
<1>4. PyramidHolds'
  BY <1>1, PyramidStays DEF IInv
<1> QED
  BY <1>2, <1>3, <1>4 DEF IInv

LEMMA PackArrivalIInv == IInv /\ PackArrival => IInv'
<1> SUFFICES ASSUME IInv, PackArrival PROVE IInv'
  OBVIOUS
<1>1. CASE Raise
  BY <1>1, RaiseIInv
<1>2. CASE ~Raise
  <2>1. /\ pc = "pack" /\ pc' = "admit" /\ BoundsAdmit(class, shard)
        /\ shard' = shard /\ class' = class /\ laid' = laid /\ planes' = planes
        /\ layers' = layers /\ rounds' = rounds /\ opened' = opened
    BY <1>2 DEF PackArrival
  <2>2. BoundsAdmit(class, shard)'
    BY <2>1 DEF BoundsAdmit
  <2>3. StageHolds'
    BY <2>1, <2>2 DEF IInv, StageHolds, States, Laid
  <2>4. ArenaHolds'
    BY <2>1 DEF ArenaHolds, Laying, Laid
  <2>5. PyramidHolds'
    BY <2>1, PyramidStays DEF IInv, PyramidHolds
  <2> QED
    BY <2>3, <2>4, <2>5 DEF IInv
<1> QED
  BY <1>1, <1>2

LEMMA AdmitSlotsIInv == IInv /\ AdmitSlots => IInv'
<1> SUFFICES ASSUME IInv, AdmitSlots PROVE IInv'
  OBVIOUS
<1>1. CASE Raise
  BY <1>1, RaiseIInv
<1>2. CASE ~Raise
  <2>1. /\ pc = "admit" /\ pc' = "lay"
        /\ shard' = shard /\ class' = class /\ laid' = laid /\ arrival' = arrival
        /\ layers' = layers /\ rounds' = rounds /\ opened' = opened
    BY <1>2 DEF AdmitSlots
  <2>2. Admitted' /\ ArenaHolds'
    BY <2>1, AdmitArena DEF IInv
  <2>3. StageHolds'
    BY <2>1, <2>2 DEF IInv, StageHolds, States, Laid
  <2>4. PyramidHolds'
    BY <2>1, PyramidStays DEF IInv, PyramidHolds
  <2> QED
    BY <2>2, <2>3, <2>4 DEF IInv
<1> QED
  BY <1>1, <1>2

LEMMA LayInIInv == IInv /\ LayIn => IInv'
<1> SUFFICES ASSUME IInv, LayIn PROVE IInv'
  OBVIOUS
<1>1. /\ pc = "lay" /\ pc' = pc /\ laid < NumReal /\ laid' = laid + 1
      /\ shard' = shard /\ class' = class /\ layers' = layers /\ rounds' = rounds
      /\ opened' = opened
  BY DEF LayIn
<1>2. laid' \in 0..NumReal
  BY <1>1, SegmentNumbers DEF IInv, StageHolds
<1>3. Admitted'
  BY <1>1 DEF IInv, StageHolds, Admitted
<1>4. StageHolds'
  BY <1>1, <1>2, <1>3 DEF IInv, StageHolds, States, Laid
<1>5. ArenaHolds'
  BY LayInArena DEF IInv
<1>6. PyramidHolds'
  BY <1>1, PyramidStays DEF IInv, PyramidHolds
<1> QED
  BY <1>4, <1>5, <1>6 DEF IInv

LEMMA LayTailIInv == IInv /\ LayTail => IInv'
<1> SUFFICES ASSUME IInv, LayTail PROVE IInv'
  OBVIOUS
<1>1. /\ pc = "lay" /\ pc' = "guard" /\ laid = NumReal /\ laid' = laid
      /\ shard' = shard /\ class' = class /\ layers' = layers /\ rounds' = rounds
      /\ opened' = opened
  BY DEF LayTail
<1>2. Admitted'
  BY <1>1 DEF IInv, StageHolds, Admitted
<1>3. StageHolds'
  BY <1>1, <1>2 DEF IInv, StageHolds, States, Laid
<1>4. ArenaHolds'
  BY LayTailArena DEF IInv
<1>5. PyramidHolds'
  BY <1>1, PyramidStays DEF IInv, PyramidHolds
<1> QED
  BY <1>3, <1>4, <1>5 DEF IInv

\* Once the arena is laid, the later steps leave it alone.
LEMMA LaidStays ==
    ASSUME IInv, pc \in {"guard", "fold", "prove"}, pc' \in {"fold", "prove", "done"},
           shard' = shard, class' = class, arrival' = arrival, laid' = laid,
           planes' = planes, IsSeq(opened'), Len(opened') <= NumChips
    PROVE  StageHolds' /\ ArenaHolds'
<1>1. Admitted'
  BY DEF IInv, StageHolds, Admitted
<1>2. StageHolds'
  BY <1>1 DEF IInv, StageHolds, States, Laid
<1>3. ArenaHolds'
  <2>1. ~(Laying') /\ Laid
    BY DEF Laying, Laid
  <2> QED
    BY <2>1, ArenaStays DEF IInv
<1> QED
  BY <1>2, <1>3

LEMMA FirstLayerHolds ==
    ASSUME IInv, pc = "guard",
           ~(MaxCount(class) > Pow2(NumRowVariables))
    PROVE  LayerHolds([counts |-> SlotCounts(shard), width |-> Len(planes)], 1)
<1> DEFINE x == [counts |-> SlotCounts(shard), width |-> Len(planes)]
<1>1. /\ shard \in Shards /\ class \in Classes \cup {FromHeights(shard)} /\ Admitted
      /\ IsClass(class) /\ shard \in [ChipIds -> Nat] /\ class.caps \in [ChipIds -> Nat]
  BY ClassOfShard DEF IInv, StageHolds, IsClass
<1>2. OutWidth(class) \in Nat /\ IsArray(planes, OutWidth(class))
  BY <1>1, ClassNumbers DEF IInv, ArenaHolds, Laid
<1>3. Len(planes) = OutWidth(class)
  BY <1>2, TabulatedSeq DEF IsArray
<1>4. 1 - 1 = 0 /\ ClassCounts(0) = SlotCounts(class.caps) /\ PyramidWidth(0) = Capacity(class)
  BY <1>1, ClassCountsDef, PyramidWidthDef
<1>5. SlotCounts(shard) \in Seq(Nat) /\ Len(SlotCounts(shard)) = NumSegments
      /\ Len(SlotCounts(class.caps)) = NumSegments
  BY <1>1, SlotCountsHold
<1>6. ASSUME NEW s \in 1..NumSegments
      PROVE  /\ 2 <= SlotCounts(shard)[s] /\ SlotCounts(shard)[s] <= SlotCounts(class.caps)[s]
             /\ SlotCounts(shard)[s] <= Pow2(NumRowVariables)
  <2>1. /\ SlotCounts(shard)[s] \in Nat /\ 2 <= SlotCounts(shard)[s]
    BY <1>1, SlotCountsHold
  <2>2. /\ SlotCounts(shard)[s] <= SlotCounts(class.caps)[s]
        /\ SlotCounts(class.caps)[s] \in Nat /\ SlotCounts(class.caps)[s] <= MaxCount(class)
    BY <1>1, ShardWithinClass
  <2>3. MaxCount(class) \in Nat /\ Pow2(NumRowVariables) \in Nat
    <3>1. NumRowVariables \in Nat
      BY LayoutNumbers
    <3> QED
      BY <1>1, <3>1, MaxCountHolds, Pow2Def
  <2>4. MaxCount(class) <= Pow2(NumRowVariables)
    BY <2>3
  <2> QED
    BY <2>1, <2>2, <2>3, <2>4
<1>7. Total(SlotCounts(shard)) <= Capacity(class)
  <2>1. Total(SlotCounts(shard)) <= ResolvedSlotCap(class)
    BY <1>1 DEF Admitted
  <2>2. ResolvedSlotCap(class) <= Capacity(class) /\ ResolvedSlotCap(class) \in Nat
        /\ Capacity(class) \in Nat
    BY <1>1, ClassNumbers
  <2>3. Total(SlotCounts(shard)) \in Nat
    <3>1. Len(SlotCounts(shard)) \in 0..Len(SlotCounts(shard))
      BY <1>5
    <3> QED
      BY <1>5, <3>1, PrefixDef DEF Total
  <2> QED
    BY <2>1, <2>2, <2>3
<1>8. x \in [counts : Seq(Nat), width : Nat] /\ x.counts = SlotCounts(shard)
      /\ x.width = RowCap(Capacity(class))
  BY <1>2, <1>3, <1>5 DEF OutWidth
<1> HIDE DEF x
<1>9. LayerHolds(x, 1)
  BY <1>4, <1>5, <1>6, <1>7, <1>8 DEF LayerHolds
<1> QED
  BY <1>9 DEF x

LEMMA GuardClassIInv == IInv /\ GuardClass => IInv'
<1> SUFFICES ASSUME IInv, GuardClass PROVE IInv'
  OBVIOUS
<1>1. CASE Raise
  BY <1>1, RaiseIInv
<1>2. CASE ~Raise
  <2> DEFINE x == [counts |-> SlotCounts(shard), width |-> Len(planes)]
  <2>1. /\ pc = "guard" /\ pc' = "fold" /\ layers' = <<x>>
        /\ ~(MaxCount(class) > Pow2(NumRowVariables))
        /\ ~(\E s \in 1..NumSegments : ClassFloor(class)[s] # 2)
        /\ shard' = shard /\ class' = class /\ laid' = laid /\ arrival' = arrival
        /\ planes' = planes /\ rounds' = rounds /\ opened' = opened
    BY <1>2 DEF GuardClass
  <2>2. StageHolds' /\ ArenaHolds'
    BY <2>1, LaidStays DEF IInv, StageHolds
  <2>3. LayerHolds(x, 1)
    BY <2>1, FirstLayerHolds
  <2>4. x \in [counts : Seq(Nat), width : Nat]
    BY <2>3 DEF LayerHolds
  <2> HIDE DEF x
  <2>5. /\ layers' \in Seq([counts : Seq(Nat), width : Nat]) /\ Len(layers') = 1
        /\ layers'[1] = x /\ layers' # <<>>
    BY <2>1, <2>4
  <2>6. \A l \in 1..Len(layers') : LayerHolds(layers'[l], l)
    BY <2>3, <2>5
  <2>7. \A l \in 1..Len(layers') : LayerHolds(layers[l], l)'
    <3>1. \A y, l : LayerHolds(y, l)' = LayerHolds(y, l)
      BY <2>1, LayersStay
    <3> QED
      BY <2>6, <3>1
  <2>8. 1 <= NumRowVariables
    BY LayoutNumbers
  <2>9. PyramidHolds'
    BY <2>1, <2>5, <2>7, <2>8 DEF PyramidHolds
  <2> QED
    BY <2>2, <2>9 DEF IInv
<1> QED
  BY <1>1, <1>2

LEMMA TransitionIInv == IInv /\ Transition => IInv'
<1> SUFFICES ASSUME IInv, Transition PROVE IInv'
  OBVIOUS
<1> DEFINE n == Len(layers)
           x == layers[n]
           y == [counts |-> NextCounts(x.counts), width |-> RowCap(PyramidWidth(n))]
           L == [counts : Seq(Nat), width : Nat]
<1>1. /\ pc = "fold" /\ pc' = pc /\ n < NumRowVariables /\ layers' = Append(layers, y)
      /\ shard' = shard /\ class' = class /\ laid' = laid /\ arrival' = arrival
      /\ planes' = planes /\ rounds' = rounds /\ opened' = opened
  BY DEF Transition
<1>2. StageHolds' /\ ArenaHolds'
  BY <1>1, LaidStays DEF IInv, StageHolds
<1>3. /\ layers \in Seq(L) /\ layers # <<>> /\ \A l \in 1..n : LayerHolds(layers[l], l)
      /\ NumRowVariables \in Nat
  BY <1>1, LayoutNumbers DEF IInv, PyramidHolds
<1>4. n \in Nat /\ n >= 1 /\ n \in 1..n
  BY <1>3
<1>5. LayerHolds(x, n)
  BY <1>3, <1>4
<1>6. IsClass(class)
  BY ClassOfShard DEF IInv, StageHolds
<1>7. LayerHolds(y, n + 1)
  BY <1>4, <1>5, <1>6, NextLayerHolds
<1>8. y \in L
  BY <1>7 DEF LayerHolds
<1> HIDE DEF y, L
<1>9. /\ layers' \in Seq(L) /\ Len(layers') = n + 1 /\ layers' # <<>>
      /\ layers'[n + 1] = y /\ \A l \in 1..n : layers'[l] = layers[l]
  BY <1>1, <1>3, <1>8
<1> HIDE DEF n, x
<1>10. \A l \in 1..Len(layers') : LayerHolds(layers'[l], l)
  <2> SUFFICES ASSUME NEW l \in 1..n + 1 PROVE LayerHolds(layers'[l], l)
    BY <1>9
  <2>1. CASE l = n + 1
    BY <2>1, <1>7, <1>9
  <2>2. CASE l # n + 1
    <3>1. l \in 1..n
      BY <1>4, <2>2
    <3> QED
      BY <3>1, <1>3, <1>9
  <2> QED
    BY <2>1, <2>2
<1>11. \A l \in 1..Len(layers') : LayerHolds(layers[l], l)'
  <2>1. \A z, l : LayerHolds(z, l)' = LayerHolds(z, l)
    BY <1>1, LayersStay
  <2> QED
    BY <1>10, <2>1
<1>12. n + 1 <= NumRowVariables
  BY <1>1, <1>3, <1>4
<1>13. PyramidHolds'
  BY <1>1, <1>3, <1>9, <1>11, <1>12 DEF IInv, PyramidHolds, L
<1> QED
  BY <1>2, <1>13 DEF IInv

LEMMA ExtractOutputsIInv == IInv /\ ExtractOutputs => IInv'
<1> SUFFICES ASSUME IInv, ExtractOutputs PROVE IInv'
  OBVIOUS
<1>1. CASE Raise
  BY <1>1, RaiseIInv
<1>2. CASE ~Raise
  <2> DEFINE n == Len(layers)
  <2>1. /\ pc = "fold" /\ pc' = "prove" /\ rounds' = LayerCaps(n) /\ layers' = layers
        /\ shard' = shard /\ class' = class /\ laid' = laid /\ arrival' = arrival
        /\ planes' = planes /\ opened' = opened
    BY <1>2 DEF ExtractOutputs
  <2>2. StageHolds' /\ ArenaHolds'
    BY <2>1, LaidStays DEF IInv, StageHolds
  <2>3. /\ n \in Nat /\ n <= NumRowVariables /\ layers # <<>>
        /\ \A l \in 1..n : LayerHolds(layers[l], l)
    BY <2>1 DEF IInv, PyramidHolds
  <2>4. IsClass(class)
    BY ClassOfShard DEF IInv, StageHolds
  <2>5. IsArray(rounds', n)
    BY <2>1 DEF LayerCaps, IsArray
  <2>6. Len(rounds') = n
    BY <2>3, <2>5, TabulatedSeq DEF IsArray
  <2>7. ASSUME NEW l \in 1..n
        PROVE  layers[l].width <= rounds'[l].elements
    <3> DEFINE w == PyramidWidth(l - 1)
    <3>a. l - 1 \in Nat /\ (l = 1 => l - 1 = 0)
      BY <2>3
    <3>1. w \in Nat /\ (l = 1 => w = Capacity(class))
      BY <2>4, <3>a, PyramidWidthDef
    <3>2. layers[l].width = RowCap(w)
      BY <2>3 DEF LayerHolds
    <3>3. rounds'[l].elements = RowCap(IF l = 1 THEN Capacity(class) ELSE RowCap(w))
      BY <2>1 DEF LayerCaps
    <3> HIDE DEF w
    <3>4. RowCap(w) \in Nat /\ RowCap(RowCap(w)) \in Nat /\ RowCap(w) <= RowCap(RowCap(w))
      BY <3>1, RowCapHolds
    <3> QED
      BY <3>1, <3>2, <3>3, <3>4
  <2>8. \A l \in 1..n : LayerHolds(layers[l], l)'
    <3>1. \A z, l : LayerHolds(z, l)' = LayerHolds(z, l)
      BY <2>1, LayersStay
    <3>2. \A l \in 1..n : LayerHolds(layers'[l], l)
      BY <2>1, <2>3
    <3> QED
      BY <3>1, <3>2
  <2>9. PyramidHolds'
    BY <2>1, <2>5, <2>6, <2>7, <2>8 DEF IInv, PyramidHolds
  <2> QED
    BY <2>2, <2>9 DEF IInv
<1> QED
  BY <1>1, <1>2

LEMMA ProveLayerIInv == IInv /\ ProveLayer => IInv'
<1> SUFFICES ASSUME IInv, ProveLayer PROVE IInv'
  OBVIOUS
<1> DEFINE n == Len(layers)
           L == [counts : Seq(Nat), width : Nat]
<1>1. /\ pc = "prove" /\ pc' = pc /\ layers # <<>>
      /\ layers' = SubSeq(layers, 1, n - 1) /\ rounds' = SubSeq(rounds, 1, Len(rounds) - 1)
      /\ shard' = shard /\ class' = class /\ laid' = laid /\ arrival' = arrival
      /\ planes' = planes /\ opened' = opened
  BY DEF ProveLayer
<1>2. StageHolds' /\ ArenaHolds'
  BY <1>1, LaidStays DEF IInv, StageHolds
<1>3. /\ layers \in Seq(L) /\ \A l \in 1..n : LayerHolds(layers[l], l)
      /\ Len(rounds) = n /\ IsArray(rounds, n) /\ n <= NumRowVariables
      /\ \A l \in 1..n : layers[l].width <= rounds[l].elements
      /\ NumRowVariables \in Nat
      /\ \A s \in 1..NumSegments : ClassFloor(class)[s] = 2
  BY <1>1, LayoutNumbers DEF IInv, PyramidHolds
<1> HIDE DEF L
<1>4. n \in Nat /\ n - 1 \in Nat /\ n - 1 <= n
  BY <1>1, <1>3
<1>5. /\ layers' \in Seq(L) /\ Len(layers') = n - 1
      /\ \A l \in 1..n - 1 : layers'[l] = layers[l]
  BY <1>1, <1>3, <1>4
<1> HIDE DEF n
<1>6. rounds' = [p \in 1..n - 1 |-> rounds[p]]
  BY <1>1, <1>3, <1>4, TrimArray
<1>7. IsArray(rounds', n - 1)
  BY <1>6 DEF IsArray
<1>8. Len(rounds') = n - 1
  BY <1>4, <1>7, TabulatedSeq DEF IsArray
<1>9. \A l \in 1..n - 1 : l \in 1..n /\ layers'[l].width <= rounds'[l].elements
  BY <1>3, <1>4, <1>5, <1>6
<1>10. \A l \in 1..n - 1 : LayerHolds(layers[l], l)'
  <2>1. \A z, l : LayerHolds(z, l)' = LayerHolds(z, l)
    BY <1>1, LayersStay
  <2>2. \A l \in 1..n - 1 : LayerHolds(layers'[l], l)
    BY <1>3, <1>5, <1>9
  <2> QED
    BY <2>1, <2>2
<1>11. n - 1 <= NumRowVariables
  BY <1>3, <1>4
<1>12. PyramidHolds'
  BY <1>1, <1>3, <1>5, <1>7, <1>8, <1>9, <1>10, <1>11 DEF PyramidHolds, L
<1> QED
  BY <1>2, <1>12 DEF IInv

LEMMA OpenTracesIInv == IInv /\ OpenTraces => IInv'
<1> SUFFICES ASSUME IInv, OpenTraces PROVE IInv'
  OBVIOUS
<1> DEFINE e == [main |-> OpenMain(Len(opened) + 1), prep |-> OpenPrep(Len(opened) + 1)]
<1>1. /\ pc = "prove" /\ pc' \in {"prove", "done"} /\ Len(opened) < NumChips
      /\ opened' = Append(opened, e) /\ layers' = layers /\ rounds' = rounds
      /\ shard' = shard /\ class' = class /\ laid' = laid /\ arrival' = arrival
      /\ planes' = planes
  BY DEF OpenTraces
<1> HIDE DEF e
<1>2. IsSeq(opened') /\ Len(opened') = Len(opened) + 1 /\ Len(opened) \in Nat
  BY <1>1, LongerSeq DEF IInv, StageHolds
<1>3. Len(opened') <= NumChips
  BY <1>1, <1>2, LayoutNumbers
<1>4. StageHolds' /\ ArenaHolds'
  BY <1>1, <1>2, <1>3, LaidStays
<1>5. PyramidHolds'
  BY <1>1, PyramidStays DEF IInv
<1> QED
  BY <1>4, <1>5 DEF IInv

LEMMA StutterIInv == IInv /\ UNCHANGED vars => IInv'
<1> SUFFICES ASSUME IInv, UNCHANGED vars PROVE IInv'
  OBVIOUS
<1>1. /\ pc' = pc /\ shard' = shard /\ class' = class /\ arrival' = arrival
      /\ laid' = laid /\ planes' = planes /\ layers' = layers /\ rounds' = rounds
      /\ opened' = opened
  BY DEF vars
<1>2. StageHolds'
  <2>1. Admitted' = Admitted /\ BoundsAdmit(class, shard)' = BoundsAdmit(class, shard)
    BY <1>1 DEF Admitted, BoundsAdmit
  <2> QED
    BY <1>1, <2>1 DEF IInv, StageHolds, Laid
<1>3. ArenaHolds'
  BY <1>1, ArenaStays DEF IInv, Laying, Laid
<1>4. PyramidHolds'
  BY <1>1, PyramidStays DEF IInv, PyramidHolds
<1> QED
  BY <1>2, <1>3, <1>4 DEF IInv

LEMMA NextIInv == IInv /\ [Next]_vars => IInv'
<1> SUFFICES ASSUME IInv, [Next]_vars PROVE IInv'
  OBVIOUS
<1>1. CASE PackArrival
  BY <1>1, PackArrivalIInv
<1>2. CASE AdmitSlots
  BY <1>2, AdmitSlotsIInv
<1>3. CASE LayIn
  BY <1>3, LayInIInv
<1>4. CASE LayTail
  BY <1>4, LayTailIInv
<1>5. CASE GuardClass
  BY <1>5, GuardClassIInv
<1>6. CASE Transition
  BY <1>6, TransitionIInv
<1>7. CASE ExtractOutputs
  BY <1>7, ExtractOutputsIInv
<1>8. CASE ProveLayer
  BY <1>8, ProveLayerIInv
<1>9. CASE OpenTraces
  BY <1>9, OpenTracesIInv
<1>10. CASE Ended
  BY <1>10, StutterIInv DEF Ended
<1>11. CASE UNCHANGED vars
  BY <1>11, StutterIInv
<1> QED
  BY <1>1, <1>2, <1>3, <1>4, <1>5, <1>6, <1>7, <1>8, <1>9, <1>10, <1>11 DEF Next

LEMMA AlwaysIInv == Spec => []IInv
BY InitIInv, NextIInv, PTL DEF Spec

(***************************************************************************)
(* The theorems.                                                           *)
(***************************************************************************)

\* Every variable has its type: the arena has the length of its class while
\* it is laid and the first layer the class width after.
THEOREM TypeCorrect == Spec => []TypeOK
<1>1. IInv => TypeOK
  <2> SUFFICES ASSUME IInv PROVE TypeOK
    OBVIOUS
  <2>1. IsClass(class)
    BY ClassOfShard DEF IInv, StageHolds
  <2>2. ArenaLen(class) \in Nat /\ OutWidth(class) \in Nat
    BY <2>1, ClassNumbers
  <2>3. Laying => Len(planes) = ArenaLen(class)
    BY <2>2, TabulatedSeq DEF IInv, ArenaHolds, IsArray
  <2>4. Laid => Len(planes) = OutWidth(class)
    BY <2>2, TabulatedSeq DEF IInv, ArenaHolds, IsArray
  <2> QED
    BY <2>3, <2>4 DEF IInv, StageHolds, PyramidHolds, TypeOK
<1> QED
  BY <1>1, AlwaysIInv, PTL

\* The overlapping class-sized writes leave every segment's slots at its
\* tight start, neutral padding behind them and zeros to the end, for every
\* machine, class and admitted shard.
THEOREM TightLayout == Spec => []LayoutIsTight
<1>1. IInv => LayoutIsTight
  <2> SUFFICES ASSUME IInv PROVE LayoutIsTight
    OBVIOUS
  <2>1. Laying \/ Laid => SlotsLaid
    BY DEF IInv, ArenaHolds
  <2>2. Laid => TailSwept
    BY DEF IInv, ArenaHolds
  <2> QED
    BY <2>1, <2>2 DEF LayoutIsTight, SlotsLaid, TailSwept, Starts, Slot
<1> QED
  BY <1>1, AlwaysIInv, PTL

\* No layer of an admitted shard is truncated by the static widths of its
\* class, and its floor is the saturated one, for every machine and class.
THEOREM PyramidHoldsShard == Spec => []PyramidFits
<1>1. IInv => PyramidFits
  <2> SUFFICES ASSUME IInv PROVE PyramidFits
    OBVIOUS
  <2>1. /\ \A l \in 1..Len(layers) : LayerHolds(layers[l], l)
        /\ layers \in Seq([counts : Seq(Nat), width : Nat]) /\ Len(layers) \in Nat
    BY DEF IInv, PyramidHolds
  <2>2. IsClass(class)
    BY ClassOfShard DEF IInv, StageHolds
  <2>3. ASSUME NEW l \in 1..Len(layers)
        PROVE  /\ Total(layers[l].counts) <= layers[l].width
               /\ \A s \in 1..NumSegments : layers[l].counts[s] <= Pow2(NumRowVariables)
    <3>1. LayerHolds(layers[l], l)
      BY <2>1
    <3>2. PyramidWidth(l - 1) \in Nat
      <4>1. l - 1 \in Nat
        BY <2>1
      <4> QED
        BY <2>2, <4>1, PyramidWidthDef
    <3>3. PyramidWidth(l - 1) <= RowCap(PyramidWidth(l - 1)) /\ RowCap(PyramidWidth(l - 1)) \in Nat
      BY <3>2, RowCapHolds
    <3>4. Total(layers[l].counts) \in Nat
      <4>1. layers[l].counts \in Seq(Nat)
        BY <3>1 DEF LayerHolds
      <4>2. Len(layers[l].counts) \in 0..Len(layers[l].counts)
        BY <4>1
      <4> QED
        BY <4>1, <4>2, PrefixDef DEF Total
    <3>5. /\ Total(layers[l].counts) <= PyramidWidth(l - 1)
          /\ layers[l].width = RowCap(PyramidWidth(l - 1))
      BY <3>1 DEF LayerHolds
    <3>6. Total(layers[l].counts) <= layers[l].width
      BY <3>2, <3>3, <3>4, <3>5
    <3> QED
      BY <3>1, <3>6 DEF LayerHolds
  <2>4. ASSUME Len(layers) = NumRowVariables, NEW s \in 1..NumSegments
        PROVE  layers[NumRowVariables].counts[s] = 2
    <3>1. NumRowVariables \in Nat /\ NumRowVariables \in 1..Len(layers) /\ layers # <<>>
      BY <2>1, <2>4, LayoutNumbers
    <3>2. LayerHolds(layers[NumRowVariables], NumRowVariables)
      BY <2>1, <3>1
    <3>3. ClassFloor(class) = ClassCounts(NumRowVariables - 1)
      BY DEF ClassFloor, ClassCounts
    <3>4. ClassCounts(NumRowVariables - 1)[s] = 2
      BY <3>1, <3>3 DEF IInv, PyramidHolds
    <3>5. /\ layers[NumRowVariables].counts \in Seq(Nat)
          /\ Len(layers[NumRowVariables].counts) = NumSegments
          /\ 2 <= layers[NumRowVariables].counts[s]
          /\ layers[NumRowVariables].counts[s] <= ClassCounts(NumRowVariables - 1)[s]
      BY <3>2 DEF LayerHolds
    <3>6. layers[NumRowVariables].counts[s] \in Nat
      BY <3>5
    <3> QED
      BY <3>4, <3>5, <3>6
  <2>5. pc = "prove" =>
           /\ Len(rounds) = Len(layers)
           /\ \A l \in 1..Len(layers) : layers[l].width <= rounds[l].elements
    BY DEF IInv, PyramidHolds
  <2> QED
    BY <2>3, <2>4, <2>5 DEF PyramidFits
<1> QED
  BY <1>1, AlwaysIInv, PTL

(***************************************************************************)
(* Openings.  Live is what a fold of n rows of a column from row a on      *)
(* holds: every live row of them at its own point.                         *)
(***************************************************************************)
Live(column, height, a, n) ==
    {<<r - a, column[r + 1]>> :
        r \in {q \in a..a + n - 1 : q < height /\ column[q + 1] # Zero}}

(***************************************************************************)
(* Two folds of n rows, the second moved up by n, are one fold of 2n rows. *)
(***************************************************************************)
LEMMA LiveJoins ==
    ASSUME NEW c, NEW h \in Nat, NEW a \in Nat, NEW n \in Nat
    PROVE  Live(c, h, a, n) \cup {<<x[1] + n, x[2]>> : x \in Live(c, h, a + n, n)}
               = Live(c, h, a, n + n)
<1> DEFINE shifted == {<<x[1] + n, x[2]>> : x \in Live(c, h, a + n, n)}
<1>1. ASSUME NEW y \in Live(c, h, a, n) PROVE y \in Live(c, h, a, n + n)
  <2>1. PICK r \in a..a + n - 1 : r < h /\ c[r + 1] # Zero /\ y = <<r - a, c[r + 1]>>
    BY <1>1 DEF Live
  <2>2. r \in a..a + (n + n) - 1
    OBVIOUS
  <2> QED
    BY <2>1, <2>2 DEF Live
<1>2. ASSUME NEW y \in shifted PROVE y \in Live(c, h, a, n + n)
  <2>1. PICK x \in Live(c, h, a + n, n) : y = <<x[1] + n, x[2]>>
    BY <1>2
  <2>2. PICK r \in (a + n)..(a + n) + n - 1 :
            r < h /\ c[r + 1] # Zero /\ x = <<r - (a + n), c[r + 1]>>
    BY <2>1 DEF Live
  <2>3. r \in a..a + (n + n) - 1 /\ (r - (a + n)) + n = r - a
    OBVIOUS
  <2>4. y = <<r - a, c[r + 1]>>
    BY <2>1, <2>2, <2>3
  <2> QED
    BY <2>2, <2>3, <2>4 DEF Live
<1>3. ASSUME NEW y \in Live(c, h, a, n + n) PROVE y \in Live(c, h, a, n) \cup shifted
  <2>1. PICK r \in a..a + (n + n) - 1 : r < h /\ c[r + 1] # Zero /\ y = <<r - a, c[r + 1]>>
    BY <1>3 DEF Live
  <2>2. CASE r < a + n
    <3>1. r \in a..a + n - 1
      BY <2>2
    <3> QED
      BY <2>1, <3>1 DEF Live
  <2>3. CASE ~(r < a + n)
    <3>1. r \in (a + n)..(a + n) + n - 1 /\ (r - (a + n)) + n = r - a
      BY <2>3
    <3>2. PICK x : x = <<r - (a + n), c[r + 1]>>
      OBVIOUS
    <3>3. x \in Live(c, h, a + n, n)
      BY <2>1, <3>1, <3>2 DEF Live
    <3>4. y = <<x[1] + n, x[2]>>
      BY <2>1, <3>1, <3>2
    <3> QED
      BY <3>3, <3>4
  <2> QED
    BY <2>2, <2>3
<1> QED
  BY <1>1, <1>2, <1>3

(***************************************************************************)
(* A column folded over its first variables, 2^m values of 2^t rows each.  *)
(***************************************************************************)
Folded(c, h, base, t, m) ==
    [j \in 1..Pow2(m) |-> Live(c, h, base + (j - 1) * Pow2(t), Pow2(t))]

(***************************************************************************)
(* Binding a row variable turns folds of 2^t rows into folds of 2^(t+1).   *)
(***************************************************************************)
LEMMA BindRowsFolds ==
    ASSUME NEW c, NEW h \in Nat, NEW base \in Nat, NEW t \in Nat, NEW m \in Nat
    PROVE  BindRows(Folded(c, h, base, t, m + 1), t) = Folded(c, h, base, t + 1, m)
<1>1. PICK f : f = Folded(c, h, base, t, m + 1)
  OBVIOUS
<1>2. PICK p \in Nat : p = Pow2(t) /\ p >= 1 /\ Pow2(t + 1) = 2 * p
  BY Pow2Def
<1>3. PICK q \in Nat : q = Pow2(m) /\ Pow2(m + 1) = 2 * q
  BY Pow2Def
<1>4. f = [j \in 1..2 * q |-> Live(c, h, base + (j - 1) * p, p)]
  BY <1>1, <1>2, <1>3 DEF Folded
<1>5. Len(f) = 2 * q
  <2>1. 2 * q \in Nat
    OBVIOUS
  <2>2. f = [j \in 1..2 * q |-> f[j]]
    BY <1>4
  <2> QED
    BY ONLY <2>1, <2>2, TabulatedSeq
<1>6. Len(f) \div 2 = q
  BY ONLY <1>5, q \in Nat, Z3
<1>7. ASSUME NEW j \in 1..q
      PROVE  f[2 * j - 1] \cup {<<x[1] + p, x[2]>> : x \in f[2 * j]}
                 = Live(c, h, base + (j - 1) * (2 * p), 2 * p)
  <2>1. 2 * j - 1 \in 1..2 * q /\ 2 * j \in 1..2 * q /\ j - 1 \in Nat
    BY ONLY j \in 1..q, q \in Nat
  <2>2. PICK a \in Nat : a = base + (j - 1) * (2 * p)
    <3>1. base + (j - 1) * (2 * p) \in Nat
      BY <2>1, Z3
    <3> QED
      BY <3>1
  <2>3. base + ((2 * j - 1) - 1) * p = a /\ base + (2 * j - 1) * p = a + p
    BY ONLY <2>1, <2>2, base \in Nat, p \in Nat, j \in 1..q, q \in Nat, Z3
  <2>4. f[2 * j - 1] = Live(c, h, a, p) /\ f[2 * j] = Live(c, h, a + p, p)
    BY ONLY <1>4, <2>1, <2>3
  <2>5. p + p = 2 * p
    BY ONLY p \in Nat
  <2>6. f[2 * j - 1] \cup {<<x[1] + p, x[2]>> : x \in f[2 * j]}
            = Live(c, h, a, p) \cup {<<x[1] + p, x[2]>> : x \in Live(c, h, a + p, p)}
    BY ONLY <2>4, Zenon
  <2>7. Live(c, h, a, p) \cup {<<x[1] + p, x[2]>> : x \in Live(c, h, a + p, p)}
            = Live(c, h, a, p + p)
    BY LiveJoins
  <2> QED
    BY ONLY <2>2, <2>5, <2>6, <2>7, Zenon
<1>8. BindRows(f, t) = [j \in 1..q |-> f[2 * j - 1] \cup {<<x[1] + p, x[2]>> : x \in f[2 * j]}]
  BY ONLY <1>2, <1>6, Zenon DEF BindRows
<1>9. Folded(c, h, base, t + 1, m) = [j \in 1..q |-> Live(c, h, base + (j - 1) * (2 * p), 2 * p)]
  BY ONLY <1>2, <1>3, Zenon DEF Folded
<1>10. BindRows(f, t) = Folded(c, h, base, t + 1, m)
  BY ONLY <1>7, <1>8, <1>9
<1> QED
  BY ONLY <1>1, <1>10

(***************************************************************************)
(* Binding all the variables that are left leaves one value, the column.   *)
(***************************************************************************)
Binds(mles, from, to, b) ==
    b = [t \in from..to |-> IF t = from THEN mles ELSE BindRows(b[t - 1], t - 1)]

(***************************************************************************)
(* Binding the variables from one to another leaves the fold of all the    *)
(* rows between.                                                           *)
(***************************************************************************)
LEMMA BindAllFolds ==
    ASSUME NEW c, NEW h \in Nat, NEW base \in Nat, NEW from \in Nat, NEW m \in Nat,
           NEW mles, mles = Folded(c, h, base, from, m)
    PROVE  BindAll(mles, from, from + m)[1] = Live(c, h, base, Pow2(from + m))
<1>1. PICK to \in Nat : to = from + m
  OBVIOUS
<1>2. PICK q : q = [t \in from..to |-> Folded(c, h, base, t, to - t)]
  OBVIOUS
<1>3. to - from = m /\ from \in from..to /\ to \in from..to
  BY <1>1
<1>4. ASSUME NEW t \in from + 1..to PROVE q[t] = BindRows(q[t - 1], t - 1)
  <2>1. /\ t - 1 \in from..to /\ t \in from..to /\ t - 1 \in Nat /\ to - t \in Nat
        /\ to - (t - 1) = (to - t) + 1 /\ (t - 1) + 1 = t
    BY <1>1
  <2>2. q[t - 1] = Folded(c, h, base, t - 1, (to - t) + 1) /\ q[t] = Folded(c, h, base, t, to - t)
    BY ONLY <1>2, <2>1
  <2>3. BindRows(Folded(c, h, base, t - 1, (to - t) + 1), t - 1)
            = Folded(c, h, base, (t - 1) + 1, to - t)
    <3>1. PICK k \in Nat : k = t - 1
      BY <2>1
    <3>2. PICK e \in Nat : e = to - t
      BY <2>1
    <3>3. BindRows(Folded(c, h, base, k, e + 1), k) = Folded(c, h, base, k + 1, e)
      BY BindRowsFolds
    <3> QED
      BY ONLY <3>1, <3>2, <3>3
  <2> QED
    BY ONLY <2>1, <2>2, <2>3
<1>5. q[from] = mles
  BY ONLY <1>2, <1>3, mles = Folded(c, h, base, from, m)
<1>6. Binds(mles, from, to, q)
  <2>1. ASSUME NEW t \in from..to
        PROVE  q[t] = (IF t = from THEN mles ELSE BindRows(q[t - 1], t - 1))
    <3>1. t = from \/ (t \in from + 1..to /\ t # from)
      BY <1>1
    <3> QED
      BY ONLY <3>1, <1>4, <1>5, Zenon
  <2>2. q = [t \in from..to |-> q[t]]
    BY <1>2
  <2> QED
    BY ONLY <2>1, <2>2, Zenon DEF Binds
<1>7. PICK b : b = (CHOOSE x : Binds(mles, from, to, x))
  OBVIOUS
<1>8. Binds(mles, from, to, b)
  BY ONLY <1>6, <1>7, Zenon
<1>9. BindAll(mles, from, to) = b[to]
  BY ONLY <1>7, Zenon DEF BindAll, Binds
<1>10. b[to] = q[to]
  <2>1. \A t \in from..to : b[t] = (IF t = from THEN mles ELSE BindRows(b[t - 1], t - 1))
    BY ONLY <1>8 DEF Binds
  <2>2. PICK u : u = [k \in 0..m |-> b[from + k]]
    OBVIOUS
  <2>3. PICK v : v = [k \in 0..m |-> q[from + k]]
    OBVIOUS
  <2>4. u[0] = v[0]
    <3>1. 0 \in 0..m /\ from + 0 = from
      OBVIOUS
    <3> QED
      BY ONLY <2>1, <2>2, <2>3, <3>1, <1>3, <1>5
  <2>5. ASSUME NEW k \in 1..m, u[k - 1] = v[k - 1] PROVE u[k] = v[k]
    <3>1. /\ k \in 0..m /\ k - 1 \in 0..m /\ from + k \in from..to /\ from + k # from
          /\ from + k \in from + 1..to /\ (from + k) - 1 = from + (k - 1)
      BY <1>1
    <3>2. u[k] = b[from + k] /\ u[k - 1] = b[from + (k - 1)]
      BY ONLY <2>2, <3>1
    <3>3. v[k] = q[from + k] /\ v[k - 1] = q[from + (k - 1)]
      BY ONLY <2>3, <3>1
    <3>4. b[from + k] = BindRows(b[from + (k - 1)], (from + k) - 1)
      BY ONLY <2>1, <3>1
    <3>5. q[from + k] = BindRows(q[from + (k - 1)], (from + k) - 1)
      BY ONLY <1>4, <3>1
    <3> QED
      BY ONLY <3>2, <3>3, <3>4, <3>5, <2>5
  <2>6. \A k \in 0..m : u[k] = v[k]
    BY ONLY <2>4, <2>5, StepsAgree, m \in Nat
  <2>7. m \in 0..m /\ from + m = to
    BY <1>1
  <2> QED
    BY ONLY <2>2, <2>3, <2>6, <2>7
<1>11. q[to] = Folded(c, h, base, to, 0)
  <2>1. to - to = 0
    OBVIOUS
  <2> QED
    BY ONLY <1>2, <1>3, <2>1
<1>12. Folded(c, h, base, to, 0)[1] = Live(c, h, base, Pow2(to))
  <2>1. Pow2(0) = 1 /\ 1 \in 1..1
    BY Pow2Def
  <2>2. base + (1 - 1) * Pow2(to) = base
    <3>1. Pow2(to) \in Nat
      BY Pow2Def
    <3> QED
      BY <3>1, Z3
  <2> QED
    BY ONLY <2>1, <2>2 DEF Folded
<1> QED
  BY ONLY <1>1, <1>9, <1>10, <1>11, <1>12

(***************************************************************************)
(* A stretch of an array.                                                  *)
(***************************************************************************)
LEMMA SliceArray ==
    ASSUME NEW n \in Nat, NEW s, IsArray(s, n), NEW a \in Nat, NEW m \in Nat, a + m <= n
    PROVE  SubSeq(s, a + 1, a + m) = [k \in 1..m |-> s[a + k]]
<1>1. IsSeq(s) /\ Len(s) = n
  BY TabulatedSeq DEF IsArray
<1>2. PICK S : s \in Seq(S)
  BY <1>1 DEF IsSeq
<1>3. (a + m) - (a + 1) + 1 = m
  OBVIOUS
<1>4. PICK f : f = SubSeq(s, a + 1, a + m)
  OBVIOUS
<1>5. f \in Seq(S) /\ Len(f) = m
  BY <1>1, <1>2, <1>3, <1>4
<1>6. \A k \in 1..m : f[k] = s[a + k]
  BY <1>1, <1>2, <1>3, <1>4
<1>7. f = [k \in 1..m |-> f[k]]
  BY <1>5
<1> QED
  BY ONLY <1>4, <1>6, <1>7

(***************************************************************************)
(* A fold chunk is a power of two of rows below the padded height, or none.*)
(***************************************************************************)
LEMMA FoldChunkHolds ==
    ASSUME NEW width \in Nat, NEW padded \in Nat
    PROVE  \/ FoldChunkRows(width, padded) = 0
           \/ \E e \in Nat : FoldChunkRows(width, padded) = Pow2(e) /\ Pow2(e) < padded
<1> DEFINE rows == MaxOf(ChunkCells \div MaxOf(width, 1), 4)
           Log(e) == Pow2(e) <= rows /\ Pow2(e + 1) > rows
           log == CHOOSE e \in 0..rows : Log(e)
           T == {e \in Nat : Pow2(e + 1) > rows}
<1>1. rows \in Nat /\ rows >= 4
  <2>1. PICK w \in Nat : w = MaxOf(width, 1) /\ w >= 1
    BY DEF MaxOf
  <2>2. ChunkCells \in Nat
    BY LayoutAssumption
  <2>3. ChunkCells \div w \in Nat
    BY <2>1, <2>2, Z3
  <2> QED
    BY <2>1, <2>3 DEF MaxOf
<1> HIDE DEF rows
<1>2. \E e \in 0..rows : Log(e)
  <2>1. rows \in T
    <3>1. Pow2(rows + 1) >= rows + 1 /\ Pow2(rows + 1) \in Nat
      BY <1>1, Pow2Exceeds, Pow2Def
    <3> QED
      BY <1>1, <3>1
  <2>2. PICK m \in T : \A k \in T : m <= k
    <3>1. T \in SUBSET Nat /\ T # {}
      BY <2>1
    <3> HIDE DEF T
    <3> QED
      BY <3>1, LeastNatural
  <2>3. m \in Nat /\ Pow2(m + 1) > rows /\ Pow2(m) \in Nat /\ Pow2(m) >= m
    BY Pow2Def, Pow2Exceeds
  <2>4. Pow2(m) <= rows
    <3>1. CASE m = 0
      BY <3>1, <1>1, Pow2Def
    <3>2. CASE m # 0
      <4>1. m - 1 \in Nat /\ (m - 1) + 1 = m /\ ~(m <= m - 1)
        BY <3>2, <2>3
      <4>2. m - 1 \notin T
        BY <4>1, <2>2
      <4> QED
        BY <4>1, <4>2, <2>3, <1>1
    <3> QED
      BY <3>1, <3>2
  <2>5. m \in 0..rows
    BY <2>3, <2>4, <1>1
  <2> QED
    BY <2>3, <2>4, <2>5
<1>3. log \in 0..rows
  <2> HIDE DEF Log
  <2> QED
    BY <1>2
<1>4. FoldChunkRows(width, padded)
          = IF ChunkCells = 0 \/ Pow2(log) >= padded THEN 0 ELSE Pow2(log)
  BY Zenon DEF FoldChunkRows, rows
<1> HIDE DEF log
<1>5. log \in Nat /\ Pow2(log) \in Nat
  BY <1>1, <1>3, Pow2Def
<1> QED
  BY <1>4, <1>5

(***************************************************************************)
(* An opening is the column's live rows, each at its point, chunked or not.*)
(***************************************************************************)
Padded(c, h, n) == [r \in 1..n |-> IF r > h \/ c[r] = Zero THEN {} ELSE {<<0, c[r]>>}]

(***************************************************************************)
(* A column padded to a power of two rows is the folds of one row each.    *)
(***************************************************************************)
LEMMA PaddedFolded ==
    ASSUME NEW c, NEW h \in Nat, NEW m \in Nat
    PROVE  Padded(c, h, Pow2(m)) = Folded(c, h, 0, 0, m)
<1>1. Pow2(0) = 1 /\ Pow2(m) \in Nat
  BY Pow2Def
<1>2. ASSUME NEW r \in 1..Pow2(m)
      PROVE  (IF r > h \/ c[r] = Zero THEN {} ELSE {<<0, c[r]>>})
                 = Live(c, h, 0 + (r - 1) * 1, 1)
  <2>1. 0 + (r - 1) * 1 = r - 1 /\ (r - 1)..(r - 1) + 1 - 1 = {r - 1} /\ (r - 1) + 1 = r
        /\ (r - 1) - (r - 1) = 0 /\ r \in Int
    BY <1>1
  <2>2. Live(c, h, r - 1, 1) = {<<q - (r - 1), c[q + 1]>> :
                                    q \in {q \in {r - 1} : q < h /\ c[q + 1] # Zero}}
    BY ONLY <2>1, Zenon DEF Live
  <2>3. CASE r > h \/ c[r] = Zero
    <3>1. {q \in {r - 1} : q < h /\ c[q + 1] # Zero} = {}
      BY <2>1, <2>3
    <3> QED
      BY <2>1, <2>2, <2>3, <3>1
  <2>4. CASE ~(r > h \/ c[r] = Zero)
    <3>1. {q \in {r - 1} : q < h /\ c[q + 1] # Zero} = {r - 1}
      BY <2>1, <2>4
    <3>2. {<<q - (r - 1), c[q + 1]>> : q \in {r - 1}} = {<<0, c[r]>>}
      BY <2>1
    <3> QED
      BY <2>1, <2>2, <2>4, <3>1, <3>2
  <2> QED
    BY <2>3, <2>4
<1> QED
  BY ONLY <1>1, <1>2 DEF Padded, Folded

(***************************************************************************)
(* A column's opening, folded in chunks or not, has every live row at its  *)
(* point.                                                                  *)
(***************************************************************************)
LEMMA OpenColumnFolds ==
    ASSUME NEW width \in Nat, NEW h \in Nat, NEW c
    PROVE  OpenColumn(width, h, c) = Live(c, h, 0, h)
<1>1. CASE h = 0
  <2>1. {q \in 0..0 + h - 1 : q < h /\ c[q + 1] # Zero} = {}
    BY <1>1
  <2>2. Live(c, h, 0, h) = {}
    BY <2>1 DEF Live
  <2>3. OpenColumn(width, h, c) = {}
    BY <1>1, Zenon DEF OpenColumn
  <2> QED
    BY <2>2, <2>3
<1>2. CASE h # 0
  <2>1. PICK log \in Nat : log = CeilLog2(h) /\ Pow2(log) >= h
    <3>1. CeilLog2(h) \in Nat /\ Pow2(CeilLog2(h)) >= h
      BY CeilLog2Def
    <3> QED
      BY <3>1
  <2>2. PICK n \in Nat : n = Pow2(log)
    BY Pow2Def
  <2>3. PICK padded : padded = Folded(c, h, 0, 0, log) /\ padded = Padded(c, h, n)
    BY <2>2, PaddedFolded
  <2>4. PICK chunk : chunk = FoldChunkRows(width, n)
    OBVIOUS
  <2>5. Live(c, h, 0, n) = Live(c, h, 0, h)
    <3>1. {q \in 0..0 + n - 1 : q < h /\ c[q + 1] # Zero}
              = {q \in 0..0 + h - 1 : q < h /\ c[q + 1] # Zero}
      BY <2>1, <2>2
    <3> QED
      BY ONLY <3>1, Zenon DEF Live
  <2> DEFINE reduced == [j \in 1..n \div chunk |->
                 BindAll(SubSeq(padded, (j - 1) * chunk + 1, j * chunk), 0, CeilLog2(chunk))[1]]
  <2>6. OpenColumn(width, h, c)
            = IF chunk = 0 THEN BindAll(padded, 0, log)[1]
              ELSE BindAll(reduced, CeilLog2(chunk), log)[1]
    BY ONLY <1>2, <2>1, <2>2, <2>3, <2>4, Zenon DEF OpenColumn, Padded
  <2>7. CASE chunk = 0
    <3>1. BindAll(padded, 0, 0 + log)[1] = Live(c, h, 0, Pow2(0 + log))
      BY <2>3, BindAllFolds
    <3>2. 0 + log = log
      OBVIOUS
    <3> QED
      BY ONLY <2>2, <2>5, <2>6, <2>7, <3>1, <3>2
  <2>8. CASE chunk # 0
    <3>1. PICK e \in Nat : chunk = Pow2(e) /\ Pow2(e) < n
      BY <2>4, <2>8, FoldChunkHolds
    <3>2. CeilLog2(chunk) = e
      BY <3>1, CeilLog2Exact
    <3>3. e <= log
      <4> SUFFICES ASSUME ~(e <= log) PROVE FALSE
        OBVIOUS
      <4>1. PICK d \in Nat : e = log + d
        <5>1. e - log \in Nat /\ e = log + (e - log)
          OBVIOUS
        <5> QED
          BY <5>1
      <4>2. Pow2(log) <= Pow2(e)
        BY <4>1, Pow2Monotone
      <4> QED
        BY <4>2, <3>1, <2>2, Pow2Def
    <3>4. PICK d \in Nat : log = e + d
      <4>1. log - e \in Nat /\ log = e + (log - e)
        BY <3>3
      <4> QED
        BY <4>1
    <3>5. PICK k \in Nat : k = Pow2(d) /\ k >= 1
      BY Pow2Def
    <3>6. chunk \in Nat /\ chunk >= 1
      BY <3>1, Pow2Def
    <3>7. n = chunk * k
      BY <2>2, <3>1, <3>4, <3>5, Pow2Sum
    <3>8. n \div chunk = k
      <4>1. (k * chunk + 0) \div chunk = k
        BY <3>6, DivMod
      <4>2. k * chunk + 0 = n
        BY ONLY <3>6, <3>7, k \in Nat, Z3
      <4> QED
        BY <4>1, <4>2
    <3>9. ASSUME NEW j \in 1..k
          PROVE  BindAll(SubSeq(padded, (j - 1) * chunk + 1, j * chunk), 0, e)[1]
                     = Live(c, h, 0 + (j - 1) * chunk, chunk)
      <4>1. PICK a \in Nat : a = (j - 1) * chunk
        <5>1. (j - 1) * chunk \in Nat
          BY <3>6, Z3
        <5> QED
          BY <5>1
      <4>2. j * chunk = a + chunk /\ a + chunk <= n
        <5>1. j * chunk = (j - 1) * chunk + chunk /\ j * chunk <= k * chunk
          BY ONLY <3>6, j \in 1..k, k \in Nat, Z3
        <5>2. k * chunk = n
          BY ONLY <3>6, <3>7, k \in Nat, Z3
        <5> QED
          BY ONLY <4>1, <5>1, <5>2
      <4>3. IsArray(padded, n)
        BY <2>3 DEF IsArray, Padded
      <4>4. SubSeq(padded, a + 1, a + chunk) = [i \in 1..chunk |-> padded[a + i]]
        BY <4>2, <4>3, <3>6, SliceArray
      <4>5. Pow2(0) = 1
        BY Pow2Def
      <4>6. ASSUME NEW i \in 1..chunk PROVE padded[a + i] = Live(c, h, a + (i - 1) * Pow2(0), Pow2(0))
        <5>1. a + i \in 1..n /\ i \in Int /\ i - 1 \in Nat
          BY <4>2, <3>6
        <5>2. padded[a + i] = Live(c, h, 0 + ((a + i) - 1) * Pow2(0), Pow2(0))
          BY ONLY <2>3, <2>2, <5>1 DEF Folded
        <5>3. 0 + ((a + i) - 1) * 1 = a + (i - 1) * 1
          BY ONLY <5>1, a \in Nat
        <5> QED
          BY ONLY <4>5, <5>2, <5>3
      <4>7. SubSeq(padded, a + 1, a + chunk) = Folded(c, h, a, 0, e)
        BY ONLY <4>4, <4>6, <3>1 DEF Folded
      <4>8. BindAll(SubSeq(padded, a + 1, a + chunk), 0, 0 + e)[1] = Live(c, h, a, Pow2(0 + e))
        <5>1. PICK sub : sub = SubSeq(padded, a + 1, a + chunk)
          OBVIOUS
        <5>2. sub = Folded(c, h, a, 0, e)
          BY <4>7, <5>1
        <5>3. BindAll(sub, 0, 0 + e)[1] = Live(c, h, a, Pow2(0 + e))
          <6> HIDE DEF reduced
          <6> QED
            BY <5>2, BindAllFolds
        <5> QED
          BY ONLY <5>1, <5>3
      <4>9. 0 + e = e /\ 0 + a = a
        OBVIOUS
      <4> QED
        BY ONLY <4>1, <4>2, <4>8, <4>9, <3>1
    <3>10. PICK f : f = [j \in 1..k |->
                 BindAll(SubSeq(padded, (j - 1) * chunk + 1, j * chunk), 0, e)[1]]
      OBVIOUS
    <3>11. reduced = f
      BY ONLY <3>2, <3>8, <3>10
    <3>12. f = Folded(c, h, 0, e, d)
      BY ONLY <3>9, <3>10, <3>1, <3>5 DEF Folded
    <3>13. BindAll(f, e, e + d)[1] = Live(c, h, 0, Pow2(e + d))
      BY <3>12, BindAllFolds
    <3> QED
      BY ONLY <2>2, <2>5, <2>6, <2>8, <3>2, <3>4, <3>11, <3>13
  <2> QED
    BY <2>7, <2>8
<1> QED
  BY <1>1, <1>2

(***************************************************************************)
(* The place of a column's row among blocks laid one behind the other.     *)
(***************************************************************************)
InBlock(c, i, W, h, w, row, p) ==
    /\ c \in Seq(Nat) /\ i \in 1..Len(c) /\ W \in Nat /\ h \in Nat /\ c[i] = W * h
    /\ w \in Nat /\ w < W /\ row \in Nat /\ row < h
    /\ p = Prefix(c)[i - 1] + w * h + row + 1

(***************************************************************************)
(* Such a place lies in the block of its chip and tells its column and row *)
(* apart.                                                                  *)
(***************************************************************************)
LEMMA PlaceInBlock ==
    ASSUME NEW c, NEW i, NEW W, NEW h, NEW w, NEW row, NEW p, InBlock(c, i, W, h, w, row, p)
    PROVE  /\ p \in Nat /\ Prefix(c)[i - 1] \in Nat
           /\ Prefix(c)[i - 1] < p /\ p <= Prefix(c)[i] /\ p <= Total(c) /\ Total(c) \in Nat
           /\ p - Prefix(c)[i - 1] - 1 = w * h + row /\ w * h + row \in Nat
<1> /\ c \in Seq(Nat) /\ i \in 1..Len(c) /\ W \in Nat /\ h \in Nat /\ c[i] = W * h
    /\ w \in Nat /\ w < W /\ row \in Nat /\ row < h
    /\ p = Prefix(c)[i - 1] + w * h + row + 1
  BY DEF InBlock
<1>1. PICK a \in Nat : a = Prefix(c)[i - 1]
  BY BlockBounds
<1>2. PICK b \in Nat : b = Prefix(c)[i] /\ b = a + W * h /\ b <= Total(c) /\ Total(c) \in Nat
  BY <1>1, BlockBounds
<1>3. PICK o \in Nat : o = w * h + row
  <2>1. w * h + row \in Nat
    BY ONLY w \in Nat, h \in Nat, row \in Nat, Z3
  <2> QED
    BY <2>1
<1>4. w * h + row < W * h
  <2>1. w + 1 <= W
    OBVIOUS
  <2>2. (w + 1) * h <= W * h
    BY ONLY <2>1, w \in Nat, W \in Nat, h \in Nat, Z3
  <2>3. (w + 1) * h = w * h + h /\ w * h \in Int /\ W * h \in Int
    BY ONLY w \in Nat, W \in Nat, h \in Nat, Z3
  <2> QED
    BY ONLY <2>2, <2>3, row < h, row \in Nat, h \in Nat
<1>5. p = a + o + 1
  <2>1. w * h \in Int
    BY Z3
  <2> QED
    BY ONLY <1>1, <1>3, <2>1, a \in Nat, row \in Nat, p = Prefix(c)[i - 1] + w * h + row + 1
<1>6. p - a - 1 = o
  BY ONLY <1>5, a \in Nat, o \in Nat
<1>8. p \in Nat /\ a < p /\ p <= b
  <2>1. W * h \in Int /\ o < W * h
    <3>1. W * h \in Int
      BY Z3
    <3> QED
      BY <3>1, <1>3, <1>4
  <2> QED
    BY ONLY <1>2, <1>5, <2>1, a \in Nat, o \in Nat
<1> QED
  BY ONLY <1>1, <1>2, <1>3, <1>6, <1>8, a \in Nat, b \in Nat, o \in Nat

(***************************************************************************)
(* The blocks of the chips in an arrival.                                  *)
(***************************************************************************)
Cells(heights) == [i \in ChipIds |-> Width[i] * heights[i]]

(***************************************************************************)
(* The chips' cells and what their running sums are.                       *)
(***************************************************************************)
LEMMA CellsHold ==
    ASSUME NEW heights \in [ChipIds -> Nat]
    PROVE  /\ Cells(heights) \in Seq(Nat) /\ Len(Cells(heights)) = NumChips
           /\ \A i \in ChipIds : /\ Width[i] \in Nat /\ heights[i] \in Nat
                                 /\ Cells(heights)[i] = Width[i] * heights[i]
           /\ ArrivalOffsets(heights) = Prefix(Cells(heights))
<1>1. NumChips \in Nat /\ Width \in Seq(Nat) /\ Len(Width) = NumChips
  BY LayoutNumbers, LayoutAssumption DEF NumChips
<1>2. \A i \in ChipIds : Width[i] \in Nat /\ heights[i] \in Nat
  BY <1>1 DEF ChipIds
<1>3. \A i \in ChipIds : Width[i] * heights[i] \in Nat
  BY <1>2, Z3
<1>4. Cells(heights) \in [1..NumChips -> Nat]
  BY <1>3 DEF Cells, ChipIds
<1>5. Cells(heights) \in Seq(Nat) /\ Len(Cells(heights)) = NumChips
  BY <1>1, <1>4
<1>6. \A i \in ChipIds : Cells(heights)[i] = Width[i] * heights[i]
  BY DEF Cells
<1>7. ArrivalOffsets(heights) = Prefix(Cells(heights))
  BY Zenon DEF ArrivalOffsets, Cells
<1> QED
  BY <1>2, <1>5, <1>6, <1>7

(***************************************************************************)
(* The place of a chip's cell names the chip, the column and the row it    *)
(* came from.                                                              *)
(***************************************************************************)
LEMMA ChipPlace ==
    ASSUME NEW heights \in [ChipIds -> Nat], NEW i \in ChipIds,
           NEW w \in 0..Width[i] - 1, NEW row \in 0..heights[i] - 1, NEW p,
           p = ArrivalOffsets(heights)[i - 1] + w * heights[i] + row + 1
    PROVE  /\ p \in 1..ArrivalOffsets(heights)[NumChips]
           /\ ArrivalOffsets(heights)[NumChips] \in Nat
           /\ ArrivalOffsets(heights)[i - 1] \in Nat
           /\ (CHOOSE j \in ChipIds : ArrivalOffsets(heights)[j - 1] < p
                                      /\ p <= ArrivalOffsets(heights)[j]) = i
           /\ (p - ArrivalOffsets(heights)[i - 1] - 1) \div heights[i] = w
           /\ (p - ArrivalOffsets(heights)[i - 1] - 1) % heights[i] = row
<1>1. PICK c \in Seq(Nat) : c = Cells(heights) /\ Len(c) = NumChips
  BY CellsHold
<1>2. PICK s : s = Prefix(c)
  OBVIOUS
<1>3. s = ArrivalOffsets(heights) /\ Total(c) = s[NumChips]
  BY <1>1, <1>2, CellsHold DEF Total
<1>4. PICK W \in Nat : W = Width[i]
  BY CellsHold
<1>5. PICK h \in Nat : h = heights[i]
  OBVIOUS
<1>6. c[i] = W * h /\ i \in 1..Len(c)
  BY <1>1, <1>4, <1>5, CellsHold DEF ChipIds
<1>7. w \in Nat /\ w < W /\ row \in Nat /\ row < h
  BY <1>4, <1>5
<1>8. /\ p \in Nat /\ s[i - 1] \in Nat
      /\ s[i - 1] < p /\ p <= s[i] /\ p <= Total(c) /\ Total(c) \in Nat
      /\ p - s[i - 1] - 1 = w * h + row
  <2>1. p = Prefix(c)[i - 1] + w * h + row + 1
    BY ONLY <1>2, <1>3, <1>5, p = ArrivalOffsets(heights)[i - 1] + w * heights[i] + row + 1
  <2>2. /\ p \in Nat /\ Prefix(c)[i - 1] \in Nat
        /\ Prefix(c)[i - 1] < p /\ p <= Prefix(c)[i] /\ p <= Total(c) /\ Total(c) \in Nat
        /\ p - Prefix(c)[i - 1] - 1 = w * h + row
    <3>1. InBlock(c, i, W, h, w, row, p)
      BY ONLY <1>6, <1>7, <2>1, c \in Seq(Nat), W \in Nat, h \in Nat, Zenon DEF InBlock
    <3> QED
      BY ONLY <3>1, PlaceInBlock
  <2> QED
    BY ONLY <1>2, <2>2
<1>9. ASSUME NEW j \in ChipIds, s[j - 1] < p, p <= s[j] PROVE j = i
  <2>1. j \in 1..Len(c) /\ p \in Int
    BY <1>1, <1>8 DEF ChipIds
  <2> QED
    BY ONLY <1>2, <1>6, <1>8, <1>9, <2>1, BlockUnique, c \in Seq(Nat)
<1>10. (CHOOSE j \in ChipIds : s[j - 1] < p /\ p <= s[j]) = i
  BY <1>8, <1>9
<1>12. (p - s[i - 1] - 1) \div h = w /\ (p - s[i - 1] - 1) % h = row
  <2>1. (w * h + row) \div h = w /\ (w * h + row) % h = row
    BY <1>7, DivMod
  <2> QED
    BY ONLY <2>1, <1>8, Zenon
<1>11. p \in 1..s[NumChips]
  BY <1>3, <1>8
<1> QED
  BY ONLY <1>3, <1>5, <1>8, <1>10, <1>11, <1>12, Zenon

(***************************************************************************)
(* A slice that fits starts where it is asked to.                          *)
(***************************************************************************)
Fits(s, n, a, m) == n \in Nat /\ IsArray(s, n) /\ a \in Nat /\ m \in Nat /\ a + m <= n

LEMMA SliceFits ==
    ASSUME NEW n, NEW s, NEW a, NEW m, Fits(s, n, a, m), NEW k, k \in 1..m
    PROVE  Slice(s, a, m)[k] = s[a + k]
<1> USE DEF Fits
<1>1. Len(s) = n
  BY TabulatedSeq DEF IsArray
<1>2. Clamped(a, n - m) = a
  BY DEF Clamped, MaxOf, MinOf
<1>3. Slice(s, a, m) = SubSeq(s, a + 1, a + m)
  BY ONLY <1>1, <1>2 DEF Slice
<1>4. SubSeq(s, a + 1, a + m) = [j \in 1..m |-> s[a + j]]
  BY SliceArray
<1> QED
  BY ONLY <1>3, <1>4, k \in 1..m

(***************************************************************************)
(* The committed trace holds every cell of a chip at its place.            *)
(***************************************************************************)
LEMMA CommittedCell ==
    ASSUME shard \in [ChipIds -> Nat], NEW i \in ChipIds,
           NEW w \in 0..Width[i] - 1, NEW row \in 0..shard[i] - 1, NEW p,
           p = ArrivalOffsets(shard)[i - 1] + w * shard[i] + row + 1
    PROVE  p \in 1..Len(CommittedTrace) /\ CommittedTrace[p] = <<i, w, row>>
<1>1. PICK s : s = ArrivalOffsets(shard)
  OBVIOUS
<1>2. /\ p \in 1..s[NumChips] /\ s[NumChips] \in Nat /\ s[i - 1] \in Nat
      /\ (CHOOSE j \in ChipIds : s[j - 1] < p /\ p <= s[j]) = i
      /\ (p - s[i - 1] - 1) \div shard[i] = w
      /\ (p - s[i - 1] - 1) % shard[i] = row
  BY <1>1, ChipPlace
<1>3. PICK stack \in Nat : stack = Pow2(LogStacking) /\ stack >= 1
  BY LayoutAssumption, Pow2Def
<1>4. PICK padded \in Nat : padded = ((s[NumChips] + stack - 1) \div stack) * stack
                            /\ s[NumChips] <= padded
  <2>1. PICK n \in Nat : n = s[NumChips]
    BY <1>2
  <2>2. /\ (n + stack - 1) \div stack \in Nat
        /\ n <= ((n + stack - 1) \div stack) * stack
    BY <1>3, CeilBounds
  <2>3. ((n + stack - 1) \div stack) * stack \in Nat
    BY <2>2, Z3
  <2> QED
    BY ONLY <2>1, <2>2, <2>3
<1> DEFINE Holder(q) == CHOOSE j \in ChipIds :
                ArrivalOffsets(shard)[j - 1] < q /\ q <= ArrivalOffsets(shard)[j]
           Cell(q) == IF q > ArrivalOffsets(shard)[NumChips] THEN Zero
                      ELSE <<Holder(q),
                             (q - ArrivalOffsets(shard)[Holder(q) - 1] - 1) \div shard[Holder(q)],
                             (q - ArrivalOffsets(shard)[Holder(q) - 1] - 1) % shard[Holder(q)]>>
<1>5. CommittedTrace = [q \in 1..((ArrivalOffsets(shard)[NumChips] + Pow2(LogStacking) - 1)
                                      \div Pow2(LogStacking)) * Pow2(LogStacking) |-> Cell(q)]
  BY Zenon DEF CommittedTrace
<1>6. Holder(p) = i
  BY ONLY <1>1, <1>2
<1>7. p \in 1..padded /\ ~(p > s[NumChips])
  BY <1>2, <1>4
<1>10. Cell(p) = <<i, w, row>>
  <2> HIDE DEF Holder
  <2> QED
    BY ONLY <1>1, <1>2, <1>6, <1>7, Zenon
<1> HIDE DEF Cell, Holder
<1>11. CommittedTrace = [q \in 1..padded |-> Cell(q)]
  BY ONLY <1>1, <1>3, <1>4, <1>5, Zenon
<1>8. CommittedTrace[p] = <<i, w, row>>
  BY ONLY <1>7, <1>10, <1>11
<1>9. Len(CommittedTrace) = padded
  <2>1. PICK f : f = CommittedTrace
    OBVIOUS
  <2>2. f = [q \in 1..padded |-> f[q]]
    BY ONLY <2>1, <1>11
  <2> QED
    BY ONLY <2>1, <2>2, padded \in Nat, TabulatedSeq
<1> QED
  BY <1>7, <1>8, <1>9

(***************************************************************************)
(* The padded trace has room behind every column for a slice of the class. *)
(***************************************************************************)
LEMMA DenseRoom ==
    ASSUME shard \in [ChipIds -> Nat], class.caps \in [ChipIds -> Nat],
           \A j \in ChipIds : shard[j] <= class.caps[j],
           NEW i \in ChipIds, NEW w \in 0..Width[i] - 1, NEW a,
           a = ArrivalOffsets(shard)[i - 1] + w * shard[i]
    PROVE  a \in Nat /\ DenseCap(class) \in Nat /\ a + class.caps[i] <= DenseCap(class)
<1>1. PICK c \in Seq(Nat) : c = Cells(shard) /\ Len(c) = NumChips
  BY CellsHold
<1>2. PICK d \in Seq(Nat) : d = Cells(class.caps) /\ Len(d) = NumChips
  BY CellsHold
<1>3. PICK caps \in [ChipIds -> Nat] : caps = class.caps
  OBVIOUS
<1>4. ASSUME NEW j \in ChipIds PROVE c[j] <= d[j]
  <2>1. PICK W \in Nat : W = Width[j] /\ c[j] = W * shard[j] /\ d[j] = W * caps[j]
    <3>1. Width[j] \in Nat /\ c[j] = Width[j] * shard[j]
      BY <1>1, CellsHold
    <3>2. d[j] = Width[j] * class.caps[j]
      BY <1>2, CellsHold
    <3> QED
      BY ONLY <3>1, <3>2, <1>3
  <2>2. PICK h \in Nat : h = shard[j]
    OBVIOUS
  <2>3. PICK k \in Nat : k = caps[j] /\ h <= k
    BY <1>3, <2>2
  <2>4. W * h <= W * k
    <3>1. PICK x \in Nat : k = h + x
      <4>1. k - h \in Nat /\ k = h + (k - h)
        BY <2>3
      <4> QED
        BY <4>1
    <3>2. W * (h + x) = W * h + W * x /\ W * h \in Int /\ W * x \in Nat
      BY ONLY W \in Nat, h \in Nat, x \in Nat, Z3
    <3> QED
      BY ONLY <3>1, <3>2
  <2> QED
    BY ONLY <2>1, <2>2, <2>3, <2>4
<1>5. i \in 1..Len(c) /\ NumChips \in Nat /\ Len(c) \in 0..Len(c)
  BY <1>1, LayoutNumbers DEF ChipIds
<1>6. Prefix(c)[Len(c)] <= Prefix(d)[Len(c)]
  BY <1>1, <1>2, <1>4, <1>5, PrefixPointwise DEF ChipIds
<1>7. PICK e \in Nat : e = Prefix(d)[NumChips]
  <2>1. Prefix(d) \in [0..Len(d) -> Nat]
    BY PrefixDef
  <2>2. NumChips \in 0..Len(d)
    BY <1>2, <1>5
  <2>3. Prefix(d)[NumChips] \in Nat
    BY ONLY <2>1, <2>2
  <2> QED
    BY <2>3
<1>8. PICK b \in Nat : b = Prefix(c)[i - 1] /\ b + c[i] <= Prefix(c)[Len(c)] /\ c[i] \in Nat
                       /\ Prefix(c)[Len(c)] \in Nat
  BY <1>5, BlockBounds DEF Total
<1>9. w * shard[i] \in Nat /\ w * shard[i] <= c[i]
  <2>1. PICK W \in Nat : W = Width[i]
    BY CellsHold
  <2>2. PICK h \in Nat : h = shard[i]
    OBVIOUS
  <2>3. c[i] = W * h
    BY <1>1, <2>1, <2>2, CellsHold
  <2>4. w \in Nat /\ w <= W
    BY <2>1
  <2>5. w * h \in Nat /\ w * h <= W * h
    BY ONLY <2>4, W \in Nat, h \in Nat, Z3
  <2> QED
    BY ONLY <2>2, <2>3, <2>5
<1>10. a = b + w * shard[i] /\ a \in Nat /\ a <= e
  <2>1. a = b + w * shard[i]
    BY <1>1, <1>8, CellsHold
  <2> QED
    <3>1. PICK f \in Nat : f = Prefix(c)[Len(c)]
      BY <1>8
    <3>2. f <= e
      BY ONLY <1>1, <1>6, <1>7, <3>1
    <3>3. PICK x \in Nat : x = w * shard[i] /\ x <= c[i]
      BY <1>9
    <3>4. b + c[i] <= f /\ c[i] \in Nat
      BY ONLY <1>8, <3>1
    <3>5. b + x <= e /\ b + x \in Nat
      BY ONLY <3>2, <3>3, <3>4, b \in Nat, e \in Nat, f \in Nat, x \in Nat
    <3> QED
      BY ONLY <2>1, <3>3, <3>5
<1>11. PICK m \in Nat : m = (CHOOSE x \in {caps[j] : j \in ChipIds} :
                                 \A j \in ChipIds : caps[j] <= x) /\ caps[i] <= m
  <2>1. caps \in Seq(Nat) /\ Len(caps) = NumChips /\ NumChips # 0
    <3>1. NumChips \in Nat /\ caps \in [1..NumChips -> Nat] /\ i \in 1..NumChips
      BY ONLY <1>5, caps \in [ChipIds -> Nat], i \in ChipIds DEF ChipIds
    <3> QED
      BY ONLY <3>1
  <2>2. PICK m \in Nat : (\E j \in 1..Len(caps) : m = caps[j])
                         /\ \A j \in 1..Len(caps) : caps[j] <= m
    BY <2>1, GreatestExists
  <2>3. m \in {caps[j] : j \in ChipIds} /\ \A j \in ChipIds : caps[j] <= m
    BY <2>1, <2>2 DEF ChipIds
  <2>4. PICK n : n = (CHOOSE x \in {caps[j] : j \in ChipIds} : \A j \in ChipIds : caps[j] <= x)
    OBVIOUS
  <2>5. n \in {caps[j] : j \in ChipIds} /\ \A j \in ChipIds : caps[j] <= n
    BY ONLY <2>3, <2>4, Zenon
  <2>6. n \in Nat
    BY ONLY <2>5, caps \in [ChipIds -> Nat]
  <2> QED
    BY ONLY <2>4, <2>5, <2>6, i \in ChipIds
<1>12. PICK k \in Nat : k = Pow2(LogStacking)
  BY LayoutAssumption, Pow2Def
<1>13. DenseCap(class) = e + k + m
  <2>1. ArrivalOffsets(class.caps)[NumChips] = e
    BY <1>2, <1>7, CellsHold
  <2> QED
    BY ONLY <2>1, <1>3, <1>11, <1>12, Zenon DEF DenseCap
<1>14. caps[i] \in Nat
  OBVIOUS
<1> QED
  BY ONLY <1>3, <1>10, <1>11, <1>13, <1>14, e \in Nat, k \in Nat, m \in Nat

(***************************************************************************)
(* Packed at the class offsets, a column holds its live rows and is zero   *)
(* from its real height to the height of the class.                        *)
(***************************************************************************)
Dense(c) == [p \in 1..DenseCap(c) |->
                IF p <= Len(CommittedTrace) THEN CommittedTrace[p] ELSE Zero]

(***************************************************************************)
(* The arrival at class heights has a live row's cell at its place and     *)
(* zero at a dead row's.                                                   *)
(***************************************************************************)
LEMMA PackedCell ==
    ASSUME shard \in [ChipIds -> Nat], class.caps \in [ChipIds -> Nat],
           \A j \in ChipIds : shard[j] <= class.caps[j],
           NEW i \in ChipIds, NEW w \in 0..Width[i] - 1, NEW row \in 0..class.caps[i] - 1, NEW p,
           p = ArrivalOffsets(class.caps)[i - 1] + w * class.caps[i] + row + 1
    PROVE  PackedMain(Dense(class), class)[p] = (IF row < shard[i] THEN <<i, w, row>> ELSE Zero)
<1>1. PICK s : s = ArrivalOffsets(class.caps)
  OBVIOUS
<1>2. /\ p \in 1..s[NumChips]
      /\ (CHOOSE j \in ChipIds : s[j - 1] < p /\ p <= s[j]) = i
      /\ (p - s[i - 1] - 1) \div class.caps[i] = w
      /\ (p - s[i - 1] - 1) % class.caps[i] = row
  BY <1>1, ChipPlace
<1>3. PICK dense : dense = Dense(class)
  OBVIOUS
<1> DEFINE Holder(q) == CHOOSE j \in ChipIds : ArrivalOffsets(class.caps)[j - 1] < q
                                               /\ q <= ArrivalOffsets(class.caps)[j]
           column == [j \in ChipIds |-> [v \in 0..Width[j] - 1 |->
                         Slice(dense, ArrivalOffsets(shard)[j - 1] + v * shard[j], class.caps[j])]]
           Place(q) == q - ArrivalOffsets(class.caps)[Holder(q) - 1] - 1
           Cell(q) == IF Place(q) % class.caps[Holder(q)] < shard[Holder(q)]
                      THEN column[Holder(q)][Place(q) \div class.caps[Holder(q)]]
                                            [(Place(q) % class.caps[Holder(q)]) + 1]
                      ELSE Zero
<1>4. PackedMain(dense, class) = [q \in 1..ArrivalOffsets(class.caps)[NumChips] |-> Cell(q)]
  BY Zenon DEF PackedMain
<1>5. Holder(p) = i
  BY ONLY <1>1, <1>2
<1> HIDE DEF Holder
<1>6. Place(p) \div class.caps[Holder(p)] = w /\ Place(p) % class.caps[Holder(p)] = row
  BY ONLY <1>1, <1>2, <1>5, Zenon
<1> HIDE DEF Place
<1>7. Cell(p) = (IF row < shard[i] THEN column[i][w][row + 1] ELSE Zero)
  BY ONLY <1>5, <1>6, Zenon
<1> HIDE DEF Cell
<1>8. PackedMain(dense, class)[p] = (IF row < shard[i] THEN column[i][w][row + 1] ELSE Zero)
  BY ONLY <1>1, <1>2, <1>4, <1>7
<1>9. ASSUME row < shard[i] PROVE column[i][w][row + 1] = <<i, w, row>>
  <2>1. PICK a : a = ArrivalOffsets(shard)[i - 1] + w * shard[i]
    OBVIOUS
  <2>2. PICK n \in Nat : n = DenseCap(class) /\ a \in Nat /\ a + class.caps[i] <= n
    BY <2>1, DenseRoom
  <2>3. PICK m \in Nat : m = class.caps[i] /\ row \in 0..m - 1
    OBVIOUS
  <2>4. column[i][w] = Slice(dense, a, m)
    BY ONLY <2>1, <2>3, i \in ChipIds, w \in 0..Width[i] - 1
  <2> HIDE DEF column
  <2>5. IsArray(dense, n) /\ \A q \in 1..n :
            dense[q] = (IF q <= Len(CommittedTrace) THEN CommittedTrace[q] ELSE Zero)
    BY ONLY <1>3, <2>2 DEF Dense, IsArray
  <2>6. row + 1 \in 1..m /\ a + (row + 1) \in 1..n
    BY <2>2, <2>3
  <2>7. Fits(dense, n, a, m)
    <3>1. a \in Nat /\ a + m <= n
      BY ONLY <2>2, <2>3
    <3> QED
      BY ONLY <2>5, <3>1, n \in Nat, m \in Nat DEF Fits
  <2>8. column[i][w][row + 1] = dense[a + (row + 1)]
    <3>1. Slice(dense, a, m)[row + 1] = dense[a + (row + 1)]
      BY ONLY <2>6, <2>7, SliceFits, SMT
    <3> QED
      BY ONLY <2>4, <3>1
  <2>9. PICK q : q = ArrivalOffsets(shard)[i - 1] + w * shard[i] + row + 1
    OBVIOUS
  <2>10. q \in 1..Len(CommittedTrace) /\ CommittedTrace[q] = <<i, w, row>>
    <3>1. row \in 0..shard[i] - 1
      BY <1>9
    <3> QED
      BY <2>9, <3>1, CommittedCell
  <2>11. q = a + (row + 1)
    <3>1. q = a + row + 1
      BY ONLY <2>1, <2>9
    <3> QED
      BY <3>1, <2>2
  <2>12. q <= Len(CommittedTrace)
    BY <2>10
  <2> QED
    BY ONLY <2>5, <2>6, <2>8, <2>10, <2>11, <2>12
<1> QED
  BY ONLY <1>3, <1>8, <1>9

(***************************************************************************)
(* The preprocessed arrival holds every cell of a chip at its place.       *)
(***************************************************************************)
PrepCells == [i \in ChipIds |-> IF i \in DOMAIN Prep THEN Prep[i].w * Prep[i].h ELSE 0]

(***************************************************************************)
(* The preprocessed chips' cells and what their running sums are.          *)
(***************************************************************************)
LEMMA PrepCellsHold ==
    /\ NumChips \in Nat /\ DOMAIN Prep \subseteq ChipIds
    /\ \A j \in DOMAIN Prep : Prep[j].w \in Nat /\ Prep[j].h \in Nat
    /\ PrepCells \in Seq(Nat) /\ Len(PrepCells) = NumChips
    /\ PrepOffsets = Prefix(PrepCells)
<1>1. /\ NumChips \in Nat /\ DOMAIN Prep \subseteq ChipIds
      /\ \A j \in DOMAIN Prep : Prep[j].w \in Nat /\ Prep[j].h \in Nat
  BY LayoutNumbers, LayoutAssumption
<1>2. PrepCells \in Seq(Nat) /\ Len(PrepCells) = NumChips
  <2>1. \A j \in ChipIds : (IF j \in DOMAIN Prep THEN Prep[j].w * Prep[j].h ELSE 0) \in Nat
    <3> SUFFICES ASSUME NEW j \in DOMAIN Prep PROVE Prep[j].w * Prep[j].h \in Nat
      OBVIOUS
    <3>1. PICK x \in Nat : x = Prep[j].w
      BY <1>1
    <3>2. PICK y \in Nat : y = Prep[j].h
      BY <1>1
    <3>3. x * y \in Nat
      BY ONLY x \in Nat, y \in Nat, Z3
    <3> QED
      BY ONLY <3>1, <3>2, <3>3
  <2>2. PrepCells \in [1..NumChips -> Nat]
    BY <2>1 DEF PrepCells, ChipIds
  <2> QED
    BY <1>1, <2>2
<1>3. PrepOffsets = Prefix(PrepCells)
  BY Zenon DEF PrepOffsets, PrepCells
<1> QED
  BY <1>1, <1>2, <1>3

(***************************************************************************)
(* The offsets of the preprocessed chips are numbers.                      *)
(***************************************************************************)
LEMMA PrepBounds ==
    ASSUME NEW i \in ChipIds
    PROVE  PrepOffsets[NumChips] \in Nat /\ PrepOffsets[i - 1] \in Nat
<1>1. PICK c \in Seq(Nat) : c = PrepCells /\ Len(c) = NumChips
  BY PrepCellsHold
<1>2. i \in 1..Len(c)
  BY <1>1 DEF ChipIds
<1>3. Prefix(c)[i - 1] \in Nat /\ Total(c) \in Nat
  BY <1>2, BlockBounds
<1> QED
  BY <1>1, <1>3, PrepCellsHold DEF Total

(***************************************************************************)
(* The preprocessed trace has the cell of a chip's column and row at its   *)
(* place.                                                                  *)
(***************************************************************************)
LEMMA PrepCell ==
    ASSUME NEW i \in DOMAIN Prep, NEW w \in 0..Prep[i].w - 1, NEW row \in 0..Prep[i].h - 1, NEW p,
           p = PrepOffsets[i - 1] + w * Prep[i].h + row + 1
    PROVE  PrepFlat[p] = <<-i, w, row>> /\ p \in 1..PrepOffsets[NumChips]
<1>1. /\ NumChips \in Nat /\ DOMAIN Prep \subseteq ChipIds
      /\ \A j \in DOMAIN Prep : Prep[j].w \in Nat /\ Prep[j].h \in Nat
  BY PrepCellsHold
<1>2. PICK c \in Seq(Nat) : c = PrepCells /\ Len(c) = NumChips
  BY PrepCellsHold
<1>3. PICK s : s = Prefix(c) /\ s = PrepOffsets
  BY <1>2, PrepCellsHold
<1>4. PICK W \in Nat : W = Prep[i].w
  BY <1>1
<1>5. PICK h \in Nat : h = Prep[i].h
  BY <1>1
<1>6. i \in 1..Len(c) /\ c[i] = W * h
  BY <1>1, <1>2, <1>4, <1>5 DEF PrepCells, ChipIds
<1>7. w \in Nat /\ w < W /\ row \in Nat /\ row < h
  BY <1>4, <1>5
<1>8. /\ p \in Nat /\ s[i - 1] \in Nat
      /\ s[i - 1] < p /\ p <= s[i] /\ p <= Total(c) /\ Total(c) \in Nat
      /\ p - s[i - 1] - 1 = w * h + row
  <2>1. p = Prefix(c)[i - 1] + w * h + row + 1
    BY ONLY <1>3, <1>5, p = PrepOffsets[i - 1] + w * Prep[i].h + row + 1
  <2>2. InBlock(c, i, W, h, w, row, p)
    BY ONLY <1>6, <1>7, <2>1, c \in Seq(Nat), W \in Nat, h \in Nat, Zenon DEF InBlock
  <2>3. /\ p \in Nat /\ Prefix(c)[i - 1] \in Nat
        /\ Prefix(c)[i - 1] < p /\ p <= Prefix(c)[i] /\ p <= Total(c) /\ Total(c) \in Nat
        /\ p - Prefix(c)[i - 1] - 1 = w * h + row
    BY ONLY <2>2, PlaceInBlock
  <2> QED
    BY ONLY <1>3, <2>3
<1>9. (p - s[i - 1] - 1) \div h = w /\ (p - s[i - 1] - 1) % h = row
  <2>1. (w * h + row) \div h = w /\ (w * h + row) % h = row
    BY <1>7, DivMod
  <2> QED
    BY ONLY <2>1, <1>8, Zenon
<1>10. ASSUME NEW j \in DOMAIN Prep, s[j - 1] < p, p <= s[j] PROVE j = i
  <2>1. j \in 1..Len(c) /\ p \in Int
    BY <1>1, <1>2, <1>8 DEF ChipIds
  <2> QED
    BY ONLY <1>3, <1>6, <1>8, <1>10, <2>1, BlockUnique, c \in Seq(Nat)
<1>11. (CHOOSE j \in DOMAIN Prep : s[j - 1] < p /\ p <= s[j]) = i
  BY <1>8, <1>10
<1>12. p \in 1..s[NumChips]
  BY <1>2, <1>3, <1>8 DEF Total
<1> DEFINE Holder(q) == CHOOSE j \in DOMAIN Prep : PrepOffsets[j - 1] < q /\ q <= PrepOffsets[j]
           Cell(q) == <<-Holder(q), (q - PrepOffsets[Holder(q) - 1] - 1) \div Prep[Holder(q)].h,
                                    (q - PrepOffsets[Holder(q) - 1] - 1) % Prep[Holder(q)].h>>
<1>13. PrepFlat = [q \in 1..PrepOffsets[NumChips] |-> Cell(q)]
  BY Zenon DEF PrepFlat
<1>14. Holder(p) = i
  BY ONLY <1>3, <1>11
<1> HIDE DEF Holder
<1>15. Cell(p) = <<-i, w, row>>
  BY ONLY <1>3, <1>5, <1>9, <1>14, Zenon
<1> HIDE DEF Cell
<1> QED
  BY ONLY <1>3, <1>12, <1>13, <1>15

(***************************************************************************)
(* The arrival of an admitted shard holds its columns at the class places. *)
(***************************************************************************)
ArrivalHolds ==
    pc \in {"admit", "lay", "guard", "fold", "prove", "done"} =>
        /\ \A i \in ChipIds : shard[i] <= class.caps[i]
        /\ IsArray(arrival, ArrivalOffsets(class.caps)[NumChips])
        /\ \A i \in ChipIds : \A w \in 0..Width[i] - 1 : \A row \in 0..class.caps[i] - 1 :
               arrival[ArrivalOffsets(class.caps)[i - 1] + w * class.caps[i] + row + 1]
                   = (IF row < shard[i] THEN <<i, w, row>> ELSE Zero)

(***************************************************************************)
(* Packing the arrival of a shard that its class admits.                   *)
(***************************************************************************)
LEMMA PackArrivalHolds ==
    ASSUME StageHolds, PackArrival, pc' = "admit"
    PROVE  ArrivalHolds'
<1>1. IsClass(class) /\ shard \in [ChipIds -> Nat]
  BY ClassOfShard DEF StageHolds
<1>2. /\ BoundsAdmit(class, shard) /\ arrival' = PackedMain(Dense(class), class)
      /\ shard' = shard /\ class' = class
  BY DEF PackArrival, Raise, Dense
<1>3. class.caps \in [ChipIds -> Nat] /\ \A i \in ChipIds : shard[i] <= class.caps[i]
  BY <1>1, <1>2 DEF IsClass, BoundsAdmit
<1>4. IsArray(PackedMain(Dense(class), class), ArrivalOffsets(class.caps)[NumChips])
  <2>1. PICK dense : dense = Dense(class)
    OBVIOUS
  <2>2. PICK x : x = PackedMain(dense, class)
    OBVIOUS
  <2>3. x = [q \in 1..ArrivalOffsets(class.caps)[NumChips] |-> x[q]]
    <3> DEFINE Holder(q) == CHOOSE j \in ChipIds : ArrivalOffsets(class.caps)[j - 1] < q
                                                   /\ q <= ArrivalOffsets(class.caps)[j]
               column == [j \in ChipIds |-> [v \in 0..Width[j] - 1 |->
                   Slice(dense, ArrivalOffsets(shard)[j - 1] + v * shard[j], class.caps[j])]]
               Place(q) == q - ArrivalOffsets(class.caps)[Holder(q) - 1] - 1
               Cell(q) == IF Place(q) % class.caps[Holder(q)] < shard[Holder(q)]
                          THEN column[Holder(q)][Place(q) \div class.caps[Holder(q)]]
                                                [(Place(q) % class.caps[Holder(q)]) + 1]
                          ELSE Zero
    <3>1. PackedMain(dense, class) = [q \in 1..ArrivalOffsets(class.caps)[NumChips] |-> Cell(q)]
      BY Zenon DEF PackedMain
    <3> HIDE DEF Cell
    <3> QED
      BY ONLY <2>2, <3>1
  <2> QED
    BY ONLY <2>1, <2>2, <2>3, Zenon DEF IsArray
<1>5. ASSUME NEW i \in ChipIds, NEW w \in 0..Width[i] - 1, NEW row \in 0..class.caps[i] - 1
      PROVE  PackedMain(Dense(class), class)
                 [ArrivalOffsets(class.caps)[i - 1] + w * class.caps[i] + row + 1]
                 = (IF row < shard[i] THEN <<i, w, row>> ELSE Zero)
  <2>1. PICK p : p = ArrivalOffsets(class.caps)[i - 1] + w * class.caps[i] + row + 1
    OBVIOUS
  <2>2. PackedMain(Dense(class), class)[p] = (IF row < shard[i] THEN <<i, w, row>> ELSE Zero)
    BY <1>1, <1>3, <2>1, PackedCell
  <2> QED
    BY ONLY <2>1, <2>2
<1>6. PICK x : x = PackedMain(Dense(class), class)
  OBVIOUS
<1>7. /\ arrival' = x /\ IsArray(x, ArrivalOffsets(class.caps)[NumChips])
      /\ \A i \in ChipIds : \A w \in 0..Width[i] - 1 : \A row \in 0..class.caps[i] - 1 :
             x[ArrivalOffsets(class.caps)[i - 1] + w * class.caps[i] + row + 1]
                 = (IF row < shard[i] THEN <<i, w, row>> ELSE Zero)
  BY ONLY <1>2, <1>4, <1>5, <1>6, Zenon
<1> QED
  BY ONLY <1>2, <1>3, <1>7, Zenon DEF ArrivalHolds

(***************************************************************************)
(* A step that leaves the arrival, its shard and its class alone.          *)
(***************************************************************************)
LEMMA ArrivalStays ==
    ASSUME ArrivalHolds, shard' = shard, class' = class, arrival' = arrival,
           pc' \in {"admit", "lay", "guard", "fold", "prove", "done"} =>
               pc \in {"admit", "lay", "guard", "fold", "prove", "done"}
    PROVE  ArrivalHolds'
BY Zenon DEF ArrivalHolds

(***************************************************************************)
(* No step loses the arrival.                                              *)
(***************************************************************************)
LEMMA NextArrival ==
    ASSUME StageHolds, ArrivalHolds, [Next]_vars
    PROVE  ArrivalHolds'
<1>1. CASE PackArrival /\ pc' = "admit"
  BY <1>1, PackArrivalHolds
<1>2. CASE PackArrival /\ pc' # "admit"
  <2>1. pc' = "raised"
    BY <1>2 DEF PackArrival, Raise
  <2> QED
    BY <2>1 DEF ArrivalHolds
<1>3. CASE [Next]_vars /\ ~PackArrival
  <2>1. /\ shard' = shard /\ class' = class /\ arrival' = arrival
        /\ pc' \in {"admit", "lay", "guard", "fold", "prove", "done"} =>
               pc \in {"admit", "lay", "guard", "fold", "prove", "done"}
    <3>1. CASE AdmitSlots
      BY <3>1 DEF AdmitSlots, Raise
    <3>2. CASE LayIn
      BY <3>2 DEF LayIn
    <3>3. CASE LayTail
      BY <3>3 DEF LayTail
    <3>4. CASE GuardClass
      BY <3>4 DEF GuardClass, Raise
    <3>5. CASE Transition
      BY <3>5 DEF Transition
    <3>6. CASE ExtractOutputs
      BY <3>6 DEF ExtractOutputs, Raise
    <3>7. CASE ProveLayer
      BY <3>7 DEF ProveLayer
    <3>8. CASE OpenTraces
      BY <3>8 DEF OpenTraces
    <3>9. CASE Ended \/ UNCHANGED vars
      BY <3>9 DEF Ended, vars
    <3> QED
      BY <1>3, <3>1, <3>2, <3>3, <3>4, <3>5, <3>6, <3>7, <3>8, <3>9 DEF Next
  <2> QED
    BY <2>1, ArrivalStays
<1> QED
  BY <1>1, <1>2, <1>3

(***************************************************************************)
(* The live rows of a column that is zero from some row on.                *)
(***************************************************************************)
ZeroFrom(c, h, n, x, w) ==
    /\ h \in Nat /\ n \in Nat /\ n <= h /\ x \in Int /\ x # 0
    /\ \A row \in 0..h - 1 : c[row + 1] = (IF row < n THEN <<x, w, row>> ELSE Zero)

(***************************************************************************)
(* The live rows of a column that is zero from row n on are the rows       *)
(* before n.                                                               *)
(***************************************************************************)
LEMMA LiveColumn ==
    ASSUME NEW c, NEW h, NEW n, NEW x, NEW w, ZeroFrom(c, h, n, x, w)
    PROVE  Live(c, h, 0, h) = {<<r, <<x, w, r>>>> : r \in 0..n - 1}
<1> /\ h \in Nat /\ n \in Nat /\ n <= h /\ x \in Int /\ x # 0
    /\ \A row \in 0..h - 1 : c[row + 1] = (IF row < n THEN <<x, w, row>> ELSE Zero)
  BY DEF ZeroFrom
<1>1. \A row : <<x, w, row>> # Zero
  BY DEF Zero
<1>2. {q \in 0..0 + h - 1 : q < h /\ c[q + 1] # Zero} = 0..n - 1
  <2>1. ASSUME NEW q \in 0..0 + h - 1 PROVE (q < h /\ c[q + 1] # Zero) <=> q \in 0..n - 1
    <3>1. q \in 0..h - 1 /\ q < h /\ (q < n <=> q \in 0..n - 1)
      OBVIOUS
    <3>2. c[q + 1] = (IF q < n THEN <<x, w, q>> ELSE Zero)
      BY <3>1
    <3> QED
      BY ONLY <1>1, <3>1, <3>2
  <2>2. 0..n - 1 \subseteq 0..0 + h - 1
    OBVIOUS
  <2> QED
    BY ONLY <2>1, <2>2
<1>3. ASSUME NEW r \in 0..n - 1 PROVE <<r - 0, c[r + 1]>> = <<r, <<x, w, r>>>>
  <2>1. r \in 0..h - 1 /\ r < n /\ r - 0 = r
    OBVIOUS
  <2>2. c[r + 1] = <<x, w, r>>
    BY <2>1
  <2> QED
    BY ONLY <2>1, <2>2
<1>4. Live(c, h, 0, h) = {<<r - 0, c[r + 1]>> : r \in 0..n - 1}
  BY ONLY <1>2, Zenon DEF Live
<1> QED
  BY ONLY <1>3, <1>4

(***************************************************************************)
(* Each column of a zone, from its stretch of the flat.                    *)
(***************************************************************************)
Zone(flat, n, start, width, h, w, live, x) ==
    /\ n \in Nat /\ IsArray(flat, n)
    /\ start \in Nat /\ width \in Nat /\ h \in Nat /\ w \in 0..width - 1
    /\ h # 0 => start + w * h + h <= n
    /\ live \in Nat /\ live <= h /\ x \in Int /\ x # 0
    /\ \A row \in 0..h - 1 : flat[start + w * h + row + 1]
                                  = (IF row < live THEN <<x, w, row>> ELSE Zero)

(***************************************************************************)
(* Opening a chip's zone of an array opens each of its columns at its live *)
(* rows.                                                                   *)
(***************************************************************************)
LEMMA OpenZone ==
    ASSUME NEW flat, NEW n, NEW start, NEW width, NEW h, NEW w, NEW live, NEW x,
           Zone(flat, n, start, width, h, w, live, x)
    PROVE  OpenChip(flat, start, width, h)[w] = {<<r, <<x, w, r>>>> : r \in 0..live - 1}
<1> /\ n \in Nat /\ IsArray(flat, n)
    /\ start \in Nat /\ width \in Nat /\ h \in Nat /\ w \in 0..width - 1
    /\ h # 0 => start + w * h + h <= n
    /\ live \in Nat /\ live <= h /\ x \in Int /\ x # 0
    /\ \A row \in 0..h - 1 : flat[start + w * h + row + 1]
                                  = (IF row < live THEN <<x, w, row>> ELSE Zero)
  BY DEF Zone
<1>1. PICK c : c = SubSeq(flat, start + w * h + 1, start + (w + 1) * h)
  OBVIOUS
<1>2. OpenChip(flat, start, width, h)[w] = OpenColumn(width, h, c)
  BY <1>1 DEF OpenChip
<1>3. OpenColumn(width, h, c) = Live(c, h, 0, h)
  BY OpenColumnFolds
<1>4. PICK a \in Nat : a = start + w * h
  <2>1. start + w * h \in Nat
    BY ONLY start \in Nat, width \in Nat, w \in 0..width - 1, h \in Nat, Z3
  <2> QED
    BY <2>1
<1>5. start + (w + 1) * h = a + h
  <2>1. (w + 1) * h = w * h + h /\ w * h \in Int
    BY ONLY width \in Nat, w \in 0..width - 1, h \in Nat, Z3
  <2> QED
    BY ONLY <2>1, <1>4, start \in Nat, h \in Nat
<1>6. ASSUME NEW row \in 0..h - 1
      PROVE  c[row + 1] = (IF row < live THEN <<x, w, row>> ELSE Zero)
  <2>1. h # 0 /\ row + 1 \in 1..h /\ a + h <= n
    BY <1>4
  <2>2. c = [k \in 1..h |-> flat[a + k]]
    <3>1. SubSeq(flat, a + 1, a + h) = [k \in 1..h |-> flat[a + k]]
      BY <2>1, SliceArray
    <3> QED
      BY ONLY <3>1, <1>1, <1>4, <1>5
  <2>3. c[row + 1] = flat[a + (row + 1)]
    BY ONLY <2>1, <2>2
  <2>4. flat[a + row + 1] = (IF row < live THEN <<x, w, row>> ELSE Zero)
    BY <1>4
  <2>5. a + row + 1 = a + (row + 1)
    OBVIOUS
  <2> QED
    BY ONLY <2>3, <2>4, <2>5
<1>7. Live(c, h, 0, h) = {<<r, <<x, w, r>>>> : r \in 0..live - 1}
  <2>1. ZeroFrom(c, h, live, x, w)
    BY <1>6 DEF ZeroFrom
  <2> QED
    BY ONLY <2>1, LiveColumn
<1> QED
  BY ONLY <1>2, <1>3, <1>7

(***************************************************************************)
(* The main openings of a chip are of the shard's rows, though folded at   *)
(* class heights.                                                          *)
(***************************************************************************)
LEMMA OpenMainExact ==
    ASSUME StageHolds, ArrivalHolds, pc = "prove",
           NEW i \in ChipIds, NEW w \in 0..Width[i] - 1
    PROVE  OpenMain(i)[w] = {<<r, <<i, w, r>>>> : r \in 0..shard[i] - 1}
<1>1. class.caps \in [ChipIds -> Nat] /\ shard \in [ChipIds -> Nat]
  BY ClassOfShard DEF StageHolds, IsClass
<1>2. PICK s : s = ArrivalOffsets(class.caps)
  OBVIOUS
<1>3. PICK h \in Nat : h = class.caps[i]
  BY <1>1
<1>4. PICK live \in Nat : live = shard[i] /\ live <= h
  BY <1>1, <1>3 DEF ArrivalHolds
<1>5. PICK W \in Nat : W = Width[i] /\ w \in 0..W - 1
  BY <1>1, CellsHold
<1>6. PICK start \in Nat : start = s[i - 1]
  BY <1>1, <1>2, CellsHold, BlockBounds DEF ChipIds
<1>7. PICK n \in Nat : n = s[NumChips] /\ IsArray(arrival, n)
  <2>1. s[NumChips] \in Nat
    <3>1. PICK c \in Seq(Nat) : c = Cells(class.caps) /\ Len(c) = NumChips /\ s = Prefix(c)
      BY <1>1, <1>2, CellsHold
    <3>2. i \in 1..Len(c)
      BY <3>1 DEF ChipIds
    <3> QED
      BY <3>1, <3>2, BlockBounds DEF Total
  <2> QED
    BY ONLY <2>1, <1>2, ArrivalHolds, pc = "prove" DEF ArrivalHolds
<1>8. i \in Int /\ i # 0
  BY LayoutNumbers DEF ChipIds
<1>9. \A row \in 0..h - 1 : arrival[start + w * h + row + 1]
                                = (IF row < live THEN <<i, w, row>> ELSE Zero)
  BY ONLY <1>2, <1>3, <1>4, <1>6, ArrivalHolds, pc = "prove", i \in ChipIds,
          w \in 0..Width[i] - 1 DEF ArrivalHolds
<1>10. h # 0 => start + w * h + h <= n
  <2> SUFFICES ASSUME h # 0 PROVE start + w * h + h <= n
    OBVIOUS
  <2>1. PICK p : p = start + w * h + (h - 1) + 1
    OBVIOUS
  <2>2. h - 1 \in 0..class.caps[i] - 1
    BY <1>3
  <2>3. p \in 1..s[NumChips]
    BY <1>1, <1>2, <1>3, <1>6, <2>1, <2>2, ChipPlace
  <2>4. w * h \in Int
    BY ONLY <1>5, W \in Nat, h \in Nat, Z3
  <2> QED
    BY ONLY <1>7, <2>1, <2>3, <2>4, start \in Nat, h \in Nat, n \in Nat
<1>11. OpenChip(arrival, start, W, h)[w] = {<<r, <<i, w, r>>>> : r \in 0..live - 1}
  <2>1. Zone(arrival, n, start, W, h, w, live, i)
    BY ONLY <1>4, <1>5, <1>7, <1>8, <1>9, <1>10, n \in Nat, start \in Nat, W \in Nat,
            h \in Nat, live \in Nat, Zenon DEF Zone
  <2> QED
    BY ONLY <2>1, OpenZone
<1>12. OpenMain(i) = OpenChip(arrival, start, W, h)
  BY ONLY <1>2, <1>3, <1>5, <1>6, Zenon DEF OpenMain
<1> QED
  BY ONLY <1>4, <1>11, <1>12, Zenon

(***************************************************************************)
(* The preprocessed openings of a chip are of all the rows of its table.   *)
(***************************************************************************)
LEMMA OpenPrepExact ==
    ASSUME NEW i \in DOMAIN Prep, NEW w \in 0..Prep[i].w - 1
    PROVE  OpenPrep(i)[w] = {<<r, <<-i, w, r>>>> : r \in 0..Prep[i].h - 1}
<1>1. i \in ChipIds /\ Prep[i].w \in Nat /\ Prep[i].h \in Nat
  BY LayoutAssumption
<1>2. PICK h \in Nat : h = Prep[i].h
  BY <1>1
<1>3. PICK W \in Nat : W = Prep[i].w /\ w \in 0..W - 1
  BY <1>1
<1>4. PICK s : s = PrepOffsets
  OBVIOUS
<1>5. PICK n \in Nat : n = s[NumChips] /\ s[i - 1] \in Nat
  BY <1>1, <1>4, PrepBounds
<1>6. PICK start \in Nat : start = s[i - 1]
  BY <1>5
<1>7. IsArray(PrepFlat, n)
  <2>1. PrepFlat = [p \in 1..PrepOffsets[NumChips] |-> PrepFlat[p]]
    BY DEF PrepFlat
  <2> QED
    BY ONLY <1>4, <1>5, <2>1, Zenon DEF IsArray
<1>8. -i \in Int /\ -i # 0
  BY <1>1, LayoutNumbers DEF ChipIds
<1>9. ASSUME NEW row \in 0..h - 1
      PROVE  PrepFlat[start + w * h + row + 1] = <<-i, w, row>>
             /\ start + w * h + row + 1 \in 1..n
  <2>1. PICK p : p = PrepOffsets[i - 1] + w * Prep[i].h + row + 1
    OBVIOUS
  <2>2. row \in 0..Prep[i].h - 1
    BY <1>2
  <2>3. PrepFlat[p] = <<-i, w, row>> /\ p \in 1..PrepOffsets[NumChips]
    BY <2>1, <2>2, PrepCell
  <2> QED
    BY ONLY <1>2, <1>4, <1>5, <1>6, <2>1, <2>3
<1>10. h # 0 => start + w * h + h <= n
  <2> SUFFICES ASSUME h # 0 PROVE start + w * h + h <= n
    OBVIOUS
  <2>1. h - 1 \in 0..h - 1
    OBVIOUS
  <2>2. start + w * h + (h - 1) + 1 \in 1..n
    BY <1>9, <2>1
  <2>3. w * h \in Int
    BY ONLY <1>3, W \in Nat, h \in Nat, Z3
  <2> QED
    BY ONLY <2>2, <2>3, start \in Nat, h \in Nat, n \in Nat
<1>11. \A row \in 0..h - 1 : PrepFlat[start + w * h + row + 1]
                                 = (IF row < h THEN <<-i, w, row>> ELSE Zero)
  BY <1>9
<1>12. OpenChip(PrepFlat, start, W, h)[w] = {<<r, <<-i, w, r>>>> : r \in 0..h - 1}
  <2>1. h <= h
    OBVIOUS
  <2>2. Zone(PrepFlat, n, start, W, h, w, h, -i)
    BY ONLY <2>1, <1>3, <1>7, <1>8, <1>10, <1>11, n \in Nat, start \in Nat, W \in Nat,
            h \in Nat, Zenon DEF Zone
  <2> QED
    BY ONLY <2>2, OpenZone
<1>13. OpenPrep(i) = OpenChip(PrepFlat, start, W, h)
  BY ONLY <1>2, <1>3, <1>4, <1>6, i \in DOMAIN Prep, Zenon DEF OpenPrep
<1> QED
  BY ONLY <1>2, <1>12, <1>13, Zenon

(***************************************************************************)
(* OpenIsExact is kept by every step, of an arrival that holds its columns.*)
(***************************************************************************)
LEMMA NextOpened ==
    ASSUME StageHolds, ArrivalHolds, OpenIsExact, [Next]_vars
    PROVE  OpenIsExact'
<1>1. CASE OpenTraces
  <2>1. PICK i : i = Len(opened) + 1
    OBVIOUS
  <2>2. /\ pc = "prove" /\ Len(opened) < NumChips /\ shard' = shard
        /\ opened' = Append(opened, [main |-> OpenMain(i), prep |-> OpenPrep(i)])
    BY <1>1, <2>1 DEF OpenTraces
  <2>3. IsSeq(opened) /\ Len(opened) \in Nat /\ NumChips \in Nat
    BY LongerSeq, LayoutNumbers DEF StageHolds
  <2>4. i \in ChipIds /\ Len(opened') = i
    BY <2>1, <2>2, <2>3, LongerSeq DEF ChipIds
  <2>5. PICK o : o = [main |-> OpenMain(i), prep |-> OpenPrep(i)]
    OBVIOUS
  <2>6. opened'[i] = o /\ \A j \in 1..Len(opened) : opened'[j] = opened[j]
    <3>1. PICK S : opened \in Seq(S)
      BY <2>3 DEF IsSeq
    <3>2. opened' = Append(opened, o)
      BY ONLY <2>2, <2>5
    <3> QED
      BY ONLY <2>1, <3>1, <3>2
  <2>7. \A w \in 0..Width[i] - 1 : o.main[w] = {<<r, <<i, w, r>>>> : r \in 0..shard[i] - 1}
    BY ONLY <2>2, <2>4, <2>5, OpenMainExact, StageHolds, ArrivalHolds, Zenon
  <2>8. i \in DOMAIN Prep =>
            \A w \in 0..Prep[i].w - 1 : o.prep[w] = {<<r, <<-i, w, r>>>> : r \in 0..Prep[i].h - 1}
    BY ONLY <2>5, OpenPrepExact, Zenon
  <2>9. \A j \in 1..Len(opened') : j = i \/ j \in 1..Len(opened)
    BY <2>1, <2>3, <2>4
  <2>10. \A j \in 1..Len(opened) :
            /\ \A w \in 0..Width[j] - 1 :
                   opened'[j].main[w] = {<<r, <<j, w, r>>>> : r \in 0..shard'[j] - 1}
            /\ j \in DOMAIN Prep =>
                   \A w \in 0..Prep[j].w - 1 :
                       opened'[j].prep[w] = {<<r, <<-j, w, r>>>> : r \in 0..Prep[j].h - 1}
    BY ONLY <2>2, <2>6, OpenIsExact, Zenon DEF OpenIsExact
  <2>11. /\ \A w \in 0..Width[i] - 1 :
                opened'[i].main[w] = {<<r, <<i, w, r>>>> : r \in 0..shard'[i] - 1}
         /\ i \in DOMAIN Prep =>
                \A w \in 0..Prep[i].w - 1 :
                    opened'[i].prep[w] = {<<r, <<-i, w, r>>>> : r \in 0..Prep[i].h - 1}
    BY ONLY <2>2, <2>6, <2>7, <2>8, Zenon
  <2>12. \A j \in 1..Len(opened') :
            /\ \A w \in 0..Width[j] - 1 :
                   opened'[j].main[w] = {<<r, <<j, w, r>>>> : r \in 0..shard'[j] - 1}
            /\ j \in DOMAIN Prep =>
                   \A w \in 0..Prep[j].w - 1 :
                       opened'[j].prep[w] = {<<r, <<-j, w, r>>>> : r \in 0..Prep[j].h - 1}
    <3> SUFFICES ASSUME NEW j \in 1..Len(opened')
                 PROVE  /\ \A w \in 0..Width[j] - 1 :
                              opened'[j].main[w] = {<<r, <<j, w, r>>>> : r \in 0..shard'[j] - 1}
                        /\ j \in DOMAIN Prep => \A w \in 0..Prep[j].w - 1 :
                              opened'[j].prep[w] = {<<r, <<-j, w, r>>>> : r \in 0..Prep[j].h - 1}
      OBVIOUS
    <3>1. CASE j = i
      BY ONLY <3>1, <2>11, Zenon
    <3>2. CASE j \in 1..Len(opened)
      BY ONLY <3>2, <2>10, Zenon
    <3> QED
      BY ONLY <2>9, <3>1, <3>2, Zenon
  <2> QED
    BY ONLY <2>12, Zenon DEF OpenIsExact
<1>2. CASE [Next]_vars /\ ~OpenTraces
  <2>1. shard' = shard /\ opened' = opened
    <3>1. CASE PackArrival
      BY <3>1 DEF PackArrival, Raise
    <3>2. CASE AdmitSlots
      BY <3>2 DEF AdmitSlots, Raise
    <3>3. CASE LayIn \/ LayTail \/ Transition \/ ProveLayer
      BY <3>3 DEF LayIn, LayTail, Transition, ProveLayer
    <3>4. CASE GuardClass \/ ExtractOutputs
      BY <3>4 DEF GuardClass, ExtractOutputs, Raise
    <3>5. CASE Ended \/ UNCHANGED vars
      BY <3>5 DEF Ended, vars
    <3> QED
      BY <1>2, <3>1, <3>2, <3>3, <3>4, <3>5 DEF Next
  <2> QED
    BY <2>1, Zenon DEF OpenIsExact
<1> QED
  BY <1>1, <1>2

(***************************************************************************)
(* Whenever the traces are opened, every column a chip opens is the sum    *)
(* over exactly the live rows of its trace, however the class heights pad  *)
(* it and the chunks fold it.                                              *)
(***************************************************************************)
THEOREM OpeningsExact == Spec => []OpenIsExact
<1>1. Init => ArrivalHolds /\ OpenIsExact
  <2> SUFFICES ASSUME Init PROVE ArrivalHolds /\ OpenIsExact
    OBVIOUS
  <2>1. pc = "pack" /\ opened = <<>>
    BY DEF Init
  <2>2. ArrivalHolds
    BY <2>1 DEF ArrivalHolds
  <2>3. 1..Len(opened) = {}
    BY <2>1
  <2> QED
    BY <2>2, <2>3 DEF OpenIsExact
<1>2. IInv /\ ArrivalHolds /\ OpenIsExact /\ [Next]_vars => ArrivalHolds' /\ OpenIsExact'
  BY NextArrival, NextOpened DEF IInv
<1> QED
  BY <1>1, <1>2, AlwaysIInv, PTL DEF Spec

(***************************************************************************)
(* The batched weight matrix.  Pairs are <<cell, weight>>, weights integer.*)
(***************************************************************************)
IsPairs(s, n) == n \in Nat /\ IsArray(s, n) /\ \A k \in 1..n : s[k][2] \in Int

(***************************************************************************)
(* The weight of a cell is the sum of the weights of its pairs.            *)
(***************************************************************************)
LEMMA WeightDef ==
    ASSUME NEW s, NEW n, IsPairs(s, n), NEW y, NEW c,
           c = [k \in 1..n |-> IF s[k][1] = y THEN s[k][2] ELSE 0]
    PROVE  c \in Seq(Int) /\ Len(c) = n /\ Weight(s, y) = Total(c) /\ Len(s) = n
<1>1. n \in Nat /\ \A k \in 1..n : s[k][2] \in Int
  BY DEF IsPairs
<1>2. Len(s) = n
  BY TabulatedSeq DEF IsPairs, IsArray
<1>3. c \in [1..n -> Int]
  BY <1>1
<1>4. c \in Seq(Int) /\ Len(c) = n
  BY <1>1, <1>3
<1>5. Weight(s, y) = Total(c)
  BY ONLY <1>2, c = [k \in 1..n |-> IF s[k][1] = y THEN s[k][2] ELSE 0], Zenon DEF Weight
<1> QED
  BY <1>2, <1>4, <1>5

\* A cell no pair has weighs nothing.
LEMMA WeightVanishes ==
    ASSUME NEW s, NEW n, IsPairs(s, n), NEW y, \A k \in 1..n : s[k][1] # y
    PROVE  Weight(s, y) = 0
<1>1. PICK c : c = [k \in 1..n |-> IF s[k][1] = y THEN s[k][2] ELSE 0]
  OBVIOUS
<1>2. c \in Seq(Int) /\ Len(c) = n /\ Weight(s, y) = Total(c)
  BY ONLY <1>1, WeightDef, IsPairs(s, n)
<1>3. \A k \in 1..n : c[k] = 0
  BY ONLY <1>1, \A k \in 1..n : s[k][1] # y
<1> QED
  BY <1>2, <1>3, SumOfZeros

(***************************************************************************)
(* A linear combination is a matter of the weights alone.                  *)
(***************************************************************************)
LEMMA LinearOfWeights ==
    ASSUME NEW s, NEW n, IsPairs(s, n), NEW t, NEW m, IsPairs(t, m), NEW const,
           \A y : y # Zero => Weight(s, y) = Weight(t, y)
    PROVE  Linear(const, s) = Linear(const, t)
<1> DEFINE Weighed(u, k) == {y \in {u[j][1] : j \in 1..k} \ {Zero} : Weight(u, y) # 0}
<1>1. Len(s) = n /\ Len(t) = m
  BY TabulatedSeq DEF IsPairs, IsArray
<1>2. ASSUME NEW y, y # Zero, Weight(s, y) # 0
      PROVE  y \in {s[j][1] : j \in 1..n} /\ y \in {t[j][1] : j \in 1..m}
  <2>1. Weight(t, y) # 0
    BY <1>2
  <2>2. \E j \in 1..n : s[j][1] = y
    BY ONLY <1>2, WeightVanishes, IsPairs(s, n), Zenon
  <2>3. \E j \in 1..m : t[j][1] = y
    BY ONLY <2>1, WeightVanishes, IsPairs(t, m), Zenon
  <2> QED
    BY ONLY <2>2, <2>3
<1>3. Weighed(s, n) = Weighed(t, m)
  <2>1. ASSUME NEW y PROVE y \in Weighed(s, n) <=> y # Zero /\ Weight(s, y) # 0
    BY ONLY <1>2
  <2>2. ASSUME NEW y PROVE y \in Weighed(t, m) <=> y # Zero /\ Weight(t, y) # 0
    BY ONLY <1>2, \A x : x # Zero => Weight(s, x) = Weight(t, x)
  <2> HIDE DEF Weighed
  <2> QED
    BY ONLY <2>1, <2>2, \A y : y # Zero => Weight(s, y) = Weight(t, y)
<1>4. /\ Linear(const, s) = [const |-> const, terms |-> {<<x, Weight(s, x)>> : x \in Weighed(s, n)}]
      /\ Linear(const, t) = [const |-> const, terms |-> {<<x, Weight(t, x)>> : x \in Weighed(t, m)}]
  BY ONLY <1>1, Zenon DEF Linear
<1>5. \A x \in Weighed(t, m) : x # Zero
  OBVIOUS
<1> HIDE DEF Weighed
<1>6. {<<x, Weight(s, x)>> : x \in Weighed(s, n)} = {<<x, Weight(t, x)>> : x \in Weighed(t, m)}
  BY ONLY <1>3, <1>5, \A y : y # Zero => Weight(s, y) = Weight(t, y)
<1> QED
  BY ONLY <1>4, <1>6, Zenon

(***************************************************************************)
(* Terms gathered by the column they name: n terms, of which term k reads  *)
(* column col[k] of m, or none if col[k] is 0.  Cells of different columns *)
(* differ unless they are zero.  Row x sums the weights of the terms that  *)
(* read column x.                                                          *)
(***************************************************************************)
Gathers(n, m, col, wt, cell, row, s, t) ==
    /\ n \in Nat /\ m \in Nat
    /\ \A k \in 1..n : col[k] \in 0..m /\ wt[k] \in Int
    /\ \A x \in 1..m : \A y \in 1..m : cell[x] # Zero /\ cell[x] = cell[y] => x = y
    /\ \A x \in 1..m : row[x] = Total([k \in 1..n |-> IF col[k] = x THEN wt[k] ELSE 0])
    /\ s = [x \in 1..m |-> <<cell[x], row[x]>>]
    /\ t = [k \in 1..n |-> <<IF col[k] = 0 THEN Zero ELSE cell[col[k]], wt[k]>>]

(***************************************************************************)
(* Gathering the weights of the terms column by column changes no linear   *)
(* form.                                                                   *)
(***************************************************************************)
LEMMA LinearGathers ==
    ASSUME NEW n, NEW m, NEW col, NEW wt, NEW cell, NEW row, NEW s, NEW t,
           Gathers(n, m, col, wt, cell, row, s, t), NEW const
    PROVE  Linear(const, s) = Linear(const, t)
<1> /\ n \in Nat /\ m \in Nat
    /\ \A k \in 1..n : col[k] \in 0..m /\ wt[k] \in Int
    /\ \A x \in 1..m : \A y \in 1..m : cell[x] # Zero /\ cell[x] = cell[y] => x = y
    /\ \A x \in 1..m : row[x] = Total([k \in 1..n |-> IF col[k] = x THEN wt[k] ELSE 0])
    /\ s = [x \in 1..m |-> <<cell[x], row[x]>>]
    /\ t = [k \in 1..n |-> <<IF col[k] = 0 THEN Zero ELSE cell[col[k]], wt[k]>>]
  BY DEF Gathers
<1>1. ASSUME NEW x \in 1..m
      PROVE  row[x] \in Int
  <2>1. PICK c : c = [k \in 1..n |-> IF col[k] = x THEN wt[k] ELSE 0]
    OBVIOUS
  <2>2. c \in [1..n -> Int]
    BY <2>1
  <2>3. c \in Seq(Int)
    BY <2>2
  <2>4. Total(c) \in Int
    BY <2>3, TotalInt
  <2> QED
    BY ONLY <2>1, <2>4, x \in 1..m,
            \A z \in 1..m : row[z] = Total([k \in 1..n |-> IF col[k] = z THEN wt[k] ELSE 0])
<1>2. IsPairs(s, m)
  <2>1. s = [x \in 1..m |-> s[x]]
    OBVIOUS
  <2>2. \A x \in 1..m : s[x][2] \in Int
    BY <1>1
  <2> QED
    BY ONLY <2>1, <2>2, m \in Nat DEF IsPairs, IsArray
<1>3. IsPairs(t, n)
  <2>1. t = [k \in 1..n |-> t[k]]
    OBVIOUS
  <2>2. \A k \in 1..n : t[k][2] \in Int
    OBVIOUS
  <2> QED
    BY ONLY <2>1, <2>2, n \in Nat DEF IsPairs, IsArray
<1>4. /\ \A x \in 1..m : s[x][1] = cell[x] /\ s[x][2] = row[x]
      /\ \A k \in 1..n : /\ t[k][1] = (IF col[k] = 0 THEN Zero ELSE cell[col[k]])
                         /\ t[k][2] = wt[k]
  OBVIOUS
<1>5. ASSUME NEW y, y # Zero PROVE Weight(s, y) = Weight(t, y)
  <2>1. CASE \E x \in 1..m : cell[x] = y
    <3>1. PICK x \in 1..m : cell[x] = y
      BY <2>1
    <3>2. PICK c : c = [k \in 1..m |-> IF s[k][1] = y THEN s[k][2] ELSE 0]
      OBVIOUS
    <3>3. c \in Seq(Int) /\ Len(c) = m /\ Weight(s, y) = Total(c)
      BY ONLY <1>2, <3>2, WeightDef
    <3>4. c[x] = row[x] /\ \A k \in 1..m : k # x => c[k] = 0
      BY ONLY <3>1, <3>2, <1>4, <1>5, x \in 1..m,
              \A z \in 1..m : \A w \in 1..m : cell[z] # Zero /\ cell[z] = cell[w] => z = w
    <3>5. Total(c) = row[x]
      BY <3>3, <3>4, SumOfOne
    <3>6. PICK d : d = [k \in 1..n |-> IF t[k][1] = y THEN t[k][2] ELSE 0]
      OBVIOUS
    <3>7. d \in Seq(Int) /\ Len(d) = n /\ Weight(t, y) = Total(d)
      BY ONLY <1>3, <3>6, WeightDef
    <3>8. ASSUME NEW k \in 1..n
          PROVE  (IF t[k][1] = y THEN t[k][2] ELSE 0) = (IF col[k] = x THEN wt[k] ELSE 0)
      <4>1. t[k][1] = (IF col[k] = 0 THEN Zero ELSE cell[col[k]]) /\ t[k][2] = wt[k]
        BY ONLY <1>4, k \in 1..n
      <4>2. CASE col[k] = 0
        <5>1. t[k][1] # y /\ col[k] # x
          BY ONLY <4>1, <4>2, <1>5, x \in 1..m, m \in Nat
        <5> QED
          BY ONLY <5>1
      <4>3. CASE col[k] # 0
        <5>1. col[k] \in 1..m
          BY <4>3
        <5>2. t[k][1] = y <=> col[k] = x
          BY ONLY <4>1, <4>3, <5>1, <3>1, <1>5, x \in 1..m,
              \A z \in 1..m : \A w \in 1..m : cell[z] # Zero /\ cell[z] = cell[w] => z = w
        <5> QED
          BY ONLY <4>1, <5>2
      <4> QED
        BY <4>2, <4>3
    <3>9. d = [k \in 1..n |-> IF col[k] = x THEN wt[k] ELSE 0]
      BY ONLY <3>6, <3>8
    <3>10. row[x] = Total(d)
      BY ONLY <3>9, x \in 1..m,
          \A z \in 1..m : row[z] = Total([k \in 1..n |-> IF col[k] = z THEN wt[k] ELSE 0])
    <3> QED
      BY ONLY <3>3, <3>5, <3>7, <3>10
  <2>2. CASE ~ \E x \in 1..m : cell[x] = y
    <3>1. \A x \in 1..m : s[x][1] # y
      BY ONLY <1>4, <2>2
    <3>2. ASSUME NEW k \in 1..n PROVE t[k][1] # y
      <4>1. col[k] # 0 => col[k] \in 1..m
        OBVIOUS
      <4> QED
        BY ONLY <4>1, <1>4, <1>5, <2>2, k \in 1..n
    <3>3. Weight(s, y) = 0
      BY ONLY <3>1, <1>2, WeightVanishes
    <3>4. Weight(t, y) = 0
      BY ONLY <3>2, <1>3, WeightVanishes
    <3> QED
      BY ONLY <3>3, <3>4
  <2> QED
    BY <2>1, <2>2
<1> QED
  BY ONLY <1>2, <1>3, <1>5, LinearOfWeights

(***************************************************************************)
(* The row of a chip's trace, column by column.                            *)
(***************************************************************************)
NumColumns(i) == Width[i] + (IF UsesPrep(i) THEN Prep[i].w ELSE 0)
RowCell(i, row, x) ==
    IF x <= Width[i] THEN <<i, x - 1, row>>
    ELSE IF row < Prep[i].h THEN <<-i, x - Width[i] - 1, row>> ELSE Zero

(***************************************************************************)
(* How many columns a chip's forms see.                                    *)
(***************************************************************************)
LEMMA ColumnsHold ==
    ASSUME NEW i \in ChipIds
    PROVE  /\ Width[i] \in Nat /\ NumColumns(i) \in Nat /\ i \in Nat /\ i >= 1
           /\ i \in DOMAIN Prep => Prep[i].w \in Nat /\ Prep[i].h \in Nat
           /\ UsesPrep(i) => i \in DOMAIN Prep /\ NumColumns(i) = Width[i] + Prep[i].w
           /\ ~UsesPrep(i) => NumColumns(i) = Width[i]
<1>1. Width[i] \in Nat /\ i \in Nat /\ i >= 1
  BY LayoutNumbers, LayoutAssumption DEF ChipIds, NumChips
<1>2. i \in DOMAIN Prep => Prep[i].w \in Nat /\ Prep[i].h \in Nat
  BY LayoutAssumption
<1>3. UsesPrep(i) => i \in DOMAIN Prep
  BY Zenon DEF UsesPrep
<1> QED
  BY <1>1, <1>2, <1>3 DEF NumColumns

(***************************************************************************)
(* A live row gathered from the arrival is the chip's row, main columns    *)
(* first.                                                                  *)
(***************************************************************************)
LEMMA TraceRowExact ==
    ASSUME StageHolds, ArrivalHolds, Laid, NEW i \in ChipIds, NEW row \in 0..shard[i] - 1
    PROVE  TraceRow(i, row) = [x \in 1..NumColumns(i) |-> RowCell(i, row, x)]
<1>1. class.caps \in [ChipIds -> Nat] /\ shard \in [ChipIds -> Nat]
  BY ClassOfShard DEF StageHolds, IsClass
<1>2. pc \in {"admit", "lay", "guard", "fold", "prove", "done"}
  BY DEF Laid
<1>3. PICK h \in Nat : h = class.caps[i] /\ row \in 0..h - 1
  <2>1. shard[i] <= class.caps[i] /\ class.caps[i] \in Nat /\ shard[i] \in Nat
    BY <1>1, <1>2 DEF ArrivalHolds
  <2> QED
    BY <2>1
<1>4. PICK W \in Nat : W = Width[i]
  BY ColumnsHold
<1>5. PICK m \in Nat : m = NumColumns(i)
  BY ColumnsHold
<1> DEFINE Cell(x) == IF x <= Width[i]
                      THEN arrival[ArrivalOffsets(class.caps)[i - 1]
                                   + (x - 1) * class.caps[i] + row + 1]
                      ELSE IF row < Prep[i].h
                      THEN PrepFlat[PrepOffsets[i - 1] + (x - Width[i] - 1) * Prep[i].h + row + 1]
                      ELSE Zero
<1>6. TraceRow(i, row) = [x \in 1..NumColumns(i) |-> Cell(x)]
  BY Zenon DEF TraceRow, NumColumns
<1>7. ASSUME NEW x \in 1..m PROVE Cell(x) = RowCell(i, row, x)
  <2>1. CASE x <= W
    <3>1. x - 1 \in 0..Width[i] - 1
      BY <1>4, <2>1
    <3>2. arrival[ArrivalOffsets(class.caps)[i - 1] + (x - 1) * class.caps[i] + row + 1]
              = (IF row < shard[i] THEN <<i, x - 1, row>> ELSE Zero)
      BY ONLY <1>2, <1>3, <3>1, ArrivalHolds, i \in ChipIds, Zenon DEF ArrivalHolds
    <3>3. row < shard[i]
      BY <1>1
    <3> QED
      BY ONLY <1>4, <2>1, <3>2, <3>3, Zenon DEF RowCell
  <2>2. CASE ~(x <= W)
    <3>1. UsesPrep(i) /\ i \in DOMAIN Prep /\ m = W + Prep[i].w
          /\ Prep[i].w \in Nat /\ Prep[i].h \in Nat
      BY <1>4, <1>5, <2>2, ColumnsHold
    <3>2. CASE row < Prep[i].h
      <4>1. PICK w : w = x - Width[i] - 1
        OBVIOUS
      <4>2. w \in 0..Prep[i].w - 1
        BY <1>4, <2>2, <3>1, <4>1
      <4>3. row \in 0..Prep[i].h - 1
        BY <3>1, <3>2
      <4>4. PICK p : p = PrepOffsets[i - 1] + w * Prep[i].h + row + 1
        OBVIOUS
      <4>5. PrepFlat[p] = <<-i, w, row>>
        BY <3>1, <4>2, <4>3, <4>4, PrepCell
      <4> QED
        BY ONLY <1>4, <2>2, <3>2, <4>1, <4>4, <4>5, Zenon DEF RowCell
    <3>3. CASE ~(row < Prep[i].h)
      BY ONLY <1>4, <2>2, <3>3, Zenon DEF RowCell
    <3> QED
      BY <3>2, <3>3
  <2> QED
    BY <2>1, <2>2
<1> HIDE DEF Cell
<1> QED
  BY ONLY <1>5, <1>6, <1>7

(***************************************************************************)
(* No cell of a row stands in two of its columns, but for the zero of a    *)
(* row past the table.                                                     *)
(***************************************************************************)
LEMMA RowCellsDiffer ==
    ASSUME NEW i \in ChipIds, NEW row, NEW x \in 1..NumColumns(i), NEW y \in 1..NumColumns(i),
           RowCell(i, row, x) # Zero, RowCell(i, row, x) = RowCell(i, row, y)
    PROVE  x = y
<1>1. Width[i] \in Nat /\ i \in Nat /\ i >= 1 /\ x \in Int /\ y \in Int
  BY ColumnsHold
<1>2. PICK a \in Int, b \in Int :
          /\ RowCell(i, row, x) = <<a, b, row>>
          /\ \/ x <= Width[i] /\ a = i /\ b = x - 1
             \/ ~(x <= Width[i]) /\ a = -i /\ b = x - Width[i] - 1
  <2>1. CASE x <= Width[i]
    <3>1. RowCell(i, row, x) = <<i, x - 1, row>>
      BY <2>1 DEF RowCell
    <3> QED
      BY <1>1, <2>1, <3>1
  <2>2. CASE ~(x <= Width[i])
    <3>1. RowCell(i, row, x) = <<-i, x - Width[i] - 1, row>>
      BY <2>2 DEF RowCell
    <3> QED
      BY <1>1, <2>2, <3>1
  <2> QED
    BY <2>1, <2>2
<1>3. PICK c \in Int, d \in Int :
          /\ RowCell(i, row, y) = <<c, d, row>>
          /\ \/ y <= Width[i] /\ c = i /\ d = y - 1
             \/ ~(y <= Width[i]) /\ c = -i /\ d = y - Width[i] - 1
  <2>1. CASE y <= Width[i]
    <3>1. RowCell(i, row, y) = <<i, y - 1, row>>
      BY <2>1 DEF RowCell
    <3> QED
      BY <1>1, <2>1, <3>1
  <2>2. CASE ~(y <= Width[i])
    <3>1. RowCell(i, row, y) = <<-i, y - Width[i] - 1, row>>
      BY <2>2 DEF RowCell
    <3> QED
      BY <1>1, <2>2, <3>1
  <2> QED
    BY <2>1, <2>2
<1>4. a = c /\ b = d
  BY ONLY <1>2, <1>3, RowCell(i, row, x) = RowCell(i, row, y)
<1> QED
  BY ONLY <1>1, <1>2, <1>3, <1>4, a \in Int, b \in Int, c \in Int, d \in Int

(***************************************************************************)
(* The batched evaluation of a form is the one term by term.               *)
(***************************************************************************)
SeesPrep(i, f) == i \in DOMAIN Prep /\ (\E n \in 1..Len(f.terms) : f.terms[n][2]) => UsesPrep(i)

Batched(i, row, f) ==
    Linear(FormRow(i, f).const,
           [x \in 1..Len(FormRow(i, f).row) |-> <<TraceRow(i, row)[x], FormRow(i, f).row[x]>>])

(***************************************************************************)
(* A form batched over all columns is the form applied term by term, at    *)
(* every live row.                                                         *)
(***************************************************************************)
LEMMA FormExact ==
    ASSUME StageHolds, ArrivalHolds, Laid, NEW i \in ChipIds, NEW row \in 0..shard[i] - 1,
           NEW f, NamesColumns(i, f), SeesPrep(i, f)
    PROVE  Batched(i, row, f) = ApplyBatch(f, i, row)
<1>1. PICK n \in Nat : n = Len(f.terms)
  BY Zenon DEF NamesColumns
<1>2. PICK m \in Nat : m = NumColumns(i)
  BY ColumnsHold
<1>3. PICK W \in Nat : W = Width[i]
  BY ColumnsHold
<1> DEFINE Col(k) == IF f.terms[k][2] => UsesPrep(i)
                     THEN (IF f.terms[k][2] THEN W + f.terms[k][1] ELSE f.terms[k][1]) + 1
                     ELSE 0
<1>4. PICK col : col = [k \in 1..n |-> Col(k)]
  OBVIOUS
<1>5. PICK wt : wt = [k \in 1..n |-> f.terms[k][3]]
  OBVIOUS
<1>6. PICK cell : cell = [x \in 1..m |-> RowCell(i, row, x)]
  OBVIOUS
<1>7. PICK r : r = FormRow(i, f).row
  OBVIOUS
<1>8. \A k \in 1..n : /\ f.terms[k][1] \in Nat /\ f.terms[k][2] \in BOOLEAN /\ f.terms[k][3] \in Int
                      /\ ~f.terms[k][2] => f.terms[k][1] < W
                      /\ f.terms[k][2] /\ i \in DOMAIN Prep => f.terms[k][1] < Prep[i].w
  BY ONLY <1>1, <1>3, NamesColumns(i, f), Zenon DEF NamesColumns
<1>9. ASSUME NEW k \in 1..n PROVE col[k] \in 0..m /\ wt[k] \in Int
  <2>1. col[k] = Col(k) /\ wt[k] = f.terms[k][3]
    BY ONLY <1>4, <1>5, k \in 1..n
  <2>2. CASE ~(f.terms[k][2] => UsesPrep(i))
    <3>1. Col(k) = 0
      BY <2>2
    <3> QED
      BY <2>1, <3>1, <1>8
  <2>3. CASE f.terms[k][2] /\ UsesPrep(i)
    <3>1. i \in DOMAIN Prep /\ Prep[i].w \in Nat /\ m = W + Prep[i].w
      BY <1>2, <1>3, <2>3, ColumnsHold
    <3>2. Col(k) = (W + f.terms[k][1]) + 1
      BY <2>3
    <3>3. f.terms[k][1] < Prep[i].w /\ f.terms[k][1] \in Nat
      BY <1>8, <2>3, <3>1
    <3>4. Col(k) \in 0..m
      BY ONLY <3>1, <3>2, <3>3, W \in Nat
    <3> QED
      BY <2>1, <3>4, <1>8
  <2>4. CASE ~f.terms[k][2]
    <3>1. W <= m
      BY <1>2, <1>3, ColumnsHold
    <3>2. Col(k) = f.terms[k][1] + 1
      BY <2>4
    <3>3. f.terms[k][1] < W /\ f.terms[k][1] \in Nat
      BY <1>8, <2>4
    <3>4. Col(k) \in 0..m
      BY ONLY <3>1, <3>2, <3>3, W \in Nat, m \in Nat
    <3> QED
      BY <2>1, <3>4, <1>8
  <2> QED
    BY <2>2, <2>3, <2>4, <1>8
<1>10. ASSUME NEW x \in 1..m, NEW y \in 1..m, cell[x] # Zero, cell[x] = cell[y] PROVE x = y
  <2>1. cell[x] = RowCell(i, row, x) /\ cell[y] = RowCell(i, row, y)
    BY ONLY <1>6, x \in 1..m, y \in 1..m
  <2> QED
    BY <1>2, <1>10, <2>1, RowCellsDiffer
<1>11. r = [x \in 1..m |-> Total([k \in 1..n |-> IF col[k] = x THEN wt[k] ELSE 0])]
  <2> DEFINE Named(t) == IF t[2] THEN Width[i] + t[1] ELSE t[1]
  <2>1. r = [x \in 1..NumColumns(i) |->
                Total([k \in 1..Len(f.terms) |->
                    IF (f.terms[k][2] => UsesPrep(i)) /\ Named(f.terms[k]) = x - 1
                    THEN f.terms[k][3] ELSE 0])]
    BY ONLY <1>7, Zenon DEF FormRow, NumColumns
  <2>2. ASSUME NEW x \in 1..m, NEW k \in 1..n
        PROVE  (IF (f.terms[k][2] => UsesPrep(i)) /\ Named(f.terms[k]) = x - 1
                THEN f.terms[k][3] ELSE 0)
                   = (IF col[k] = x THEN wt[k] ELSE 0)
    <3>1. col[k] = Col(k) /\ wt[k] = f.terms[k][3]
      BY ONLY <1>4, <1>5, k \in 1..n
    <3>2. f.terms[k][1] \in Nat
      BY <1>8
    <3>3. CASE ~(f.terms[k][2] => UsesPrep(i))
      <4>1. Col(k) = 0 /\ x # 0
        BY <3>3
      <4> QED
        BY ONLY <3>1, <3>3, <4>1
    <3>4. CASE f.terms[k][2] => UsesPrep(i)
      <4>1. PICK z \in Nat : z = Named(f.terms[k])
        BY <1>3, <3>2
      <4>2. Col(k) = z + 1
        BY ONLY <1>3, <3>4, <4>1, Zenon
      <4>3. z = x - 1 <=> z + 1 = x
        OBVIOUS
      <4> HIDE DEF Named, Col
      <4> QED
        BY ONLY <3>1, <3>4, <4>1, <4>2, <4>3
    <3> QED
      BY <3>3, <3>4
  <2>3. ASSUME NEW x \in 1..m
        PROVE  [k \in 1..n |-> IF (f.terms[k][2] => UsesPrep(i)) /\ Named(f.terms[k]) = x - 1
                               THEN f.terms[k][3] ELSE 0]
                   = [k \in 1..n |-> IF col[k] = x THEN wt[k] ELSE 0]
    <3> HIDE DEF Named
    <3> QED
      BY ONLY <2>2, x \in 1..m
  <2> HIDE DEF Named
  <2>4. ASSUME NEW x \in 1..m
        PROVE  Total([k \in 1..n |-> IF (f.terms[k][2] => UsesPrep(i)) /\ Named(f.terms[k]) = x - 1
                                     THEN f.terms[k][3] ELSE 0])
                   = Total([k \in 1..n |-> IF col[k] = x THEN wt[k] ELSE 0])
    BY ONLY <2>3, x \in 1..m, Zenon
  <2> DEFINE P(x) == Total([k \in 1..n |-> IF (f.terms[k][2] => UsesPrep(i))
                                              /\ Named(f.terms[k]) = x - 1
                                           THEN f.terms[k][3] ELSE 0])
             Q(x) == Total([k \in 1..n |-> IF col[k] = x THEN wt[k] ELSE 0])
  <2>5. r = [x \in 1..m |-> P(x)]
    BY ONLY <1>1, <1>2, <2>1, Zenon
  <2>6. \A x \in 1..m : P(x) = Q(x)
    BY ONLY <2>4, Zenon
  <2> HIDE DEF P, Q
  <2>7. r = [x \in 1..m |-> Q(x)]
    BY ONLY <2>5, <2>6
  <2> QED
    BY ONLY <2>7 DEF Q
<1>12. PICK s : s = [x \in 1..m |-> <<cell[x], r[x]>>]
  OBVIOUS
<1>13. PICK t : t = [k \in 1..n |-> <<IF col[k] = 0 THEN Zero ELSE cell[col[k]], wt[k]>>]
  OBVIOUS
<1>14. Gathers(n, m, col, wt, cell, r, s, t)
  <2>1. \A x \in 1..m : r[x] = Total([k \in 1..n |-> IF col[k] = x THEN wt[k] ELSE 0])
    <3> DEFINE Q(x) == Total([k \in 1..n |-> IF col[k] = x THEN wt[k] ELSE 0])
    <3>1. r = [x \in 1..m |-> Q(x)]
      BY <1>11
    <3> HIDE DEF Q
    <3>2. \A x \in 1..m : r[x] = Q(x)
      BY ONLY <3>1
    <3> QED
      BY ONLY <3>2, Zenon DEF Q
  <2> QED
    BY ONLY <2>1, <1>9, <1>10, <1>12, <1>13, n \in Nat, m \in Nat, Zenon DEF Gathers
<1>15. Linear(f.const, s) = Linear(f.const, t)
  BY ONLY <1>14, LinearGathers
<1>16. Batched(i, row, f) = Linear(f.const, s)
  <2>1. FormRow(i, f).const = f.const
    BY DEF FormRow
  <2>2. Len(r) = m
    <3>1. r = [x \in 1..m |-> r[x]]
      <4> DEFINE Q(x) == Total([k \in 1..n |-> IF col[k] = x THEN wt[k] ELSE 0])
      <4>1. r = [x \in 1..m |-> Q(x)]
        BY <1>11
      <4> HIDE DEF Q
      <4> QED
        BY ONLY <4>1
    <3> QED
      BY ONLY <3>1, m \in Nat, TabulatedSeq
  <2>3. PICK g : g = TraceRow(i, row)
    OBVIOUS
  <2>4. g = cell
    BY ONLY <1>2, <1>6, <2>3, TraceRowExact, StageHolds, ArrivalHolds, Laid,
            i \in ChipIds, row \in 0..shard[i] - 1, Zenon
  <2>5. Batched(i, row, f) = Linear(f.const, [x \in 1..Len(r) |-> <<g[x], r[x]>>])
    BY ONLY <1>7, <2>1, <2>3, Zenon DEF Batched
  <2> QED
    BY ONLY <1>12, <2>2, <2>4, <2>5, Zenon
<1>17. ApplyBatch(f, i, row) = Linear(f.const, t)
  <2>1. ASSUME NEW k \in 1..n
        PROVE  TrueCell(i, f.terms[k], row) = (IF col[k] = 0 THEN Zero ELSE cell[col[k]])
    <3>1. col[k] = Col(k) /\ col[k] \in 0..m /\ f.terms[k][1] \in Nat
      BY <1>4, <1>8, <1>9
    <3>2. CASE f.terms[k][2] /\ ~UsesPrep(i)
      <4>1. i \notin DOMAIN Prep
        BY ONLY <1>1, <3>2, SeesPrep(i, f), k \in 1..n DEF SeesPrep
      <4>2. Col(k) = 0
        BY <3>2
      <4> QED
        BY ONLY <3>1, <3>2, <4>1, <4>2, Zenon DEF TrueCell
    <3>3. CASE f.terms[k][2] /\ UsesPrep(i)
      <4>1. i \in DOMAIN Prep
        BY <3>3, ColumnsHold
      <4>2. Col(k) = (W + f.terms[k][1]) + 1
        BY <3>3
      <4>3. col[k] # 0 /\ col[k] \in 1..m /\ ~(col[k] <= W) /\ col[k] - W - 1 = f.terms[k][1]
        BY ONLY <3>1, <4>2, W \in Nat, m \in Nat
      <4>4. cell[col[k]] = RowCell(i, row, col[k])
        BY ONLY <1>6, <4>3
      <4>5. RowCell(i, row, col[k])
                = IF row < Prep[i].h THEN <<-i, f.terms[k][1], row>> ELSE Zero
        BY ONLY <1>3, <4>3, Zenon DEF RowCell
      <4> QED
        BY ONLY <3>3, <4>1, <4>3, <4>4, <4>5 DEF TrueCell
    <3>4. CASE ~f.terms[k][2]
      <4>1. Col(k) = f.terms[k][1] + 1 /\ f.terms[k][1] < W
        BY <1>8, <3>4
      <4>2. col[k] # 0 /\ col[k] \in 1..m /\ col[k] <= W /\ col[k] - 1 = f.terms[k][1]
        BY ONLY <3>1, <4>1, W \in Nat, m \in Nat
      <4>3. cell[col[k]] = RowCell(i, row, col[k])
        BY ONLY <1>6, <4>2
      <4>4. RowCell(i, row, col[k]) = <<i, f.terms[k][1], row>>
        BY ONLY <1>3, <4>2, Zenon DEF RowCell
      <4> QED
        BY ONLY <3>4, <4>2, <4>3, <4>4 DEF TrueCell
    <3> QED
      BY <3>2, <3>3, <3>4, <1>8
  <2>2. t = [k \in 1..n |-> <<TrueCell(i, f.terms[k], row), f.terms[k][3]>>]
    BY ONLY <2>1, <1>5, <1>13
  <2> QED
    BY ONLY <1>1, <2>2, Zenon DEF ApplyBatch
<1> QED
  BY ONLY <1>15, <1>16, <1>17

(***************************************************************************)
(* The forms of a chip in its table: a multiplicity at its interaction's   *)
(* number, a value where value_idx points, the zero form in between.       *)
(***************************************************************************)
LEMMA ValueCountsHold ==
    ASSUME NEW i \in ChipIds
    PROVE  /\ InteractionCounts[i] \in Nat
           /\ ValueCounts(i) \in Seq(Nat) /\ Len(ValueCounts(i)) = InteractionCounts[i]
           /\ \A k \in 1..InteractionCounts[i] :
                  ValueCounts(i)[k] = Len(Interactions(i)[k].values)
<1>1. InteractionCounts[i] \in Nat
  BY SegmentNumbers DEF ChipIds
<1>2. \A k \in 1..InteractionCounts[i] : Len(Interactions(i)[k].values) \in Nat
  BY FormAssumption, Zenon
<1>3. PICK n \in Nat : n = InteractionCounts[i]
  BY <1>1
<1>4. PICK c : c = ValueCounts(i)
  OBVIOUS
<1> DEFINE L(k) == Len(Interactions(i)[k].values)
<1>5. c = [k \in 1..n |-> L(k)]
  BY ONLY <1>3, <1>4, Zenon DEF ValueCounts
<1>6. \A k \in 1..n : L(k) \in Nat
  BY <1>2, <1>3
<1> HIDE DEF L
<1>7. c \in Seq(Nat) /\ Len(c) = n /\ \A k \in 1..n : c[k] = L(k)
  <2>1. c \in [1..n -> Nat]
    BY ONLY <1>5, <1>6
  <2> QED
    BY ONLY <2>1, <1>5, n \in Nat
<1> QED
  BY ONLY <1>1, <1>3, <1>4, <1>7, Zenon DEF L

ZeroFormTerms == [const |-> 0, terms |-> <<>>]
TableEntry(i, x) ==
    IF x < ZeroForm(i) THEN FormRow(i, Interactions(i)[x].mult)
    ELSE IF x = ZeroForm(i) THEN FormRow(i, ZeroFormTerms)
    ELSE LET k == CHOOSE k \in 1..InteractionCounts[i] :
                      \E v \in 1..ValueCounts(i)[k] : ValueIdx(i, k, v) = x
         IN  FormRow(i, Interactions(i)[k].values[x - ZeroForm(i) - Prefix(ValueCounts(i))[k - 1]])

(***************************************************************************)
(* The form table entry by entry.                                          *)
(***************************************************************************)
LEMMA TableDef ==
    \A i : FormTable(i) = [x \in 1..ZeroForm(i) + Total(ValueCounts(i)) |-> TableEntry(i, x)]
BY Zenon DEF FormTable, TableEntry, ZeroFormTerms

(***************************************************************************)
(* Every form of an interaction stands where the layer looks for it, and   *)
(* no other does.                                                          *)
(***************************************************************************)
LEMMA FormTableHolds ==
    ASSUME NEW i \in ChipIds, NEW k \in 1..InteractionCounts[i]
    PROVE  /\ FormTable(i)[k] = FormRow(i, Interactions(i)[k].mult)
           /\ FormTable(i)[ZeroForm(i)] = FormRow(i, ZeroFormTerms)
           /\ \A v \in 1..ValueCounts(i)[k] :
                  FormTable(i)[ValueIdx(i, k, v)] = FormRow(i, Interactions(i)[k].values[v])
<1>1. PICK n \in Nat : n = InteractionCounts[i]
  BY ValueCountsHold
<1>2. PICK c \in Seq(Nat) : c = ValueCounts(i) /\ Len(c) = n
  BY <1>1, ValueCountsHold
<1>3. PICK z \in Nat : z = ZeroForm(i) /\ z = n + 1
  BY <1>1 DEF ZeroForm
<1>4. PICK total \in Nat : total = Total(c)
  BY <1>2, TotalNat
<1>5. FormTable(i) = [x \in 1..z + total |-> TableEntry(i, x)]
  BY ONLY <1>2, <1>3, <1>4, TableDef, Zenon
<1>6. FormTable(i)[k] = FormRow(i, Interactions(i)[k].mult)
  <2>1. k \in 1..z + total /\ k < z
    BY <1>1, <1>3
  <2>2. FormTable(i)[k] = TableEntry(i, k)
    BY ONLY <1>5, <2>1
  <2> QED
    BY ONLY <2>1, <2>2, <1>3, Zenon DEF TableEntry
<1>7. FormTable(i)[ZeroForm(i)] = FormRow(i, ZeroFormTerms)
  <2>1. z \in 1..z + total /\ ~(z < z)
    BY <1>3
  <2>2. FormTable(i)[z] = TableEntry(i, z)
    BY ONLY <1>5, <2>1
  <2> QED
    BY ONLY <2>1, <2>2, <1>3, Zenon DEF TableEntry
<1>8. ASSUME NEW v \in 1..ValueCounts(i)[k]
      PROVE  FormTable(i)[ValueIdx(i, k, v)] = FormRow(i, Interactions(i)[k].values[v])
  <2>1. PICK p : p = Prefix(c)
    OBVIOUS
  <2>2. k \in 1..Len(c)
    BY <1>1, <1>2
  <2>3. p[k - 1] \in Nat /\ p[k] = p[k - 1] + c[k] /\ p[k] <= total /\ c[k] \in Nat
    BY <1>4, <2>1, <2>2, BlockBounds
  <2>4. v \in 1..c[k] /\ v \in Int /\ 1 <= v /\ v <= c[k]
    BY <1>2, <2>3
  <2>5. ASSUME NEW j \in 1..n, NEW u \in 1..c[j] PROVE ValueIdx(i, j, u) = z + p[j - 1] + u
    <3>1. u <= ValueCounts(i)[j]
      BY <1>2
    <3> QED
      BY ONLY <1>2, <1>3, <2>1, <3>1, Zenon DEF ValueIdx
  <2>6. PICK x \in Nat : x = z + p[k - 1] + v
    <3>1. z + p[k - 1] + v \in Nat
      BY ONLY <2>3, <2>4, z \in Nat
    <3> QED
      BY <3>1
  <2>7. ValueIdx(i, k, v) = x
    BY ONLY <2>2, <1>2, <2>4, <2>5, <2>6
  <2>8. x \in 1..z + total /\ ~(x < z) /\ x # z /\ x - z - p[k - 1] = v
    BY ONLY <2>3, <2>4, <2>6, z \in Nat, total \in Nat
  <2>9. ASSUME NEW j \in 1..n, NEW u \in 1..c[j], ValueIdx(i, j, u) = x PROVE j = k
    <3>1. j \in 1..Len(c)
      BY <1>2
    <3>2. p[j - 1] \in Nat /\ p[j] = p[j - 1] + c[j] /\ c[j] \in Nat
      BY <2>1, <3>1, BlockBounds
    <3>3. x = z + p[j - 1] + u
      BY <2>5, <2>9
    <3>4. PICK s \in Int : s = p[j - 1] + u
      BY <3>2
    <3>5. p[j - 1] < s /\ s <= p[j]
      BY ONLY <3>2, <3>4, u \in 1..c[j]
    <3>6. s = p[k - 1] + v
      <4>1. PICK a \in Nat : a = p[k - 1]
        BY <2>3
      <4>2. PICK b \in Nat : b = p[j - 1]
        BY <3>2
      <4>3. x = z + a + v /\ x = z + b + u /\ s = b + u
        BY ONLY <2>6, <3>3, <3>4, <4>1, <4>2
      <4>4. u \in Int
        BY ONLY <3>2, u \in 1..c[j]
      <4>5. s = a + v
        BY ONLY <2>4, <4>3, <4>4, z \in Nat, a \in Nat, b \in Nat, x \in Nat, s \in Int
      <4> QED
        BY ONLY <4>1, <4>5
    <3>7. p[k - 1] < s /\ s <= p[k]
      BY ONLY <2>3, <2>4, <3>6
    <3> QED
      BY ONLY <2>1, <2>2, <3>1, <3>5, <3>7, BlockUnique, c \in Seq(Nat), s \in Int
  <2>10. (CHOOSE j \in 1..InteractionCounts[i] :
              \E u \in 1..ValueCounts(i)[j] : ValueIdx(i, j, u) = x) = k
    <3>1. \E u \in 1..c[k] : ValueIdx(i, k, u) = x
      BY <2>4, <2>7
    <3>2. \A j \in 1..n : (\E u \in 1..c[j] : ValueIdx(i, j, u) = x) => j = k
      BY <2>9
    <3>3. k \in 1..n
      BY <1>1
    <3> DEFINE R(j) == \E u \in 1..c[j] : ValueIdx(i, j, u) = x
    <3>4. R(k) /\ \A j \in 1..n : R(j) => j = k
      BY <3>1, <3>2
    <3> HIDE DEF R
    <3>5. (CHOOSE j \in 1..n : R(j)) = k
      BY ONLY <3>3, <3>4
    <3> QED
      BY ONLY <1>1, <1>2, <3>5, Zenon DEF R
  <2>11. FormTable(i)[x] = TableEntry(i, x)
    BY ONLY <1>5, <2>8
  <2>12. TableEntry(i, x) = FormRow(i, Interactions(i)[k].values[x - z - p[k - 1]])
    BY ONLY <1>2, <1>3, <2>1, <2>8, <2>10, Zenon DEF TableEntry
  <2> QED
    BY ONLY <2>7, <2>8, <2>11, <2>12, Zenon
<1> QED
  BY ONLY <1>6, <1>7, <1>8

(***************************************************************************)
(* A value an interaction does not have points at the zero form, which     *)
(* adds nothing to a fingerprint.                                          *)
(***************************************************************************)
LEMMA FormsKnown ==
    ASSUME NEW i \in ChipIds, NEW k \in 1..InteractionCounts[i]
    PROVE  /\ NamesColumns(i, Interactions(i)[k].mult) /\ SeesPrep(i, Interactions(i)[k].mult)
           /\ \A v \in 1..ValueCounts(i)[k] :
                  /\ NamesColumns(i, Interactions(i)[k].values[v])
                  /\ SeesPrep(i, Interactions(i)[k].values[v])
           /\ NamesColumns(i, ZeroFormTerms) /\ SeesPrep(i, ZeroFormTerms)
<1>1. PICK it : it = Interactions(i)[k]
  OBVIOUS
<1>2. PICK n \in Nat : n = ValueCounts(i)[k] /\ n = Len(it.values)
  <2>1. ValueCounts(i)[k] = Len(it.values)
    BY <1>1, ValueCountsHold
  <2>2. Len(it.values) \in Nat
    BY ONLY <1>1, FormAssumption, i \in ChipIds, k \in 1..InteractionCounts[i], Zenon
  <2> QED
    BY <2>1, <2>2
<1>3. NamesColumns(i, it.mult) /\ \A v \in 1..n : NamesColumns(i, it.values[v])
  BY ONLY <1>1, <1>2, FormAssumption, i \in ChipIds, k \in 1..InteractionCounts[i], Zenon
<1>4. it.mult \in FormsOf(i) /\ \A v \in 1..n : it.values[v] \in FormsOf(i)
  <2>1. {it.mult} \cup {it.values[v] : v \in 1..Len(it.values)} \in
            {{j.mult} \cup {j.values[v] : v \in 1..Len(j.values)} :
                 j \in {Interactions(i)[x] : x \in 1..InteractionCounts[i]}}
    BY <1>1
  <2>2. ASSUME NEW f \in {it.mult} \cup {it.values[v] : v \in 1..Len(it.values)}
        PROVE  f \in FormsOf(i)
    BY ONLY <2>1, <2>2, Zenon DEF FormsOf
  <2> QED
    BY ONLY <1>2, <2>2
<1>5. ASSUME NEW f \in FormsOf(i) PROVE SeesPrep(i, f)
  BY ONLY <1>5, Zenon DEF SeesPrep, UsesPrep
<1>6. NamesColumns(i, ZeroFormTerms) /\ SeesPrep(i, ZeroFormTerms)
  <2>1. ZeroFormTerms.terms = <<>> /\ Len(<<>>) = 0 /\ 1..0 = {}
    BY DEF ZeroFormTerms
  <2>2. Len(ZeroFormTerms.terms) \in Nat /\ 1..Len(ZeroFormTerms.terms) = {}
    BY ONLY <2>1
  <2> QED
    BY ONLY <2>2 DEF NamesColumns, SeesPrep
<1> QED
  BY ONLY <1>1, <1>2, <1>3, <1>4, <1>5, <1>6, Zenon

(***************************************************************************)
(* The zero form is zero at every row.                                     *)
(***************************************************************************)
LEMMA ZeroFormVanishes ==
    ASSUME NEW i, NEW row
    PROVE  ApplyBatch(ZeroFormTerms, i, row) = [const |-> 0, terms |-> {}]
<1>1. ZeroFormTerms.terms = <<>> /\ Len(<<>>) = 0 /\ 1..0 = {} /\ ZeroFormTerms.const = 0
  BY DEF ZeroFormTerms
<1>2. PICK s : s = [n \in 1..Len(ZeroFormTerms.terms) |->
                        <<TrueCell(i, ZeroFormTerms.terms[n], row), ZeroFormTerms.terms[n][3]>>]
  OBVIOUS
<1>3. Len(s) = 0
  <2>1. s = [n \in 1..0 |-> s[n]]
    BY ONLY <1>1, <1>2
  <2> QED
    BY ONLY <2>1, TabulatedSeq
<1>4. {s[n][1] : n \in 1..Len(s)} \ {Zero} = {}
  BY ONLY <1>1, <1>3
<1>5. Linear(0, s) = [const |-> 0, terms |-> {}]
  <2>1. {<<x, Weight(s, x)>> : x \in {y \in {s[n][1] : n \in 1..Len(s)} \ {Zero} : Weight(s, y) # 0}} = {}
    BY ONLY <1>4
  <2> QED
    BY ONLY <2>1, Zenon DEF Linear
<1> QED
  BY ONLY <1>1, <1>2, <1>5, Zenon DEF ApplyBatch

(***************************************************************************)
(* No interaction has more values than the chip's widest.                  *)
(***************************************************************************)
LEMMA MaxValuesHold ==
    ASSUME NEW i \in ChipIds, NEW k \in 1..InteractionCounts[i]
    PROVE  MaxValues(i) \in Nat /\ ValueCounts(i)[k] <= MaxValues(i)
<1>1. PICK n \in Nat : n = InteractionCounts[i]
  BY ValueCountsHold
<1>2. PICK c \in Seq(Nat) : c = ValueCounts(i) /\ Len(c) = n
  BY <1>1, ValueCountsHold
<1>3. k \in 1..Len(c) /\ Len(c) # 0
  BY <1>1, <1>2
<1>4. PICK m \in Nat : (\E j \in 1..Len(c) : m = c[j]) /\ \A j \in 1..Len(c) : c[j] <= m
  BY <1>3, GreatestExists
<1> DEFINE lens == {c[j] : j \in 1..n}
<1>5. m \in lens /\ \A x \in lens : x <= m
  BY <1>2, <1>4
<1>6. MaxValues(i) = CHOOSE x \in lens : \A y \in lens : y <= x
  BY ONLY <1>1, <1>2, Zenon DEF MaxValues
<1> HIDE DEF lens
<1>7. MaxValues(i) \in lens /\ \A y \in lens : y <= MaxValues(i)
  BY ONLY <1>5, <1>6, Zenon
<1>8. c[k] \in lens /\ \A x \in lens : x \in Nat
  BY <1>2, <1>3 DEF lens
<1> QED
  BY ONLY <1>2, <1>7, <1>8

(***************************************************************************)
(* A row's fraction from the batch is the interaction's own.               *)
(***************************************************************************)
LEMMA FormAtExact ==
    ASSUME StageHolds, ArrivalHolds, Laid, NEW i \in ChipIds, NEW row \in 0..shard[i] - 1,
           NEW f, NamesColumns(i, f), SeesPrep(i, f), NEW x, FormTable(i)[x] = FormRow(i, f)
    PROVE  FormAt(i, x, row) = ApplyBatch(f, i, row)
<1>1. FormAt(i, x, row) = Batched(i, row, f)
  BY ONLY FormTable(i)[x] = FormRow(i, f), Zenon DEF FormAt, Batched
<1>2. Batched(i, row, f) = ApplyBatch(f, i, row)
  BY FormExact
<1> QED
  BY <1>1, <1>2

(***************************************************************************)
(* Values that are zero add nothing to a fraction.                         *)
(***************************************************************************)
LEMMA FractionKeeps ==
    ASSUME NEW mult, NEW sign, NEW kind, NEW A, NEW B,
           \A v \in A : v \in B \/ ~(v[2].const # 0 \/ v[2].terms # {}),
           \A v \in B : v \in A
    PROVE  Fraction(mult, sign, kind, A) = Fraction(mult, sign, kind, B)
<1>1. {v \in A : v[2].const # 0 \/ v[2].terms # {}} = {v \in B : v[2].const # 0 \/ v[2].terms # {}}
  OBVIOUS
<1> QED
  BY ONLY <1>1, Zenon DEF Fraction

(***************************************************************************)
(* The batched fraction of a live row is the interaction's own, term by    *)
(* term.                                                                   *)
(***************************************************************************)
LEMMA RowFractionExact ==
    ASSUME StageHolds, ArrivalHolds, Laid, NEW i \in ChipIds, NEW row \in 0..shard[i] - 1,
           NEW k \in 1..InteractionCounts[i]
    PROVE  RowFraction(i, k, row) = InteractionVals(i, k, row)
<1>1. PICK it : it = Interactions(i)[k]
  OBVIOUS
<1>2. PICK n \in Nat : n = ValueCounts(i)[k] /\ n = Len(it.values)
  <2>1. ValueCounts(i)[k] = Len(it.values)
    BY <1>1, ValueCountsHold
  <2>2. Len(it.values) \in Nat
    BY ONLY <1>1, FormAssumption, i \in ChipIds, k \in 1..InteractionCounts[i], Zenon
  <2> QED
    BY <2>1, <2>2
<1>3. PICK m \in Nat : m = MaxValues(i) /\ n <= m
  BY <1>2, MaxValuesHold
<1>4. FormAt(i, k, row) = ApplyBatch(it.mult, i, row)
  <2>1. FormTable(i)[k] = FormRow(i, it.mult)
    BY <1>1, FormTableHolds
  <2>2. NamesColumns(i, it.mult) /\ SeesPrep(i, it.mult)
    BY <1>1, FormsKnown
  <2> QED
    BY <2>1, <2>2, FormAtExact
<1>5. ASSUME NEW v \in 1..n
      PROVE  FormAt(i, ValueIdx(i, k, v), row) = ApplyBatch(it.values[v], i, row)
  <2>1. v \in 1..ValueCounts(i)[k]
    BY <1>2
  <2>2. PICK f : f = it.values[v]
    OBVIOUS
  <2>3. FormTable(i)[ValueIdx(i, k, v)] = FormRow(i, f)
    BY ONLY <1>1, <2>1, <2>2, FormTableHolds, i \in ChipIds, k \in 1..InteractionCounts[i], Zenon
  <2>4. NamesColumns(i, f) /\ SeesPrep(i, f)
    BY ONLY <1>1, <2>1, <2>2, FormsKnown, i \in ChipIds, k \in 1..InteractionCounts[i], Zenon
  <2>5. FormAt(i, ValueIdx(i, k, v), row) = ApplyBatch(f, i, row)
    BY <2>3, <2>4, FormAtExact
  <2> QED
    BY ONLY <2>2, <2>5
<1>6. ASSUME NEW v \in 1..m, ~(v \in 1..n)
      PROVE  FormAt(i, ValueIdx(i, k, v), row) = [const |-> 0, terms |-> {}]
  <2>1. ~(v <= ValueCounts(i)[k])
    BY <1>2, <1>6
  <2>2. ValueIdx(i, k, v) = ZeroForm(i)
    BY ONLY <2>1, Zenon DEF ValueIdx
  <2>3. FormTable(i)[ValueIdx(i, k, v)] = FormRow(i, ZeroFormTerms)
    BY <2>2, FormTableHolds
  <2>4. NamesColumns(i, ZeroFormTerms) /\ SeesPrep(i, ZeroFormTerms)
    BY FormsKnown
  <2>5. FormAt(i, ValueIdx(i, k, v), row) = ApplyBatch(ZeroFormTerms, i, row)
    BY <2>3, <2>4, FormAtExact
  <2> QED
    BY ONLY <2>5, ZeroFormVanishes, Zenon
<1>7. PICK A : A = {<<v, FormAt(i, ValueIdx(i, k, v), row)>> : v \in 1..m}
  OBVIOUS
<1>8. PICK B : B = {<<v, ApplyBatch(it.values[v], i, row)>> : v \in 1..n}
  OBVIOUS
<1>9. ASSUME NEW y \in A PROVE y \in B \/ ~(y[2].const # 0 \/ y[2].terms # {})
  <2>1. PICK v \in 1..m : y = <<v, FormAt(i, ValueIdx(i, k, v), row)>>
    BY ONLY <1>7, <1>9
  <2>2. CASE v \in 1..n
    <3>1. y = <<v, ApplyBatch(it.values[v], i, row)>>
      BY ONLY <1>5, <2>1, <2>2
    <3> QED
      BY ONLY <1>8, <2>2, <3>1
  <2>3. CASE ~(v \in 1..n)
    <3>1. y[2] = [const |-> 0, terms |-> {}]
      BY ONLY <1>6, <2>1, <2>3, v \in 1..m
    <3> QED
      BY ONLY <3>1
  <2> QED
    BY <2>2, <2>3
<1>10. ASSUME NEW y \in B PROVE y \in A
  <2>1. PICK v \in 1..n : y = <<v, ApplyBatch(it.values[v], i, row)>>
    BY ONLY <1>8, <1>10
  <2>2. v \in 1..m /\ y = <<v, FormAt(i, ValueIdx(i, k, v), row)>>
    BY <1>3, <1>5, <2>1
  <2> QED
    BY ONLY <1>7, <2>2
<1>11. PICK sign : sign = IF IsSend(i, k) THEN 1 ELSE -1
  OBVIOUS
<1>12. PICK mult : mult = ApplyBatch(it.mult, i, row)
  OBVIOUS
<1>13. Fraction(mult, sign, it.kind, A) = Fraction(mult, sign, it.kind, B)
  BY ONLY <1>9, <1>10, FractionKeeps
<1>14. RowFraction(i, k, row) = Fraction(mult, sign, it.kind, A)
  BY ONLY <1>1, <1>3, <1>4, <1>7, <1>11, <1>12, Zenon DEF RowFraction
<1>15. InteractionVals(i, k, row) = Fraction(mult, sign, it.kind, B)
  BY ONLY <1>1, <1>2, <1>8, <1>11, <1>12, Zenon DEF InteractionVals
<1> QED
  BY ONLY <1>13, <1>14, <1>15

(***************************************************************************)
(* The first layer is the shard's own: its tight slots hold the batch's    *)
(* fractions, which are the interactions' on rows the arrival holds.       *)
(***************************************************************************)
LEMMA LayerHoldsExact == IInv /\ ArrivalHolds => LayerIsExact
<1> SUFFICES ASSUME IInv, ArrivalHolds, Laid,
                    NEW s \in 1..NumReal, NEW o \in 0..SlotCounts(shard)[s] - 1,
                    NEW i, i = SegChip(s), NEW k, k = s - FirstSeg(i) + 1
             PROVE  planes[Prefix(SlotCounts(shard))[s - 1] + o + 1] =
                        IF o < shard[i] \div 2
                        THEN <<InteractionVals(i, k, 2 * o), InteractionVals(i, k, 2 * o + 1)>>
                        ELSE <<Neutral, Neutral>>
  BY Zenon DEF LayerIsExact
<1>1. StageHolds /\ SlotsLaid /\ laid = NumReal
  BY DEF IInv, ArenaHolds, StageHolds
<1>2. planes[Prefix(SlotCounts(shard))[s - 1] + o + 1] = BlockSlot(i, k, o)
  BY ONLY <1>1, s \in 1..NumReal, o \in 0..SlotCounts(shard)[s] - 1, i = SegChip(s),
          k = s - FirstSeg(i) + 1, Zenon DEF SlotsLaid, Starts, Slot
<1>3. i \in ChipIds /\ s \in FirstSeg(i)..Prefix(InteractionCounts)[i]
  BY SegChipExists DEF SegOfChip
<1>4. k \in 1..InteractionCounts[i]
  <2>1. PICK c \in Seq(Nat) : c = InteractionCounts /\ Len(c) = NumChips
    BY SegmentNumbers
  <2>2. i \in 1..Len(c)
    BY <1>3, <2>1 DEF ChipIds
  <2>3. Prefix(c)[i - 1] \in Nat /\ Prefix(c)[i] = Prefix(c)[i - 1] + c[i] /\ c[i] \in Nat
    BY <2>2, BlockBounds
  <2>4. FirstSeg(i) = Prefix(c)[i - 1] + 1
    BY <1>3, <2>1, ChipBounds
  <2>5. s \in FirstSeg(i)..Prefix(c)[i]
    BY ONLY <1>3, <2>1
  <2> QED
    BY ONLY <2>1, <2>3, <2>4, <2>5, s \in 1..NumReal, k = s - FirstSeg(i) + 1
<1>5. PICK h \in Nat : h = shard[i]
  BY <1>1, <1>3, ClassOfShard DEF StageHolds
<1>6. PICK cap \in Nat : cap = class.caps[i] /\ h <= cap
  <2>1. class.caps \in [ChipIds -> Nat]
    BY <1>1, ClassOfShard DEF StageHolds, IsClass
  <2>2. shard[i] <= class.caps[i]
    BY <1>3 DEF ArrivalHolds, Laid
  <2> QED
    BY <1>3, <1>5, <2>1, <2>2
<1>7. o \in Nat
  <2>1. o \in Int /\ 0 <= o
    <3>1. SlotCounts(shard)[s] \in Nat
      BY <1>1, ClassOfShard, SlotCountsHold, SegmentNumbers DEF StageHolds
    <3> QED
      BY <3>1
  <2> QED
    BY <2>1
<1>8. CASE o < h \div 2
  <2>1. o < cap \div 2 /\ 2 * o \in 0..h - 1 /\ 2 * o + 1 \in 0..h - 1
    BY ONLY <1>6, <1>7, <1>8, h \in Nat, cap \in Nat, Z3
  <2>2. RowFraction(i, k, 2 * o) = InteractionVals(i, k, 2 * o)
    BY <1>1, <1>3, <1>4, <1>5, <2>1, RowFractionExact
  <2>3. RowFraction(i, k, 2 * o + 1) = InteractionVals(i, k, 2 * o + 1)
    BY <1>1, <1>3, <1>4, <1>5, <2>1, RowFractionExact
  <2>4. BlockSlot(i, k, o) = <<RowFraction(i, k, 2 * o), RowFraction(i, k, 2 * o + 1)>>
    BY ONLY <1>5, <1>6, <1>8, <2>1, Zenon DEF BlockSlot
  <2> QED
    BY ONLY <1>2, <1>5, <1>8, <2>2, <2>3, <2>4, Zenon
<1>9. CASE ~(o < h \div 2)
  <2>1. BlockSlot(i, k, o) = <<Neutral, Neutral>>
    BY ONLY <1>5, <1>9, Zenon DEF BlockSlot
  <2> QED
    BY ONLY <1>2, <1>5, <1>9, <2>1, Zenon
<1> QED
  BY <1>8, <1>9

(***************************************************************************)
(* Every live row of the first layer holds the fraction its interaction    *)
(* defines, though it was computed form by form from batched weights over  *)
(* the class-packed arrival.                                               *)
(***************************************************************************)
THEOREM FirstLayerExact == Spec => []LayerIsExact
<1>1. Init => ArrivalHolds
  BY DEF Init, ArrivalHolds
<1>2. IInv /\ ArrivalHolds /\ [Next]_vars => ArrivalHolds'
  BY NextArrival DEF IInv
<1> QED
  BY <1>1, <1>2, LayerHoldsExact, AlwaysIInv, PTL DEF Spec
=============================================================================
