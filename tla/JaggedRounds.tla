---------------------------- MODULE JaggedRounds ----------------------------
(***************************************************************************)
(* The jagged zerocheck engine (zerocheck/jagged.py): one flat buffer of   *)
(* column segments, even-padded to each chip's live height, shrinking by   *)
(* static caps that only the class, the column count and num_vars fix,     *)
(* folded by whole-buffer gathers; and the chunked prefix, which rebuilds  *)
(* windows of the early rounds from the arrival and materializes the state *)
(* once.  Both must send the messages of ZerocheckFold.                    *)
(*                                                                         *)
(* Field values are ZerocheckFold's sets of cells, {} the field zero.  The *)
(* buffer is kept as its stride-2 halves: element j holds the pair of rows *)
(* it stands for, of which the code keeps the first and the difference.    *)
(* Buffers are sequences: offset p is at index p + 1.                      *)
(***************************************************************************)
EXTENDS Recurrences, FiniteSets

CONSTANTS
    Cols,          \* columns of each chip
    Constrained,   \* chips with transition constraints
    NumVars,       \* variables of the hypercube
    ShrinkRounds,  \* _SHRINK_ROUNDS
    Shards,        \* real heights, by chip
    Plans          \* [form, area, chunk]: how a prove is called

VARIABLES
    shard,     \* real heights
    plan,      \* form "traces" (host heights), "flat" or "chunked"; area, the
               \* class bound, Unset for the shard's own; chunk [depth, caps, cells]
    pc,        \* where the prove is
    arrival,   \* the flat arrival
    halves,    \* the packed state: p0 and p1 of each half element
    heights,   \* live heights this round
    geq,       \* the virtual geq of each chip
    eq,        \* the eq table
    messages,  \* the rounds' messages
    finals     \* the columns' evaluations

vars == <<shard, plan, pc, arrival, halves, heights, geq, eq, messages, finals>>

ChipIds == 1..Len(Cols)
SumCols == Total(Cols)
Unset == -1

\* A machine and the calls made of it: at least one chip is required, a class
\* area is even, like every area it bounds.
ASSUME RoundsAssumption ==
    /\ Cols \in Seq(Nat \ {0}) /\ Cols # <<>>
    /\ NumVars \in Nat /\ ShrinkRounds \in Nat
    /\ \A hs \in Shards : hs \in [ChipIds -> Nat]
    /\ \A p \in Plans :
           /\ p.area = Unset \/ (p.area \in Nat /\ p.area % 2 = 0)
           /\ p.chunk.depth \in Nat /\ p.chunk.cells \in Nat
           /\ p.chunk.caps \in [ChipIds -> Nat]

Width == Pow2(NumVars)
Round == Len(messages)

MaxOf(a, b) == IF a >= b THEN a ELSE b
MinOf(a, b) == IF a <= b THEN a ELSE b
EvenPad(h) == h + (h % 2)
Pairs(h) == (h + 1) \div 2

-----------------------------------------------------------------------------
(* Classes and schedules.                                                  *)

AreaOf(hs) == Total([i \in ChipIds |-> Cols[i] * EvenPad(hs[i])])
AreaCap == IF plan.area = Unset THEN AreaOf(shard) ELSE plan.area

\* eq_widths: the half-width of round r, at least 2.
EqWidth(r) == MaxOf(Pow2(MaxOf(NumVars - 1 - r, 0)), 2)

\* Broken variant of NextArea: no room for the rounding of each column.
NextAreaHalved(area) == EvenPad(area \div 2)

\* The live-area bound of a round, and with the window tail its buffer cap.
NextArea(area) == EvenPad(area \div 2 + SumCols)
AreaBound(r) == Iterate([a \in Nat |-> NextArea(a)], AreaCap, r)
BufferCap(r) == AreaBound(r) + 2 * EqWidth(r)

\* Rounds unrolled at shrinking caps; the rest scan at the last cap.
Unrolled == MinOf(ShrinkRounds, NumVars)
CapOf(r) == BufferCap(MinOf(r, Unrolled))
WindowOf(r) == EqWidth(MinOf(r, Unrolled))

\* The chunked prefix.
Depth == IF plan.form # "chunked" THEN 0
         ELSE MinOf(plan.chunk.depth, Unrolled)
CeilShift(n, e) == (n + Pow2(e) - 1) \div Pow2(e)
ChunkPairRows(cells, cols, depth, pairCap) ==
    IF cells <= 0 THEN pairCap
    ELSE MaxOf(1, MinOf(pairCap, cells \div (cols * Pow2(depth + 1))))
PairCap(i, r) == MinOf(MaxOf(CeilShift(plan.chunk.caps[i], r + 1), 1), EqWidth(r))
BlockHalf(i) == MaxOf(CeilShift(plan.chunk.caps[i], Depth + 1), 1)

-----------------------------------------------------------------------------
(* Values, buffers and segments.                                           *)

\* ev + r * (od - ev) at the challenge of round i.
Fold(ev, od, i) == ev \cup {<<x[1] + Pow2(i), x[2]>> : x \in od}

\* lax.dynamic_slice and dynamic_update_slice: a start is clamped so that the
\* block stays inside; take(mode="clip") clips the index.
Clamped(start, room) == MaxOf(0, MinOf(start, room))
Slice(s, start, n) == SubSeq(s, Clamped(start, Len(s) - n) + 1,
                                Clamped(start, Len(s) - n) + n)
Update(s, block, start) ==
    LET at == Clamped(start, Len(s) - Len(block))
    IN  [p \in 1..Len(s) |->
            IF p \in at + 1..at + Len(block) THEN block[p - at] ELSE s[p]]
Take(s, index) == s[Clamped(index, Len(s) - 1) + 1]

\* chip_of_seg and col_of_seg (columns from 0).
SegChip == [s \in 1..SumCols |->
    CHOOSE i \in ChipIds : Prefix(Cols)[i - 1] < s /\ s <= Prefix(Cols)[i]]
SegCol == [s \in 1..SumCols |-> s - Prefix(Cols)[SegChip[s] - 1] - 1]

\* Element offsets of the chips at some live heights.
AreaOffsets(hs) == Prefix([i \in ChipIds |-> Cols[i] * EvenPad(hs[i])])

\* _gather_halves: the packed halves at some live heights, each row fetched
\* from source at its chip's offset and stride, zero past the live height.
GatherHalves(areaOut, live, srcOff, srcStride, source) ==
    LET starts == Prefix([s \in 1..SumCols |-> EvenPad(live[SegChip[s]]) \div 2])
        SegOf(j) == MaxOf(1, MinOf(SumCols,
                        Cardinality({s \in 0..SumCols : starts[s] <= j})))
        At(s, row) ==
            IF row < live[SegChip[s]]
            THEN Take(source, srcOff[SegChip[s]] + SegCol[s] * srcStride[SegChip[s]] + row)
            ELSE {}
    IN  [p \in 1..areaOut \div 2 |->
            LET s == SegOf(p - 1)  rh == p - 1 - starts[s - 1]
            IN  <<At(s, 2 * rh), At(s, 2 * rh + 1)>>]

-----------------------------------------------------------------------------
(* Arrivals.                                                               *)

Cell(i, c, row) == {<<0, <<i, c + 1, row>>>>}

\* pack_flat_arrival: exact columns, even-padded, zeros to the round-0 cap.
PackFlatArrival ==
    LET offsets == AreaOffsets(shard)
        Holder(p) == CHOOSE i \in ChipIds : offsets[i - 1] < p /\ p <= offsets[i]
    IN  [p \in 1..AreaCap + 2 * EqWidth(0) |->
            IF p > offsets[Len(Cols)] THEN {}
            ELSE LET i == Holder(p)  o == p - offsets[i - 1] - 1
                     c == o \div EvenPad(shard[i])  row == o % EvenPad(shard[i])
                 IN  IF row < shard[i] THEN Cell(i, c, row) ELSE {}]

\* The concatenated traces: host heights come exact, runtime heights padded
\* to two windows of rows.
TraceRows ==
    [i \in ChipIds |-> IF plan.form = "padded" THEN 2 * EqWidth(0) ELSE shard[i]]
TraceOffsets == Prefix([i \in ChipIds |-> Cols[i] * TraceRows[i]])
ConcatenatedTraces ==
    LET Holder(p) == CHOOSE i \in ChipIds : TraceOffsets[i - 1] < p /\ p <= TraceOffsets[i]
    IN  [p \in 1..TraceOffsets[Len(Cols)] |->
            LET i == Holder(p)  o == p - TraceOffsets[i - 1] - 1
                row == o % TraceRows[i]
            IN  IF row < shard[i] THEN Cell(i, o \div TraceRows[i], row) ELSE {}]

\* The round-0 halves of either arrival.
FirstHalves(flat) ==
    IF plan.form \in {"traces", "padded"}
    THEN GatherHalves(BufferCap(0), shard, [i \in ChipIds |-> TraceOffsets[i - 1]],
                      TraceRows, flat)
    ELSE [j \in 1..Len(flat) \div 2 |-> <<flat[2 * j - 1], flat[2 * j]>>]

-----------------------------------------------------------------------------
(* One round.                                                              *)

\* VirtualGeq: zero below its threshold, one above, a partial value at it.
VirtualGeq(h) == [threshold |-> h, at |-> {0}]
GeqAt(g, x, r) == IF x < g.threshold THEN {}
                  ELSE IF x = g.threshold THEN g.at ELSE 0..Pow2(r) - 1
FixLastVariable(g, r) ==
    LET half == g.threshold \div 2
    IN  [threshold |-> half,
         at |-> GeqAt(g, 2 * half, r) \cup {p + Pow2(r) : p \in GeqAt(g, 2 * half + 1, r)}]

\* expand_eq_to_hypercube, zero-extended to the window; fold_eq contracts
\* neighbours, keeping the width in the scan and at least 2 rows before it.
FirstEq == [k \in 1..EqWidth(0) |-> IF k <= Width \div 2 THEN {k - 1} ELSE {}]
\* Broken variant of FoldEq: the table shrinks below the floored window.
FoldEqUnfloored(buf, shrink) ==
    LET contracted == Len(buf) \div 2
    IN  [k \in 1..(IF shrink THEN contracted ELSE Len(buf)) |->
            IF k <= contracted THEN buf[2 * k - 1] \cup buf[2 * k] ELSE {}]

FoldEq(buf, shrink) ==
    LET contracted == Len(buf) \div 2
    IN  [k \in 1..(IF shrink THEN MaxOf(contracted, 2) ELSE Len(buf)) |->
            IF k <= contracted THEN buf[2 * k - 1] \cup buf[2 * k] ELSE {}]

\* A statically empty chip, whose constraints are never traced.
IsZeroChip(i) == plan.form = "traces" /\ shard[i] = 0
Adjusted(i) == ~IsZeroChip(i) /\ i \in Constrained

\* Broken variant of RoundPoly: the index of the last live pair is clamped
\* but a chip empty at run time is corrected like a live one.
RoundPolyOfEmpty(i, terms) ==
    LET last == MaxOf(Pairs(heights[i]) - 1, 0)
    IN  IF IsZeroChip(i) THEN [terms |-> <<>>, correction |-> <<>>, dropped |-> FALSE]
        ELSE [terms |-> terms,
              correction |->
                  IF Adjusted(i)
                  THEN <<eq[last + 1], GeqAt(geq[i], 2 * last, Round),
                         GeqAt(geq[i], 2 * last + 1, Round)>>
                  ELSE <<>>,
              dropped |-> Round = 0 /\ i \in Constrained]

\* zerocheck_round_poly(_from_raws): the reduced terms, corrected at the last
\* live pair; a chip empty at run time is the trivial claim identity too.
RoundPoly(i, terms) ==
    LET last == MaxOf(Pairs(heights[i]) - 1, 0)
    IN  IF heights[i] = 0 \/ IsZeroChip(i)
        THEN [terms |-> <<>>, correction |-> <<>>, dropped |-> FALSE]
        ELSE [terms |-> terms,
              correction |->
                  IF Adjusted(i)
                  THEN <<eq[last + 1], GeqAt(geq[i], 2 * last, Round),
                         GeqAt(geq[i], 2 * last + 1, Round)>>
                  ELSE <<>>,
              dropped |-> Round = 0 /\ i \in Constrained]

\* A chip's window out of the flat halves: its columns at their offset and
\* stride, masked past the live pairs.
WindowTerms(i) ==
    LET window == WindowOf(Round)
        off    == AreaOffsets(heights)[i - 1] \div 2
        stride == EvenPad(heights[i]) \div 2
        column == [c \in 1..Cols[i] |-> Slice(halves, off + (c - 1) * stride, window)]
    IN  [k \in 1..MinOf(Pairs(heights[i]), window) |->
            <<eq[k], [c \in 1..Cols[i] |-> column[c][k]]>>]

\* The fold of the packed state: every pair at the challenge, gathered into
\* the next cap at the next heights.
FoldedHalves(next) ==
    GatherHalves(CapOf(Round + 1), next,
                 [i \in ChipIds |-> AreaOffsets(heights)[i - 1] \div 2],
                 [i \in ChipIds |-> EvenPad(heights[i]) \div 2],
                 [j \in 1..Len(halves) |-> Fold(halves[j][1], halves[j][2], Round)])

-----------------------------------------------------------------------------
(* The chunked prefix.                                                     *)

\* _chunk_build: the pairs of a window of rows from pair row first on, at
\* fold depth d, recomputed from the arrival with the live mask of each level.
ChunkBuild(i, first, d, rows) ==
    LET base == (2 * first) * Pow2(d)
        off  == AreaOffsets(shard)[i - 1]
        level[l \in 0..d] ==
            IF l = 0
            THEN [x \in 1..(2 * rows) * Pow2(d) |-> [c \in 1..Cols[i] |->
                     IF base + x - 1 < shard[i]
                     THEN Take(arrival, off + (c - 1) * EvenPad(shard[i]) + base + x - 1)
                     ELSE {}]]
            ELSE [x \in 1..(2 * rows) * Pow2(d - l) |-> [c \in 1..Cols[i] |->
                     IF base \div Pow2(l) + x - 1 < CeilShift(shard[i], l)
                     THEN Fold(level[l - 1][2 * x - 1][c], level[l - 1][2 * x][c], l - 1)
                     ELSE {}]]
    IN  [k \in 1..rows |-> [c \in 1..Cols[i] |->
            <<level[d][2 * k - 1][c], level[d][2 * k][c]>>]]

\* The windows of n pair rows, w at a time: <<first, rows>>.
Windows(n, w) == [m \in 1..(n + w - 1) \div w |->
                     <<(m - 1) * w, MinOf(w, n - (m - 1) * w)>>]

\* _chunk_round_partials of every window of a chip, added up.
ChunkTerms(i) ==
    LET pairCap == PairCap(i, Round)
        windows == Windows(pairCap,
                       ChunkPairRows(plan.chunk.cells, Cols[i], Round, pairCap))
        Terms(v) ==
            LET live  == MaxOf(0, MinOf(Pairs(heights[i]) - v[1], v[2]))
                pairs == ChunkBuild(i, v[1], Round, v[2])
            IN  [k \in 1..live |-> <<eq[v[1] + k], pairs[k]>>]
        sum[m \in 0..Len(windows)] ==
            IF m = 0 THEN <<>> ELSE sum[m - 1] \o Terms(windows[m])
    IN  sum[Len(windows)]

\* _lay_in_chip_state: one chip's block in its packed segment order, its
\* overhang zero, written at the chip's offset.
ChipBlock(i) ==
    LET windows == Windows(BlockHalf(i),
                       ChunkPairRows(plan.chunk.cells, Cols[i], Depth, BlockHalf(i)))
        rows[m \in 0..Len(windows)] ==
            IF m = 0 THEN <<>>
            ELSE rows[m - 1] \o ChunkBuild(i, windows[m][1], Depth, windows[m][2])
    IN  rows[Len(windows)]
LayInChipState(plane, i) ==
    LET segLen == EvenPad(heights[i]) \div 2
        block  == ChipBlock(i)
    IN  Update(plane,
               [m \in 1..Cols[i] * BlockHalf(i) |->
                   IF m - 1 < Cols[i] * segLen
                   THEN block[((m - 1) % segLen) + 1][((m - 1) \div segLen) + 1]
                   ELSE <<{}, {}>>],
               AreaOffsets(heights)[i - 1] \div 2)

\* Broken variant of PlanePad: no pad behind the planes.
PlanePadNone == 0

\* The largest block, the pad that keeps the writes inside the planes.
PlanePad ==
    LET blocks == {Cols[i] * BlockHalf(i) : i \in ChipIds}
    IN  CHOOSE m \in blocks : \A n \in blocks : n <= m
MaterializedHalves ==
    LET half == BufferCap(Depth) \div 2
        plane[i \in 0..Len(Cols)] ==
            IF i = 0 THEN [p \in 1..half + PlanePad |-> <<{}, {}>>]
            ELSE LayInChipState(plane[i - 1], i)
    IN  [p \in 1..half |-> plane[Len(Cols)][p]]

-----------------------------------------------------------------------------
(* The prove.                                                              *)

\* A shard and a call: the flat form packs with a class; heights that ride
\* as runtime values within the hypercube, and under padded traces within the
\* class, are the caller's promise.
Init ==
    /\ shard \in Shards
    /\ plan \in Plans
    /\ plan.form # "traces" => \A i \in ChipIds : shard[i] <= Width
    /\ plan.form = "padded" => AreaOf(shard) <= plan.area
    /\ pc = "check"
    /\ arrival = <<>> /\ halves = <<>> /\ messages = <<>> /\ finals = <<>>
    /\ heights = shard
    /\ geq = [i \in ChipIds |-> VirtualGeq(shard[i])]
    /\ eq = FirstEq

\* The checks of prove_jagged_zerocheck, of _prove_total_cap for host heights
\* and of pack_flat_arrival.
Refused ==
    \/ plan.form = "traces" /\ \E i \in ChipIds : shard[i] > Width
    \/ AreaCap < AreaOf(shard)
    \/ plan.form = "chunked" /\ \E i \in ChipIds : shard[i] > plan.chunk.caps[i]

Refuse ==
    /\ pc = "check" /\ Refused
    /\ pc' = "refused"
    /\ UNCHANGED <<shard, plan, arrival, halves, heights, geq, eq, messages, finals>>

\* The arrival, and the round-0 state unless a chunked prefix rebuilds it.
Arrive ==
    /\ pc = "check" /\ ~Refused
    /\ arrival' = IF plan.form \in {"traces", "padded"} THEN ConcatenatedTraces
                  ELSE PackFlatArrival
    /\ IF Depth > 0 THEN pc' = "chunks" /\ UNCHANGED halves
       ELSE pc' = "rounds" /\ halves' = FirstHalves(arrival')
    /\ UNCHANGED <<shard, plan, heights, geq, eq, messages, finals>>

\* What every round does to the scalars: send, and fold heights, geq and eq.
Send(message, shrink) ==
    /\ messages' = Append(messages, message)
    /\ heights' = [i \in ChipIds |-> Pairs(heights[i])]
    /\ geq' = [i \in ChipIds |-> FixLastVariable(geq[i], Round)]
    /\ eq' = FoldEq(eq, shrink)

\* round_step, in the unrolled prefix or in the scan.
RoundStep ==
    /\ pc = "rounds" /\ Round < NumVars
    /\ Send([i \in ChipIds |-> RoundPoly(i, WindowTerms(i))], Round < Unrolled)
    /\ halves' = FoldedHalves(heights')
    /\ UNCHANGED <<shard, plan, pc, arrival, finals>>

\* A round of the chunked prefix.
ChunkRound ==
    /\ pc = "chunks" /\ Round < Depth
    /\ Send([i \in ChipIds |-> RoundPoly(i, ChunkTerms(i))], TRUE)
    /\ UNCHANGED <<shard, plan, pc, arrival, halves, finals>>

\* The state the remaining rounds start from, laid in chip by chip.
Materialize ==
    /\ pc = "chunks" /\ Round = Depth
    /\ halves' = MaterializedHalves
    /\ pc' = "rounds"
    /\ UNCHANGED <<shard, plan, arrival, heights, geq, eq, messages, finals>>

\* The first row of each chip's final segments, masked past its live height.
Finish ==
    /\ pc = "rounds" /\ Round = NumVars
    /\ finals' = [i \in ChipIds |-> [c \in 1..Cols[i] |->
           IF IsZeroChip(i) \/ heights[i] = 0 THEN {}
           ELSE Slice(halves, AreaOffsets(heights)[i - 1] \div 2
                              + (c - 1) * (EvenPad(heights[i]) \div 2), 1)[1][1]]]
    /\ pc' = "done"
    /\ UNCHANGED <<shard, plan, arrival, halves, heights, geq, eq, messages>>

\* The stage is over.
Ended == pc \in {"done", "refused"} /\ UNCHANGED vars

Next == Refuse \/ Arrive \/ RoundStep \/ ChunkRound \/ Materialize \/ Finish \/ Ended

Spec == Init /\ [][Next]_vars

-----------------------------------------------------------------------------
(* Properties.                                                             *)

\* Every variable has its type; the eq table covers the window of the round.
TypeOK ==
    /\ shard \in Shards /\ plan \in Plans
    /\ pc \in {"check", "refused", "chunks", "rounds", "done"}
    /\ Round <= NumVars
    /\ heights = [i \in ChipIds |-> CeilShift(shard[i], Round)]
    /\ pc \in {"chunks", "rounds"} => Len(eq) >= WindowOf(Round)

\* The engine promises no more than the sumcheck of the bare columns: the
\* buffer, its caps, the runtime heights, the windows and the chunks leave no
\* trace in a message, and a shard it cannot hold is refused before any.
Promise == INSTANCE ZerocheckFold WITH refused <- (pc = "refused")
ImplementsFold == Promise!Spec

\* The packed state is the even-padded fold of every column at the offsets
\* the heights give, and exact zeros to the end of the buffer, whether the
\* rounds folded it or the prefix materialized it.
PackedStateIsExact ==
    pc = "rounds" =>
        LET offsets == AreaOffsets(heights)
        IN  /\ \A i \in ChipIds : \A c \in 1..Cols[i] :
                   \A k \in 1..EvenPad(heights[i]) \div 2 :
                       halves[offsets[i - 1] \div 2
                              + (c - 1) * (EvenPad(heights[i]) \div 2) + k] =
                           <<Promise!Value(shard[i], i, c, Round, 2 * (k - 1)),
                             Promise!Value(shard[i], i, c, Round, 2 * (k - 1) + 1)>>
            /\ \A p \in offsets[Len(Cols)] \div 2 + 1..Len(halves) : halves[p] = <<{}, {}>>

\* The live area never outgrows the static bound of its round, so that with
\* the window tail no read of a live chip's window is clamped onto another's
\* rows, and a chunk class covers every live pair it is asked for.
AreaWithinCap ==
    /\ pc \in {"chunks", "rounds"} => AreaOf(heights) <= AreaBound(MinOf(Round, Unrolled))
    /\ pc = "rounds" =>
           /\ 2 * Len(halves) = CapOf(Round)
           /\ \A i \in ChipIds :
                  AreaOffsets(heights)[i] \div 2 + WindowOf(Round) <= Len(halves)
    /\ pc = "chunks" =>
           \A i \in ChipIds :
               /\ Round < Depth => Pairs(heights[i]) <= PairCap(i, Round)
               /\ Round = Depth => EvenPad(heights[i]) \div 2 <= BlockHalf(i)
=============================================================================
