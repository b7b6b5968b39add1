----------------------------- MODULE GkrLayout ------------------------------
(***************************************************************************)
(* The memory of the LogUp-GKR stage (logup_gkr/circuit.py and the stage   *)
(* body of logup_gkr/prover.py): the class-shaped arrival, the first layer *)
(* laid into one arena by overlapping writes, the pyramid's row schedule   *)
(* against its static widths, and the openings of the traces.  Every       *)
(* buffer has the size of a class several shards share; what the live      *)
(* slots hold must not depend on the class.                                *)
(*                                                                         *)
(* Chips are numbered in chip_names order.  A trace cell is <<chip, column,*)
(* row>> (the chip negated in the preprocessed trace) and stands for the   *)
(* field element there; a field value is a linear combination of cells.    *)
(* Buffers are sequences: offset p is at index p + 1.                      *)
(***************************************************************************)
EXTENDS Recurrences, FiniteSets, TLC

CONSTANTS
    Width,            \* main columns of each chip
    Prep,             \* [w, h] of the preprocessed trace, chips that have one
    Manifest,         \* [sends, recvs] of each chip, sequences of interactions
                      \* [index, typed, kind, mult, values]
    NumRowVariables,  \* variables of the virtual row space
    LogStacking,      \* log stacking height of the trace commitment
    RowStacking,      \* granularity of the round-buffer classes
    Classes,          \* classes a shard may be proved under
    Shards,           \* heights of the shards, by chip
    ChunkCells        \* fold budget of an open, 0 for the monolithic fold

VARIABLES
    shard,    \* real heights
    class,    \* the cap class: [caps, slotCap]
    pc,       \* where the stage is, or "raised"
    arrival,  \* main_flat
    laid,     \* segments laid into the arena
    planes,   \* the four planes of the arena, then of the first layer
    layers,   \* the pyramid: [counts, width] of each layer not yet proved
    rounds,   \* layer_caps, popped in lockstep with the layers
    opened    \* the openings of the chips opened so far

vars == <<shard, class, pc, arrival, laid, planes, layers, rounds, opened>>

NumChips == Len(Width)
ChipIds == 1..NumChips
Unset == -1
Zero == <<0, 0, 0>>

\* A machine, its classes and the shards it is given.
ASSUME LayoutAssumption ==
    /\ Width \in Seq(Nat)
    /\ DOMAIN Prep \subseteq ChipIds
    /\ \A i \in DOMAIN Prep : Prep[i].w \in Nat /\ Prep[i].h \in Nat
    /\ \A i \in ChipIds : Len(Manifest[i].sends) \in Nat /\ Len(Manifest[i].recvs) \in Nat
    /\ NumRowVariables \in Nat \ {0} /\ RowStacking \in Nat \ {0}
    /\ LogStacking \in Nat /\ ChunkCells \in Nat
    /\ \A heights \in Shards : heights \in [ChipIds -> Nat]
    /\ \A c \in Classes : c.caps \in [ChipIds -> Nat] /\ c.slotCap \in Nat \cup {Unset}

MaxOf(a, b) == IF a >= b THEN a ELSE b
MinOf(a, b) == IF a <= b THEN a ELSE b
Even(n) == n + (n % 2)

-----------------------------------------------------------------------------
(* Buffers.  lax.dynamic_slice and dynamic_update_slice clamp their start  *)
(* so that the block stays inside the operand.                             *)

Clamped(start, room) == MaxOf(0, MinOf(start, room))
Slice(s, start, n) == SubSeq(s, Clamped(start, Len(s) - n) + 1,
                                Clamped(start, Len(s) - n) + n)
Update(s, block, start) ==
    LET at == Clamped(start, Len(s) - Len(block))
    IN  [p \in 1..Len(s) |->
            IF p \in at + 1..at + Len(block) THEN block[p - at] ELSE s[p]]

-----------------------------------------------------------------------------
(* Interactions and first-layer segments.                                  *)

\* The interactions of a chip: sends by sp1_index, then receives by
\* sp1_index; none for a stub chip, one with an untyped interaction.
Stub(i) == \E s \in {Manifest[i].sends, Manifest[i].recvs} :
               \E n \in 1..Len(s) : ~s[n].typed
InteractionCounts ==
    [i \in ChipIds |-> IF Stub(i) THEN 0
                       ELSE Len(Manifest[i].sends) + Len(Manifest[i].recvs)]
Interactions(i) ==
    LET ByIndex(s) == SortSeq(s, LAMBDA a, b : a.index < b.index)
    IN  IF Stub(i) THEN <<>>
        ELSE ByIndex(Manifest[i].sends) \o ByIndex(Manifest[i].recvs)
\* A form names columns of its chip's traces; what it names of a
\* preprocessed trace the chip does not have is dropped.
NamesColumns(i, f) ==
    /\ Len(f.terms) \in Nat
    /\ \A n \in 1..Len(f.terms) :
           LET t == f.terms[n]
           IN  /\ t[1] \in Nat /\ t[2] \in BOOLEAN /\ t[3] \in Int
               /\ ~t[2] => t[1] < Width[i]
               /\ t[2] /\ i \in DOMAIN Prep => t[1] < Prep[i].w
ASSUME FormAssumption ==
    \A i \in ChipIds : \A k \in 1..InteractionCounts[i] :
        LET it == Interactions(i)[k]
        IN  /\ NamesColumns(i, it.mult)
            /\ Len(it.values) \in Nat
            /\ \A v \in 1..Len(it.values) : NamesColumns(i, it.values[v])

IsSend(i, k) == k <= Len(Manifest[i].sends)

\* Segments: the interactions in chip order, then padding to a power of two.
NumReal == Total(InteractionCounts)
NumSegments == Pow2(CeilLog2(NumReal))
NumPad == NumSegments - NumReal
FirstSeg(i) == Prefix(InteractionCounts)[i - 1] + 1
SegChip(s) == CHOOSE i \in ChipIds : s \in FirstSeg(i)..Prefix(InteractionCounts)[i]

\* 2 * sp1_col_h(h), at the heights of some bounds; a padding segment
\* reads height 0.
SlotCount(h) == 2 * ((MaxOf(h, 8) + 3) \div 4)
SegmentHeight(heights, s) == IF s <= NumReal THEN heights[SegChip(s)] ELSE 0
SlotCounts(heights) ==
    [s \in 1..NumSegments |-> SlotCount(SegmentHeight(heights, s))]

-----------------------------------------------------------------------------
(* Classes.                                                                *)

FromHeights(heights) ==
    [caps |-> [i \in ChipIds |-> Even(heights[i])], slotCap |-> Unset]

UnionClass(a, b) ==
    [caps |-> [i \in ChipIds |-> MaxOf(a.caps[i], b.caps[i])],
     slotCap |-> IF Unset \in {a.slotCap, b.slotCap} THEN Unset
                 ELSE MaxOf(a.slotCap, b.slotCap)]

ResolvedSlotCap(c) ==
    IF c.slotCap # Unset THEN c.slotCap ELSE Total(SlotCounts(c.caps))

\* check_bounds and check_slot_cap.
BoundsAdmit(c, heights) ==
    \A i \in ChipIds : heights[i] % 2 = 0 /\ heights[i] <= c.caps[i]
SlotCapAdmits(c, heights) ==
    Total(SlotCounts(FromHeights(heights).caps)) <= ResolvedSlotCap(c)

\* row_cap: the next power of two from 4 below one stacking height, else the
\* next multiple of it.
RowCap(floor) ==
    IF floor < RowStacking THEN Pow2(MaxOf(2, CeilLog2(floor)))
    ELSE ((floor + RowStacking - 1) \div RowStacking) * RowStacking

Capacity(c) == Even(ResolvedSlotCap(c))
MaxCount(c) ==
    LET counted == {SlotCounts(c.caps)[s] : s \in 1..NumSegments}
    IN  CHOOSE m \in counted : \A n \in counted : n <= m
OutWidth(c) == RowCap(Capacity(c))
\* Broken variant of ArenaLen: no slack of one class segment.
ArenaLenNoSlack(c) == OutWidth(c)

ArenaLen(c) == MaxOf(OutWidth(c), Capacity(c) + MaxCount(c))

-----------------------------------------------------------------------------
(* The arrival.                                                            *)

ArrivalOffsets(heights) == Prefix([i \in ChipIds |-> Width[i] * heights[i]])

\* The committed trace: chips one after the other, column after column, and
\* zeros to the stacking height.
CommittedTrace ==
    LET starts == ArrivalOffsets(shard)
        stack  == Pow2(LogStacking)
        padded == ((starts[NumChips] + stack - 1) \div stack) * stack
        Holder(p) == CHOOSE i \in ChipIds : starts[i - 1] < p /\ p <= starts[i]
    IN  [p \in 1..padded |->
            IF p > starts[NumChips] THEN Zero
            ELSE LET i == Holder(p)  o == p - starts[i - 1] - 1
                 IN  <<i, o \div shard[i], o % shard[i]>>]

\* The length the trace is padded to before it is sliced.
DenseCap(c) ==
    ArrivalOffsets(c.caps)[NumChips] + Pow2(LogStacking)
        + (CHOOSE m \in {c.caps[i] : i \in ChipIds} : \A i \in ChipIds : c.caps[i] <= m)

\* One column slice of the class height per column, masked past the real
\* height, at the arrival offsets of the class.
PackedMain(dense, c) ==
    LET starts  == ArrivalOffsets(shard)
        offsets == ArrivalOffsets(c.caps)
        Holder(p) == CHOOSE i \in ChipIds : offsets[i - 1] < p /\ p <= offsets[i]
        column == [i \in ChipIds |-> [w \in 0..Width[i] - 1 |->
                      Slice(dense, starts[i - 1] + w * shard[i], c.caps[i])]]
    IN  [p \in 1..offsets[NumChips] |->
            LET i == Holder(p)  o == p - offsets[i - 1] - 1  row == o % c.caps[i]
            IN  IF row < shard[i] THEN column[i][o \div c.caps[i]][row + 1] ELSE Zero]

\* The preprocessed arrival, at its keygen heights.
PrepOffsets ==
    Prefix([i \in ChipIds |-> IF i \in DOMAIN Prep THEN Prep[i].w * Prep[i].h ELSE 0])
PrepFlat ==
    [p \in 1..PrepOffsets[NumChips] |->
        LET i == CHOOSE j \in DOMAIN Prep : PrepOffsets[j - 1] < p /\ p <= PrepOffsets[j]
            o == p - PrepOffsets[i - 1] - 1
        IN  <<-i, o \div Prep[i].h, o % Prep[i].h>>]

-----------------------------------------------------------------------------
(* Field values and the batched interaction forms of one chip.             *)

\* constant + the sum of weight * cell over a sequence of <<cell, weight>>:
\* a zero cell, or one whose weights cancel, contributes nothing.
Weight(pairs, x) ==
    Total([n \in 1..Len(pairs) |-> IF pairs[n][1] = x THEN pairs[n][2] ELSE 0])
Linear(constant, pairs) ==
    [const |-> constant,
     terms |-> {<<x, Weight(pairs, x)>> :
                    x \in {y \in {pairs[n][1] : n \in 1..Len(pairs)} \ {Zero} :
                               Weight(pairs, y) # 0}}]

\* A form is [const, terms], terms <<column, is_prep, weight>>; alpha, one and
\* kind are the coefficients of alpha, 1 and betas[0] in a fingerprint, values
\* those of the later betas.
Fraction(mult, sign, kind, values) ==
    [n |-> [sign |-> IF mult.const = 0 /\ mult.terms = {} THEN 0 ELSE sign, form |-> mult],
     d |-> [alpha |-> 1, one |-> 0, kind |-> kind,
            values |-> {v \in values : v[2].const # 0 \/ v[2].terms # {}}]]
Neutral == [n |-> [sign |-> 0, form |-> [const |-> 0, terms |-> {}]],
            d |-> [alpha |-> 0, one |-> 1, kind |-> 0, values |-> {}]]
Blank == [Neutral EXCEPT !.d.one = 0]

\* Do a chip's forms read a preprocessed column?
FormsOf(i) ==
    UNION {{it.mult} \cup {it.values[v] : v \in 1..Len(it.values)} :
               it \in {Interactions(i)[k] : k \in 1..InteractionCounts[i]}}
UsesPrep(i) ==
    /\ i \in DOMAIN Prep
    /\ \E f \in FormsOf(i) : \E n \in 1..Len(f.terms) : f.terms[n][2]

\* Broken variant of FormRow: a column a form names twice keeps one of its weights.
FormRowOverwriting(i, f) ==
    LET total == Width[i] + IF UsesPrep(i) THEN Prep[i].w ELSE 0
        column(t) == IF t[2] THEN Width[i] + t[1] ELSE t[1]
        naming(col) == {n \in 1..Len(f.terms) :
            (f.terms[n][2] => UsesPrep(i)) /\ column(f.terms[n]) = col - 1}
    IN  [const |-> f.const,
         row |-> [col \in 1..total |->
             IF naming(col) = {} THEN 0 ELSE f.terms[CHOOSE n \in naming(col) : TRUE][3]]]

\* The row of a form in the weight matrix: one weight per column of the main
\* trace, then of the preprocessed one if used, duplicates summed.
FormRow(i, f) ==
    LET total == Width[i] + IF UsesPrep(i) THEN Prep[i].w ELSE 0
        column(t) == IF t[2] THEN Width[i] + t[1] ELSE t[1]
    IN  [const |-> f.const,
         row |-> [col \in 1..total |->
             Total([n \in 1..Len(f.terms) |->
                 IF (f.terms[n][2] => UsesPrep(i)) /\ column(f.terms[n]) = col - 1
                 THEN f.terms[n][3] ELSE 0])]]

\* All forms of a chip: the multiplicities, the zero form, then the values,
\* interaction after interaction; value_idx points a missing value at the
\* zero form.
ValueCounts(i) == [k \in 1..InteractionCounts[i] |-> Len(Interactions(i)[k].values)]
MaxValues(i) ==
    LET lens == {ValueCounts(i)[k] : k \in 1..InteractionCounts[i]}
    IN  CHOOSE m \in lens : \A n \in lens : n <= m
ZeroForm(i) == InteractionCounts[i] + 1
ValueIdx(i, k, v) ==
    IF v <= ValueCounts(i)[k] THEN ZeroForm(i) + Prefix(ValueCounts(i))[k - 1] + v
    ELSE ZeroForm(i)
FormTable(i) ==
    [x \in 1..ZeroForm(i) + Total(ValueCounts(i)) |->
        IF x < ZeroForm(i) THEN FormRow(i, Interactions(i)[x].mult)
        ELSE IF x = ZeroForm(i) THEN FormRow(i, [const |-> 0, terms |-> <<>>])
        ELSE LET k == CHOOSE k \in 1..InteractionCounts[i] :
                          \E v \in 1..ValueCounts(i)[k] : ValueIdx(i, k, v) = x
             IN  FormRow(i, Interactions(i)[k].values[
                     x - ZeroForm(i) - Prefix(ValueCounts(i))[k - 1]])]

\* One row of a chip's trace as the first layer reads it: the main columns
\* from the arrival at the class offsets, the preprocessed ones trimmed or
\* zero-extended to the class height.
TraceRow(i, row) ==
    [col \in 1..Width[i] + (IF UsesPrep(i) THEN Prep[i].w ELSE 0) |->
        IF col <= Width[i]
        THEN arrival[ArrivalOffsets(class.caps)[i - 1]
                     + (col - 1) * class.caps[i] + row + 1]
        ELSE IF row < Prep[i].h
        THEN PrepFlat[PrepOffsets[i - 1] + (col - Width[i] - 1) * Prep[i].h + row + 1]
        ELSE Zero]

\* forms[x] on a row, and the multiplicity and fingerprint of interaction k.
FormAt(i, x, row) ==
    LET f == FormTable(i)[x]
    IN  Linear(f.const, [col \in 1..Len(f.row) |-> <<TraceRow(i, row)[col], f.row[col]>>])
RowFraction(i, k, row) ==
    Fraction(FormAt(i, k, row), IF IsSend(i, k) THEN 1 ELSE -1, Interactions(i)[k].kind,
             {<<v, FormAt(i, ValueIdx(i, k, v), row)>> : v \in 1..MaxValues(i)})

\* Slot o of interaction k in a chip's first-layer block: the fractions of
\* rows 2o and 2o + 1 while they are live, the fold-neutral one after.
BlockSlot(i, k, o) ==
    IF o < class.caps[i] \div 2 /\ o < shard[i] \div 2
    THEN <<RowFraction(i, k, 2 * o), RowFraction(i, k, 2 * o + 1)>>
    ELSE <<Neutral, Neutral>>
SegmentBlock(i, k) == [p \in 1..SlotCount(class.caps[i]) |-> BlockSlot(i, k, p - 1)]

-----------------------------------------------------------------------------
(* The pyramid's schedule.                                                 *)

\* sp1_next_row_counts, and the output width of a capped transition.
NextCounts(c) == [s \in 1..Len(c) |-> ((c[s] + 3) \div 4) * 2]
\* Broken variant of NextWidth: widths halved without the rounding slack of the segments.
NextWidthHalved(w) == Even(w \div 2)

NextWidth(w) == Even(w \div 2 + 2 * NumSegments)

\* The class counts after a number of transitions.
ClassFloor(c) ==
    Iterate([n \in Seq(Nat) |-> NextCounts(n)], SlotCounts(c.caps), NumRowVariables - 1)

\* The uncapped widths of the transitions.
PyramidWidth(t) == Iterate([w \in Nat |-> NextWidth(w)], Capacity(class), t)

\* RoundWidthCaps of every layer, first layer first.
LayerCaps(n) ==
    [l \in 1..n |-> [elements |-> RowCap(IF l = 1 THEN Capacity(class)
                                         ELSE RowCap(PyramidWidth(l - 1))),
                     eqRow |-> Pow2(NumRowVariables),
                     interaction |-> MaxOf(4, NumSegments)]]

-----------------------------------------------------------------------------
(* The openings.                                                           *)

\* A folded value is its cells, each with its point of the hypercube: binding
\* variable i sends the odd row's cells to the points with bit i set.
BindRows(mles, i) ==
    [j \in 1..Len(mles) \div 2 |->
        mles[2 * j - 1] \cup {<<x[1] + Pow2(i), x[2]>> : x \in mles[2 * j]}]
BindAll(mles, from, to) ==
    LET bound[t \in from..to] ==
            IF t = from THEN mles ELSE BindRows(bound[t - 1], t - 1)
    IN  bound[to]

\* Rows per fold chunk, 0 for the monolithic fold.
FoldChunkRows(width, padded) ==
    LET rows == MaxOf(ChunkCells \div MaxOf(width, 1), 4)
        log  == CHOOSE e \in 0..rows : Pow2(e) <= rows /\ Pow2(e + 1) > rows
    IN  IF ChunkCells = 0 \/ Pow2(log) >= padded THEN 0 ELSE Pow2(log)

\* The evaluation of one column of a height: chunk by chunk, then over the
\* chunks, and the zero rows above as the factors (1 - rev_point[k]).
OpenColumn(width, height, column) ==
    IF height = 0 THEN {}
    ELSE LET logH   == CeilLog2(height)
             padded == [r \in 1..Pow2(logH) |->
                 IF r > height \/ column[r] = Zero THEN {} ELSE {<<0, column[r]>>}]
             chunk  == FoldChunkRows(width, Pow2(logH))
             folds  == CeilLog2(chunk)
             reduced == [j \in 1..Pow2(logH) \div chunk |->
                 BindAll(SubSeq(padded, (j - 1) * chunk + 1, j * chunk), 0, folds)[1]]
         IN  IF chunk = 0 THEN BindAll(padded, 0, logH)[1]
             ELSE BindAll(reduced, folds, logH)[1]

\* Each column of a chip at a class height, from its flat zone.
OpenChip(flat, start, width, height) ==
    [w \in 0..width - 1 |->
        OpenColumn(width, height, SubSeq(flat, start + w * height + 1,
                                         start + (w + 1) * height))]
\* Broken variant of OpenMain: zones found at the offsets of the real heights.
OpenMainRealOffsets(i) ==
    OpenChip(arrival, ArrivalOffsets(shard)[i - 1], Width[i], class.caps[i])

OpenMain(i) ==
    OpenChip(arrival, ArrivalOffsets(class.caps)[i - 1], Width[i], class.caps[i])
OpenPrep(i) ==
    IF i \in DOMAIN Prep
    THEN OpenChip(PrepFlat, PrepOffsets[i - 1], Prep[i].w, Prep[i].h) ELSE <<>>

-----------------------------------------------------------------------------
(* The stage.                                                              *)

Init ==
    /\ shard \in Shards
    /\ class \in Classes \cup {FromHeights(shard)}
    /\ pc = "pack"
    /\ arrival = <<>> /\ planes = <<>> /\ layers = <<>> /\ rounds = <<>>
    /\ opened = <<>> /\ laid = 0

Raise == pc' = "raised" /\ UNCHANGED <<shard, class, arrival, laid, planes, layers, rounds, opened>>

\* pack_gkr_arrival.
PackArrival ==
    /\ pc = "pack"
    /\ IF ~BoundsAdmit(class, shard) \/ Len(CommittedTrace) > DenseCap(class) THEN Raise
       ELSE /\ arrival' = PackedMain([p \in 1..DenseCap(class) |->
                              IF p <= Len(CommittedTrace) THEN CommittedTrace[p] ELSE Zero],
                              class)
            /\ pc' = "admit"
            /\ UNCHANGED <<shard, class, laid, planes, layers, rounds, opened>>

\* check_slot_cap, then the arena of generate_first_layer_capped.
AdmitSlots ==
    /\ pc = "admit"
    /\ IF \/ ~SlotCapAdmits(class, shard)
          \/ OutWidth(class) < Capacity(class)
          \/ NumReal = 0
       THEN Raise
       ELSE /\ planes' = [p \in 1..ArenaLen(class) |-> <<Blank, Blank>>]
            /\ pc' = "lay"
            /\ UNCHANGED <<shard, class, arrival, laid, layers, rounds, opened>>

\* _lay_in_chip, one interaction: its class block at the chip's tight start
\* plus its number times the tight count.
LayStart(s) ==
    LET tight == SlotCounts(shard)
        first == FirstSeg(SegChip(s))
    IN  Prefix(tight)[first - 1] + (s - first) * tight[first]
LayBlock(s) == SegmentBlock(SegChip(s), s - FirstSeg(SegChip(s)) + 1)
LayIn ==
    /\ pc = "lay" /\ laid < NumReal
    /\ planes' = Update(planes, LayBlock(laid + 1), LayStart(laid + 1))
    /\ laid' = laid + 1
    /\ UNCHANGED <<shard, class, pc, arrival, layers, rounds, opened>>

\* _lay_in_tail: the padding segments' neutral slots, then the zero sweep, at
\* the end of the live segments; the arena is then trimmed to out_width.
TailPatch ==
    LET padSlots == SlotCount(0) * NumPad
    IN  [p \in 1..padSlots + MaxCount(class) |->
            IF p <= padSlots THEN <<Neutral, Neutral>> ELSE <<Blank, Blank>>]
Swept == Update(planes, TailPatch, Prefix(SlotCounts(shard))[NumReal])

\* Broken variant of LayTail: the arena's slack is not trimmed off.
LayTailUntrimmed ==
    /\ pc = "lay" /\ laid = NumReal
    /\ planes' = Swept
    /\ pc' = "guard"
    /\ UNCHANGED <<shard, class, arrival, laid, layers, rounds, opened>>

LayTail ==
    /\ pc = "lay" /\ laid = NumReal
    /\ planes' = SubSeq(Swept, 1, OutWidth(class))
    /\ pc' = "guard"
    /\ UNCHANGED <<shard, class, arrival, laid, layers, rounds, opened>>

\* The guards of _prove_from_first_layer, on the class counts.
GuardClass ==
    /\ pc = "guard"
    /\ IF MaxCount(class) > Pow2(NumRowVariables) \/ \E s \in 1..NumSegments : ClassFloor(class)[s] # 2
       THEN Raise
       ELSE /\ layers' = <<[counts |-> SlotCounts(shard), width |-> Len(planes)]>>
            /\ pc' = "fold"
            /\ UNCHANGED <<shard, class, arrival, laid, planes, rounds, opened>>

\* One transition of _pyramid_zone.
Transition ==
    /\ pc = "fold" /\ Len(layers) < NumRowVariables
    /\ layers' = Append(layers, [counts |-> NextCounts(layers[Len(layers)].counts),
                                 width |-> RowCap(PyramidWidth(Len(layers)))])
    /\ UNCHANGED <<shard, class, pc, arrival, laid, planes, rounds, opened>>

\* extract_sp1_outputs, then the caps of the rounds.
ExtractOutputs ==
    /\ pc = "fold" /\ Len(layers) = NumRowVariables
    /\ IF layers[Len(layers)].width < 2 * NumSegments THEN Raise
       ELSE /\ rounds' = LayerCaps(Len(layers))
            /\ pc' = "prove"
            /\ UNCHANGED <<shard, class, arrival, laid, planes, layers, opened>>

\* One JaggedGkrLayerRound, floor first.
ProveLayer ==
    /\ pc = "prove" /\ layers # <<>>
    /\ layers' = SubSeq(layers, 1, Len(layers) - 1)
    /\ rounds' = SubSeq(rounds, 1, Len(rounds) - 1)
    /\ UNCHANGED <<shard, class, pc, arrival, laid, planes, opened>>

\* open_traces_capped, one chip.
OpenTraces ==
    /\ pc = "prove" /\ layers = <<>> /\ Len(opened) < NumChips
    /\ LET i == Len(opened) + 1
       IN  opened' = Append(opened, [main |-> OpenMain(i), prep |-> OpenPrep(i)])
    /\ pc' = IF Len(opened') = NumChips THEN "done" ELSE pc
    /\ UNCHANGED <<shard, class, arrival, laid, planes, layers, rounds>>

\* The stage is over.
Ended == pc \in {"done", "raised"} /\ UNCHANGED vars

Next ==
    \/ PackArrival
    \/ AdmitSlots
    \/ LayIn
    \/ LayTail
    \/ GuardClass
    \/ Transition
    \/ ExtractOutputs
    \/ ProveLayer
    \/ OpenTraces
    \/ Ended

Spec == Init /\ [][Next]_vars

-----------------------------------------------------------------------------
(* Properties.                                                             *)

States == {"pack", "admit", "lay", "guard", "fold", "prove", "done", "raised"}
Laying == pc = "lay"
Laid == pc \in {"guard", "fold", "prove", "done"}

\* Every variable has its type.
TypeOK ==
    /\ shard \in Shards
    /\ class \in Classes \cup {FromHeights(shard)}
    /\ pc \in States
    /\ laid \in 0..NumReal
    /\ Laying => Len(planes) = ArenaLen(class)
    /\ Laid => laid = NumReal /\ Len(planes) = OutWidth(class)
    /\ Len(layers) <= NumRowVariables
    /\ Len(opened) <= NumChips

\* The overlapping writes leave the tight layout: segment after segment, each
\* keeps the tight prefix of its block, and once the tail is written the
\* padding segments are neutral and everything behind them is zero, though
\* every segment wrote a class-sized block and the last one spilled.
LayoutIsTight ==
    LET tight  == SlotCounts(shard)
        starts == Prefix(tight)
    IN  /\ Laying \/ Laid =>
               \A s \in 1..laid : \A o \in 0..tight[s] - 1 :
                   planes[starts[s - 1] + o + 1] =
                       BlockSlot(SegChip(s), s - FirstSeg(SegChip(s)) + 1, o)
        /\ Laid =>
               /\ \A p \in starts[NumReal] + 1..starts[NumSegments] :
                      planes[p] = <<Neutral, Neutral>>
               /\ \A p \in starts[NumSegments] + 1..OutWidth(class) :
                      planes[p] = <<Blank, Blank>>

\* generate_interaction_vals_batch on the shard's own trace: each interaction
\* form by form, a preprocessed column a chip does not have contributing 0.
TrueCell(i, t, row) ==
    IF ~t[2] THEN <<i, t[1], row>>
    ELSE IF i \in DOMAIN Prep /\ row < Prep[i].h THEN <<-i, t[1], row>> ELSE Zero
ApplyBatch(f, i, row) ==
    Linear(f.const, [n \in 1..Len(f.terms) |->
                        <<TrueCell(i, f.terms[n], row), f.terms[n][3]>>])
InteractionVals(i, k, row) ==
    LET it == Interactions(i)[k]
    IN  Fraction(ApplyBatch(it.mult, i, row), IF IsSend(i, k) THEN 1 ELSE -1, it.kind,
                 {<<v, ApplyBatch(it.values[v], i, row)>> : v \in 1..Len(it.values)})

\* The first layer is the one the docstring of generate_first_layer gives for
\* the shard alone: per interaction and even/odd row pair its multiplicity
\* and fingerprint, computed form by form, the rest of its slots neutral; the
\* class, the batched weight matrix and the arrival leave no trace in it.
LayerIsExact ==
    Laid =>
        LET starts == Prefix(SlotCounts(shard))
        IN  \A s \in 1..NumReal : \A o \in 0..SlotCounts(shard)[s] - 1 :
                LET i == SegChip(s)  k == s - FirstSeg(i) + 1
                IN  planes[starts[s - 1] + o + 1] =
                        IF o < shard[i] \div 2
                        THEN <<InteractionVals(i, k, 2 * o), InteractionVals(i, k, 2 * o + 1)>>
                        ELSE <<Neutral, Neutral>>

\* No layer of an admitted shard is truncated by the static widths of its
\* class, every round's caps are its own layer's and hold it, and the shard's
\* floor is the saturated one extract_sp1_outputs slices.
PyramidFits ==
    /\ \A l \in 1..Len(layers) :
           /\ Total(layers[l].counts) <= layers[l].width
           /\ \A s \in 1..NumSegments : layers[l].counts[s] <= Pow2(NumRowVariables)
    /\ Len(layers) = NumRowVariables =>
           \A s \in 1..NumSegments : layers[NumRowVariables].counts[s] = 2
    /\ pc = "prove" =>
           /\ Len(rounds) = Len(layers)
           /\ \A l \in 1..Len(layers) : layers[l].width <= rounds[l].elements

\* An opening is the evaluation of the chip's real column: every live row at
\* its own point, and nothing else, whatever the class and the fold chunks.
OpenIsExact ==
    \A i \in 1..Len(opened) :
        /\ \A w \in 0..Width[i] - 1 :
               opened[i].main[w] = {<<r, <<i, w, r>>>> : r \in 0..shard[i] - 1}
        /\ i \in DOMAIN Prep =>
               \A w \in 0..Prep[i].w - 1 :
                   opened[i].prep[w] = {<<r, <<-i, w, r>>>> : r \in 0..Prep[i].h - 1}
=============================================================================
