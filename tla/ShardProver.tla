----------------------------- MODULE ShardProver -----------------------------
(***************************************************************************)
(* The prover's stages of a shard proof over the schedule of               *)
(* ShardTranscript: the jagged PCS's commit, LogUp-GKR, zerocheck and the  *)
(* jagged opening.  Each is what the stage refuses, and what it computes:  *)
(* its transcript, its section of the proof, and its reduced claim.        *)
(*                                                                         *)
(* A shard is [claim, main, prep, trace, balanced, satisfied, bounds,      *)
(* slot, area, pow]: its statement [vk, pv, order, rows]; its regions      *)
(* [order, rows], prep with no chip standing for no region; the identity   *)
(* of its trace, whether its bus balances and its constraints vanish; its  *)
(* pinned classes (Unset: its own); and where its grind witness comes      *)
(* from.  A message is [of, at]: the shard whose prove computed it and the *)
(* transcript, hence the challenges, it was computed for.                  *)
(***************************************************************************)
EXTENDS ShardTranscript

CONSTANTS
    Shard,          \* the shards to prove, by name
    ChipNames,      \* chip_names of the verifier: the statement's order
    Width,          \* per chip [main, prep]: ChipWidths, prep None for none
    RowVars,        \* num_row_variables
    MaxLog,         \* max_log_row_count
    LogStacking,    \* log_stacking_height
    WellFormed      \* public values whose constraints fold to zero

Id == DOMAIN Shard
Tampered == "tampered"
Unset == -1

\* The GKR point has a coordinate more than there are row variables, which is
\* what zerocheck takes from it: num_row_variables is max_log_row_count - 1.
ASSUME StageAssumption ==
    /\ RowVars \in Nat \ {0} /\ MaxLog \in Nat \ {0} /\ LogStacking \in Nat
    /\ RowVars + 1 >= MaxLog
    /\ Tampered \notin Id

CeilDiv(a, b) == (a + b - 1) \div b

\* The proof owes its shard name only to the shard's own prove.
Made(of) == of \in Id

-----------------------------------------------------------------------------
(* Regions and their commitments.                                          *)

\* Column counts by region, and the [rows, columns] structure of a region.
MainWidth == [c \in DOMAIN Width |-> Width[c].main]
PrepWidth == [c \in DOMAIN Width |-> Width[c].prep]
Chips == DOMAIN Width
Prepped == {c \in Chips : PrepWidth[c] # None}

Structure(order, rows, width) ==
    [i \in DOMAIN order |-> <<rows[order[i]], width[order[i]]>>]

Area(structure) ==
    Total([i \in DOMAIN structure |-> structure[i][1] * structure[i][2]])
\* A region's dense buffer is padded to the stacking height.
Aligned(structure) ==
    CeilDiv(Area(structure), Pow2(LogStacking)) * Pow2(LogStacking)

\* Over the regions: their areas, and their dense buffers' sizes.
RawArea(regions) == Total([i \in DOMAIN regions |-> Area(regions[i])])
DenseSize(regions) == Total([i \in DOMAIN regions |-> Aligned(regions[i])])

\* Claim columns, a pad pair per region included.
ColumnCount(structure) == Total([i \in DOMAIN structure |-> structure[i][2]])
Columns(regions) ==
    2 * Len(regions) + Total([i \in DOMAIN regions |-> ColumnCount(regions[i])])

\* A root binds the committed content to the structure of its region.
Root(content, structure) == [content |-> content, structure |-> structure]

HasPrep(s) == s.prep.order # <<>>
MainStructure(s) == Structure(s.main.order, s.main.rows, MainWidth)
PrepStructure(s) == Structure(s.prep.order, s.prep.rows, PrepWidth)

\* A chip has widths and interactions.  A shard's statement, which names the
\* verifier's chips, and its regions give each of their chips its rows; only a
\* chip with preprocessed columns, one at least (of a width of zero the roles
\* would open nothing), is in the preprocessed region, and the key of the
\* statement commits to that region.
ASSUME ShardAssumption ==
    /\ Width \in [Chips -> [main : Nat, prep : (Nat \ {0}) \cup {None}]]
    /\ Interactions \in [Chips -> Nat]
    /\ ChipNames \in Seq(Chips)
    /\ \A id \in Id :
          LET s == Shard[id]
          IN  /\ s.claim = [vk |-> s.claim.vk, pv |-> s.claim.pv,
                              order |-> s.claim.order, rows |-> s.claim.rows]
              /\ s.claim.order \in Seq(Chips)
              /\ Range(ChipNames) \subseteq Range(s.claim.order)
              /\ s.claim.rows \in [Range(s.claim.order) -> Nat]
              /\ s.main.order \in Seq(Chips)
              /\ s.main.rows \in [Range(s.main.order) -> Nat]
              /\ s.prep.order \in Seq(Prepped)
              /\ s.prep.rows \in [Range(s.prep.order) -> Nat]
              /\ s.balanced \in BOOLEAN /\ s.satisfied \in BOOLEAN
              /\ HasPrep(s) =>
                    s.claim.vk.prep = Root(s.claim.vk.id, PrepStructure(s))

\* The prover's region walk, [prep, main].
RegionWalk(s) ==
    (IF HasPrep(s) THEN <<PrepStructure(s)>> ELSE <<>>) \o <<MainStructure(s)>>
RegionContents(s) ==
    (IF HasPrep(s) THEN <<s.claim.vk.id>> ELSE <<>>) \o <<s.trace>>

\* The verifier's chips with a preprocessed trace.
PrepNames ==
    LET named[n \in 0..Len(ChipNames)] ==
          IF n = 0 THEN <<>>
          ELSE IF ChipNames[n] \in Prepped THEN Append(named[n - 1], ChipNames[n])
          ELSE named[n - 1]
    IN  named[Len(ChipNames)]

\* Broken variant of Manifest: the main region comes first.
ManifestMainFirst(claim) ==
    <<Structure(ChipNames, claim.rows, MainWidth)>>
      \o (IF PrepNames # <<>> THEN <<Structure(PrepNames, claim.rows, PrepWidth)>>
          ELSE <<>>)

\* The manifest the verifier rebuilds from the statement, [prep, main].
Manifest(claim) ==
    (IF PrepNames # <<>> THEN <<Structure(PrepNames, claim.rows, PrepWidth)>>
     ELSE <<>>) \o <<Structure(ChipNames, claim.rows, MainWidth)>>

\* JaggedPcsProver.commit.
Commitment(s) == Root(s.trace, MainStructure(s))

\* bind_commitment: the stream enters the preamble, the roots are named; both
\* roles call it.
BoundRoots(claim, commitment) == [prep |-> claim.vk.prep, main |-> commitment]

\* BoundRoots.in_round_order.
InRoundOrder(roots) ==
    (IF PrepNames # <<>> THEN <<roots.prep>> ELSE <<>>) \o <<roots.main>>

-----------------------------------------------------------------------------
(* LogUp-GKR, prover.                                                      *)

\* resolve_witness_and_grind: a search finds this transcript's witness, a
\* recorded one is replayed, and without bits zero advances the stream.
Witness(s, t) ==
    IF s.pow = "recorded_elsewhere" THEN <<<<"vk", s.claim.vk>>>>
    ELSE IF s.pow = "recorded" \/ PowBits > 0 THEN t ELSE ZeroWitness

\* The shard's class: pinned, or its own heights made even.
Evened(h) == h + (h % 2)
Bounds(s) == IF s.bounds # <<>> THEN s.bounds
             ELSE [i \in DOMAIN s.main.order |->
                      Evened(s.main.rows[s.main.order[i]])]

\* First-layer slots by interaction, padded to a power of two of them.
ColHeight(h) == (Max({h, 8}) + 3) \div 4
SlotCounts(s, bounds) ==
    LET used == FlattenSeq([i \in DOMAIN bounds |->
                    [j \in 1..Interactions[s.main.order[i]] |-> 2 * ColHeight(bounds[i])]])
    IN  used \o [i \in 1..(Pow2(CeilLog2(Len(used))) - Len(used)) |-> 2 * ColHeight(0)]
SlotTotal(s, bounds) == Total(SlotCounts(s, bounds))
SlotCap(s) == IF s.slot # Unset THEN s.slot ELSE SlotTotal(s, Bounds(s))

\* sp1_next_row_counts, applied n times.
NextCount(rc) == ((rc + 3) \div 4) * 2
Floor(rc, n) == LET f[i \in 0..n] == IF i = 0 THEN rc ELSE NextCount(f[i - 1])
                IN  f[n]

\* check_bounds and check_slot_cap; heights must be even.
ClassAdmits(s) ==
    /\ Len(s.main.order) = Len(Bounds(s))
    /\ \A i \in DOMAIN s.main.order :
          LET h == s.main.rows[s.main.order[i]] IN h % 2 = 0 /\ h <= Bounds(s)[i]
    /\ SlotTotal(s, [i \in DOMAIN s.main.order |-> s.main.rows[s.main.order[i]]])
         <= SlotCap(s)

\* The class fits the row space, and every segment folds down to two slots.
PyramidFits(s) ==
    \A rc \in Range(SlotCounts(s, Bounds(s))) :
        rc <= Pow2(RowVars) /\ Floor(rc, RowVars - 1) = 2

\* The metadata assertion, the grind gate and the class checks of the stage.
GkrProverRaises(s, t) ==
    \/ s.claim.rows # s.main.rows
    \/ ~PowPasses(t, Witness(s, t))
    \/ ~ClassAdmits(s)
    \/ ~PyramidFits(s)

OutputSize(chips) == Pow2(NumInteractionVars(chips) + 1)

\* Values opened per chip: the prep region's width where the chip is in it.
OpenedWidths(s) ==
    [c \in Range(s.main.order) |->
        [main |-> MainWidth[c],
         prep |-> IF c \in Range(s.prep.order) THEN PrepWidth[c] ELSE None]]

\* prove_logup_gkr: grind, head, circuit output, layers, chip openings; the
\* reduced claim is the point and the openings.
GkrProve(id, t) ==
    LET s == Shard[id]
        ground == AbsorbGrind(t, Witness(s, t))
        head == SampleHead(ground)
        bound == BindCircuitOutput(head, id, OutputSize(s.main.order))
        point == LayerRounds(bound, id, RowVars)
        openings == [of |-> id, at |-> point, widths |-> OpenedWidths(s)]
    IN  [t |-> AbsorbChipOpenings(point, openings, s.main.order),
         proof |-> [pow |-> Witness(s, t),
                    output |-> [of |-> id, at |-> head,
                                size |-> OutputSize(s.main.order)],
                    layers |-> [of |-> id, at |-> bound, count |-> RowVars],
                    point |-> point,
                    openings |-> openings],
         claim |-> [point |-> point, openings |-> openings]]

-----------------------------------------------------------------------------
(* Zerocheck.                                                              *)

\* pack_flat_arrival: the pinned area admits the packed traces, whose columns
\* are cut or padded to the main rows.
PackedArea(s) ==
    Total([i \in DOMAIN s.main.order |->
        LET c == s.main.order[i]
        IN  (MainWidth[c] + (IF c \in Range(s.prep.order) THEN PrepWidth[c] ELSE 0))
              * Evened(s.main.rows[c])])
ZerocheckProverRaises(s) == s.area # Unset /\ PackedArea(s) > s.area

\* chip_traces: no preprocessed row of a chip lies past its main rows.
PrepUncut(s) == \A c \in Range(s.prep.order) : s.prep.rows[c] <= s.main.rows[c]

\* prove_shard_zerocheck: challenges, the sumcheck over the row variables of
\* the GKR point, the opened values; the reduced claim is the sumcheck point
\* and the values.
ZerocheckProve(id, t, claim) ==
    LET s == Shard[id]
        drawn == SampleStageChallenges(t)
        point == ZerocheckRounds(drawn, id, MaxLog)
        opened == [of |-> id, at |-> point, widths |-> OpenedWidths(s)]
    IN  [t |-> AbsorbOpenedValues(point, opened, s.main.order),
         proof |-> [challenges |-> drawn,
                    zeta |-> <<claim.point, MaxLog>>,
                    sum |-> <<claim.openings.of, drawn>>,
                    msgs |-> [of |-> id, at |-> drawn, count |-> MaxLog],
                    point |-> point,
                    opened |-> opened],
         claim |-> [point |-> point, opened |-> opened]]

-----------------------------------------------------------------------------
(* Jagged opening.                                                         *)

\* Broken variant of DenseVars: the preprocessed region is left out.
MainVars(s) == CeilLog2(Aligned(MainStructure(s)))

\* Variables of the dense buffer: the regions, stacking pad included, padded
\* to a power of two.
DenseVars(s) == CeilLog2(DenseSize(RegionWalk(s)))

\* JaggedPcsProver.prove: z_col, the outer and inner sumchecks over the
\* regions' columns, the stacked opening.  Chunked or not, the stream is one.
OpeningProve(id, t, claim) ==
    LET s == Shard[id]
        drawn == SampleColumns(t, Columns(RegionWalk(s)))
        point == EvalRounds(drawn, id, DenseVars(s))
    IN  [t |-> OpenRounds(point, id),
         proof |-> [eval |-> [of |-> id, at |-> drawn, rounds |-> DenseVars(s),
                              claims |-> claim.opened.of,
                              structures |-> RegionWalk(s)],
                    open |-> [of |-> id, at |-> point,
                              components |-> RegionContents(s)]],
         claim |-> "trivial"]
=============================================================================
