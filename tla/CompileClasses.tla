--------------------------- MODULE CompileClasses ---------------------------
(***************************************************************************)
(* The compile classes of shard_prover/compile_classes.py and the manifest *)
(* planner of warm_shard_cache.py: what a shard's own class is, how bounds *)
(* are quantized into the per-program manifest, which manifest entry may   *)
(* pin a shard, and which classes a prove ends up compiling.               *)
(*                                                                         *)
(* A shard's analyze record is [order, area, heights, jagged]: its chips   *)
(* in order, its packed zerocheck area, its real heights by chip (even),   *)
(* and its jagged class.  A manifest is a function from keys to entries; a *)
(* key is a number, shard names the shard's own number; an entry is a      *)
(* function on some of "area_cap", "gkr" (bounds by chip), "gkr_slot_cap". *)
(***************************************************************************)
EXTENDS Integers, Sequences, FiniteSets, FiniteSetsExt, Functions

CONSTANTS
    Interactions,   \* interactions of each chip
    ClassName(_),   \* key of a chip set, injective, not a shard's number
    AreaHeadroom, AreaQuantum,          \* <<num, den>> and cells
    HeightHeadroom, HeightMinSlack,     \* <<num, den>> and rows
    HeightMaxSlack, HeightQuantum,      \* rows
    SlotHeadroom, SlotQuantum           \* <<num, den>> and slots

Headrooms == Nat \X (Nat \ {0})

ASSUME QuantizerAssumption ==
    /\ {AreaHeadroom, HeightHeadroom, SlotHeadroom} \subseteq Headrooms
    /\ {AreaQuantum, HeightQuantum, SlotQuantum} \subseteq Nat \ {0}
    /\ {HeightMinSlack, HeightMaxSlack} \subseteq Nat

-----------------------------------------------------------------------------
(* Quantizers.                                                             *)

\* -(-a // b): the quotient rounded up.
CeilDiv(a, b) == (a + b - 1) \div b

\* Broken variant of Quantize: the multiple of the quantum below.
QuantizeDown(x, headroom, quantum) ==
    LET padded == CeilDiv(x * (headroom[2] + headroom[1]), headroom[2])
    IN  (padded \div quantum) * quantum

\* ceil(x * (1 + num/den) / quantum) * quantum in integers.
Quantize(x, headroom, quantum) ==
    LET padded == CeilDiv(x * (headroom[2] + headroom[1]), headroom[2])
    IN  CeilDiv(padded, quantum) * quantum

QuantizeArea(x) == Quantize(x, AreaHeadroom, AreaQuantum)
QuantizeSlot(x) == Quantize(x, SlotHeadroom, SlotQuantum)

\* The slack of a height: a percentage, at least and at most so many rows.
HeightSlack(h) ==
    LET share == CeilDiv(h * HeightHeadroom[1], HeightHeadroom[2])
    IN  Min({Max({share, HeightMinSlack}), HeightMaxSlack})

QuantizeHeight(h) == CeilDiv(h + HeightSlack(h), HeightQuantum) * HeightQuantum

-----------------------------------------------------------------------------
(* Tight classes.                                                          *)

Chips(order) == Range(order)

\* sp1_col_h, and the first-layer slots bounds imply: two columns per
\* interaction, padded to a power of two of interactions.
ColHeight(h) == (Max({h, 8}) + 3) \div 4
SlotTotal(order, bounds) ==
    LET total == SumFunctionOnSet(Interactions, Chips(order))
        width == Min({w \in {1, 2, 4, 8, 16} : w >= total})
    IN  2 * ColHeight(0) * (width - total)
        + MapThenSumSet(LAMBDA c : 2 * ColHeight(bounds[c]) * Interactions[c],
                        Chips(order))

\* tight_classes: real heights are even, so they bound themselves.
TightSlots(c) == SlotTotal(c.order, c.heights)

-----------------------------------------------------------------------------
(* The planner: one quantized entry per chip set.                          *)

SameSet(dump, n) == {m \in DOMAIN dump : Chips(dump[m].order) = Chips(dump[n].order)}

\* Per-field maxima over the members of n's chip set, whatever their order.
EntryOf(dump, n) ==
    [area_cap |-> QuantizeArea(Max({dump[m].area : m \in SameSet(dump, n)})),
     gkr |-> [c \in Chips(dump[n].order) |->
                QuantizeHeight(Max({dump[m].heights[c] : m \in SameSet(dump, n)}))],
     gkr_slot_cap |-> QuantizeSlot(Max({TightSlots(dump[m]) : m \in SameSet(dump, n)}))]

Plan(dump) ==
    [key \in {ClassName(Chips(dump[n].order)) : n \in DOMAIN dump} |->
        EntryOf(dump, CHOOSE n \in DOMAIN dump :
                          ClassName(Chips(dump[n].order)) = key)]

-----------------------------------------------------------------------------
(* Matching an entry, and resolving the classes.                           *)

Has(entry, field) == field \in DOMAIN entry

\* Broken variant of Exact: an entry of more chips serves a shard of fewer.
ExactOrSuperset(entry, chips) ==
    Has(entry, "gkr") /\ chips \subseteq DOMAIN entry.gkr
Exact(entry, chips) == Has(entry, "gkr") /\ DOMAIN entry.gkr = chips

AreaOr(entry) == IF Has(entry, "area_cap") THEN entry.area_cap ELSE -1

NoEntry == <<>>

\* manifest_entry_for: the named entry if its chips agree, else the largest of
\* the entries of exactly these chips, else a named entry without chips.
EntryFor(manifest, order, name) ==
    LET chips == Chips(order)
        named == name \in DOMAIN manifest
        same  == {k \in DOMAIN manifest : Exact(manifest[k], chips)}
        Best(k) == \A j \in same \ {k} :
                       \/ AreaOr(manifest[k]) > AreaOr(manifest[j])
                       \/ AreaOr(manifest[k]) = AreaOr(manifest[j]) /\ k > j
    IN  IF named /\ name \in same THEN manifest[name]
        ELSE IF same # {} THEN manifest[CHOOSE k \in same : Best(k)]
        ELSE IF named /\ ~Has(manifest[name], "gkr") THEN manifest[name]
        ELSE NoEntry

Unset == -1

\* The class r with the fields that pins has; a pinned GKR class without a slot
\* cap leaves it unset.
Pinned(r, order, pins) ==
    [area |-> IF Has(pins, "area_cap") THEN pins.area_cap ELSE r.area,
     bounds |-> IF Has(pins, "gkr") THEN [i \in DOMAIN order |-> pins.gkr[order[i]]]
                ELSE r.bounds,
     slot |-> IF ~Has(pins, "gkr") THEN r.slot
              ELSE IF Has(pins, "gkr_slot_cap") THEN pins.gkr_slot_cap
              ELSE Unset]

OwnClass(c, ownSlot) ==
    [area |-> c.area, bounds |-> [i \in DOMAIN c.order |-> c.heights[c.order[i]]],
     slot |-> ownSlot]

\* resolve_classes: the matched entry over the class flags over the shard's own.
Resolve(c, ownSlot, flags, entry) ==
    Pinned(Pinned(OwnClass(c, ownSlot), c.order, flags), c.order, entry)

\* GkrCapClass.resolved_slot_cap.
ResolvedSlot(c, r) ==
    IF r.slot # Unset THEN r.slot
    ELSE SlotTotal(c.order, [chip \in Chips(c.order) |->
             r.bounds[CHOOSE i \in DOMAIN c.order : c.order[i] = chip]])

-----------------------------------------------------------------------------
(* Compile keys, by kind.                                                  *)

\* The broken variant coarsens the jagged kind away.
KindsWithoutJagged == <<"zerocheck", "gkr", "chipset">>
Kinds == <<"zerocheck", "gkr", "chipset", "jagged">>

KeysOf(c, r, slot) ==
    [zerocheck |-> <<c.order, r.area>>,
     gkr |-> <<c.order, r.bounds, slot>>,
     chipset |-> c.order,
     jagged |-> <<c.order, c.jagged>>]

\* compile_cover_keys: the keys the planner counts for shard n.
CoverKeys(dump, manifest, n) ==
    LET c == dump[n]
        r == Resolve(c, TightSlots(c), NoEntry, EntryFor(manifest, c.order, n))
    IN  KeysOf(c, r, r.slot)

\* What a prove of the shard compiles: the harness resolves over a class whose
\* slot cap is unset, and the GKR stage resolves the slot cap.  The planner and
\* its workers are given no class flags.
ProveClass(c, flags, manifest, n) ==
    Resolve(c, Unset, flags, EntryFor(manifest, c.order, n))
ProveKeys(c, flags, manifest, n) ==
    LET r == ProveClass(c, flags, manifest, n)
    IN  KeysOf(c, r, ResolvedSlot(c, r))

\* check_bounds, check_slot_cap and the area bound: the stages refuse a shard
\* its pinned classes do not admit.
Admitted(c, manifest, n) ==
    LET r == ProveClass(c, NoEntry, manifest, n)
    IN  /\ c.area <= r.area
        /\ \A i \in DOMAIN c.order : c.heights[c.order[i]] <= r.bounds[i]
        /\ TightSlots(c) <= ResolvedSlot(c, r)
=============================================================================
