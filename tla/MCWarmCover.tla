----------------------------- MODULE MCWarmCover -----------------------------
(***************************************************************************)
(* Instances of WarmCover for TLC: every dump of three shards over a small *)
(* stock of analyze records, under the planner's own manifest and under    *)
(* registries with named, class-keyed, partial, competing and foreign      *)
(* entries.  Caps and quanta are scaled down with the heights; as for  *)
(* a small shard, the headroom of an area or a slot total is less than its *)
(* quantum, so that the rounding decides whether a cap admits.             *)
(***************************************************************************)
EXTENDS WarmCover

\* Packed area: two columns of chip a, three of chip b.
MCRecord(order, ha, hb, jagged) ==
    [order |-> order,
     heights |-> [c \in Range(order) |-> IF c = "a" THEN ha ELSE hb],
     area |-> 2 * ha + (IF Len(order) = 2 THEN 3 * hb ELSE 0),
     jagged |-> jagged]

MCRecords ==
    {MCRecord(<<"a", "b">>, 8, 8, "K4"), MCRecord(<<"a", "b">>, 16, 8, "K4"),
     MCRecord(<<"a", "b">>, 8, 20, "K4"), MCRecord(<<"a", "b">>, 8, 8, "K8"),
     MCRecord(<<"b", "a">>, 8, 8, "K4"), MCRecord(<<"a">>, 8, 0, "K4"),
     MCRecord(<<"a">>, 16, 0, "K4")}

MCDumps == [1..3 -> MCRecords]

MCInteractions == [a |-> 1, b |-> 2]
MCClassName(chips) == IF chips = {"a"} THEN -1 ELSE IF chips = {"b"} THEN -2 ELSE -3

MCBounds(ha, hb) == [a |-> ha, b |-> hb]

\* No entry; entries named for shards of another block, one without chips; a
\* class without slot cap beside a superset class; competing entries of one set.
MCRegistries ==
    {<<>>,
     [k \in 1..2 |-> IF k = 1 THEN [area_cap |-> 100, gkr |-> MCBounds(24, 24),
                                    gkr_slot_cap |-> 64]
                     ELSE [area_cap |-> 48]],
     [k \in {-3, 1} |-> IF k = -3 THEN [gkr |-> MCBounds(16, 24)]
                        ELSE [area_cap |-> 200,
                              gkr |-> [c \in {"a", "b", "c"} |-> 64]]],
     [k \in {-3, 2, 3} |-> IF k = -3 THEN [area_cap |-> 96, gkr |-> MCBounds(16, 20)]
                           ELSE IF k = 2 THEN [area_cap |-> 120, gkr |-> MCBounds(20, 24),
                                               gkr_slot_cap |-> 60]
                           ELSE [area_cap |-> 40, gkr |-> [a |-> 16]]]}

\* No flag; the area alone, below and above every shard; all three.
MCClassFlags ==
    {NoEntry, [area_cap |-> 8], [area_cap |-> 999],
     [gkr |-> MCBounds(64, 64)],
     [area_cap |-> 100, gkr |-> MCBounds(16, 24), gkr_slot_cap |-> 500]}

MCAreaHeadroom == <<1, 20>>
MCHeightHeadroom == <<7, 50>>
MCSlotHeadroom == <<1, 25>>
=============================================================================
