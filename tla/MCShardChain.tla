---------------------------- MODULE MCShardChain ----------------------------
(***************************************************************************)
(* Shards of ShardChain for TLC: two chips, b preprocessed; heights of at  *)
(* most sixteen rows, three row variables, a stacking height of eight.     *)
(***************************************************************************)
EXTENDS ShardChain

MCInteractions == [a |-> 1, b |-> 2]
MCWidth == [a |-> [main |-> 2, prep |-> None], b |-> [main |-> 1, prep |-> 1]]

Rows(ha, hb) == [a |-> ha, b |-> hb]
Vk(prepRows) == [id |-> "vk", prep |-> Root("vk", <<<<prepRows, 1>>>>)]

\* A true shard in its own classes, with the prep of chip b at its main rows.
Plain(trace, ha, hb) ==
    [claim |-> [vk |-> Vk(hb), pv |-> "pv", order |-> <<"a", "b">>, rows |-> Rows(ha, hb)],
     main |-> [order |-> <<"a", "b">>, rows |-> Rows(ha, hb)],
     prep |-> [order |-> <<"b">>, rows |-> [b |-> hb]],
     trace |-> trace, balanced |-> TRUE, satisfied |-> TRUE,
     bounds |-> <<>>, slot |-> Unset, area |-> Unset, pow |-> "search"]

\* Honest shards: their statements differ by public values, by rows, or not.
MCHonest ==
    [base |-> Plain("t1", 8, 8),
     otherPv |-> [Plain("t1", 8, 8) EXCEPT !.claim.pv = "pv2", !.pow = "recorded"],
     malformed |-> [Plain("t1", 8, 8) EXCEPT !.claim.pv = "bad pv"],
     shorter |-> [Plain("t2", 4, 8) EXCEPT !.bounds = <<16, 8>>, !.slot = 32, !.area = 64],
     falseTrace |-> [Plain("t3", 8, 8) EXCEPT !.satisfied = FALSE],
     unbalanced |-> [Plain("t4", 8, 8) EXCEPT !.balanced = FALSE]]

\* Shards a role refuses, and shards the two roles read differently.
MCOdd ==
    [lied |-> [Plain("t5", 8, 8) EXCEPT !.claim.rows = Rows(4, 8)],
     overBound |-> [Plain("t5", 8, 8) EXCEPT !.bounds = <<4, 8>>],
     overSlot |-> [Plain("t5", 16, 8) EXCEPT !.slot = 16],
     overArea |-> [Plain("t5", 8, 8) EXCEPT !.area = 8],
     tooDeep |-> [Plain("t5", 8, 8) EXCEPT !.bounds = <<40, 8>>],
     elsewhere |-> [Plain("t5", 8, 8) EXCEPT !.pow = "recorded_elsewhere"],
     swapped |-> [Plain("t5", 8, 8) EXCEPT !.main.order = <<"b", "a">>],
     noPrep |-> [Plain("t5", 8, 8) EXCEPT !.prep = [order |-> <<>>, rows |-> <<>>]],
     crossing |-> Plain("t6", 2, 6)]

\* Preprocessed rows above the main rows.
TallPrep(trace, ha, hb, hp) ==
    [Plain(trace, ha, hb) EXCEPT !.prep.rows = [b |-> hp], !.claim.vk = Vk(hp)]
MCTall == [tall |-> TallPrep("t7", 4, 8, 16)]

MCShards == MCHonest @@ MCOdd @@ MCTall
MCStale == {"gkr_point", "layers", "output", "chip_openings", "stage_challenges",
            "claimed_sum", "zerocheck_point", "opened_values", "dense_eval"}
MCChipNames == <<"a", "b">>
=============================================================================
