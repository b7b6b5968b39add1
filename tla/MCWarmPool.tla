----------------------------- MODULE MCWarmPool -----------------------------
(***************************************************************************)
(* Instances of WarmPool for TLC: five shards of three chip sets.  Shard 1 *)
(* is over the budget alone; 3 and 4 fit the card one by one and not       *)
(* together; 5 fits next to any of 2 to 4.                                 *)
(***************************************************************************)
EXTENDS WarmPool

MCChipSet == <<1, 1, 2, 2, 3>>
MCArea == <<9, 4, 5, 3, 2>>
MCPeak == <<9, 4, 5, 4, 1>>
MCNoFront == <<1, 1, 1, 1, 1>>
\* --front_shards=<shard 4>,<shard 3>
MCFront == <<2, 2, 1, 0, 2>>
MCReadings == {2, 6, Unreadable}
=============================================================================
