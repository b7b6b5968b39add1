--------------------------- MODULE MCStagedHarness ---------------------------
(***************************************************************************)
(* Sweeps of StagedHarness for TLC.  Through all four phases: two shards   *)
(* of one class with other row counts proved twice, plain and under the    *)
(* profiler; three of one order, the second of another jagged class, the   *)
(* third the first again; two whose padded tiers differ, with the chunked  *)
(* zerocheck; two without a pinned area cap; two that get no pass.  Up to  *)
(* phase 3, three shards of two orders; up to phase 2, two proved twice.   *)
(***************************************************************************)
EXTENDS StagedHarness

\* A shard of a dump, as far as the harness's compiles tell: its rows tell it
\* from the others, main is the stacked column count of its main region.
Dump(order, main, rows) ==
    [order |-> order, rows |-> rows,
     class |-> [area |-> 100, heights |-> order],
     jagged |-> [scan |-> <<order, main \div 4>>, K |-> <<2, main>>]]

MCSweep(dumps, maxPhase, runs, sha, ffi, profile) ==
    [shards |-> Len(dumps),
     order |-> [i \in DOMAIN dumps |-> dumps[i].order],
     class |-> [i \in DOMAIN dumps |-> dumps[i].class],
     jagged |-> [i \in DOMAIN dumps |-> dumps[i].jagged],
     rows |-> [i \in DOMAIN dumps |-> dumps[i].rows],
     maxPhase |-> maxPhase, runs |-> runs, proofSha |-> sha, ffiVerify |-> ffi,
     chunked |-> ffi, profile |-> profile]

\* No area_cap in its manifest entry: its own tight class.
Tight(dump) == [dump EXCEPT !.class.area = dump.rows]

Riscv == Dump("riscv", 4, 1)
RiscvOtherRows == Dump("riscv", 4, 2)
RiscvWider == Dump("riscv", 5, 3)
RiscvTier == Dump("riscv", 8, 4)
Keccak == Dump("keccak", 4, 5)

MCFull == MCSweep(<<Riscv, RiscvOtherRows>>, 9, 2, TRUE, TRUE, FALSE)
MCMixed == MCSweep(<<Riscv, RiscvWider, Riscv>>, 4, 1, FALSE, FALSE, FALSE)
MCTier == MCSweep(<<Riscv, RiscvTier>>, 4, 1, FALSE, TRUE, FALSE)
MCTight == MCSweep(<<Tight(Riscv), Tight(RiscvOtherRows)>>, 4, 1, FALSE, FALSE, FALSE)
MCPrefix == MCSweep(<<Riscv, Keccak, RiscvOtherRows>>, 3, 1, TRUE, TRUE, FALSE)
MCProfile == MCSweep(<<Riscv, RiscvOtherRows>>, 4, 2, TRUE, FALSE, TRUE)
MCTwice == MCSweep(<<Riscv, Keccak>>, 2, 2, TRUE, FALSE, FALSE)
MCNoPass == MCSweep(<<Riscv, RiscvOtherRows>>, 4, 0, TRUE, TRUE, FALSE)

MCSweeps ==
    {MCFull, MCMixed, MCTier, MCTight, MCPrefix, MCProfile, MCTwice,
     MCNoPass}
MCProfiled == {MCProfile}
MCUnproved == {MCNoPass}
=============================================================================
