------------------------- MODULE StagedHarnessProofs -------------------------
(***************************************************************************)
(* Proofs about StagedHarness: the properties its runs check, for every    *)
(* sweep of any length, flags and chip orders, and every trouble its       *)
(* shards may have.                                                        *)
(***************************************************************************)
EXTENDS StagedHarness, TLAPS

-----------------------------------------------------------------------------
(* The inductive invariant.                                                *)

\* The types TypeOK leaves open.
StageNames == {"commit", "bind", "gkr", "zerocheck", "opening"}
Absorbed == StageNames \cup {"preamble"}
Claims == {"shard", "chip evaluations at the gkr point", "column evaluations", "trivial"}
Kept == {"commitment", "commit_data", "roots"}
CallRecords ==
    [stage : StageNames, transcript : Seq(Absorbed), claim : Claims, held : SUBSET Kept]

Typed ==
    /\ TypeOK
    /\ calls \in Seq(CallRecords)
    /\ transcript \in Seq(Absorbed)
    /\ claim \in Claims
    /\ held \subseteq Kept

\* Where the harness may be: a shard of the list unless between two, within a
\* pass while a prove runs, and after the passes only as the flags ask.
Located ==
    /\ pc \notin {"load", "exited"} => shard <= sweep.shards
    /\ pc = "exited" => shard = sweep.shards + 1 /\ (exit = "zero" <=> failed = {})
    /\ pc \in {"load", "golden"} => pass = 0
    /\ pc \in {"run", "check", "bind", "passed"} => pass >= 1
    /\ pc = "bind" => phase = 1
    /\ pc = "wire" => Wired
    /\ pc = "ffi" => Wired /\ FfiVerify /\ Runs # 0 /\ Fault.kind # "encode"

\* What is referenced while a stage starts, after it returned, and at the bind.
Releases ==
    /\ pc = "run" => results = {<<pass, 1>>} \ {<<pass, phase>>}
    /\ pc = "check" => results = {<<pass, 1>>} \cup {<<pass, phase>>}
    /\ pc = "bind" => results = {<<pass, 1>>}

\* The trouble of a phase is still ahead: in a later pass, or later in this one.
PhaseTrouble(f) == f.kind \in {"raise", "mismatch"} /\ f.phase <= LastPhase
Ahead ==
    /\ pc \notin {"load", "exited"} => Fault.kind # "load"
    /\ pc \notin {"load", "golden", "exited"} =>
            ~(Fault.kind = "golden" /\ Fault.phase <= LastPhase)
    /\ pc \notin {"load", "exited"} /\ PhaseTrouble(Fault) =>
        /\ pc \in {"pass", "passed"} => Fault.pass > pass
        /\ pc = "run" => \/ Fault.pass > pass
                         \/ Fault.pass = pass /\ Fault.phase >= phase
        /\ pc = "check" => \/ Fault.pass > pass
                           \/ Fault.pass = pass /\ Fault.phase > phase
                           \/ /\ Fault.pass = pass /\ Fault.phase = phase
                              /\ Fault.kind = "mismatch"
        /\ pc = "bind" => \/ Fault.pass > pass
                          \/ Fault.pass = pass /\ Fault.phase > phase
        /\ pc \notin {"wire", "ffi"}

\* What the sweep has said of the shards behind it, of the one it is at, and
\* of those to come.
Encodes(f) == ~FailsPhases(f) /\ Wired /\ f.kind # "encode"
Told(s) ==
    /\ s \in failed <=> s < shard /\ Bites(fault[s])
    /\ s \in announced <=>
            \/ s < shard /\ ~FailsPhases(fault[s])
            \/ s = shard /\ pc \in {"wire", "ffi"}
    /\ s \in encoded <=>
            \/ s < shard /\ Encodes(fault[s])
            \/ s = shard /\ pc = "ffi"
Judged == Runs # 0 /\ ~Profile
Settled == Judged => \A s \in Shards : Told(s)

\* Phases of the shard the sweep is at whose stage has returned, in this pass
\* or an earlier one.
Behind(p) ==
    /\ pc \notin {"load", "golden", "exited"}
    /\ \/ pass > 1
       \/ /\ pass = 1
          /\ \/ pc \in {"pass", "passed", "wire", "ffi"}
             \/ p < phase
             \/ p = phase /\ pc \in {"check", "bind"}

\* The chips of an order that was met stay lent; what an announced shard's
\* phases ask for, and the current shard's so far, is in the process; a shard
\* to come has paid nothing; and riders have paid nothing they need not.
Lent ==
    /\ pc \notin {"load", "exited"} => chipsOf[ChipOrder[shard]] # 0
    /\ \A t \in announced :
        /\ t <= shard
        /\ chipsOf[ChipOrder[t]] # 0
        /\ Runs # 0 => \A p \in 1..LastPhase : Zones(p, t) \subseteq Executables
    /\ \A p \in 1..LastPhase : Behind(p) => Zones(p, shard) \subseteq Executables
    /\ \A c \in compiled : c.shard <= shard /\ c.shard \in Shards
    /\ RidersCompileNothing

\* The calls of the current prove, and what is held for the later ones.
Threading ==
    /\ pc = "run" => Len(calls) = IF phase = 1 THEN 0 ELSE phase
    /\ pc = "check" => Len(calls) = IF phase = 1 THEN 1 ELSE phase + 1
    /\ pc = "bind" => Len(calls) = 1 /\ held = {"commitment", "commit_data"}
    /\ pc = "run" /\ phase = 1 => held = {}
    /\ pc = "check" /\ phase = 1 => held = {}

Inv == Typed /\ Located /\ Releases /\ Ahead /\ Settled /\ Lent /\ Threading

-----------------------------------------------------------------------------
(* The sweep and its troubles do not change.                               *)

Flags == {ProofSha, FfiVerify, Profile}

LEMMA SweepFacts ==
    ASSUME sweep \in Sweeps
    PROVE  /\ sweep.shards \in Nat \ {0}
           /\ Shards = 1..sweep.shards
           /\ Runs \in Nat
           /\ LastPhase \in 1..4
           /\ Flags \subseteq BOOLEAN
           /\ \A s \in Shards : ChipOrder[s] \in Orders
<1>1. IsSweep(sweep)
  BY SweepsAssumption
<1>2. LastPhase \in 1..4
  BY <1>1 DEF IsSweep, LastPhase
<1> QED
  BY <1>1, <1>2 DEF IsSweep, Shards, Runs, Flags, ProofSha, FfiVerify, Profile, Orders

LEMMA FaultFacts ==
    ASSUME TypeOK, NEW s \in Shards
    PROVE  /\ fault[s] \in Faults
           /\ fault[s].kind \in {"golden", "raise", "mismatch"} => fault[s].phase \in 1..4
           /\ fault[s].kind \in {"raise", "mismatch"} =>
                /\ fault[s].pass \in 1..Runs
                /\ fault[s] = [kind |-> fault[s].kind, phase |-> fault[s].phase,
                               pass |-> fault[s].pass]
<1>1. fault[s] \in Faults
  BY DEF TypeOK
<1> QED
  BY <1>1 DEF Faults, Sound

\* A step changes neither the command line nor the troubles, hence nothing that
\* is read off them.
LEMMA SweepKept ==
    ASSUME UNCHANGED <<sweep, fault>>
    PROVE  /\ Shards' = Shards /\ Runs' = Runs /\ LastPhase' = LastPhase
           /\ Orders' = Orders /\ ChipOrder' = ChipOrder /\ Class' = Class
           /\ Jagged' = Jagged /\ Rows' = Rows
           /\ Wired' = Wired /\ FfiVerify' = FfiVerify /\ Profile' = Profile
           /\ Judged' = Judged
           /\ Faults' = Faults
           /\ \A f : /\ FailsPhases(f)' = FailsPhases(f)
                     /\ Bites(f)' = Bites(f)
                     /\ PhaseTrouble(f)' = PhaseTrouble(f)
                     /\ Encodes(f)' = Encodes(f)
<1>1. /\ Shards' = Shards /\ Runs' = Runs /\ LastPhase' = LastPhase
      /\ ChipOrder' = ChipOrder /\ Class' = Class
      /\ Jagged' = Jagged /\ Rows' = Rows
      /\ FfiVerify' = FfiVerify /\ Profile' = Profile /\ ProofSha' = ProofSha
      /\ Judged' = Judged
  BY DEF Shards, Runs, LastPhase, ChipOrder, Class, Jagged, Rows, FfiVerify, Profile,
         ProofSha, Judged
<1>2. Orders' = Orders /\ Faults' = Faults
  BY <1>1 DEF Orders, Faults, Sound
<1>3. Wired' = Wired
  BY <1>1 DEF Wired
<1>4. \A f : FailsPhases(f)' = FailsPhases(f)
  BY <1>1 DEF FailsPhases
<1>5. \A f : FailsWire(f)' = FailsWire(f)
  BY <1>1, <1>3 DEF FailsWire
<1>6. \A f : Bites(f)' = Bites(f)
  BY <1>4, <1>5 DEF Bites
<1>7. \A f : PhaseTrouble(f)' = PhaseTrouble(f)
  BY <1>1 DEF PhaseTrouble
<1>8. \A f : Encodes(f)' = Encodes(f)
  BY <1>1, <1>3, <1>4 DEF Encodes
<1> QED
  BY <1>1, <1>2, <1>3, <1>4, <1>6, <1>7, <1>8

LEMMA NextKeepsSweep ==
    ASSUME Next
    PROVE  UNCHANGED <<sweep, fault>>
BY DEF Next, Advance, Exited, Load, ParseGolden, StartPass, StartTraceRefused, RunStage,
       Check, Bind, EndPass, AllOk, Wire, FfiCheck, EndSweep, GiveUp, vars

-----------------------------------------------------------------------------
(* The invariant holds at the start.                                       *)

LEMMA InitInv == Init => Inv
<1> SUFFICES ASSUME Init PROVE Inv
  OBVIOUS
<1> USE DEF Init
<1>f. /\ sweep.shards \in Nat \ {0} /\ Shards = 1..sweep.shards /\ Runs \in Nat
      /\ LastPhase \in 1..4
  BY SweepFacts
<1>1. chipsOf \in [Orders -> 0..sweep.shards]
  BY <1>f
<1>2. calls \in Seq(CallRecords) /\ transcript \in Seq(Absorbed)
  OBVIOUS
<1>c. claim \in Claims /\ held \subseteq Kept
  BY DEF Claims
<1>3. TypeOK
  <2>1. /\ sweep \in Sweeps /\ fault \in [Shards -> Faults]
        /\ announced \subseteq Shards /\ encoded \subseteq Shards /\ failed \subseteq Shards
        /\ exit \in {"none", "zero", "nonzero"} /\ profiling \in BOOLEAN
    OBVIOUS
  <2>2. /\ shard \in 1..(sweep.shards + 1) /\ pass \in 0..Runs /\ phase \in 1..LastPhase
    BY <1>f
  <2>3. pc \in Steps /\ results \subseteq (1..Runs) \X (1..4)
    BY DEF Steps
  <2> QED
    BY <1>1, <2>1, <2>2, <2>3 DEF TypeOK
<1>4. Located /\ Releases /\ Ahead /\ Threading
  BY DEF Located, Releases, Ahead, Threading
<1>5. \A s \in Shards : Told(s)
  BY <1>f DEF Told
<1>6. Lent
  BY DEF Lent, Behind, RidersCompileNothing
<1> QED
  BY <1>2, <1>c, <1>3, <1>4, <1>5, <1>6 DEF Inv, Typed, Settled

-----------------------------------------------------------------------------
(* Every step keeps the types and stays where it may be.                   *)

LEMMA TypeStep ==
    ASSUME Typed, Located, Next
    PROVE  TypeOK'
<1>0. UNCHANGED <<sweep, fault>>
  BY NextKeepsSweep
<1>k. /\ Shards' = Shards /\ Runs' = Runs /\ LastPhase' = LastPhase
      /\ Orders' = Orders /\ Faults' = Faults
  BY <1>0, SweepKept
<1>t. TypeOK
  BY DEF Typed
<1>f. /\ sweep.shards \in Nat \ {0} /\ Shards = 1..sweep.shards /\ Runs \in Nat
      /\ LastPhase \in 1..4 /\ \A s \in Shards : ChipOrder[s] \in Orders
  BY <1>t, SweepFacts DEF TypeOK
<1>g. ASSUME NextShard, shard \in Shards
      PROVE  /\ shard' \in 1..(sweep.shards + 1) /\ pc' = "load" /\ pass' \in 0..Runs
             /\ phase' \in 1..LastPhase /\ results' = {}
  BY <1>f, <1>g DEF NextShard
<1>h. ASSUME GiveUp, shard \in Shards
      PROVE  TypeOK'
  <2>1. /\ shard' \in 1..(sweep.shards + 1) /\ pc' = "load" /\ pass' \in 0..Runs
        /\ phase' \in 1..LastPhase /\ results' = {}
    BY <1>g, <1>h DEF GiveUp
  <2> QED
    BY <1>h, <1>0, <1>k, <1>t, <2>1 DEF GiveUp, TypeOK, Steps
<1>s. pc \notin {"load", "exited"} => shard \in Shards
  BY <1>f, <1>t DEF Located, TypeOK
<1>1. CASE Load
  <2>1. shard \in Shards
    BY <1>1, <1>f, <1>t DEF Load, TypeOK
  <2>2. CASE Fault.kind = "load"
    BY <1>1, <1>h, <2>1, <2>2 DEF Load
  <2>3. CASE Fault.kind # "load"
    <3>1. ChipOrder[shard] \in Orders
      BY <1>f, <2>1
    <3>2. Lender(ChipOrder[shard]) \in 0..sweep.shards
      BY <1>f, <1>t, <2>1, <3>1 DEF Lender, TypeOK
    <3>3. chipsOf' \in [Orders -> 0..sweep.shards]
      BY <1>1, <1>t, <2>3, <3>2 DEF Load, TypeOK
    <3> QED
      BY <1>1, <1>0, <1>k, <1>t, <2>3, <3>3 DEF Load, TypeOK, Steps, verdicts
  <2> QED
    BY <2>2, <2>3
<1>2. CASE ParseGolden
  <2>1. shard \in Shards
    BY <1>2, <1>s DEF ParseGolden
  <2>2. CASE GoldenMissing
    BY <1>2, <1>h, <2>1, <2>2 DEF ParseGolden
  <2>3. CASE ~GoldenMissing
    BY <1>2, <1>0, <1>k, <1>t, <2>3 DEF ParseGolden, TypeOK, Steps, verdicts
  <2> QED
    BY <2>2, <2>3
<1>3. CASE StartPass
  <2>1. pass' \in 0..Runs /\ phase' \in 1..LastPhase /\ results' = {}
    BY <1>3, <1>f, <1>t DEF StartPass, PassesLeft, SurvivesIntoPass, TypeOK
  <2>2. profiling' \in BOOLEAN
    BY <1>3 DEF StartPass
  <2> QED
    BY <1>3, <1>0, <1>k, <1>t, <2>1, <2>2 DEF StartPass, TypeOK, Steps, verdicts
<1>4. CASE StartTraceRefused
  BY <1>4, <1>h, <1>s DEF StartTraceRefused
<1>5. CASE RunStage
  <2>1. CASE Hits("raise")
    BY <1>5, <1>h, <1>s, <2>1 DEF RunStage
  <2>2. CASE ~Hits("raise")
    <3>1. <<pass, phase>> \in (1..Runs) \X (1..4)
      BY <1>5, <1>f, <1>t DEF RunStage, TypeOK, Located
    <3>2. results' \subseteq (1..Runs) \X (1..4)
      BY <1>5, <1>t, <2>2, <3>1 DEF RunStage, TypeOK
    <3> QED
      BY <1>5, <1>0, <1>k, <1>t, <2>2, <3>2 DEF RunStage, TypeOK, Steps, verdicts
  <2> QED
    BY <2>1, <2>2
<1>6. CASE Check
  <2>1. CASE Mismatch
    BY <1>6, <1>h, <1>s, <2>1 DEF Check
  <2>2. CASE ~Mismatch
    <3>1. results' \subseteq results
      BY <1>6, <2>2 DEF Check, SurvivesStage
    <3>2. phase' \in 1..LastPhase /\ pc' \in Steps
      BY <1>6, <1>f, <1>t, <2>2 DEF Check, IsLast, TypeOK, Steps
    <3> QED
      BY <1>6, <1>0, <1>k, <1>t, <2>2, <3>1, <3>2 DEF Check, TypeOK, verdicts
  <2> QED
    BY <2>1, <2>2
<1>7. CASE Bind
  <2>1. phase' \in 1..LastPhase /\ pc' \in Steps
    BY <1>7, <1>f, <1>t DEF Bind, TypeOK, Steps
  <2> QED
    BY <1>7, <1>0, <1>k, <1>t, <2>1 DEF Bind, TypeOK, verdicts
<1>8. CASE EndPass
  <2>1. profiling' \in BOOLEAN
    BY <1>8 DEF EndPass
  <2> QED
    BY <1>8, <1>0, <1>k, <1>t, <2>1 DEF EndPass, TypeOK, Steps, verdicts
<1>9. CASE AllOk
  <2>0. shard \in Shards /\ announced' \subseteq Shards
    BY <1>9, <1>s, <1>t DEF AllOk, TypeOK
  <2>1. /\ shard' \in 1..(sweep.shards + 1) /\ pc' \in Steps /\ pass' \in 0..Runs
        /\ phase' \in 1..LastPhase /\ results' \subseteq (1..Runs) \X (1..4)
    BY <1>9, <1>g, <1>t, <2>0 DEF AllOk, TypeOK, Steps
  <2> QED
    BY <1>9, <1>0, <1>k, <1>t, <2>0, <2>1 DEF AllOk, TypeOK
<1>10. CASE Wire
  <2>0. shard \in Shards
    BY <1>10, <1>s DEF Wire
  <2>1. CASE Fault.kind = "encode" \/ Runs = 0
    BY <1>10, <1>h, <2>0, <2>1 DEF Wire
  <2>2. CASE ~(Fault.kind = "encode" \/ Runs = 0)
    <3>1. /\ shard' \in 1..(sweep.shards + 1) /\ pc' \in Steps /\ pass' \in 0..Runs
          /\ phase' \in 1..LastPhase /\ results' \subseteq (1..Runs) \X (1..4)
      BY <1>10, <1>g, <1>t, <2>0, <2>2 DEF Wire, TypeOK, Steps
    <3>2. encoded' \subseteq Shards
      BY <1>10, <1>t, <2>0, <2>2 DEF Wire, TypeOK
    <3> QED
      BY <1>10, <1>0, <1>k, <1>t, <2>2, <3>1, <3>2 DEF Wire, TypeOK
  <2> QED
    BY <2>1, <2>2
<1>11. CASE FfiCheck
  <2>0. shard \in Shards
    BY <1>11, <1>s DEF FfiCheck
  <2>1. CASE Fault.kind = "ffi"
    BY <1>11, <1>h, <2>0, <2>1 DEF FfiCheck
  <2>2. CASE Fault.kind # "ffi"
    <3>1. /\ shard' \in 1..(sweep.shards + 1) /\ pc' = "load" /\ pass' \in 0..Runs
          /\ phase' \in 1..LastPhase /\ results' = {}
      BY <1>11, <1>g, <2>0, <2>2 DEF FfiCheck
    <3> QED
      BY <1>11, <1>0, <1>k, <1>t, <2>2, <3>1 DEF FfiCheck, TypeOK, Steps, verdicts
  <2> QED
    BY <2>1, <2>2
<1>12. CASE EndSweep
  BY <1>12, <1>0, <1>k, <1>t DEF EndSweep, TypeOK, Steps
<1>13. CASE Exited
  BY <1>13, <1>0, <1>k, <1>t DEF Exited, vars, verdicts, TypeOK
<1> QED
  BY <1>1, <1>2, <1>3, <1>4, <1>5, <1>6, <1>7, <1>8, <1>9, <1>10, <1>11, <1>12, <1>13
     DEF Next, Advance

\* The stage of each phase, and the claim it leaves.
LEMMA StageFacts ==
    /\ \A k \in 1..4 : StageOf[k] \in StageNames
    /\ StageOf[1] = "commit" /\ StageOf[2] = "gkr" /\ StageOf[3] = "zerocheck"
    /\ StageOf[4] = "opening"
    /\ \A k \in 2..4 : ReducedBy[StageOf[k]] \in Claims
<1>1. /\ StageOf[1] = "commit" /\ StageOf[2] = "gkr" /\ StageOf[3] = "zerocheck"
      /\ StageOf[4] = "opening"
  BY DEF StageOf
<1>2. \A k \in 1..4 : k = 1 \/ k = 2 \/ k = 3 \/ k = 4
  OBVIOUS
<1>3. /\ ReducedBy["gkr"] \in Claims /\ ReducedBy["zerocheck"] \in Claims
      /\ ReducedBy["opening"] \in Claims
  BY DEF ReducedBy, Claims
<1> QED
  BY <1>1, <1>2, <1>3 DEF StageNames

ProvingTyped ==
    /\ calls \in Seq(CallRecords)
    /\ transcript \in Seq(Absorbed)
    /\ claim \in Claims
    /\ held \subseteq Kept

LEMMA ProvingStep ==
    ASSUME Typed, Next
    PROVE  ProvingTyped'
<1>p. ProvingTyped
  BY DEF Typed, ProvingTyped
<1>t. phase \in 1..4
  BY SweepFacts DEF Typed, TypeOK
<1>u. ASSUME UNCHANGED proving PROVE ProvingTyped'
  BY <1>p, <1>u DEF ProvingTyped, proving
<1>f. ASSUME FreshProve PROVE ProvingTyped'
  <2>1. calls' \in Seq(CallRecords) /\ transcript' \in Seq(Absorbed)
    BY <1>f DEF FreshProve
  <2> QED
    BY <1>f, <2>1 DEF FreshProve, ProvingTyped, Claims
<1>g. ASSUME GiveUp PROVE ProvingTyped'
  BY <1>f, <1>g DEF GiveUp, NextShard
<1>1. CASE RunStage
  <2>1. CASE Hits("raise")
    BY <1>1, <1>g, <2>1 DEF RunStage
  <2>2. CASE ~Hits("raise")
    <3>1. [stage |-> StageOf[phase], transcript |-> transcript, claim |-> claim,
           held |-> held] \in CallRecords
      BY <1>p, <1>t, StageFacts DEF CallRecords, ProvingTyped
    <3>2. calls' \in Seq(CallRecords)
      BY <1>1, <1>p, <2>2, <3>1 DEF RunStage, ProvingTyped
    <3> QED
      BY <1>1, <1>p, <2>2, <3>2 DEF RunStage, ProvingTyped
  <2> QED
    BY <2>1, <2>2
<1>2. CASE Check
  <2>1. CASE Mismatch
    BY <1>2, <1>g, <2>1 DEF Check
  <2>2. CASE ~Mismatch /\ phase = 1
    BY <1>2, <1>p, <2>2 DEF Check, ProvingTyped, Kept
  <2>3. CASE ~Mismatch /\ phase # 1
    <3>1. phase \in 2..4
      BY <1>t, <2>3
    <3>2. StageOf[phase] \in Absorbed /\ ReducedBy[StageOf[phase]] \in Claims
      BY <1>t, <3>1, StageFacts DEF Absorbed
    <3>3. transcript' \in Seq(Absorbed)
      BY <1>2, <1>p, <2>3, <3>2 DEF Check, Threaded, ProvingTyped
    <3> QED
      BY <1>2, <1>p, <2>3, <3>2, <3>3 DEF Check, ProvingTyped
  <2> QED
    BY <2>1, <2>2, <2>3
<1>3. CASE Bind
  <2>1. [stage |-> "bind", transcript |-> transcript, claim |-> claim,
         held |-> held] \in CallRecords
    BY <1>p DEF CallRecords, StageNames, ProvingTyped
  <2>2. calls' \in Seq(CallRecords)
    BY <1>3, <1>p, <2>1 DEF Bind, ProvingTyped
  <2>3. transcript' \in Seq(Absorbed)
    BY <1>3, <1>p DEF Bind, Absorbed, ProvingTyped
  <2> QED
    BY <1>3, <1>p, <2>2, <2>3 DEF Bind, Kept, ProvingTyped
<1>4. CASE UNCHANGED proving
  BY <1>4, <1>u
<1>5. CASE FreshProve
  BY <1>5, <1>f
<1> QED
  <2>1. ASSUME GiveUp PROVE FreshProve
    BY <2>1 DEF GiveUp, NextShard
  <2>2. RunStage \/ Check \/ Bind \/ FreshProve \/ UNCHANGED proving
    BY <2>1 DEF Next, Advance, Exited, Load, ParseGolden, StartPass, StartTraceRefused,
       EndPass, AllOk, Wire, FfiCheck, EndSweep, NextShard, vars
  <2> QED
    BY <1>1, <1>2, <1>3, <1>4, <1>5, <2>2

LEMMA TypedStep == Typed /\ Located /\ Next => Typed'
BY TypeStep, ProvingStep DEF Typed, ProvingTyped

\* What a step that leaves a shard for the next one does.
LEMMA Left ==
    ASSUME NextShard
    PROVE  shard' = shard + 1 /\ pc' = "load" /\ pass' = 0
BY DEF NextShard

LEMMA LocatedStep ==
    ASSUME Typed, Located, Next
    PROVE  Located'
<1>0. UNCHANGED <<sweep, fault>>
  BY NextKeepsSweep
<1>k. Wired' = Wired /\ FfiVerify' = FfiVerify /\ Runs' = Runs
  BY <1>0, SweepKept
<1>t. /\ TypeOK /\ sweep.shards \in Nat \ {0} /\ Shards = 1..sweep.shards
      /\ Runs \in Nat /\ LastPhase \in 1..4
  BY SweepFacts DEF Typed, TypeOK
<1>u. pass \in 0..Runs /\ phase \in 1..LastPhase /\ shard \in 1..(sweep.shards + 1)
  BY <1>t DEF TypeOK
<1>n. ASSUME pc' = "load", pass' = 0 PROVE Located'
  BY <1>n DEF Located
<1>g. ASSUME GiveUp PROVE Located'
  BY <1>g, <1>n, Left DEF GiveUp
<1>1. CASE Load
  <2>1. CASE Fault.kind = "load"
    BY <1>1, <1>g, <2>1 DEF Load
  <2>2. CASE Fault.kind # "load"
    BY <1>0, <1>1, <2>2 DEF Load, Located
  <2> QED
    BY <2>1, <2>2
<1>2. CASE ParseGolden
  <2>1. CASE GoldenMissing
    BY <1>2, <1>g, <2>1 DEF ParseGolden
  <2>2. CASE ~GoldenMissing
    BY <1>0, <1>2, <2>2 DEF ParseGolden, Located
  <2> QED
    BY <2>1, <2>2
<1>3. CASE StartPass
  <2>1. pass' >= 1
    BY <1>3, <1>u, <1>t DEF StartPass
  <2> QED
    BY <1>0, <1>3, <2>1 DEF StartPass, Located
<1>4. CASE StartTraceRefused
  BY <1>4, <1>g DEF StartTraceRefused
<1>5. CASE RunStage
  <2>1. CASE Hits("raise")
    BY <1>5, <1>g, <2>1 DEF RunStage
  <2>2. CASE ~Hits("raise")
    BY <1>0, <1>5, <2>2 DEF RunStage, Located
  <2> QED
    BY <2>1, <2>2
<1>6. CASE Check
  <2>1. CASE Mismatch
    BY <1>6, <1>g, <2>1 DEF Check
  <2>2. CASE ~Mismatch
    BY <1>0, <1>6, <2>2 DEF Check, Located
  <2> QED
    BY <2>1, <2>2
<1>7. CASE Bind
  BY <1>0, <1>7 DEF Bind, Located
<1>8. CASE EndPass
  BY <1>0, <1>8 DEF EndPass, Located
<1>9. CASE AllOk
  <2>1. CASE Wired
    BY <1>0, <1>9, <1>k, <2>1 DEF AllOk, Located
  <2>2. CASE ~Wired
    BY <1>9, <1>n, <2>2, Left DEF AllOk
  <2> QED
    BY <2>1, <2>2
<1>10. CASE Wire
  <2>1. CASE Fault.kind = "encode" \/ Runs = 0
    BY <1>10, <1>g, <2>1 DEF Wire
  <2>2. CASE ~(Fault.kind = "encode" \/ Runs = 0) /\ FfiVerify
    <3>1. Wired /\ shard <= sweep.shards /\ UNCHANGED <<shard, fault, sweep>> /\ pc' = "ffi"
      BY <1>0, <1>10, <2>2 DEF Wire, Located
    <3>2. Fault'.kind # "encode" /\ Runs' # 0
      BY <1>k, <2>2, <3>1 DEF Fault
    <3> QED
      BY <1>k, <2>2, <3>1, <3>2 DEF Located
  <2>3. CASE ~(Fault.kind = "encode" \/ Runs = 0) /\ ~FfiVerify
    BY <1>10, <1>n, <2>3, Left DEF Wire
  <2> QED
    BY <2>1, <2>2, <2>3
<1>11. CASE FfiCheck
  BY <1>11, <1>g, <1>n, Left DEF FfiCheck
<1>12. CASE EndSweep
  <2>1. shard' = sweep'.shards + 1
    BY <1>12, <1>0, <1>t, <1>u DEF EndSweep
  <2>2. exit' = "zero" <=> failed' = {}
    BY <1>12 DEF EndSweep
  <2>3. pc' = "exited"
    BY <1>12 DEF EndSweep
  <2> QED
    BY <2>1, <2>2, <2>3 DEF Located
<1>13. CASE Exited
  <2>1. /\ pc = "exited" /\ UNCHANGED <<pc, shard, pass, phase, exit, failed>>
    BY <1>13 DEF Exited, vars, verdicts
  <2> QED
    BY <1>0, <2>1 DEF Located
<1> QED
  BY <1>1, <1>2, <1>3, <1>4, <1>5, <1>6, <1>7, <1>8, <1>9, <1>10, <1>11, <1>12, <1>13
     DEF Next, Advance

-----------------------------------------------------------------------------
(* Every stage starts with no other stage's result referenced.             *)

LEMMA ReleasesStep ==
    ASSUME Typed, Located, Releases, Next
    PROVE  Releases'
<1>t. phase \in 1..LastPhase /\ LastPhase \in 1..4 /\ pass \in 0..Runs
  BY SweepFacts DEF Typed, TypeOK
<1>n. ASSUME pc' \notin {"run", "check", "bind"} PROVE Releases'
  BY <1>n DEF Releases
<1>g. ASSUME GiveUp PROVE Releases'
  BY <1>g, <1>n, Left DEF GiveUp
<1>1. CASE StartPass
  BY <1>1 DEF StartPass, SurvivesIntoPass, Releases
<1>2. CASE RunStage
  <2>1. CASE Hits("raise")
    BY <1>2, <1>g, <2>1 DEF RunStage
  <2>2. CASE ~Hits("raise")
    <3>1. results = {<<pass, 1>>} \ {<<pass, phase>>}
      BY <1>2 DEF RunStage, Releases
    <3>2. /\ results' = results \cup {<<pass, phase>>} /\ pc' = "check"
          /\ UNCHANGED <<pass, phase>>
      BY <1>2, <2>2 DEF RunStage
    <3>3. results' = {<<pass, 1>>} \cup {<<pass, phase>>}
      BY <3>1, <3>2
    <3> QED
      BY <3>2, <3>3 DEF Releases
  <2> QED
    BY <2>1, <2>2
<1>3. CASE Check
  <2>0. results = {<<pass, 1>>} \cup {<<pass, phase>>}
    BY <1>3 DEF Check, Releases
  <2>1. CASE Mismatch
    BY <1>3, <1>g, <2>1 DEF Check
  <2>2. CASE ~Mismatch /\ phase = 1
    <3>1. results' = {<<pass, 1>>} /\ pc' = "bind" /\ pass' = pass
      BY <1>3, <2>0, <2>2 DEF Check, SurvivesStage
    <3> QED
      BY <3>1 DEF Releases
  <2>3. CASE ~Mismatch /\ phase # 1 /\ ~IsLast
    <3>1. /\ results' = results \ {<<pass, phase>>} /\ pc' = "run" /\ pass' = pass
          /\ phase' = phase + 1
      BY <1>3, <2>3 DEF Check, SurvivesStage
    <3>2. phase # 1 /\ phase + 1 # 1
      BY <1>t, <2>3
    <3>3. <<pass, 1>> # <<pass, phase>> /\ <<pass, 1>> # <<pass, phase + 1>>
      BY <3>2
    <3>4. results' = {<<pass, 1>>} \ {<<pass, phase + 1>>}
      BY <2>0, <3>1, <3>3
    <3> QED
      BY <3>1, <3>4 DEF Releases
  <2>4. CASE ~Mismatch /\ phase # 1 /\ IsLast
    BY <1>3, <1>n, <2>4 DEF Check
  <2> QED
    BY <2>1, <2>2, <2>3, <2>4
<1>4. CASE Bind
  <2>1. CASE LastPhase = 1
    BY <1>4, <1>n, <2>1 DEF Bind
  <2>2. CASE LastPhase # 1
    <3>1. results' = {<<pass, 1>>} /\ pc' = "run" /\ pass' = pass /\ phase' = 2
      BY <1>4, <2>2 DEF Bind, Releases
    <3>2. <<pass, 1>> # <<pass, 2>>
      OBVIOUS
    <3> QED
      BY <3>1, <3>2 DEF Releases
  <2> QED
    BY <2>1, <2>2
<1>5. CASE pc' \notin {"run", "check", "bind"}
  BY <1>5, <1>n
<1> QED
  <2>1. \/ StartPass \/ RunStage \/ Check \/ Bind
        \/ pc' \notin {"run", "check", "bind"}
    <3>1. ASSUME GiveUp \/ NextShard PROVE pc' = "load"
      BY <3>1, Left DEF GiveUp
    <3> QED
      BY <3>1 DEF Next, Advance, Exited, Load, ParseGolden, StartTraceRefused, EndPass,
         AllOk, Wire, FfiCheck, EndSweep, vars
  <2> QED
    BY <1>1, <1>2, <1>3, <1>4, <1>5, <2>1

-----------------------------------------------------------------------------
(* A check that will fail has not been passed by.                          *)

LEMMA AheadStep ==
    ASSUME Typed, Located, Ahead, Next
    PROVE  Ahead'
<1>0. UNCHANGED <<sweep, fault>>
  BY NextKeepsSweep
<1>k. /\ LastPhase' = LastPhase
      /\ \A f : /\ PhaseTrouble(f)' = PhaseTrouble(f)
                /\ FailsPhases(f)' = FailsPhases(f)
  BY <1>0, SweepKept
<1>t. /\ TypeOK /\ Runs \in Nat /\ LastPhase \in 1..4 /\ Shards = 1..sweep.shards
      /\ phase \in 1..LastPhase /\ pass \in 0..Runs
      /\ shard \in 1..(sweep.shards + 1)
      /\ sweep.shards \in Nat
  BY SweepFacts DEF Typed, TypeOK
<1>f. ASSUME pc \notin {"load", "exited"} \/ shard \in Shards
      PROVE  /\ Fault.kind = "golden" => Fault.phase \in 1..4
             /\ PhaseTrouble(Fault) =>
                  /\ Fault.phase \in 1..4 /\ Fault.pass \in 1..Runs
                  /\ Fault = [kind |-> Fault.kind, phase |-> Fault.phase,
                              pass |-> Fault.pass]
  <2>1. shard \in Shards
    BY <1>f, <1>t DEF Located
  <2> QED
    BY <1>t, <2>1, FaultFacts DEF Fault, PhaseTrouble
<1>s. ASSUME shard' = shard PROVE Fault' = Fault
  BY <1>0, <1>s DEF Fault
<1>n. ASSUME pc' \in {"load", "exited"} PROVE Ahead'
  BY <1>n DEF Ahead
<1>g. ASSUME GiveUp PROVE Ahead'
  BY <1>g, <1>n, Left DEF GiveUp
<1>1. CASE Load
  <2>1. CASE Fault.kind = "load"
    BY <1>1, <1>g, <2>1 DEF Load
  <2>2. CASE Fault.kind # "load"
    <3>1. pc' = "golden" /\ UNCHANGED shard
      BY <1>1, <2>2 DEF Load
    <3> QED
      BY <1>k, <1>s, <2>2, <3>1 DEF Ahead
  <2> QED
    BY <2>1, <2>2
<1>2. CASE ParseGolden
  <2>1. CASE GoldenMissing
    BY <1>2, <1>g, <2>1 DEF ParseGolden
  <2>2. CASE ~GoldenMissing
    <3>1. pc = "golden" /\ pc' = "pass" /\ UNCHANGED <<shard, pass>> /\ pass = 0
      BY <1>2, <2>2 DEF ParseGolden, Located
    <3>2. Fault.kind # "load" /\ ~(Fault.kind = "golden" /\ Fault.phase <= LastPhase)
      BY <2>2, <3>1 DEF GoldenMissing, Ahead
    <3>3. PhaseTrouble(Fault) => Fault.pass > pass
      BY <1>f, <1>t, <3>1
    <3> QED
      BY <1>k, <1>s, <3>1, <3>2, <3>3 DEF Ahead
  <2> QED
    BY <2>1, <2>2
<1>3. CASE StartPass
  <2>1. pc = "pass" /\ pc' = "run" /\ pass' = pass + 1 /\ phase' = 1 /\ UNCHANGED shard
    BY <1>3 DEF StartPass
  <2>2. Fault.kind # "load" /\ ~(Fault.kind = "golden" /\ Fault.phase <= LastPhase)
    BY <2>1 DEF Ahead
  <2>3. PhaseTrouble(Fault) => \/ Fault.pass > pass + 1
                               \/ Fault.pass = pass + 1 /\ Fault.phase >= 1
    BY <1>f, <1>t, <2>1 DEF Ahead
  <2> QED
    BY <1>k, <1>s, <2>1, <2>2, <2>3 DEF Ahead
<1>4. CASE StartTraceRefused
  BY <1>4, <1>g DEF StartTraceRefused
<1>5. CASE RunStage
  <2>1. CASE Hits("raise")
    BY <1>5, <1>g, <2>1 DEF RunStage
  <2>2. CASE ~Hits("raise")
    <3>1. pc = "run" /\ pc' = "check" /\ UNCHANGED <<shard, pass, phase>>
      BY <1>5, <2>2 DEF RunStage
    <3>2. Fault.kind # "load" /\ ~(Fault.kind = "golden" /\ Fault.phase <= LastPhase)
      BY <3>1 DEF Ahead
    <3>3. PhaseTrouble(Fault) => \/ Fault.pass > pass
                                 \/ Fault.pass = pass /\ Fault.phase >= phase
      BY <3>1 DEF Ahead
    <3>4. PhaseTrouble(Fault) /\ Fault.pass = pass /\ Fault.phase = phase
            => Fault.kind = "mismatch"
      BY <1>f, <2>2, <3>1 DEF Hits, PhaseTrouble
    <3>5. PhaseTrouble(Fault) => \/ Fault.pass > pass
                                 \/ Fault.pass = pass /\ Fault.phase > phase
                                 \/ /\ Fault.pass = pass /\ Fault.phase = phase
                                    /\ Fault.kind = "mismatch"
      BY <1>f, <1>t, <3>1, <3>3, <3>4
    <3> QED
      BY <1>k, <1>s, <3>1, <3>2, <3>5 DEF Ahead
  <2> QED
    BY <2>1, <2>2
<1>6. CASE Check
  <2>1. CASE Mismatch
    BY <1>6, <1>g, <2>1 DEF Check
  <2>2. CASE ~Mismatch
    <3>1. /\ pc = "check" /\ UNCHANGED <<shard, pass>>
          /\ \/ pc' = "bind" /\ phase' = phase
             \/ pc' = "passed" /\ phase = LastPhase
             \/ pc' = "run" /\ phase' = phase + 1
      BY <1>6, <2>2 DEF Check, IsLast
    <3>2. Fault.kind # "load" /\ ~(Fault.kind = "golden" /\ Fault.phase <= LastPhase)
      BY <3>1 DEF Ahead
    <3>3. PhaseTrouble(Fault) /\ Fault.pass = pass /\ Fault.phase = phase
            => Fault.kind # "mismatch"
      BY <1>f, <2>2, <3>1 DEF Mismatch, Hits
    <3>4. PhaseTrouble(Fault) => \/ Fault.pass > pass
                                 \/ Fault.pass = pass /\ Fault.phase > phase
      BY <3>1, <3>3 DEF Ahead
    <3>5. CASE pc' = "bind" /\ phase' = phase
      BY <1>k, <1>s, <3>1, <3>2, <3>4, <3>5 DEF Ahead
    <3>6. CASE pc' = "passed" /\ phase = LastPhase
      <4>1. PhaseTrouble(Fault) => Fault.pass > pass
        BY <1>f, <1>t, <3>1, <3>4, <3>6 DEF PhaseTrouble
      <4> QED
        BY <1>k, <1>s, <3>1, <3>2, <3>6, <4>1 DEF Ahead
    <3>7. CASE pc' = "run" /\ phase' = phase + 1
      <4>1. PhaseTrouble(Fault) => \/ Fault.pass > pass
                                   \/ Fault.pass = pass /\ Fault.phase >= phase + 1
        BY <1>f, <1>t, <3>1, <3>4
      <4> QED
        BY <1>k, <1>s, <3>1, <3>2, <3>7, <4>1 DEF Ahead
    <3> QED
      BY <3>1, <3>5, <3>6, <3>7
  <2> QED
    BY <2>1, <2>2
<1>7. CASE Bind
  <2>1. /\ pc = "bind" /\ UNCHANGED <<shard, pass>> /\ phase = 1
        /\ \/ pc' = "passed" /\ phase = LastPhase
           \/ pc' = "run" /\ phase' = 2
    BY <1>7 DEF Bind, Located
  <2>2. Fault.kind # "load" /\ ~(Fault.kind = "golden" /\ Fault.phase <= LastPhase)
    BY <2>1 DEF Ahead
  <2>3. PhaseTrouble(Fault) => \/ Fault.pass > pass
                               \/ Fault.pass = pass /\ Fault.phase > phase
    BY <2>1 DEF Ahead
  <2>4. CASE pc' = "passed" /\ phase = LastPhase
    <3>1. PhaseTrouble(Fault) => Fault.pass > pass
      BY <1>f, <1>t, <2>1, <2>3, <2>4 DEF PhaseTrouble
    <3> QED
      BY <1>k, <1>s, <2>1, <2>2, <2>4, <3>1 DEF Ahead
  <2>5. CASE pc' = "run" /\ phase' = 2
    <3>1. PhaseTrouble(Fault) => \/ Fault.pass > pass
                                 \/ Fault.pass = pass /\ Fault.phase >= 2
      BY <1>f, <1>t, <2>1, <2>3
    <3> QED
      BY <1>k, <1>s, <2>1, <2>2, <2>5, <3>1 DEF Ahead
  <2> QED
    BY <2>1, <2>4, <2>5
<1>8. CASE EndPass
  <2>1. pc = "passed" /\ pc' = "pass" /\ UNCHANGED <<shard, pass>>
    BY <1>8 DEF EndPass
  <2> QED
    BY <1>k, <1>s, <2>1 DEF Ahead
<1>9. CASE AllOk
  <2>1. CASE Wired
    <3>1. pc = "pass" /\ pc' = "wire" /\ UNCHANGED <<shard, pass>> /\ pass = Runs
      BY <1>9, <1>t, <2>1 DEF AllOk, PassesLeft
    <3>2. Fault.kind # "load" /\ ~(Fault.kind = "golden" /\ Fault.phase <= LastPhase)
      BY <3>1 DEF Ahead
    <3>3. PhaseTrouble(Fault) => Fault.pass > Runs /\ Fault.pass \in 1..Runs
      BY <1>f, <3>1 DEF Ahead
    <3>4. ~PhaseTrouble(Fault)
      BY <1>t, <3>3
    <3> QED
      BY <1>k, <1>s, <3>1, <3>2, <3>4 DEF Ahead
  <2>2. CASE ~Wired
    BY <1>9, <1>n, <2>2, Left DEF AllOk
  <2> QED
    BY <2>1, <2>2
<1>10. CASE Wire
  <2>1. CASE pc' = "load"
    BY <1>n, <2>1
  <2>2. CASE pc' # "load"
    <3>1. pc = "wire" /\ pc' = "ffi" /\ UNCHANGED <<shard, pass>>
      BY <1>10, <2>2, Left DEF Wire, GiveUp
    <3> QED
      BY <1>k, <1>s, <3>1 DEF Ahead
  <2> QED
    BY <2>1, <2>2
<1>11. CASE FfiCheck
  BY <1>11, <1>g, <1>n, Left DEF FfiCheck
<1>12. CASE EndSweep \/ Exited
  BY <1>12, <1>n DEF EndSweep, Exited, vars
<1> QED
  BY <1>1, <1>2, <1>3, <1>4, <1>5, <1>6, <1>7, <1>8, <1>9, <1>10, <1>11, <1>12
     DEF Next, Advance

-----------------------------------------------------------------------------
(* What the sweep tells of a shard is that shard's own.                    *)

\* Moving on settles the shard left: what was said of it must be its own.
LEMMA SettledByMove ==
    ASSUME Typed, Located, Settled, Judged, UNCHANGED <<sweep, fault>>, shard \in Shards,
           shard' = shard + 1, pc' = "load",
           shard \in failed' <=> Bites(Fault),
           shard \in announced' <=> ~FailsPhases(Fault),
           shard \in encoded' <=> Encodes(Fault),
           \A s \in Shards \ {shard} : /\ s \in failed' <=> s \in failed
                                       /\ s \in announced' <=> s \in announced
                                       /\ s \in encoded' <=> s \in encoded
    PROVE  Settled'
<1>k. /\ Shards' = Shards
      /\ \A f : /\ Bites(f)' = Bites(f) /\ FailsPhases(f)' = FailsPhases(f)
                /\ Encodes(f)' = Encodes(f)
  BY SweepKept
<1>t. Shards = 1..sweep.shards /\ sweep.shards \in Nat
  BY SweepFacts DEF Typed, TypeOK
<1>1. ASSUME NEW s \in Shards PROVE Told(s)'
  <2>1. s \in Nat /\ shard \in Nat
    BY <1>t
  <2>2. CASE s = shard
    BY <1>k, <2>1, <2>2 DEF Told, Fault
  <2>3. CASE s # shard
    <3>1. Told(s)
      BY DEF Settled
    <3>2. s < shard + 1 <=> s < shard
      BY <2>1, <2>3
    <3>3. s # shard + 1 \/ pc' \notin {"wire", "ffi"}
      OBVIOUS
    <3> QED
      BY <1>k, <2>3, <3>1, <3>2, <3>3 DEF Told
  <2> QED
    BY <2>2, <2>3
<1> QED
  BY <1>1, <1>k DEF Settled

\* A step that says nothing of a shard and stays with it settles nothing.
LEMMA SettledByStay ==
    ASSUME Settled, UNCHANGED <<sweep, fault, shard, failed, announced, encoded>>,
           pc \notin {"wire", "ffi"}, pc' \notin {"wire", "ffi"}
    PROVE  Settled'
<1>k. /\ Shards' = Shards /\ Judged' = Judged
      /\ \A f : /\ Bites(f)' = Bites(f) /\ FailsPhases(f)' = FailsPhases(f)
                /\ Encodes(f)' = Encodes(f)
  BY SweepKept
<1>1. ASSUME NEW s \in Shards, Told(s) PROVE Told(s)'
  BY <1>k, <1>1 DEF Told
<1> QED
  BY <1>1, <1>k DEF Settled

\* A shard that gives up where its trouble lies is settled.
LEMMA SettledByGiveUp ==
    ASSUME Typed, Located, Settled, Judged, UNCHANGED <<sweep, fault>>, shard \in Shards,
           GiveUp, Bites(Fault),
           pc \in {"wire", "ffi"} <=> ~FailsPhases(Fault),
           pc = "ffi" <=> Encodes(Fault)
    PROVE  Settled'
<1>1. /\ shard' = shard + 1 /\ pc' = "load" /\ failed' = failed \cup {shard}
      /\ UNCHANGED <<announced, encoded>>
  BY DEF GiveUp, NextShard
<1>2. Told(shard)
  BY DEF Settled
<1>3. ~(shard < shard)
  BY DEF Typed, TypeOK
<1>4. /\ shard \in announced <=> ~FailsPhases(Fault)
      /\ shard \in encoded <=> Encodes(Fault)
  BY <1>2, <1>3 DEF Told
<1> QED
  BY <1>1, <1>4, SettledByMove

LEMMA SettledStep ==
    ASSUME Typed, Located, Ahead, Settled, Next
    PROVE  Settled'
<1>0. UNCHANGED <<sweep, fault>>
  BY NextKeepsSweep
<1>k. /\ Shards' = Shards /\ Judged' = Judged
      /\ \A f : /\ Bites(f)' = Bites(f) /\ FailsPhases(f)' = FailsPhases(f)
                /\ Encodes(f)' = Encodes(f)
  BY <1>0, SweepKept
<1>t. /\ TypeOK /\ sweep.shards \in Nat /\ Runs \in Nat /\ LastPhase \in 1..4
      /\ Shards = 1..sweep.shards /\ shard \in 1..(sweep.shards + 1)
      /\ phase \in 1..LastPhase
  BY SweepFacts DEF Typed, TypeOK
<1>s. pc \notin {"load", "exited"} => shard \in Shards
  BY <1>t DEF Located
<1>p. CASE ~Judged
  BY <1>k, <1>p DEF Settled
<1>q. CASE Judged
  <2> USE <1>q
  <2>m. shard \in Shards => ~(shard < shard)
    BY <1>t
  <2>s. ASSUME shard \in Shards
        PROVE  /\ shard \in failed <=> FALSE
               /\ shard \in announced <=> pc \in {"wire", "ffi"}
               /\ shard \in encoded <=> pc = "ffi"
    BY <2>s, <2>m DEF Settled, Told
  <2>1. CASE Load
    <3>1. CASE Fault.kind = "load"
      <4>1. shard \in Shards
        BY <1>t, <2>1 DEF Load
      <4>2. FailsPhases(Fault) /\ Bites(Fault) /\ ~Encodes(Fault)
        BY <3>1 DEF FailsPhases, Bites, Encodes
      <4>3. GiveUp /\ pc = "load"
        BY <2>1, <3>1 DEF Load
      <4> QED
        BY <1>0, <4>1, <4>2, <4>3, SettledByGiveUp
    <3>2. CASE Fault.kind # "load"
      <4>1. /\ pc = "load" /\ pc' = "golden"
            /\ UNCHANGED <<shard, failed, announced, encoded>>
        BY <2>1, <3>2 DEF Load, verdicts
      <4> QED
        BY <1>0, <4>1, SettledByStay
    <3> QED
      BY <3>1, <3>2
  <2>2. CASE ParseGolden
    <3>1. CASE GoldenMissing
      <4>1. GiveUp /\ pc = "golden" /\ shard \in Shards
        BY <1>s, <2>2, <3>1 DEF ParseGolden
      <4>2. FailsPhases(Fault) /\ Bites(Fault) /\ ~Encodes(Fault)
        BY <3>1 DEF GoldenMissing, FailsPhases, Bites, Encodes
      <4> QED
        BY <1>0, <4>1, <4>2, SettledByGiveUp
    <3>2. CASE ~GoldenMissing
      <4>1. /\ pc = "golden" /\ pc' = "pass"
            /\ UNCHANGED <<shard, failed, announced, encoded>>
        BY <2>2, <3>2 DEF ParseGolden, verdicts
      <4> QED
        BY <1>0, <4>1, SettledByStay
    <3> QED
      BY <3>1, <3>2
  <2>3. CASE StartPass
    <3>1. pc = "pass" /\ pc' = "run" /\ UNCHANGED <<shard, failed, announced, encoded>>
      BY <2>3 DEF StartPass, verdicts
    <3> QED
      BY <1>0, <3>1, SettledByStay
  <2>4. CASE StartTraceRefused
    BY <2>4 DEF StartTraceRefused, Traced, Judged
  <2>5. CASE RunStage
    <3>1. CASE Hits("raise")
      <4>1. GiveUp /\ pc = "run" /\ shard \in Shards
        BY <1>s, <2>5, <3>1 DEF RunStage
      <4>2. Fault.kind = "raise" /\ Fault.phase = phase
        BY <3>1 DEF Hits
      <4>3. FailsPhases(Fault) /\ Bites(Fault) /\ ~Encodes(Fault)
        BY <1>t, <4>2 DEF FailsPhases, Bites, Encodes
      <4> QED
        BY <1>0, <4>1, <4>3, SettledByGiveUp
    <3>2. CASE ~Hits("raise")
      <4>1. pc = "run" /\ pc' = "check" /\ UNCHANGED <<shard, failed, announced, encoded>>
        BY <2>5, <3>2 DEF RunStage, verdicts
      <4> QED
        BY <1>0, <4>1, SettledByStay
    <3> QED
      BY <3>1, <3>2
  <2>6. CASE Check
    <3>1. CASE Mismatch
      <4>1. GiveUp /\ pc = "check" /\ shard \in Shards
        BY <1>s, <2>6, <3>1 DEF Check
      <4>2. Fault.kind = "mismatch" /\ Fault.phase = phase
        BY <3>1 DEF Mismatch, Hits
      <4>3. FailsPhases(Fault) /\ Bites(Fault) /\ ~Encodes(Fault)
        BY <1>t, <4>2 DEF FailsPhases, Bites, Encodes
      <4> QED
        BY <1>0, <4>1, <4>3, SettledByGiveUp
    <3>2. CASE ~Mismatch
      <4>1. /\ pc = "check" /\ pc' \in {"bind", "passed", "run"}
            /\ UNCHANGED <<shard, failed, announced, encoded>>
        BY <2>6, <3>2 DEF Check, verdicts
      <4> QED
        BY <1>0, <4>1, SettledByStay
    <3> QED
      BY <3>1, <3>2
  <2>7. CASE Bind
    <3>1. /\ pc = "bind" /\ pc' \in {"passed", "run"}
          /\ UNCHANGED <<shard, failed, announced, encoded>>
      BY <2>7 DEF Bind, verdicts
    <3> QED
      BY <1>0, <3>1, SettledByStay
  <2>8. CASE EndPass
    <3>1. /\ pc = "passed" /\ pc' = "pass"
          /\ UNCHANGED <<shard, failed, announced, encoded>>
      BY <2>8 DEF EndPass, verdicts
    <3> QED
      BY <1>0, <3>1, SettledByStay
  <2>9. CASE AllOk
    <3>1. /\ pc = "pass" /\ shard \in Shards /\ pass = Runs
          /\ announced' = announced \cup {shard} /\ UNCHANGED <<failed, encoded>>
      BY <1>s, <1>t, <2>9 DEF AllOk, PassesLeft, TypeOK
    <3>2. ~FailsPhases(Fault)
      <4>0. Fault.kind \in {"raise", "mismatch"} => Fault.pass \in 1..Runs
        BY <1>t, <3>1, FaultFacts DEF Fault
      <4>1. ~(PhaseTrouble(Fault) /\ Fault.pass > Runs)
        BY <1>t, <4>0 DEF PhaseTrouble
      <4>2. ~PhaseTrouble(Fault)
        BY <3>1, <4>1 DEF Ahead
      <4> QED
        BY <3>1, <4>2 DEF Ahead, FailsPhases, PhaseTrouble
    <3>3. CASE ~Wired
      <4>1. shard' = shard + 1 /\ pc' = "load"
        BY <2>9, <3>3 DEF AllOk, NextShard
      <4>2. ~Bites(Fault) /\ ~Encodes(Fault)
        BY <3>2, <3>3 DEF Bites, FailsWire, Encodes
      <4>3. /\ shard \in failed' <=> Bites(Fault)
            /\ shard \in announced' <=> ~FailsPhases(Fault)
            /\ shard \in encoded' <=> Encodes(Fault)
        BY <2>s, <3>1, <3>2, <4>2
      <4>4. \A s \in Shards \ {shard} : /\ s \in failed' <=> s \in failed
                                        /\ s \in announced' <=> s \in announced
                                        /\ s \in encoded' <=> s \in encoded
        BY <3>1
      <4> QED
        BY <1>0, <3>1, <4>1, <4>3, <4>4, SettledByMove
    <3>4. CASE Wired
      <4>1. pc' = "wire" /\ shard' = shard
        BY <2>9, <3>4 DEF AllOk
      <4>2. ASSUME NEW s \in Shards PROVE Told(s)'
        <5>1. Told(s)
          BY DEF Settled
        <5> QED
          BY <1>k, <2>m, <3>1, <4>1, <5>1, <1>0 DEF Told
      <4> QED
        BY <1>k, <4>2 DEF Settled
    <3> QED
      BY <3>3, <3>4
  <2>10. CASE Wire
    <3>1. pc = "wire" /\ shard \in Shards /\ Wired
      BY <1>s, <2>10 DEF Wire, Located
    <3>2. ~FailsPhases(Fault)
      BY <3>1 DEF Ahead, FailsPhases, PhaseTrouble
    <3>3. CASE Fault.kind = "encode" \/ Runs = 0
      <4>1. GiveUp
        BY <2>10, <3>3 DEF Wire
      <4>2. Bites(Fault) /\ ~Encodes(Fault)
        BY <3>1, <3>3 DEF Bites, FailsWire, Encodes, Judged
      <4> QED
        BY <1>0, <3>1, <3>2, <4>1, <4>2, SettledByGiveUp
    <3>4. CASE ~(Fault.kind = "encode" \/ Runs = 0)
      <4>1. encoded' = encoded \cup {shard} /\ UNCHANGED <<announced, failed>>
        BY <2>10, <3>4 DEF Wire
      <4>2. Encodes(Fault)
        BY <3>1, <3>2, <3>4 DEF Encodes
      <4>3. CASE FfiVerify
        <5>1. pc' = "ffi" /\ shard' = shard
          BY <2>10, <3>4, <4>3 DEF Wire
        <5>2. ASSUME NEW s \in Shards PROVE Told(s)'
          <6>1. Told(s)
            BY DEF Settled
          <6> QED
            BY <1>0, <1>k, <2>m, <3>1, <4>1, <5>1, <6>1 DEF Told
        <5> QED
          BY <1>k, <5>2 DEF Settled
      <4>4. CASE ~FfiVerify
        <5>1. shard' = shard + 1 /\ pc' = "load"
          BY <2>10, <3>4, <4>4 DEF Wire, NextShard
        <5>2. ~Bites(Fault)
          BY <3>2, <3>4, <4>4 DEF Bites, FailsWire
        <5>3. /\ shard \in failed' <=> Bites(Fault)
              /\ shard \in announced' <=> ~FailsPhases(Fault)
              /\ shard \in encoded' <=> Encodes(Fault)
          BY <2>s, <3>1, <3>2, <4>1, <4>2, <5>2
        <5>4. \A s \in Shards \ {shard} : /\ s \in failed' <=> s \in failed
                                          /\ s \in announced' <=> s \in announced
                                          /\ s \in encoded' <=> s \in encoded
          BY <4>1
        <5> QED
          BY <1>0, <3>1, <5>1, <5>3, <5>4, SettledByMove
      <4> QED
        BY <4>3, <4>4
    <3> QED
      BY <3>3, <3>4
  <2>11. CASE FfiCheck
    <3>1. /\ pc = "ffi" /\ shard \in Shards /\ Wired /\ FfiVerify /\ Runs # 0
          /\ Fault.kind # "encode"
      BY <1>s, <2>11 DEF FfiCheck, Located
    <3>2. ~FailsPhases(Fault)
      BY <3>1 DEF Ahead, FailsPhases, PhaseTrouble
    <3>3. Encodes(Fault)
      BY <3>1, <3>2 DEF Encodes
    <3>4. CASE Fault.kind = "ffi"
      <4>1. GiveUp
        BY <2>11, <3>4 DEF FfiCheck
      <4>2. Bites(Fault)
        BY <3>1, <3>4 DEF Bites, FailsWire
      <4> QED
        BY <1>0, <3>1, <3>2, <3>3, <4>1, <4>2, SettledByGiveUp
    <3>5. CASE Fault.kind # "ffi"
      <4>1. /\ shard' = shard + 1 /\ pc' = "load" /\ UNCHANGED <<announced, encoded, failed>>
        BY <2>11, <3>5 DEF FfiCheck, NextShard, verdicts
      <4>2. ~Bites(Fault)
        BY <3>1, <3>2, <3>5 DEF Bites, FailsWire
      <4>3. /\ shard \in failed' <=> Bites(Fault)
            /\ shard \in announced' <=> ~FailsPhases(Fault)
            /\ shard \in encoded' <=> Encodes(Fault)
        BY <2>s, <3>1, <3>2, <3>3, <4>1, <4>2
      <4>4. \A s \in Shards \ {shard} : /\ s \in failed' <=> s \in failed
                                        /\ s \in announced' <=> s \in announced
                                        /\ s \in encoded' <=> s \in encoded
        BY <4>1
      <4> QED
        BY <1>0, <3>1, <4>1, <4>3, <4>4, SettledByMove
    <3> QED
      BY <3>4, <3>5
  <2>12. CASE EndSweep
    <3>1. /\ pc = "load" /\ pc' = "exited"
          /\ UNCHANGED <<shard, failed, announced, encoded>>
      BY <2>12 DEF EndSweep
    <3> QED
      BY <1>0, <3>1, SettledByStay
  <2>13. CASE Exited
    <3>1. /\ pc = "exited" /\ pc' = "exited"
          /\ UNCHANGED <<shard, failed, announced, encoded>>
      BY <2>13 DEF Exited, vars, verdicts
    <3> QED
      BY <1>0, <3>1, SettledByStay
  <2> QED
    BY <2>1, <2>2, <2>3, <2>4, <2>5, <2>6, <2>7, <2>8, <2>9, <2>10, <2>11, <2>12, <2>13
       DEF Next, Advance
<1> QED
  BY <1>p, <1>q

-----------------------------------------------------------------------------
(* What riders need is there.                                              *)

\* Zones depend on the sweep and the chips lent to the shard's order; only the
\* row counts tell the zones of one class apart.
LEMMA ZonesFacts ==
    ASSUME NEW p \in 1..4, NEW s, NEW t
    PROVE  /\ SameClass(s, t) =>
                \A z \in Zones(p, s) \ Zones(p, t) : z[1] = "pack" /\ Rows[t] # Rows[s]
           /\ UNCHANGED sweep /\ chipsOf'[ChipOrder[s]] = chipsOf[ChipOrder[s]] =>
                Zones(p, s)' = Zones(p, s)
<1>p. p = 1 \/ p = 2 \/ p = 3 \/ p = 4
  OBVIOUS
<1>1. ASSUME SameClass(s, t), NEW z \in Zones(p, s), z \notin Zones(p, t)
      PROVE  z[1] = "pack" /\ Rows[t] # Rows[s]
  <2>1. chipsOf[ChipOrder[s]] = chipsOf[ChipOrder[t]] /\ Class[s] = Class[t]
        /\ Jagged[s] = Jagged[t]
    BY <1>1 DEF SameClass
  <2>2. CASE p = 1
    BY <1>1, <2>1, <2>2 DEF Zones
  <2>3. CASE p = 2
    BY <1>1, <2>1, <2>3 DEF Zones
  <2>4. CASE p = 3
    BY <1>1, <2>1, <2>4 DEF Zones
  <2>5. CASE p = 4
    <3>1. Zones(p, s) = {<<"pack", Rows[s]>>, <<"eval", Jagged[s].scan>>,
                         <<"open", Jagged[s].K>>}
      BY <2>5 DEF Zones
    <3>2. Zones(p, t) = {<<"pack", Rows[t]>>, <<"eval", Jagged[t].scan>>,
                         <<"open", Jagged[t].K>>}
      BY <2>5 DEF Zones
    <3>3. z = <<"pack", Rows[s]>> /\ <<"pack", Rows[s]>> # <<"pack", Rows[t]>>
      BY <1>1, <2>1, <3>1, <3>2
    <3> QED
      BY <3>3
  <2> QED
    BY <1>p, <2>2, <2>3, <2>4, <2>5
<1>2. ASSUME UNCHANGED sweep, chipsOf'[ChipOrder[s]] = chipsOf[ChipOrder[s]]
      PROVE  Zones(p, s)' = Zones(p, s)
  <2>1. Class' = Class /\ Jagged' = Jagged /\ Rows' = Rows /\ ChipOrder' = ChipOrder
    BY <1>2 DEF Class, Jagged, Rows, ChipOrder
  <2> QED
    BY <1>2, <2>1 DEF Zones
<1> QED
  BY <1>1, <1>2

\* A step that compiles nothing and takes back no chips keeps what is there.
\* The shard it stays with gets no phase behind it, the one it announces has
\* them all.
LEMMA LentByStay ==
    ASSUME Typed, Located, Lent, UNCHANGED <<sweep, compiled>>,
           \A o \in Orders : chipsOf[o] # 0 => chipsOf'[o] = chipsOf[o],
           pc' \notin {"load", "exited"} => chipsOf'[ChipOrder[shard]] # 0,
           \/ announced' = announced
           \/ /\ announced' = announced \cup {shard} /\ shard \in Shards
              /\ chipsOf[ChipOrder[shard]] # 0
              /\ Runs # 0 => \A p \in 1..LastPhase : Behind(p),
           \/ shard' = shard /\ \A p \in 1..LastPhase : Behind(p)' => Behind(p)
           \/ shard' = shard + 1 /\ pc' = "load"
    PROVE  Lent'
<1>k. /\ Shards' = Shards /\ Runs' = Runs /\ LastPhase' = LastPhase
      /\ Orders' = Orders /\ ChipOrder' = ChipOrder /\ Class' = Class
      /\ Jagged' = Jagged /\ Rows' = Rows
  BY DEF Shards, Runs, LastPhase, Orders, ChipOrder, Class, Jagged, Rows
<1>t. /\ TypeOK /\ sweep.shards \in Nat /\ Shards = 1..sweep.shards
      /\ shard \in 1..(sweep.shards + 1) /\ LastPhase \in 1..4
      /\ \A s \in Shards : ChipOrder[s] \in Orders
      /\ announced \subseteq Shards
  BY SweepFacts DEF Typed, TypeOK
<1>e. Executables' = Executables
  BY DEF Executables
<1>s. shard' = shard \/ shard' = shard + 1
  OBVIOUS
<1>z. ASSUME NEW s \in Shards, chipsOf[ChipOrder[s]] # 0, NEW p \in 1..LastPhase
      PROVE  Zones(p, s)' = Zones(p, s)
  <2>1. chipsOf'[ChipOrder[s]] = chipsOf[ChipOrder[s]]
    BY <1>t, <1>z
  <2>2. p \in 1..4
    BY <1>t
  <2> QED
    BY <2>1, <2>2, ZonesFacts
<1>1. pc' \notin {"load", "exited"} => chipsOf'[ChipOrder'[shard']] # 0
  BY <1>k
<1>2. ASSUME NEW t \in announced'
      PROVE  /\ t <= shard'
             /\ chipsOf'[ChipOrder[t]] # 0
             /\ Runs # 0 => \A p \in 1..LastPhase : Zones(p, t)' \subseteq Executables
  <2>1. /\ t \in Shards /\ t <= shard /\ chipsOf[ChipOrder[t]] # 0
        /\ Runs # 0 => \A p \in 1..LastPhase : Zones(p, t) \subseteq Executables
    <3>1. CASE t \in announced
      BY <1>t, <3>1 DEF Lent
    <3>2. CASE t \notin announced
      <4>1. t = shard /\ shard \in Shards /\ chipsOf[ChipOrder[shard]] # 0
            /\ (Runs # 0 => \A p \in 1..LastPhase : Behind(p))
        BY <3>2
      <4> QED
        BY <1>t, <4>1 DEF Lent
    <3> QED
      BY <3>1, <3>2
  <2>2. t <= shard'
    BY <1>s, <1>t, <2>1
  <2> QED
    BY <1>t, <1>z, <2>1, <2>2
<1>3. ASSUME NEW p \in 1..LastPhase, Behind(p)'
      PROVE  Zones(p, shard)' \subseteq Executables
  <2>1. pc' \notin {"load", "golden", "exited"}
    BY <1>3 DEF Behind
  <2>2. shard' = shard /\ Behind(p)
    BY <1>3, <2>1
  <2>3. pc \notin {"load", "golden", "exited"}
    BY <2>2 DEF Behind
  <2>4. shard \in Shards /\ chipsOf[ChipOrder[shard]] # 0
    BY <1>t, <2>3 DEF Located, Lent
  <2>5. Zones(p, shard) \subseteq Executables
    BY <2>2 DEF Lent
  <2>6. chipsOf'[ChipOrder[shard]] = chipsOf[ChipOrder[shard]] /\ p \in 1..4
    BY <1>t, <2>4
  <2>7. \A s : chipsOf'[ChipOrder[s]] = chipsOf[ChipOrder[s]] => Zones(p, s)' = Zones(p, s)
    BY <2>6, ZonesFacts
  <2> QED
    BY <1>k, <2>2, <2>5, <2>6, <2>7 DEF Zones
<1>4. \A c \in compiled : c.shard <= shard' /\ c.shard \in Shards
  BY <1>s, <1>t DEF Lent
<1>5. RidersCompileNothing'
  <2> SUFFICES ASSUME NEW c \in compiled
               PROVE  /\ c.pass = 1
                      /\ \A t \in announced' : t < c.shard /\ SameClass(t, c.shard) =>
                            c.zone[1] = "pack" /\ Rows[t] # Rows[c.shard]
    BY <1>k DEF RidersCompileNothing, SameClass
  <2>1. /\ c.pass = 1 /\ c.shard <= shard /\ c.shard \in Shards
        /\ \A t \in announced : t < c.shard /\ SameClass(t, c.shard) =>
              c.zone[1] = "pack" /\ Rows[t] # Rows[c.shard]
    BY DEF Lent, RidersCompileNothing
  <2>2. ~(shard < c.shard)
    BY <1>t, <2>1
  <2> QED
    BY <2>1, <2>2
<1> QED
  BY <1>1, <1>2, <1>3, <1>4, <1>5, <1>e, <1>k DEF Lent

\* A stage compiles what it lacks, and a rider lacks nothing but its pack zone.
LEMMA LentByRun ==
    ASSUME Typed, Located, Lent, pc = "run", NEW done, done \subseteq Missing,
           UNCHANGED <<sweep, chipsOf, announced>>, Compiles(done),
           \/ shard' = shard + 1 /\ pc' = "load"
           \/ UNCHANGED <<shard, pass, phase>> /\ pc' = "check" /\ done = Missing
    PROVE  Lent'
<1>k. /\ Shards' = Shards /\ Runs' = Runs /\ LastPhase' = LastPhase
      /\ Orders' = Orders /\ ChipOrder' = ChipOrder /\ Class' = Class
      /\ Jagged' = Jagged /\ Rows' = Rows
  BY DEF Shards, Runs, LastPhase, Orders, ChipOrder, Class, Jagged, Rows
<1>t. /\ TypeOK /\ sweep.shards \in Nat /\ Shards = 1..sweep.shards
      /\ shard \in Shards /\ LastPhase \in 1..4 /\ phase \in 1..LastPhase
      /\ Runs \in Nat /\ pass \in 1..Runs /\ chipsOf[ChipOrder[shard]] # 0
  BY SweepFacts DEF Typed, TypeOK, Located, Lent
<1>p. phase \in 1..4 /\ \A q \in 1..LastPhase : q \in 1..4
  BY <1>t
<1>x. Executables' = Executables \cup done
  <2>1. \A c \in compiled' : c \in compiled \/ c.zone \in done
    BY DEF Compiles
  <2>2. \A z \in done : [zone |-> z, shard |-> shard, pass |-> pass] \in compiled'
    BY DEF Compiles
  <2>3. compiled \subseteq compiled'
    BY DEF Compiles
  <2>4. ASSUME NEW z \in Executables' PROVE z \in Executables \cup done
    BY <2>1 DEF Executables
  <2>5. ASSUME NEW z \in done PROVE z \in Executables'
    <3>1. PICK c \in compiled' : c.zone = z
      BY <2>2
    <3> QED
      BY <3>1 DEF Executables
  <2>6. Executables \subseteq Executables'
    BY <2>3 DEF Executables
  <2> QED
    BY <2>4, <2>5, <2>6
<1>z. \A p \in 1..LastPhase : \A s : Zones(p, s)' = Zones(p, s)
  BY <1>k, <1>p, ZonesFacts
<1>w. \A z \in done : z \in Zones(phase, shard) /\ z \notin Executables
  BY DEF Missing
<1>1. pc' \notin {"load", "exited"} => chipsOf'[ChipOrder'[shard']] # 0
  BY <1>k, <1>t
<1>2. ASSUME NEW t \in announced
      PROVE  /\ t <= shard'
             /\ chipsOf'[ChipOrder[t]] # 0
             /\ Runs # 0 => \A p \in 1..LastPhase : Zones(p, t)' \subseteq Executables'
  <2>1. /\ t <= shard /\ t \in Shards /\ chipsOf[ChipOrder[t]] # 0
        /\ Runs # 0 => \A p \in 1..LastPhase : Zones(p, t) \subseteq Executables
    BY <1>t DEF Lent, TypeOK
  <2>2. t <= shard'
    BY <1>t, <2>1
  <2> QED
    BY <1>x, <1>z, <2>1, <2>2
<1>3. ASSUME NEW p \in 1..LastPhase, Behind(p)'
      PROVE  Zones(p, shard)' \subseteq Executables'
  <2>1. UNCHANGED <<shard, pass, phase>> /\ pc' = "check" /\ done = Missing
    BY <1>3 DEF Behind
  <2>2. Behind(p) \/ p = phase
    BY <1>3, <1>t, <2>1 DEF Behind
  <2>3. Zones(p, shard) \subseteq Executables \cup Missing
    BY <2>2 DEF Lent, Missing
  <2>4. Zones(p, shard)' = Zones(p, shard)
    BY <1>k, <2>1 DEF Zones
  <2> QED
    BY <1>x, <2>1, <2>3, <2>4
<1>4. ASSUME NEW c \in compiled'
      PROVE  c \in compiled \/ /\ c.shard = shard /\ c.pass = pass /\ c.zone \in done
  BY DEF Compiles
<1>5. \A c \in compiled' : c.shard <= shard' /\ c.shard \in Shards
  <2>1. \A c \in compiled : c.shard <= shard /\ c.shard \in Shards
    BY DEF Lent
  <2> QED
    BY <1>4, <1>t, <2>1
<1>6. RidersCompileNothing'
  <2> SUFFICES ASSUME NEW c \in compiled'
               PROVE  /\ c.pass = 1
                      /\ \A t \in announced : t < c.shard /\ SameClass(t, c.shard) =>
                            c.zone[1] = "pack" /\ Rows[t] # Rows[c.shard]
    BY <1>k DEF RidersCompileNothing, SameClass
  <2>1. CASE c \in compiled
    BY <2>1 DEF Lent, RidersCompileNothing
  <2>2. CASE c \notin compiled
    <3>1. c.shard = shard /\ c.pass = pass /\ c.zone \in Zones(phase, shard)
          /\ c.zone \notin Executables
      BY <1>4, <1>w, <2>2
    <3>2. c.pass = 1
      <4>1. ~Behind(phase)
        BY <1>t, <3>1 DEF Lent
      <4>2. ~(pass > 1)
        BY <4>1 DEF Behind
      <4> QED
        BY <1>t, <3>1, <4>2
    <3>3. ASSUME NEW t \in announced, SameClass(t, shard)
          PROVE  c.zone[1] = "pack" /\ Rows[t] # Rows[shard]
      <4>1. Runs # 0
        BY <1>t
      <4>2. c.zone \notin Zones(phase, t)
        BY <1>t, <3>1, <4>1 DEF Lent
      <4>3. SameClass(shard, t)
        BY <3>3 DEF SameClass
      <4> QED
        BY <1>p, <3>1, <4>2, <4>3, ZonesFacts
    <3> QED
      BY <3>1, <3>2, <3>3
  <2> QED
    BY <2>1, <2>2
<1> QED
  BY <1>1, <1>2, <1>3, <1>5, <1>6, <1>k DEF Lent

LEMMA LentStep ==
    ASSUME Typed, Located, Lent, Next
    PROVE  Lent'
<1>0. UNCHANGED sweep
  BY NextKeepsSweep
<1>t. /\ TypeOK /\ sweep.shards \in Nat /\ Shards = 1..sweep.shards
      /\ shard \in 1..(sweep.shards + 1) /\ Runs \in Nat /\ pass \in 0..Runs
      /\ LastPhase \in 1..4 /\ phase \in 1..LastPhase
      /\ \A s \in Shards : ChipOrder[s] \in Orders
  BY SweepFacts DEF Typed, TypeOK
<1>s. pc \notin {"load", "exited"} => shard \in Shards /\ chipsOf[ChipOrder[shard]] # 0
  BY <1>t DEF Located, Lent
<1>c. ChipOrder' = ChipOrder
  BY <1>0 DEF ChipOrder
\* The shard is left, given up or announced and through.
<1>g. ASSUME GiveUp \/ NextShard, UNCHANGED <<chipsOf, compiled, announced>>
      PROVE  Lent'
  <2>1. shard' = shard + 1 /\ pc' = "load"
    BY <1>g DEF GiveUp, NextShard
  <2> QED
    BY <1>0, <1>g, <2>1, LentByStay
\* It is stayed with, and no phase more is behind.
<1>m. ASSUME UNCHANGED <<shard, chipsOf, compiled, announced>>,
             pc \notin {"load", "exited"} \/ pc' = "exited",
             \A p \in 1..LastPhase : Behind(p)' => Behind(p)
      PROVE  Lent'
  BY <1>0, <1>c, <1>m, <1>s, LentByStay
<1>1. CASE Load
  <2>1. CASE Fault.kind = "load"
    BY <1>1, <1>g, <2>1 DEF Load, GiveUp
  <2>2. CASE Fault.kind # "load"
    <3> DEFINE o == ChipOrder[shard]
    <3>1. shard \in Shards /\ o \in Orders /\ shard # 0
      BY <1>1, <1>t DEF Load
    <3>2. /\ chipsOf' = [chipsOf EXCEPT ![o] = Lender(o)]
          /\ UNCHANGED <<shard, compiled, announced>> /\ pc' = "golden"
      BY <1>1, <2>2 DEF Load, verdicts
    <3>3. Lender(o) # 0 /\ (chipsOf[o] # 0 => Lender(o) = chipsOf[o])
      BY <3>1 DEF Lender
    <3> HIDE DEF o
    <3>4. \A q \in Orders : chipsOf'[q] = IF q = o THEN Lender(o) ELSE chipsOf[q]
      BY <1>t, <3>1, <3>2 DEF TypeOK
    <3>5. \A q \in Orders : chipsOf[q] # 0 => chipsOf'[q] = chipsOf[q]
      BY <3>3, <3>4
    <3>6. chipsOf'[ChipOrder[shard]] # 0
      BY <3>1, <3>3, <3>4 DEF o
    <3>7. \A p \in 1..LastPhase : ~Behind(p)'
      BY <3>2 DEF Behind
    <3> QED
      BY <1>0, <1>c, <3>2, <3>5, <3>6, <3>7, LentByStay
  <2> QED
    BY <2>1, <2>2
<1>2. CASE ParseGolden
  <2>1. CASE GoldenMissing
    BY <1>2, <1>g, <2>1 DEF ParseGolden, GiveUp
  <2>2. CASE ~GoldenMissing
    <3>1. /\ UNCHANGED <<shard, chipsOf, compiled, announced, pass>>
          /\ pc = "golden" /\ pc' = "pass"
      BY <1>2, <2>2 DEF ParseGolden, verdicts
    <3>2. pass = 0
      BY <3>1 DEF Located
    <3>3. \A p \in 1..LastPhase : ~Behind(p)'
      BY <3>1, <3>2 DEF Behind
    <3> QED
      BY <1>m, <3>1, <3>3
  <2> QED
    BY <2>1, <2>2
<1>3. CASE StartPass
  <2>1. /\ UNCHANGED <<shard, chipsOf, compiled, announced>>
        /\ pc = "pass" /\ pc' = "run" /\ pass' = pass + 1 /\ phase' = 1
    BY <1>3 DEF StartPass, verdicts
  <2>2. ASSUME NEW p \in 1..LastPhase, Behind(p)' PROVE Behind(p)
    <3>1. ~(p < 1)
      BY <1>t
    <3>2. pass + 1 > 1
      BY <1>t, <2>1, <2>2, <3>1 DEF Behind
    <3>3. pass = 1 \/ pass > 1
      BY <1>t, <3>2
    <3> QED
      BY <2>1, <3>3 DEF Behind
  <2> QED
    BY <1>m, <2>1, <2>2
<1>4. CASE StartTraceRefused
  BY <1>4, <1>g DEF StartTraceRefused, GiveUp
<1>5. CASE RunStage
  <2>1. CASE Hits("raise")
    <3>1. PICK done \in SUBSET Missing : Compiles(done)
      BY <1>5, <2>1 DEF RunStage
    <3>2. /\ pc = "run" /\ shard' = shard + 1 /\ pc' = "load"
          /\ UNCHANGED <<chipsOf, announced>>
      BY <1>5, <2>1 DEF RunStage, GiveUp, NextShard
    <3> QED
      BY <1>0, <3>1, <3>2, LentByRun
  <2>2. CASE ~Hits("raise")
    <3>1. PICK done : done = Missing
      OBVIOUS
    <3>2. /\ pc = "run" /\ pc' = "check" /\ UNCHANGED <<shard, pass, phase>>
          /\ UNCHANGED <<chipsOf, announced>> /\ Compiles(done)
      BY <1>5, <2>2, <3>1 DEF RunStage, verdicts
    <3> QED
      BY <1>0, <3>1, <3>2, LentByRun
  <2> QED
    BY <2>1, <2>2
<1>6. CASE Check
  <2>1. CASE Mismatch
    BY <1>6, <1>g, <2>1 DEF Check, GiveUp
  <2>2. CASE ~Mismatch
    <3>1. /\ UNCHANGED <<shard, chipsOf, compiled, announced, pass>> /\ pc = "check"
          /\ \/ phase = 1 /\ phase' = phase /\ pc' = "bind"
             \/ IsLast /\ phase' = phase /\ pc' = "passed"
             \/ phase' = phase + 1 /\ pc' = "run"
      BY <1>6, <2>2 DEF Check, verdicts
    <3>2. ASSUME NEW p \in 1..LastPhase, Behind(p)' PROVE Behind(p)
      <4>1. p < phase + 1 => p < phase \/ p = phase
        BY <1>t
      <4>2. IsLast => p < phase \/ p = phase
        BY <1>t DEF IsLast
      <4> QED
        BY <3>1, <3>2, <4>1, <4>2 DEF Behind
    <3> QED
      BY <1>m, <3>1, <3>2
  <2> QED
    BY <2>1, <2>2
<1>7. CASE Bind
  <2>1. /\ UNCHANGED <<shard, chipsOf, compiled, announced, pass>> /\ pc = "bind"
        /\ \/ LastPhase = 1 /\ phase' = phase /\ pc' = "passed"
           \/ phase' = 2 /\ pc' = "run"
    BY <1>7 DEF Bind, verdicts
  <2>2. phase = 1
    BY <2>1 DEF Located
  <2>3. ASSUME NEW p \in 1..LastPhase, Behind(p)' PROVE Behind(p)
    <3>1. (p < 2 => p = phase) /\ (LastPhase = 1 => p = phase)
      BY <1>t, <2>2
    <3> QED
      BY <2>1, <2>3, <3>1 DEF Behind
  <2> QED
    BY <1>m, <2>1, <2>3
<1>8. CASE EndPass
  <2>1. /\ UNCHANGED <<shard, chipsOf, compiled, announced, pass, phase>>
        /\ pc = "passed" /\ pc' = "pass"
    BY <1>8 DEF EndPass, verdicts
  <2>2. \A p \in 1..LastPhase : Behind(p)' => Behind(p)
    BY <2>1 DEF Behind
  <2> QED
    BY <1>m, <2>1, <2>2
<1>9. CASE AllOk
  <2>1. /\ pc = "pass" /\ pass = Runs /\ announced' = announced \cup {shard}
        /\ UNCHANGED <<chipsOf, compiled>>
    BY <1>9, <1>t DEF AllOk, PassesLeft
  <2>2. Runs # 0 => \A p \in 1..LastPhase : Behind(p)
    BY <1>t, <2>1 DEF Behind
  <2>3. CASE Wired
    <3>1. UNCHANGED <<shard, pass, phase>> /\ pc' = "wire"
      BY <1>9, <2>3 DEF AllOk
    <3>2. \A p \in 1..LastPhase : Behind(p)' => Behind(p)
      BY <2>1, <3>1 DEF Behind
    <3> QED
      BY <1>0, <1>c, <1>s, <2>1, <2>2, <3>1, <3>2, LentByStay
  <2>4. CASE ~Wired
    <3>1. shard' = shard + 1 /\ pc' = "load"
      BY <1>9, <2>4 DEF AllOk, NextShard
    <3> QED
      BY <1>0, <1>s, <2>1, <2>2, <3>1, LentByStay
  <2> QED
    BY <2>3, <2>4
<1>10. CASE Wire
  <2>1. CASE Fault.kind = "encode" \/ Runs = 0
    BY <1>10, <1>g, <2>1 DEF Wire, GiveUp
  <2>2. CASE ~(Fault.kind = "encode" \/ Runs = 0) /\ FfiVerify
    <3>1. /\ UNCHANGED <<shard, pass, phase, chipsOf, compiled, announced>>
          /\ pc = "wire" /\ pc' = "ffi"
      BY <1>10, <2>2 DEF Wire
    <3>2. \A p \in 1..LastPhase : Behind(p)' => Behind(p)
      BY <3>1 DEF Behind
    <3> QED
      BY <1>m, <3>1, <3>2
  <2>3. CASE ~(Fault.kind = "encode" \/ Runs = 0) /\ ~FfiVerify
    BY <1>10, <1>g, <2>3 DEF Wire
  <2> QED
    BY <2>1, <2>2, <2>3
<1>11. CASE FfiCheck
  BY <1>11, <1>g DEF FfiCheck, GiveUp, verdicts
<1>12. CASE EndSweep
  <2>1. /\ UNCHANGED <<shard, chipsOf, compiled, announced>> /\ pc' = "exited"
    BY <1>12 DEF EndSweep
  <2>2. \A p \in 1..LastPhase : ~Behind(p)'
    BY <2>1 DEF Behind
  <2> QED
    BY <1>m, <2>1, <2>2
<1>13. CASE Exited
  <2>1. /\ UNCHANGED <<shard, chipsOf, compiled, announced>> /\ pc' = "exited"
    BY <1>13 DEF Exited, vars, verdicts
  <2>2. \A p \in 1..LastPhase : ~Behind(p)'
    BY <2>1 DEF Behind
  <2> QED
    BY <1>m, <2>1, <2>2
<1> QED
  BY <1>1, <1>2, <1>3, <1>4, <1>5, <1>6, <1>7, <1>8, <1>9, <1>10, <1>11, <1>12, <1>13
     DEF Next, Advance

-----------------------------------------------------------------------------
(* The calls of a prove, in their order.                                   *)

LEMMA ThreadingStep ==
    ASSUME Typed, Located, Threading, Next
    PROVE  Threading'
<1>t. phase \in 1..LastPhase /\ LastPhase \in 1..4 /\ calls \in Seq(CallRecords)
  BY SweepFacts DEF Typed, TypeOK
<1>n. ASSUME pc' \notin {"run", "check", "bind"} PROVE Threading'
  BY <1>n DEF Threading
<1>g. ASSUME GiveUp PROVE Threading'
  BY <1>g, <1>n, Left DEF GiveUp
<1>1. CASE StartPass
  <2>1. pc' = "run" /\ phase' = 1 /\ calls' = <<>> /\ held' = {}
    BY <1>1 DEF StartPass, FreshProve
  <2>2. Len(calls') = 0
    BY <2>1
  <2> QED
    BY <2>1, <2>2 DEF Threading
<1>2. CASE RunStage
  <2>1. CASE Hits("raise")
    BY <1>2, <1>g, <2>1 DEF RunStage
  <2>2. CASE ~Hits("raise")
    <3> DEFINE c == [stage |-> StageOf[phase], transcript |-> transcript,
                     claim |-> claim, held |-> held]
    <3>1. pc = "run" /\ pc' = "check" /\ UNCHANGED <<phase, held>> /\ calls' = Append(calls, c)
      BY <1>2, <2>2 DEF RunStage
    <3> HIDE DEF c
    <3>2. Len(calls') = Len(calls) + 1
      BY <1>t, <3>1
    <3>3. Len(calls) = IF phase = 1 THEN 0 ELSE phase
      BY <3>1 DEF Threading
    <3>4. Len(calls') = IF phase = 1 THEN 1 ELSE phase + 1
      BY <1>t, <3>2, <3>3
    <3> QED
      BY <3>1, <3>4 DEF Threading
  <2> QED
    BY <2>1, <2>2
<1>3. CASE Check
  <2>1. CASE Mismatch
    BY <1>3, <1>g, <2>1 DEF Check
  <2>2. CASE ~Mismatch /\ phase = 1
    BY <1>3, <2>2 DEF Check, Threading
  <2>3. CASE ~Mismatch /\ phase # 1 /\ ~IsLast
    <3>1. pc = "check" /\ pc' = "run" /\ phase' = phase + 1 /\ UNCHANGED calls
      BY <1>3, <2>3 DEF Check
    <3>2. Len(calls) = phase + 1 /\ phase + 1 # 1
      BY <1>t, <2>3, <3>1 DEF Threading
    <3> QED
      BY <3>1, <3>2 DEF Threading
  <2>4. CASE ~Mismatch /\ phase # 1 /\ IsLast
    BY <1>3, <1>n, <2>4 DEF Check
  <2> QED
    BY <2>1, <2>2, <2>3, <2>4
<1>4. CASE Bind
  <2>1. CASE LastPhase = 1
    BY <1>4, <1>n, <2>1 DEF Bind
  <2>2. CASE LastPhase # 1
    <3> DEFINE c == [stage |-> "bind", transcript |-> transcript,
                     claim |-> claim, held |-> held]
    <3>1. pc = "bind" /\ pc' = "run" /\ phase' = 2 /\ calls' = Append(calls, c)
      BY <1>4, <2>2 DEF Bind
    <3> HIDE DEF c
    <3>2. Len(calls') = Len(calls) + 1 /\ Len(calls) = 1
      BY <1>t, <3>1 DEF Threading
    <3> QED
      BY <3>1, <3>2 DEF Threading
  <2> QED
    BY <2>1, <2>2
<1>5. CASE pc' \notin {"run", "check", "bind"}
  BY <1>5, <1>n
<1> QED
  <2>1. \/ StartPass \/ RunStage \/ Check \/ Bind
        \/ pc' \notin {"run", "check", "bind"}
    <3>1. ASSUME GiveUp \/ NextShard PROVE pc' = "load"
      BY <3>1, Left DEF GiveUp
    <3> QED
      BY <3>1 DEF Next, Advance, Exited, Load, ParseGolden, StartTraceRefused, EndPass,
         AllOk, Wire, FfiCheck, EndSweep, vars
  <2> QED
    BY <1>1, <1>2, <1>3, <1>4, <1>5, <2>1

-----------------------------------------------------------------------------
(* The theorems.                                                           *)

LEMMA Unmoved == Inv /\ UNCHANGED vars => Inv'
<1> SUFFICES ASSUME Inv, UNCHANGED vars PROVE Inv'
  OBVIOUS
<1>0. UNCHANGED <<sweep, fault>>
  BY DEF vars
<1>k. /\ Shards' = Shards /\ Runs' = Runs /\ LastPhase' = LastPhase
      /\ Orders' = Orders /\ ChipOrder' = ChipOrder /\ Faults' = Faults
      /\ Class' = Class /\ Jagged' = Jagged /\ Rows' = Rows
      /\ Wired' = Wired /\ FfiVerify' = FfiVerify /\ Profile' = Profile
      /\ Judged' = Judged
      /\ \A f : /\ FailsPhases(f)' = FailsPhases(f) /\ Bites(f)' = Bites(f)
                /\ PhaseTrouble(f)' = PhaseTrouble(f) /\ Encodes(f)' = Encodes(f)
  BY <1>0, SweepKept
<1>v. UNCHANGED <<sweep, fault, shard, pc, pass, phase, calls, transcript, claim, held,
                  results, chipsOf, compiled, profiling, announced, encoded, failed, exit>>
  BY DEF vars, proving, verdicts
<1>1. Typed'
  BY <1>k, <1>v DEF Inv, Typed, TypeOK
<1>2. Located' /\ Releases' /\ Threading'
  BY <1>k, <1>v DEF Inv, Located, Releases, Threading, Fault
<1>3. Fault' = Fault
  BY <1>v DEF Fault
<1>4. Ahead'
  BY <1>k, <1>v, <1>3 DEF Inv, Ahead
<1>5. ASSUME NEW s \in Shards, Told(s) PROVE Told(s)'
  BY <1>k, <1>v, <1>5 DEF Told
<1>6. Settled'
  BY <1>k, <1>5 DEF Inv, Settled
<1>7. Lent'
  <2>1. /\ \A p, s : Zones(p, s)' = Zones(p, s)
        /\ \A p : Zones(p, shard)' = Zones(p, shard)
    BY <1>k, <1>v DEF Zones
  <2>2. Executables' = Executables /\ \A p : Behind(p)' = Behind(p)
    BY <1>v DEF Executables, Behind
  <2>3. RidersCompileNothing'
    BY <1>k, <1>v DEF Inv, Lent, RidersCompileNothing, SameClass
  <2> QED
    BY <1>k, <1>v, <2>1, <2>2, <2>3 DEF Inv, Lent
<1> QED
  BY <1>1, <1>2, <1>4, <1>6, <1>7 DEF Inv

\* Inv is inductive.
THEOREM StagedInductive == Spec => []Inv
<1>1. Inv /\ [Next]_vars => Inv'
  BY TypedStep, LocatedStep, ReleasesStep, AheadStep, SettledStep, LentStep,
     ThreadingStep, Unmoved DEF Inv
<1> QED
  BY <1>1, InitInv, PTL DEF Spec

\* Every variable keeps its type.
THEOREM StagedTypeCorrect == Spec => []TypeOK
<1>1. Inv => TypeOK
  BY DEF Inv, Typed
<1> QED
  BY <1>1, StagedInductive, PTL

\* One stage's working set at a time: when a stage starts, no result of an
\* earlier stage or pass is referenced, save this pass's commit data.
THEOREM OneStageOnCard == Spec => []StageAlone
<1>1. Inv => StageAlone
  BY DEF Inv, Releases, StageAlone
<1> QED
  BY <1>1, StagedInductive, PTL

\* No phase starts after a mismatch on its shard.
THEOREM MismatchStops == Spec => []FailFast
<1>1. Inv => FailFast
  <2> SUFFICES ASSUME Inv, pc = "run", Fault.kind = "mismatch", Fault.phase <= LastPhase
               PROVE  \/ pass < Fault.pass
                      \/ pass = Fault.pass /\ phase <= Fault.phase
    BY DEF FailFast
  <2>1. PhaseTrouble(Fault)
    BY DEF PhaseTrouble
  <2>2. \/ Fault.pass > pass
        \/ Fault.pass = pass /\ Fault.phase >= phase
    BY <2>1 DEF Inv, Ahead
  <2>3. shard \in Shards /\ TypeOK
    BY SweepFacts DEF Inv, Typed, TypeOK, Located
  <2>3a. Fault.pass \in 1..Runs /\ Fault.phase \in 1..4
    BY <2>3, FaultFacts DEF Fault
  <2>4. Fault.pass \in Int /\ Fault.phase \in Int
    BY <2>3, <2>3a, SweepFacts DEF TypeOK
  <2>5. pass \in Int /\ phase \in Int
    BY <2>3 DEF TypeOK
  <2> QED
    BY <2>2, <2>4, <2>5
<1> QED
  BY <1>1, StagedInductive, PTL

\* The verdict of every shard is its own, and the exit status reports it.
THEOREM VerdictsAreOwn == Spec => []VerdictIsOwn
<1>1. Inv => VerdictIsOwn
  <2> SUFFICES ASSUME Inv, pc = "exited", Judged
               PROVE  /\ failed = {s \in Shards : Bites(fault[s])}
                      /\ exit = "zero" <=> failed = {}
                      /\ announced = {s \in Shards : ~FailsPhases(fault[s])}
                      /\ encoded = {s \in announced :
                              Wired /\ fault[s].kind # "encode"}
    BY DEF VerdictIsOwn, Judged
  <2>1. /\ shard = sweep.shards + 1 /\ (exit = "zero" <=> failed = {})
    BY DEF Inv, Located
  <2>2. /\ failed \subseteq Shards /\ announced \subseteq Shards /\ encoded \subseteq Shards
        /\ Shards = 1..sweep.shards /\ sweep.shards \in Nat
    BY SweepFacts DEF Inv, Typed, TypeOK
  <2>3. ASSUME NEW s \in Shards
        PROVE  /\ s \in failed <=> Bites(fault[s])
               /\ s \in announced <=> ~FailsPhases(fault[s])
               /\ s \in encoded <=> Encodes(fault[s])
    <3>1. s < shard
      BY <2>1, <2>2
    <3> QED
      BY <3>1 DEF Inv, Settled, Told
  <2>4. failed = {s \in Shards : Bites(fault[s])}
    BY <2>2, <2>3
  <2>5. announced = {s \in Shards : ~FailsPhases(fault[s])}
    BY <2>2, <2>3
  <2>6. encoded = {s \in announced : Wired /\ fault[s].kind # "encode"}
    BY <2>2, <2>3 DEF Encodes
  <2> QED
    BY <2>1, <2>4, <2>5, <2>6
<1> QED
  BY <1>1, StagedInductive, PTL

\* Compiles are paid in first passes, and a shard whose class an earlier one
\* proved pays for its pack zone at most, however many shards, orders, classes
\* and passes the sweep has.
THEOREM RidersAreWarm == Spec => []RidersCompileNothing
<1>1. Inv => RidersCompileNothing
  BY DEF Inv, Lent
<1> QED
  BY <1>1, StagedInductive, PTL

-----------------------------------------------------------------------------
(* The harness proves as the composite prover does.                        *)

LEMMA CompositeStages ==
    /\ Len(Composite!Stages) = 5
    /\ Composite!Stages[1] = "commit" /\ Composite!Stages[2] = "bind"
    /\ Composite!Stages[3] = "gkr" /\ Composite!Stages[4] = "zerocheck"
    /\ Composite!Stages[5] = "opening"
BY DEF Composite!Stages

\* A fresh prove is the composite's restart.
LEMMA RestartIsComposite ==
    ASSUME FreshProve, pc' # "check"
    PROVE  Composite!Next
<1>1. ~Returned'
  BY DEF Returned
<1>2. Composite!Restart
  BY <1>1 DEF FreshProve, Composite!Restart
<1> QED
  BY <1>2 DEF Composite!Next

LEMMA GiveUpIsComposite ==
    ASSUME GiveUp \/ NextShard
    PROVE  Composite!Next
<1>1. FreshProve /\ pc' # "check"
  BY DEF GiveUp, NextShard
<1> QED
  BY <1>1, RestartIsComposite

\* The first stage is the composite's commit, and a later one is its stage.
LEMMA RunIsComposite ==
    ASSUME Inv, RunStage, ~Hits("raise")
    PROVE  Composite!Next
<1> DEFINE c == [stage |-> StageOf[phase], transcript |-> transcript,
                 claim |-> claim, held |-> held]
<1>1. /\ pc = "run" /\ pc' = "check" /\ UNCHANGED <<phase, transcript, claim, held>>
      /\ calls' = Append(calls, c)
  BY DEF RunStage
<1>2. ~Returned /\ Returned'
  BY <1>1 DEF Returned
<1>3. phase \in 1..4 /\ Len(calls) = IF phase = 1 THEN 0 ELSE phase
  BY <1>1, SweepFacts DEF Inv, Typed, TypeOK, Threading
<1>4. Composite!Call(StageOf[phase]) = c
  BY <1>2 DEF Composite!Call
<1>5. CASE phase = 1
  <2>1. held = {} /\ c.stage = "commit" /\ Len(calls) = 0
    BY <1>1, <1>3, <1>5, StageFacts DEF Inv, Threading
  <2>2. Composite!IsNext("commit")
    BY <1>1, <1>4, <1>5, <2>1, CompositeStages, StageFacts DEF Composite!IsNext
  <2>3. Composite!Commit
    BY <1>1, <1>2, <1>5, <2>1, <2>2 DEF Composite!Commit
  <2> QED
    BY <2>3 DEF Composite!Next
<1>6. CASE phase # 1
  <2>1. phase \in 2..4 /\ Len(calls) = phase
    BY <1>3, <1>6
  <2>2. Composite!Stages[Len(calls) + 1] = StageOf[phase] /\ Len(calls) < 5
    <3>1. CASE phase = 2
      BY <2>1, <3>1, CompositeStages, StageFacts
    <3>2. CASE phase = 3
      BY <2>1, <3>2, CompositeStages, StageFacts
    <3>3. CASE phase = 4
      BY <2>1, <3>3, CompositeStages, StageFacts
    <3> QED
      BY <2>1, <3>1, <3>2, <3>3
  <2>3. ReducedBy["gkr"] = "chip evaluations at the gkr point"
        /\ ReducedBy["zerocheck"] = "column evaluations" /\ ReducedBy["opening"] = "trivial"
    BY DEF ReducedBy
  <2>4. (IF Returned /\ phase > 1 THEN Append(transcript, StageOf[phase]) ELSE transcript)'
           = Append(IF Returned /\ phase > 1 THEN Append(transcript, StageOf[phase])
                    ELSE transcript, StageOf[phase])
    BY <1>1, <1>2, <2>1
  <2>5. /\ (IF Returned /\ phase > 1 THEN ReducedBy[StageOf[phase]] ELSE claim)'
              = ReducedBy[StageOf[phase]]
        /\ UNCHANGED (IF Returned /\ phase = 1 THEN {"commitment", "commit_data"} ELSE held)
    BY <1>1, <1>2, <2>1
  <2>6. /\ calls' = Append(calls, Composite!Call(StageOf[phase]))
        /\ Len(calls) < Len(Composite!Stages)
    BY <1>1, <1>4, <2>2, CompositeStages
  <2>7. CASE phase = 2
    <3>1. StageOf[phase] = "gkr"
      BY <2>7, StageFacts
    <3>2. Composite!IsNext("gkr")
      BY <2>2, <2>6, <3>1 DEF Composite!IsNext
    <3>3. Composite!Gkr
      BY <2>3, <2>4, <2>5, <3>1, <3>2 DEF Composite!Gkr, Composite!Reduce
    <3> QED
      BY <3>3 DEF Composite!Next
  <2>8. CASE phase = 3
    <3>1. StageOf[phase] = "zerocheck"
      BY <2>8, StageFacts
    <3>2. Composite!IsNext("zerocheck")
      BY <2>2, <2>6, <3>1 DEF Composite!IsNext
    <3>3. Composite!Zerocheck
      BY <2>3, <2>4, <2>5, <3>1, <3>2 DEF Composite!Zerocheck, Composite!Reduce
    <3> QED
      BY <3>3 DEF Composite!Next
  <2>9. CASE phase = 4
    <3>1. StageOf[phase] = "opening"
      BY <2>9, StageFacts
    <3>2. Composite!IsNext("opening")
      BY <2>2, <2>6, <3>1 DEF Composite!IsNext
    <3>3. Composite!Opening
      BY <2>3, <2>4, <2>5, <3>1, <3>2 DEF Composite!Opening, Composite!Reduce
    <3> QED
      BY <3>3 DEF Composite!Next
  <2> QED
    BY <2>1, <2>7, <2>8, <2>9
<1> QED
  BY <1>5, <1>6

LEMMA BindIsComposite ==
    ASSUME Inv, Bind
    PROVE  Composite!Next
<1> DEFINE c == [stage |-> "bind", transcript |-> transcript, claim |-> claim,
                 held |-> held]
<1>1. /\ pc = "bind" /\ pc' # "check" /\ UNCHANGED claim
      /\ calls' = Append(calls, c)
      /\ transcript' = Append(transcript, "preamble") /\ held' = held \cup {"roots"}
  BY DEF Bind
<1>2. ~Returned /\ ~Returned'
  BY <1>1 DEF Returned
<1>3. Len(calls) = 1
  BY <1>1 DEF Inv, Threading
<1>4. Composite!Call("bind") = c
  BY <1>2 DEF Composite!Call
<1>5. Composite!IsNext("bind")
  BY <1>1, <1>3, <1>4, CompositeStages DEF Composite!IsNext
<1>6. Composite!Bind
  BY <1>1, <1>2, <1>5 DEF Composite!Bind
<1> QED
  BY <1>6 DEF Composite!Next

\* A check that passes takes over what the stage returned: the composite has
\* it already.
LEMMA CheckIsStutter ==
    ASSUME Inv, Check, ~Mismatch
    PROVE  UNCHANGED Composite!vars
<1>1. pc = "check" /\ pc' # "check" /\ UNCHANGED calls
  BY DEF Check
<1>2. Returned /\ ~Returned'
  BY <1>1 DEF Returned
<1>3. phase \in 1..4
  BY SweepFacts DEF Inv, Typed, TypeOK
<1>4. CASE phase = 1
  <2>1. held' = {"commitment", "commit_data"} /\ UNCHANGED <<transcript, claim>>
    BY <1>4 DEF Check
  <2> QED
    BY <1>1, <1>2, <1>4, <2>1 DEF Composite!vars
<1>5. CASE phase # 1
  <2>1. phase > 1
    BY <1>3, <1>5
  <2>2. /\ transcript' = Append(transcript, StageOf[phase])
        /\ claim' = ReducedBy[StageOf[phase]] /\ UNCHANGED held
    BY <1>5 DEF Check, Threaded
  <2> QED
    BY <1>1, <1>2, <1>5, <2>1, <2>2 DEF Composite!vars
<1> QED
  BY <1>4, <1>5

\* Every other step leaves the composite where it is.
LEMMA ProvingUnmoved ==
    ASSUME UNCHANGED proving, pc # "check", pc' # "check"
    PROVE  UNCHANGED Composite!vars
<1>1. ~Returned /\ ~Returned'
  BY DEF Returned
<1> QED
  BY <1>1 DEF Composite!vars, proving

LEMMA CompositeStep == Inv /\ [Next]_vars => [Composite!Next]_(Composite!vars)
<1> SUFFICES ASSUME Inv, [Next]_vars PROVE Composite!Next \/ UNCHANGED Composite!vars
  OBVIOUS
<1>1. CASE RunStage
  BY <1>1, RunIsComposite, GiveUpIsComposite DEF RunStage
<1>2. CASE Check
  BY <1>2, CheckIsStutter, GiveUpIsComposite DEF Check
<1>3. CASE Bind
  BY <1>3, BindIsComposite
<1>4. CASE StartPass
  <2>1. FreshProve /\ pc' # "check"
    BY <1>4 DEF StartPass
  <2> QED
    BY <2>1, RestartIsComposite
<1>5. CASE GiveUp \/ NextShard
  BY <1>5, GiveUpIsComposite
<1>6. CASE UNCHANGED proving /\ pc # "check" /\ pc' # "check"
  BY <1>6, ProvingUnmoved
<1>7. CASE UNCHANGED vars
  <2>1. UNCHANGED <<pc, phase, calls, transcript, claim, held>>
    BY <1>7 DEF vars, proving
  <2>2. UNCHANGED Returned
    BY <2>1 DEF Returned
  <2> QED
    BY <2>1, <2>2 DEF Composite!vars
<1> QED
  <2>1. \/ RunStage \/ Check \/ Bind \/ StartPass \/ GiveUp \/ NextShard
        \/ UNCHANGED proving /\ pc # "check" /\ pc' # "check"
        \/ UNCHANGED vars
    BY DEF Next, Advance, Exited, Load, ParseGolden, StartTraceRefused, EndPass, AllOk,
       Wire, FfiCheck, EndSweep
  <2> QED
    BY <1>1, <1>2, <1>3, <1>4, <1>5, <1>6, <1>7, <2>1

\* The harness makes the calls of ShardProver.prove, in its order and with what
\* each is given there.
THEOREM HarnessRefinesProve == Spec => ProvesAsComposite
<1>1. Init => Composite!Init
  BY DEF Init, Composite!Init, Composite!Fresh, Returned
<1> QED
  BY <1>1, CompositeStep, StagedInductive, PTL DEF Spec, ProvesAsComposite, Composite!Spec

=============================================================================
