--------------------------- MODULE StagedHarness ---------------------------
(***************************************************************************)
(* The staged prove harness of shard_prover/staged_prove_shard.py: `main`  *)
(* sweeps shard dumps in one process, _prove_shard_dir proves one of them  *)
(* --runs times, and _prove_staged makes the calls of the composite prover *)
(* one at a time, checking each phase against the dump's golden values and *)
(* releasing it before the next allocates.                                 *)
(*                                                                         *)
(* What can go wrong with a shard is drawn before the sweep, so a property *)
(* can compare the harness's verdict with it.                              *)
(***************************************************************************)
EXTENDS Integers, Sequences, FiniteSets

CONSTANT Sweeps   \* command lines, and the dumps they name

\* A sweep: of each entry of --shard_dir the chip order, the classes
\* resolve_classes gives it ([area, heights]), its jagged class ([scan, K]: the
\* column total with the padded tier, and each region's stacked columns) and
\* its exact row-count tuples; then --max_phase, --runs, --proof_sha256,
\* --ffi_verify, and whether --zc_chunk_depth and --jaxprof_dir are given.
IsSweep(w) ==
    /\ w.shards \in Nat \ {0}
    /\ DOMAIN w.order = 1..w.shards /\ DOMAIN w.class = 1..w.shards
    /\ DOMAIN w.jagged = 1..w.shards /\ DOMAIN w.rows = 1..w.shards
    /\ w.maxPhase \in Int
    /\ w.runs \in Nat
    /\ {w.proofSha, w.ffiVerify, w.profile, w.chunked} \subseteq BOOLEAN

ASSUME SweepsAssumption == \A w \in Sweeps : IsSweep(w)

VARIABLES
    sweep,       \* the command line
    fault,       \* the trouble of each shard
    shard,       \* the shard the sweep is at
    pc,          \* where the harness is
    pass,        \* prove passes begun on this shard
    phase,       \* the phase running or being checked
    calls,       \* calls of the current prove, with what each was given
    transcript,  \* what the transcript of the current prove has absorbed
    claim,       \* the claim the next stage discharges
    held,        \* what _prove_staged keeps for later calls
    results,     \* stage results still referenced, with their pass
    chipsOf,     \* shared_chips: the shard whose chip objects an order uses
    compiled,    \* executables in the process: [zone, shard, pass], who paid and when
    profiling,   \* a profiler trace is running
    announced,   \* shards that printed "ALL OK"
    encoded,     \* shards that printed PROOF_SHA256
    failed,      \* failed
    exit         \* exit status of the process

Shards == 1..sweep.shards
ChipOrder == sweep.order
Class == sweep.class
Jagged == sweep.jagged
Rows == sweep.rows
Runs == sweep.runs
ProofSha == sweep.proofSha
FfiVerify == sweep.ffiVerify
Profile == sweep.profile
Orders == {ChipOrder[s] : s \in Shards}

\* n = max(1, min(4, max_phase)).
LastPhase ==
    IF sweep.maxPhase < 1 THEN 1 ELSE IF sweep.maxPhase > 4 THEN 4 ELSE sweep.maxPhase

\* The stage call each phase times and checks.
StageOf == <<"commit", "gkr", "zerocheck", "opening">>

\* The claim a stage leaves.
ReducedBy == [gkr |-> "chip evaluations at the gkr point",
              zerocheck |-> "column evaluations", opening |-> "trivial"]

Wired == LastPhase = 4 /\ (ProofSha \/ FfiVerify)

\* A shard's trouble: its dump does not load, a golden file of a phase is
\* missing, a phase raises or disagrees with its golden value in a pass, the
\* encoder raises, SP1's verifier rejects.
Sound == [kind |-> "none", phase |-> 0, pass |-> 0]
Faults ==
    {Sound}
    \cup [kind : {"load", "encode", "ffi"}, phase : {0}, pass : {0}]
    \cup [kind : {"golden"}, phase : 1..4, pass : {0}]
    \cup [kind : {"raise", "mismatch"}, phase : 1..4, pass : 1..Runs]

\* Whether the trouble lies on the way the flags make the harness go: before
\* the verdict on the phases, or after it.
FailsPhases(f) ==
    \/ f.kind = "load"
    \/ f.kind \in {"golden", "raise", "mismatch"} /\ f.phase <= LastPhase
FailsWire(f) ==
    /\ Wired
    /\ \/ f.kind = "encode"
       \/ f.kind = "ffi" /\ FfiVerify
Bites(f) == FailsPhases(f) \/ FailsWire(f)

-----------------------------------------------------------------------------
proving == <<calls, transcript, claim, held>>
verdicts == <<announced, encoded, failed, exit>>
vars == <<sweep, fault, shard, pc, pass, phase, proving, results, chipsOf, compiled,
          profiling, verdicts>>

Steps == {"load", "golden", "pass", "run", "check", "bind", "passed", "wire",
          "ffi", "exited"}

Init ==
    /\ sweep \in Sweeps
    /\ fault \in [Shards -> Faults]
    /\ shard = 1
    /\ pc = "load"
    /\ pass = 0
    /\ phase = 1
    /\ calls = <<>> /\ transcript = <<>> /\ claim = "shard" /\ held = {}
    /\ results = {}
    /\ chipsOf = [o \in Orders |-> 0]
    /\ compiled = {}
    /\ profiling = FALSE
    /\ announced = {}
    /\ encoded = {}
    /\ failed = {}
    /\ exit = "none"

Fault == fault[shard]
Hits(kind) == Fault = [kind |-> kind, phase |-> phase, pass |-> pass]

\* A prove on fresh_transcript(), or no prove at all.
FreshProve ==
    calls' = <<>> /\ transcript' = <<>> /\ claim' = "shard" /\ held' = {}

-----------------------------------------------------------------------------
(* The sweep.                                                              *)

\* Broken variants of NextShard: the sweep does not move on; the passes of the
\* shard just left are not forgotten.
NextShardAgain ==
    /\ UNCHANGED shard
    /\ pc' = "load" /\ pass' = 0 /\ phase' = 1 /\ results' = {} /\ FreshProve
NextShardKeepingPass ==
    /\ shard' = shard + 1
    /\ UNCHANGED pass
    /\ pc' = "load" /\ phase' = 1 /\ results' = {} /\ FreshProve

\* The next turn of `for shard_dir in shard_dirs`: the frames of the shard
\* just left are gone, and what they referenced.
NextShard ==
    /\ shard' = shard + 1
    /\ pc' = "load" /\ pass' = 0 /\ phase' = 1 /\ results' = {} /\ FreshProve

\* `except SystemExit` and `except Exception`: the shard failed, the sweep
\* goes on.  Nothing stops a running profiler trace, and what was compiled
\* stays.
GiveUp ==
    /\ failed' = failed \cup {shard}
    /\ NextShard
    /\ UNCHANGED <<sweep, fault, chipsOf, profiling, announced, encoded, exit>>

\* shared_chips.setdefault: the first shard of a chip order lends its objects.
\* The broken variant lends each shard's own.
LenderAlwaysNew(order) == shard
Lender(order) == IF chipsOf[order] = 0 THEN shard ELSE chipsOf[order]

\* load_fixture_shard, the shared chips, the class pins.
Load ==
    /\ pc = "load"
    /\ shard <= sweep.shards
    /\ IF Fault.kind = "load" THEN GiveUp /\ UNCHANGED compiled
       ELSE /\ chipsOf' = [chipsOf EXCEPT ![ChipOrder[shard]] =
                              Lender(ChipOrder[shard])]
            /\ pc' = "golden"
            /\ UNCHANGED <<sweep, fault, shard, pass, phase, proving, results,
                           compiled, profiling, verdicts>>

\* A golden reference of phases 1..n is missing (with phase 2's the GKR
\* witness).
GoldenMissing == Fault.kind = "golden" /\ Fault.phase <= LastPhase

ParseGolden ==
    /\ pc = "golden"
    /\ IF GoldenMissing THEN GiveUp /\ UNCHANGED compiled
       ELSE /\ pc' = "pass"
            /\ UNCHANGED <<sweep, fault, shard, pass, phase, proving, results,
                           chipsOf, compiled, profiling, verdicts>>

-----------------------------------------------------------------------------
(* One pass.                                                               *)

\* The trace covers the last pass.
Traced == Profile /\ pass + 1 = Runs

\* `for i in range(runs)`; one pass too many in the broken variant.
PassesLeftOffByOne == pass <= Runs
PassesLeft == pass < Runs

\* `proof = sections = commit_data = evaluation = None` before the pass.
SurvivesIntoPass == {}

StartPass ==
    /\ pc = "pass"
    /\ PassesLeft
    /\ pass' = pass + 1
    /\ profiling' = (profiling \/ Traced)
    /\ results' = SurvivesIntoPass
    /\ phase' = 1
    /\ pc' = "run"
    /\ FreshProve
    /\ UNCHANGED <<sweep, fault, shard, chipsOf, compiled, verdicts>>

\* start_trace while a trace runs already may refuse.
StartTraceRefused ==
    /\ pc = "pass"
    /\ PassesLeft
    /\ Traced /\ profiling
    /\ GiveUp
    /\ UNCHANGED compiled

\* The zones of a phase with their static keys: the commit of a region keys on
\* its shape; the GKR and zerocheck bodies on the chip objects, by identity, and
\* the resolved class (the chunked zerocheck on the height bounds too); the
\* opening packs on the exact row counts, evaluates and opens on the jagged
\* class.
Zones(p, s) ==
    LET lent == chipsOf[ChipOrder[s]]
        chunks == IF sweep.chunked THEN {Class[s].heights} ELSE {}
    IN  << {<<"commit", Jagged[s].K[i]>> : i \in DOMAIN Jagged[s].K},
           {<<"gkr", <<lent, Class[s].heights>>>>},
           {<<"zerocheck", <<lent, Class[s].area, chunks>>>>},
           {<<"pack", Rows[s]>>, <<"eval", Jagged[s].scan>>, <<"open", Jagged[s].K>>} >>[p]

\* The executables of the process, those a stage lacks, and their compile.
Executables == {c.zone : c \in compiled}
Missing == Zones(phase, shard) \ Executables
Compiles(zones) ==
    compiled' = compiled \cup {[zone |-> z, shard |-> shard, pass |-> pass] : z \in zones}

\* `run()` of _timed: the stage compiles what the process lacks, and its result
\* is referenced.  One that raises may have compiled some of it.
RunStage ==
    /\ pc = "run"
    /\ IF Hits("raise")
       THEN /\ \E done \in SUBSET Missing : Compiles(done)
            /\ GiveUp
       ELSE /\ calls' = Append(calls, [stage |-> StageOf[phase],
                                       transcript |-> transcript,
                                       claim |-> claim, held |-> held])
            /\ results' = results \cup {<<pass, phase>>}
            /\ Compiles(Missing)
            /\ pc' = "check"
            /\ UNCHANGED <<sweep, fault, shard, pass, phase, transcript, claim, held,
                           chipsOf, profiling, verdicts>>

\* check(section) of _timed.  The broken variant only looks at the commitment.
MismatchOfCommitOnly == Hits("mismatch") /\ phase = 1
Mismatch == Hits("mismatch")

\* `del gkr`, `del zerocheck`, `del opening`; the commit's data stays for the
\* opening.  The broken variant keeps them all.
SurvivesStageAll == results
SurvivesStage == IF phase = 1 THEN results ELSE results \ {<<pass, phase>>}

\* What the stage adds to the transcript.  The broken variant goes on with
\* the transcript the stage was given.
ThreadedNot == transcript
Threaded == Append(transcript, StageOf[phase])

\* Whether this is phase n.
IsLast == phase = LastPhase

\* The golden check; on a match the transcript and the reduced claim are
\* taken over, the spent result is dropped, and the chain goes on to phase n.
Check ==
    /\ pc = "check"
    /\ IF Mismatch THEN GiveUp /\ UNCHANGED compiled
       ELSE /\ results' = SurvivesStage
            /\ IF phase = 1
               THEN /\ held' = {"commitment", "commit_data"}
                    /\ pc' = "bind"
                    /\ UNCHANGED <<phase, transcript, claim>>
               ELSE /\ transcript' = Threaded
                    /\ claim' = ReducedBy[StageOf[phase]]
                    /\ IF IsLast THEN pc' = "passed" /\ UNCHANGED phase
                       ELSE pc' = "run" /\ phase' = phase + 1
                    /\ UNCHANGED held
            /\ UNCHANGED <<sweep, fault, shard, pass, calls, chipsOf, compiled,
                           profiling, verdicts>>

\* bind_commitment, between the commit's check and phase 2.
Bind ==
    /\ pc = "bind"
    /\ calls' = Append(calls, [stage |-> "bind", transcript |-> transcript,
                               claim |-> claim, held |-> held])
    /\ transcript' = Append(transcript, "preamble")
    /\ held' = held \cup {"roots"}
    /\ IF LastPhase = 1 THEN pc' = "passed" /\ UNCHANGED phase
       ELSE pc' = "run" /\ phase' = 2
    /\ UNCHANGED <<sweep, fault, shard, pass, claim, results, chipsOf, compiled,
                   profiling, verdicts>>

\* The pass returned: stop_trace, and another pass or the verdict.
EndPass ==
    /\ pc = "passed"
    /\ profiling' = (profiling /\ ~(Profile /\ pass = Runs))
    /\ pc' = "pass"
    /\ UNCHANGED <<sweep, fault, shard, pass, phase, proving, results, chipsOf,
                   compiled, verdicts>>

-----------------------------------------------------------------------------
(* After the passes.                                                       *)

\* "ALL OK", and the wire if the run was full and a flag asks for it.
AllOk ==
    /\ pc = "pass"
    /\ ~PassesLeft
    /\ announced' = announced \cup {shard}
    /\ IF Wired
       THEN pc' = "wire" /\ UNCHANGED <<shard, pass, phase, results, proving>>
       ELSE NextShard
    /\ UNCHANGED <<sweep, fault, chipsOf, compiled, profiling, encoded, failed, exit>>

\* encode_vk, encode_shard_proof and the hash.  Without a pass there is no
\* proof to assert on.
Wire ==
    /\ pc = "wire"
    /\ IF Fault.kind = "encode" \/ Runs = 0 THEN GiveUp /\ UNCHANGED compiled
       ELSE /\ encoded' = encoded \cup {shard}
            /\ IF FfiVerify
               THEN pc' = "ffi" /\ UNCHANGED <<shard, pass, phase, results, proving>>
               ELSE NextShard
            /\ UNCHANGED <<sweep, fault, chipsOf, compiled, profiling, announced,
                           failed, exit>>

\* sp1_verify_shard raises unless SP1's verifier accepts.
FfiCheck ==
    /\ pc = "ffi"
    /\ IF Fault.kind = "ffi" THEN GiveUp /\ UNCHANGED compiled
       ELSE /\ NextShard
            /\ UNCHANGED <<sweep, fault, chipsOf, compiled, profiling, verdicts>>

\* sys.exit with the failed shards, or a clean return.
EndSweep ==
    /\ pc = "load"
    /\ shard > sweep.shards
    /\ exit' = IF failed = {} THEN "zero" ELSE "nonzero"
    /\ pc' = "exited"
    /\ UNCHANGED <<sweep, fault, shard, pass, phase, proving, results, chipsOf,
                   compiled, profiling, announced, encoded, failed>>

Advance ==
    \/ Load \/ ParseGolden
    \/ StartPass \/ StartTraceRefused \/ RunStage \/ Check \/ Bind \/ EndPass
    \/ AllOk \/ Wire \/ FfiCheck
    \/ EndSweep

Exited == pc = "exited" /\ UNCHANGED vars

Next == Advance \/ Exited

Spec == Init /\ [][Next]_vars

\* One Python process; every stage call returns or raises.
FairSpec == Spec /\ WF_vars(Advance)

-----------------------------------------------------------------------------
(* Properties.                                                             *)

\* Every variable has its type.
TypeOK ==
    /\ sweep \in Sweeps
    /\ fault \in [Shards -> Faults]
    /\ shard \in 1..(sweep.shards + 1)
    /\ pc \in Steps
    /\ pass \in 0..Runs
    /\ phase \in 1..LastPhase
    /\ results \subseteq (1..Runs) \X (1..4)
    /\ chipsOf \in [Orders -> 0..sweep.shards]
    /\ profiling \in BOOLEAN
    /\ announced \subseteq Shards
    /\ encoded \subseteq Shards
    /\ failed \subseteq Shards
    /\ exit \in {"none", "zero", "nonzero"}

\* "the card holds one stage's working set at a time" (module docstring): when
\* a stage starts, no other stage result of this pass or of an earlier one is
\* referenced, save this pass's commit data.
StageAlone == pc = "run" => results = {<<pass, 1>>} \ {<<pass, phase>>}

\* "a phase-k mismatch aborts before phase k+1 pays its compile" (_timed): no
\* phase starts after a mismatch of one of the checked phases on its shard, in
\* this pass or an earlier one.
FailFast ==
    pc = "run" /\ Fault.kind = "mismatch" /\ Fault.phase <= LastPhase =>
        \/ pass < Fault.pass
        \/ pass = Fault.pass /\ phase <= Fault.phase

\* The sweep reports exactly the shards in trouble that the flags make it
\* meet, whatever happened to the shards before, and exits accordingly; "ALL
\* OK" goes to the shards none of whose checks failed, the proof hash to those
\* of them whose proof encodes.  Under a profiler a trace left running may
\* refuse the next shard's (TraceSpansLastPass); without a pass see
\* AllOkMeansProved.
VerdictIsOwn ==
    pc = "exited" /\ Runs # 0 /\ ~Profile =>
        /\ failed = {s \in Shards : Bites(fault[s])}
        /\ exit = "zero" <=> failed = {}
        /\ announced = {s \in Shards : ~FailsPhases(fault[s])}
        /\ encoded = {s \in announced : Wired /\ fault[s].kind # "encode"}

\* "reaching here means phases 1..n all byte-matched" and "every phase ran"
\* (_prove_shard_dir, at the ALL OK line and below): a shard past its passes
\* has made the calls of its phases.
AllOkMeansProved ==
    pc = "pass" /\ ~PassesLeft =>
        \A p \in 1..LastPhase : \E i \in DOMAIN calls : calls[i].stage = StageOf[p]

\* Two shards of one chip order, one resolved class and one jagged class.
SameClass(s, t) ==
    /\ ChipOrder[s] = ChipOrder[t]
    /\ Class[s] = Class[t]
    /\ Jagged[s] = Jagged[t]

\* "Run 1 is cold ... runs 2+ are warm" (--runs), and "the second same-class
\* shard ... must skip the cold compile" (--shard_dir): every compile is paid
\* in a shard's first pass, and never by a shard whose class an earlier one
\* proved, but for the pack zone, "a per-shard static" (warm_shard_cache), when
\* the row counts differ.
RidersCompileNothing ==
    \A c \in compiled :
        /\ c.pass = 1
        /\ \A t \in announced : t < c.shard /\ SameClass(t, c.shard) =>
                c.zone[1] = "pack" /\ Rows[t] # Rows[c.shard]

\* "Write an frx profiler trace of the last (warm) prove pass" (--jaxprof_dir):
\* while a trace runs the harness is in a shard's last pass.
TraceSpansLastPass == profiling => pass = Runs

\* The sweep ends, after every shard of the list.
SweepEnds == <>(pc = "exited" /\ shard = sweep.shards + 1)

\* "Same call order and transcript threading as the composite" (_prove_staged):
\* the calls the harness makes, and what each is given, are those of
\* ShardProver.prove.  A stage's outcome is the composite's when it returns.
Returned == pc = "check"
Composite == INSTANCE ShardProve WITH
    transcript <- IF Returned /\ phase > 1 THEN Append(transcript, StageOf[phase])
                  ELSE transcript,
    claim <- IF Returned /\ phase > 1 THEN ReducedBy[StageOf[phase]] ELSE claim,
    held <- IF Returned /\ phase = 1 THEN {"commitment", "commit_data"} ELSE held
ProvesAsComposite == Composite!Spec

=============================================================================
