# sp1-zorch in TLA+

sp1-zorch proves SP1 shards on GPUs: commit to the traces, LogUp-GKR,
zerocheck, jagged opening. Around the prover stand a staged harness that proves
a shard section by section against recorded goldens, and a warm that fills the
persistent compile cache before anybody proves. The modules here model the
control of that code: the order of calls, what is shared, what fails and what
is then reported. Field arithmetic, hashing and device memory are abstracted to
what a property tells apart.

## Inventory

`S/` is `src/sp1_zorch/shard_prover/`.

| component | state | operations | what is hard | what makes it correct |
|---|---|---|---|---|
| warm pool (`S/warm_shard_cache.py: _warm`) | group queue, per-GPU queues, running table, counters | dispatch, launch, poll, solo retry, verdict | workers exit between polls, readings go stale, retries after the drain | budgets and group placement hold for live processes, every shard is accounted for, the exit status is true |
| compile classes (`S/compile_classes.py`) | none | tight classes, quantizers, manifest match, resolution | planner and prover take two code paths to one compile key | caps admit every member; no foreign class |
| warm cover (`S/warm_shard_cache.py: _plan, select_warm_shards`) | selection, covered keys | greedy pick per kind, contract check | four kinds of key, order variants, partial registries | no shard left out of the warm compiles cold |
| warm worker (`S/warm_worker.py`) | depth of the intercepted jit, compile futures, counts | intercept, submit, drain, exit | nested zones, compiles in threads, a chain that dies | keys are the prove's; exit 0 only if everything compiled, and is cached where the cache settings make it so |
| recursion warm (`S/warm_recursion*.py`) | counters | one worker per entry | - | as the warm pool, sequential |
| staged harness (`S/staged_prove_shard.py`) | per shard: pass, stage, checks, resident stages; per sweep: results, shared chips, executables, profiler | load, parse goldens, passes, checks, release, encoder, FFI check | fail-fast, survivors between stages, a pass that raises, static keys of several kinds | verdicts are the shard's own; sections chained as in the composite; a shard of a class proved before compiles nothing |
| composite prover and verifier (`S/prove_shard.py`, `S/verify_shard.py`) | transcript, claims | commit, bind, three reductions | both sides must keep one transcript | lockstep, all legs decide |
| LogUp-GKR (`src/sp1_zorch/logup_gkr/`) | arena, pyramid, round caps, transcript | pack, lay in, fold, head, layers, openings | layout into capped arenas with overlapping, clamped writes | the layer is the shard's own whatever the class; no layer outgrows its static width |
| zerocheck (`src/sp1_zorch/zerocheck/`) | packed columns, round state | pack, fold rounds, chunked prefix | static caps halve with runtime heights; windows read past a segment | the messages are those of the bare columns |
| jagged PCS (`src/sp1_zorch/jagged_pcs/`) | indicator chunks | commit, open, eval rounds | chunks recomputed for some rounds only | chunked equals unchunked |
| serializer, loaders, fixture generator | none | conversions and file parsing | - | not state machines |

The pool starts workers as subprocesses and talks to them through the exit code
and the cache directory. A worker drives the staged harness under a patched
`jit`. The harness calls the same stage provers as the composite prover. The
cover decides which shards the pool is given, and the manifest the planner
writes decides which classes both worker and later prove resolve to. Those
classes size the buffers of the two engines, `GkrCapClass` the layers of
LogUp-GKR and the area cap the rounds of zerocheck: what the engines compute
must not depend on them.


Components listed in `PROJECT.json` as `not_modelled` are named with the reason
under [What is left out](#what-is-left-out).

## Modules

| module | models | state in TLA+ and in the code |
|---|---|---|
| `WarmPool` | `_warm`, `_group_queue`, `front_load`, `launch_allowed`, `_gpu_free_gib`, `_solo_retry` | `groupQ`, `pending`, `running`, `gpuOf` are `group_q`, `queues`, `running` and the GPU recorded with each process; `proc` is what the operating system knows; `toPoll`, `toVisit` are the loop variables of a round |
| `WarmJob` | what `_warm` promises | fate of each shard, and the verdict |
| `WarmWorker` | `warm_worker`, `warm_recursion_worker` | `depth`, `futures`, `stats` are `_depth`, `_futures`, `_stats`; `stack` is the Python call stack through the wrapper; `cache` is the shared directory |
| `CompileClasses` | `compile_classes.py`: no state | operators named as the functions |
| `WarmCover` | `_plan`, `select_warm_shards`, `check_warm_cover`, then the workers and the proves | `selected`, `covered` and the loop position `kind`, `todo`; `cache` as above |
| `StagedHarness` | `staged_prove_shard.py`: `main`, `_prove_shard_dir`, `_prove_staged`, `_timed` | `transcript`, `claim`, `held`, `results` are what the prove keeps; `chipsOf` is `shared_chips`; `compiled` is what jit holds in the process, with the shard and pass that paid for it; `fault` is drawn once and says what is wrong with each shard |
| `ShardProve` | the composite `ShardProver.prove` as an abstract chain of calls | the calls made and what each was given |
| `ShardTranscript` | the Fiat-Shamir schedule both roles follow | a transcript is the sequence of what was absorbed and drawn |
| `ShardProver`, `ShardVerifier` | each stage, and its dual | pure operators: what the role refuses, its transcript, section, claim or verdict |
| `ShardChain` | `ShardProver.prove`, `ShardVerifier.verify` | one record per role, and the proofs made |
| `GkrLayout` | `logup_gkr/circuit.py`, the stage body of `logup_gkr/prover.py` | `planes` are the four planes of the arena, `arrival` is `main_flat`, `layers` and `rounds` the pyramid and `layer_caps`, `opened` the openings |
| `JaggedRounds` | `zerocheck/jagged.py` | `halves` is the packed state of a round as its stride-2 halves, `heights`, `geq`, `eq` the scalars the scan carries |
| `ZerocheckFold` | what `JaggedRounds` promises | the messages and finals of the sumcheck of the bare columns |
| `Recurrences` | `cumsum`, `log2_ceil`, repeated schedules | functions: running sums, iteration, powers of two |

`WarmPoolProofs`, `WarmWorkerProofs`, `WarmCoverProofs`, `StagedHarnessProofs`,
`ShardChainProofs`, `GkrLayoutProofs`, `JaggedRoundsProofs` and
`RecurrencesProofs` extend the module they name; the pool's, the chain's and the
two engines' proofs share the last, and the cover's begin with the quantizers of
`CompileClasses`. The modules `MC...` only give
constants their values. `StagedHarness` has `ShardProve` as `Composite`,
`WarmPool` has `WarmJob` as `Job`, `JaggedRounds` has `ZerocheckFold` as
`Promise`; `WarmCover` extends `CompileClasses`; `ShardChain` extends
`ShardVerifier`, which extends `ShardProver` and `ShardTranscript`; `WarmPool`,
both engines, `ZerocheckFold` and `ShardTranscript` extend `Recurrences`.

### Warm pool

`Dispatch` is one statement of the dispatcher at a time: the visit of one GPU,
the launch of one shard, the poll of one process, the drain test, the solo
retry's launch and wait, the verdict. `WorkerExit` is the operating system's
and may happen between any two of them, with any exit code, and with or without
having written to the cache. A reading of `nvidia-smi` is chosen anew each time
and may be unreadable.

`WarmJob` forgets GPUs, queues, budgets and polling. It keeps the promise that
a shard is tried once, retried at most once and alone, and that success means
every shard ended warm.

### Warm worker

`CallZone`, `CallNested`, `Lowered` are the wrapper at its three moments: called
from the chain, called from a zone under trace, and left. `ChainRaises` may
strike at any depth; what then happens is `ShardFails`, the `except` of the
sweep, or nothing in a recursion worker. The pool's threads take the queue in
order and each compile may fail. A compile that succeeds writes its key when the
cache is `strict`: `FRX_PERSISTENT_CACHE_MIN_COMPILE_TIME_SECS=0` and
`FRX_RAISE_PERSISTENT_CACHE_ERRORS=true`, which `docs/development.md` asks for,
are in the environment the worker inherits, and a write that fails fails the
compile. Without them it may leave the cache as it was, silently. `Killed` is a
device abort.

A chain is data: zones with their arguments, and the host gates the worker
rebinds. `ChainAssumption` says that each item's `committed` is what jax makes
of it; `ProveKeys` are the keys of the real prove. The two sides meet in
`KeysAreTheProves`.

### Compile classes and cover

The planner's path (`CoverPair`) and the prove's path (`ProvePair`) are separate
translations over one class math, as in the code, and `NoColdProve` compares
them. `ClassName` is the label of a chip set in a manifest; two chip sets with
one label are excluded by `IsDump`, which for the code means that eight hex
digits of a hash do not collide within a dump. `manifest_entry_for` does not
rely on it, and `ForeignClassNeverServed` does not either.

`Resolve` has the three levels of `resolve_classes`: a shard's own class, the
class flags `--zc_class_json` and `--gkr_class_json`, the manifest entry, each
replacing the fields it names. The planner and its workers pass no class flags;
a later prove may, and under the planned manifest, whose entries name every
field, `NoColdProve` says that they change nothing. Under a partial registry
they may, so it says so only of proves without them. A worker of `WarmCover`
that succeeds has written its keys, so the cover is stated for strict caches;
what becomes of them otherwise is the worker's matter.

### Staged harness

One prove is the sequence of calls `commit`, `gkr.prove`, `zerocheck.prove`,
`opening.prove` with what each is given; `ProvesAsComposite` maps it to
`ShardProve`. A fault of a shard is a missing or malformed file, a mismatch in
a phase, an exception in a phase, or a rejection by the FFI verifier.
`VerdictIsOwn` relates the exit status and the printed lines to these faults;
under `--jaxprof_dir` a trace left running can refuse the next shard's, which is
the finding `TraceSpansLastPass`, so the property leaves that case out. It is
about sweeps of at least one pass: with `--runs=0` a shard is announced that
proved nothing, which is the finding `AllOkMeansProved`.

A stage compiles the executables of its `Zones` that the process lacks. A zone
is its static key: the commit of a region its shape, the GKR and zerocheck
bodies the chip objects, compared by identity, with the resolved class, the
opening's evaluation and prologue the derived jagged class, and its pack the
exact row counts of the regions. `RidersCompileNothing` says who pays: a shard
in its first pass, and no shard that has the order, the resolved class and the
jagged class of one announced before it, but for the pack. The row counts are
one value per shard, and the preprocessed heights of an order do not vary.
Coarser sharing in the code is left out: zones keyed on one chip, which two
orders may share, and the fold, which all shards do.

### Prover and verifier

A message is `[of, at]`: the shard whose prove computed it and the transcript
it was computed for. A challenge is the transcript it is drawn from. So a value
is what an honest prover would send there, or it is not, and a dual's legs
compare these. Field arithmetic is thereby taken as sound: a sumcheck message
computed for another claim or other challenges is taken to fail, and an output
denominator is taken to be nonzero. `bind_structure`, `structure_counts`,
`assemble_columns` are zorch's and are modelled from their use.

After up to `MaxProofs` proves, `Verify` puts a proof together: sections of one
prove or of two, with at most one stale field. The verifier walks its duals and
its verdict is their conjunction; it goes on after a failed leg, as the traced
code does.

### LogUp-GKR layout

The stage is a sequence of writes into buffers whose size is that of a class.
`LayIn` is one interaction: it writes a block as long as the class allows, at
the start the shard's own heights give, so each write overruns into the next
segment's place and the next write covers it again; `LayTail` is the last, with
the padding segments and a zero sweep. `dynamic_slice` and
`dynamic_update_slice` clamp their start, and `Clamped` keeps that: a block that
does not fit would silently move. A cell names a place in a trace, a field value
is a linear combination of cells, and `FormTable` is the batched weight matrix
with its column `const`; `LayerIsExact` compares what the matrix yields with
each interaction taken form by form. The pyramid is kept as its row counts and
widths, since the field arithmetic of a transition is zorch's. An opening is the
set of rows that enter it, each with its evaluation point, so a row folded at
the wrong point, twice or not at all shows.

### Zerocheck rounds

A field value is the set of cells folded into it, each with the bits it was
bound at, so two values are equal only if the same rows were combined in the
same way. The engine sends a message per round from the packed buffer
(`RoundStep`) or, in the chunked prefix, from windows it rebuilds from the
arrival (`ChunkRound`, then `Materialize`). The buffer's caps are static:
`BufferCap` halves with the rounds in the unrolled prefix and stays in the scan.
`ZerocheckFold` has no buffer, no caps, no chunks and no classes;
`ImplementsFold` says that none of them shows in a message or a final
evaluation. Constraint evaluation and the interpolation of the round polynomial
are symbolic: a message is the terms that enter it.

## Runs

| run | question | size |
|---|---|---|
| `pool_gpus` | does the pool keep budgets, groups, bookkeeping and verdict, and does it end | 5 shards in 3 groups, 2 GPUs, 2 jobs; one peak above the budget, readings below and above a peak and an unreadable one |
| `front_shards`, `served` | violated: what the flags and comments say of order and of exit 0 | 5 shards, one list |
| `warm_worker` | are the keys the prove's and the status true | chains of 5 and 3 items, 2 threads, empty or seeded cache, strict or default settings, both entry points, with and without device |
| `warm_cover` | does the cover leave a cold prove | every dump of 3 shards over a set of records that differ in order, height, jagged key and chip set, with every registry and both granularities; for the proves five settings of the class flags |
| `staged_sweep` | verdicts, fail-fast, memory, compiles, and the composite's calls | eight sweeps of 2 or 3 shards with 0, 1 or 2 passes, up to phase 2, 3 or 4, of equal and of differing orders, area caps, jagged classes, tiers and row counts, with every combination of faults |
| `staged_trace` | violated: the trace spans only the last pass | 2 shards, profiler |
| `shard_chain` | lockstep, completeness, soundness of the composition | 16 shards, 2 proves, all mixes of their sections, 9 stale fields |
| `chain_tall_prep`, `chain_rounds` | violated: honest proofs the verifier rejects, or raises on | 1 and 9 shards, one prove |
| `gkr_layout` | are the first layer, the pyramid's widths and the openings those of the shard alone | 4 chips, 5 interactions, 8 shards of heights up to 16, 6 classes and each shard's own |
| `jagged_rounds` | do the rounds, however they are built, send the messages of the bare columns | 3 chips, 4 variables, 50 shards, 11 forms of the call |

Why these bounds. In the pool every rule relates at most two workers on a card,
or a worker and a waiting group: three groups on two GPUs leave one waiting, and
a lone over-budget shard, a rider and a solo retry all occur. In the worker two
shards are needed for what one leaves to the other, two threads for completion
out of order. In the cover three shards are a carrier, a shard it covers and one
of another class; the area and slot quanta, 16 and 8, are larger than the
headroom of these small shards, so that a cap rounded down would not admit them.
In the harness a second pass is needed for what the first leaves, a third shard
for what a chip order shares across one of another order or another jagged
class. In the chain two proofs are enough: a stale value or a foreign section
comes from one other proof. In the layout a class must be able to exceed a shard
in each chip, a chip to have no interaction at all, an interaction to read a
preprocessed trace shorter or longer than the main one and the padding segments
to be more than one; the classes include one too small for some shards, one
whose slot cap is below its own bounds, and one too tall for the depth. In the
rounds four variables with three unrolled rounds leave one round to the scan;
the heights include zero, one, odd ones, the full hypercube and beyond it; the
chunks are of one row, of a few and of a whole chip, of a depth below and beyond
what the caps allow.

Two more configurations are not among the runs and are meant to fail:
`MCStagedNoPass.cfg` (module `MCStagedHarness`) violates `AllOkMeansProved`, two
shards under `--runs=0`; `MCWarmWorkerUnwritten.cfg` (module `MCWarmWorker`)
violates `SuccessMeansCached`, the chains of `warm_worker` under default cache
settings. Each reproduces a disagreement listed under [Findings](#findings).

Deadlock is checked in every run: the ends of the programs are explicit
stuttering actions.

Fairness: in the pool, of the dispatcher, which is a running process, and of
every worker's end. The second is an assumption on workers, since `_warm` has no
timeout. In the worker, of its main thread and of its compile threads; in the
harness of the one process. The chain and the two engines have no liveness
property: they are functions, and every step they take is one of a bounded
number.

## Findings

- `--front_shards` has no effect without `--gpus`: `_warm` sorts the list again.
- `entries == 0` cannot hold when the manifest is written into the cache
  directory, so a warm that filled nothing exits 0.
- A pass that fails leaves the profiler running into the next shard.
- A preprocessed trace taller than its main trace makes the verifier reject an
  honest proof: it takes the prep's row counts from the main chips.
- A stacking pad that crosses a power of two makes the verifier raise on an
  honest proof: it counts the outer rounds from the raw area.

The lines are quoted in `PROJECT.json`. The last two concern shapes the present
fixtures do not have.

Two more, with their own configurations:

- With `--runs=0`, which the flag admits, the loop over passes makes none: no
  phase runs, no golden is compared, and `byte-match: ALL OK` is printed
  (`S/staged_prove_shard.py:668`). The comment above says "reaching here means
  phases 1..n all byte-matched" (666-667), the one below "n >= 4 means every
  phase ran" (671-672). `MCStagedNoPass.cfg`.
- `_warm` gives its workers the cache directory and leaves the cache's time
  threshold and error handling as they are (`S/warm_shard_cache.py:611-617`);
  their defaults admit nothing and swallow errors (`docs/development.md:207`). So
  a worker's exit 0 does not mean that "a real prove of a WARMED shard later hits
  every entry with zero recompiles" (`S/warm_shard_cache.py:21-22`) unless the
  operator has exported both flags; with them it does, which `warm_worker`
  checks. `MCWarmWorkerUnwritten.cfg`.

## Proofs

Everything below holds for all values of the constants that meet the named
assumptions, which TLC evaluates on each run.

**Pool.** `IInv` is `TypeOK` with six parts: `Places` (each shard is in one of
the queues, running, retried or done), `Outcomes` (what the process table says
agrees with that), `Homes` (a group's shards are on one GPU), `Counts` (the
counters count sets of shards), `JobsCounted` and `BudgetCounted` (the bounds,
on the workers the dispatcher counts). None of the theorems' properties
is inductive without them: the verdict, for one, follows from counters only
because a shard is in one place. From `IInv` follow the solo retry, the group
placement, the jobs bound, the accounting, the exit status, and that every step
is a step of `WarmJob`. `MemoryBudget` is about the processes alive, and
`BudgetCounted` about the entries of `running`: a live worker is one of those
until the pool drained, and alone afterwards. `Used` is a running sum over the
shards, so that one more worker adds its peak and fewer never need more.

**Worker.** `IInv` is `WalkInv` (the depth is the length of the trace, and the
zeros passed are committed as the prove's results at the same positions),
`KeyInv` (queued keys are the prove's, and no zone passed is missing),
`PoolInv` (what was drained is resolved and counted) and `EndInv`.
`KeysAreTheProves` is not inductive because a key depends on earlier results;
`SameCommitment` carries `WalkInv` to the arguments of the item at hand.
`ExitTellsTheTruth` then follows because a success has no failed shard, so
every chain was walked, and no failed future, so every key was compiled, and a
key compiled under a strict cache was written. `WorkerAssumption` types the
thread count and the settings.

**Cover.** `CoverInv` states what the loop has achieved for the kinds and shards
it is through with; `AreaInv` that it goes by falling area; `CacheInv` what
workers leave. `ProveFollowsCover` is the heart: two shards that the planner
gives one key of each kind compile the same keys. An entry of the planned
manifest names every field, so that `FlagsIgnored` reduces a prove with class
flags to one without. The quantizers cover what
they quantize, so the planned caps admit every member.

**Harness.** `Inv` says where the harness may be (`Located`), what is referenced
when a stage starts, has returned, and at the bind (`Releases`), where the
current shard's trouble still lies (`Ahead`), what has been told of each shard
(`Told`), whose chips are lent and who compiled what with them (`Lent`), and how
many calls were made and what is kept (`Threading`). `VerdictIsOwn` is not
inductive because it speaks of the end: `Ahead` is what makes a shard that
reaches "ALL OK" one that no fault could stop, and `Told` carries it past the
shard; both need a pass, hence `Runs # 0`. `MismatchStops` is `Ahead` at a
running phase. `RidersAreWarm` rests on `Lent`: an announced shard, or one past
its first pass, has all its zones among the executables, and two shards of one
order have one lender, so that with equal classes their zones are the same keys.
`HarnessRefinesProve` maps every step to a call of `ShardProver.prove`, to a
restart or to a stutter, and needs only `Threading`. `SweepsAssumption` says
that a command line is one: each of its shards has an order, a class, a jagged
class and row counts.

**Chain.** The properties compare two roles that never meet, so none is
inductive. `ChainInv` says where each role is as a function of its inputs: after
its stages a prove of a shard holds `GkrOf(id)`, `ZerocheckOf(id)`,
`OpeningOf(id)`, and a verification of a statement and an assembly holds
`GkrDual`, `ZerocheckDual`, `OpeningDual` with the verdict of the legs so far.
What remains is about these operators alone. `SameSeams` unfolds both sides:
with equal inputs a stage and its dual make one transcript. `HonestAccepted`
adds that every leg holds over it, and that the dense buffer has the variables
the statement gives. `RaisesOnShapeOnly` follows the shape of each section
through every stale value. `BoundBeforeDrawn` is carried by `InOrder`: every
challenge drawn so far comes after what it binds, the names absorbed are known,
and as many `r` and `zc` were drawn as layers and round polynomials absorbed;
each transcript operation keeps it, and the rounds of a sumcheck keep it for any
number of them. `AcceptedIsProved` argues backwards from the legs: a stale value
is of no prove, or is a point never drawn, so nothing is stale; the messages of
each section are of one prove and each section's legs name the prove of the one
before; the last root rebound is that prove's commitment; and the output was
made at the very head the verifier sampled, whose transcript starts with the
statement's preamble, so the statement is the prove's. `StageAssumption` has a
point variable for every zerocheck round, as `num_row_variables` is one less
than `max_log_row_count`; `ShardAssumption` types the shards, with preprocessed
traces absent or of positive width, and says the verifying key commits to the
preprocessed region; `StaleAssumption` names the fields a stale value can be in.
That equal challenges come only of equal transcripts, and that a root binds its
content, is in the model's terms and not proved.

**Layout.** The invariant behind `TightLayout` adds that the live prefix of each
segment laid so far holds its own block; a step then needs that a block written
at its tight start stays in the arena, hence is not moved by the clamp, and that
what it overruns is either not laid yet or laid again. Both follow from the slack
of one class segment behind the arena and from the tight counts being at most
the class's. `PyramidHoldsShard` needs that the next row counts of a shard stay
under those of its class, that their sum stays under half the width plus two
per segment, and that `row_cap` covers what it is given.

What the layout holds is exact, not only within bounds. `ArrivalHolds` is a
second invariant: the arrival packed at class heights has each live cell at its
class place and zeros at the dead rows, though the committed trace it is sliced
from is laid at the shard's own heights, because a slice of class length at the
last column still fits the dense cap (`DenseRoom`). From it `OpeningsExact`
follows by way of `BindRowsFolds`: a bind joins folds of 2^t rows into folds of
2^(t+1), and a chunk of rows is a power of two below the padded height
(`FoldChunkHolds`), so chunked and whole folds are the same set of rows.
`FirstLayerExact` needs both invariants. `FormTableHolds` finds each form where
`value_idx` looks for it, since two values of a chip never share a place;
`FormExact` shows that weights summed column by column give the form taken term
by term, since no two columns of a row hold the same cell (`RowCellsDiffer`); a
padded value points at the zero form and adds nothing (`RowFractionExact`).

`LayoutAssumption` says that widths, heights, bounds and the stacking are natural
numbers and the depth is positive. `FormAssumption` says that a form names
columns its chip's traces have, as the code indexes its weight row with them;
terms of a preprocessed trace the chip does not have may name anything, as the
code drops them.

**Rounds.** `CapsHoldTheArea` says that halving every chip's height and padding
it to even never outgrows `NextArea`, round by round, however the area is
spread over the chips, which is what the static schedule rests on; the chunk
class's caps cover each chip's live pairs likewise. On these bounds rests
`ExactInv`: the eq table and the virtual geqs are the ones of the round
(`ScalarsExact`), heights are within the hypercube, and the state is exact
(`StateExact`): the arrival in the prefix, every slot of the buffer and the zeros
behind them afterwards. It is inductive only with the caps: a gather finds the
row it wants because `searchsorted` over the segment starts finds the segment
(`SegmentStarts`, `GatherExact`), a window is not clamped because it fits
(`WindowFits`), a chunk's masked levels fold to the pairs the rounds would have
folded (`ChunkExact`), and a chip's overhang is overwritten by the next chip's
block or is zero (`PlaneStep`). `PackedStateHolds` and
`RoundsImplementTheFold` follow from it: a live chip's terms are the promised
ones (`WindowTermsExact`, `ChunkTermsExact`), and so is the correction at the
last live pair (`MessageExact`). `RoundsAssumption` says that a class area is
even, that there is a chip (the code raises when there is none) and each has a
column, and that a chunk plan's depth, cap and heights are natural numbers.

**Recurrences.** The prover knows nothing of `2^n` for a variable `n`, and
induction theorems with an operator parameter cannot be instantiated. So powers
and schedules are `Iterate` of a function, sums are `Prefix`, and
`RecurrencesProofs` proves what is needed of them from their defining equations
by way of a least counterexample among the natural numbers.

Every invariant that a run checks is a theorem. Model-checked only: all liveness
and the fairness half of the pool's refinement, which need ENABLED.

## What is left out

- The chunked evaluation of the jagged PCS, the zerocheck prover's structure
  probe and memo: not modelled yet.
- The public-values bus: transliterated constraint arithmetic; the chain takes
  its verdict as an input.
- Serializer, loaders, fixture generator: conversions and parsing. No property
  here is about the bytes; what the wire omits is in the chain's sections.
- The recursion warm's parent process (a loop over entries) and its synthetic
  shard.
- FFI cross-checks, the runnables that verify one stage, Poseidon2 parameters:
  I/O, thin drivers and constants.
- Field arithmetic: the transition of a GKR layer, constraint evaluation, round
  polynomials, hashing. Printing, timing, telemetry.

Two hazards have no property. The pool has no timeout, so its end can only be
stated for workers that exit. A peak is estimated from a shard's own area while
its worker compiles at the class's; the pool takes peaks as given, and only its
composition with the cover could relate the two.

## Plan

Done: the pool, the cover, the harness, the chain, the worker, the GKR layout,
the zerocheck rounds, in the order of what an error in them costs. Open, in that
order:

1. `_chunked_eval` of `jagged_pcs/prover.py` against the unchunked rounds, as
   `JaggedRounds` does for the zerocheck.
2. `ZerocheckMemo`: the structure probe and memo of the zerocheck prover.
3. The composition of the pool with the cover, for the peak of a pinned class.
4. `Serializer`: the section order of the wire format against the verifier's.
5. `RecursionWarm`: the sequential parent, over `WarmWorker`'s exit statuses.
