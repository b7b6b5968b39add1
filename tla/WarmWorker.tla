----------------------------- MODULE WarmWorker -----------------------------
(***************************************************************************)
(* A compile-only cache worker: warm_worker.py, which drives the staged    *)
(* sweep over its shards, and warm_recursion_worker.py, which drives one   *)
(* recursion chain.  The main thread walks the chains with frx.jit         *)
(* intercepted: an outermost zone is lowered, its compile is queued for    *)
(* the pool's threads, and zeros stand in for its results; the zones it    *)
(* calls while it is traced are inlined.  Its keys must be those the real  *)
(* prove asks for, and its exit status must say whether it compiled them.  *)
(*                                                                         *)
(* A chain is a sequence of zone calls and host gates,                     *)
(* [kind, gate, call, committed], the last what the real jit makes of the  *)
(* result.  A call is [zone, shape, args, nested]; an argument is Host,    *)
(* Put (an eager device_put) or the position of an earlier item, whose     *)
(* result it is.  A cache key is [zone, shape, shardings], one sharding    *)
(* per argument.                                                           *)
(***************************************************************************)
EXTENDS Integers, FiniteSets, Sequences, Functions

CONSTANTS
    Chain,      \* per shard its chain
    Threads,    \* WARM_COMPILE_THREADS
    Kinds,      \* entry points: "sweep", "recursion"
    Modes,      \* "device", or "deviceless" with WARM_TARGET_CONFIG
    Seeds,      \* the persistent caches a worker may find
    Settings    \* whether the environment makes the cache strict

Shards == 1..Len(Chain)

Host == 0
Put == -1

\* _args_committed, leaf by leaf: res is what is known of the results so far.
Committed(arg, res) == arg = Put \/ (arg # Host /\ res[arg])

\* jax commits a jit's results when an argument is committed.
ArgsCommitted(call, res) ==
    \E i \in DOMAIN call.args : Committed(call.args[i], res)

IsZone(item) == item.kind = "zone"

\* Commitment along a chain under the real jit.
Lineage(s) == [i \in DOMAIN Chain[s] |-> Chain[s][i].committed]

\* Host checks on values zeros cannot satisfy, rebound at import.
PatchedGates == {"check_match", "absorb_grind"}

ASSUME WorkerAssumption ==
    /\ Threads \in Nat \ {0}
    /\ Kinds \subseteq {"sweep", "recursion"}
    /\ Modes \subseteq {"device", "deviceless"}
    /\ Settings \subseteq BOOLEAN

ASSUME ChainAssumption ==
    /\ Chain \in Seq(Range(Chain)) /\ Chain # <<>>
    /\ \A s \in Shards :
          /\ Chain[s] \in Seq(Range(Chain[s]))
          /\ \A i \in DOMAIN Chain[s] :
                LET item == Chain[s][i]
                IN  /\ item.committed =
                           (IsZone(item) /\ ArgsCommitted(item.call, Lineage(s)))
                    /\ IF IsZone(item)
                       THEN \A j \in DOMAIN item.call.args :
                                item.call.args[j] \in {Host, Put} \cup 1..(i - 1)
                       ELSE item.gate \in PatchedGates

VARIABLES
    kind, mode,
    strict,     \* FRX_PERSISTENT_CACHE_MIN_COMPILE_TIME_SECS=0, and
                \* FRX_RAISE_PERSISTENT_CACHE_ERRORS=true, are inherited
    main,       \* "chains", "drain", "uncaught" or "ended"
    at,         \* [shard, item] the main thread is at
    results,    \* per item passed, whether its result is committed
    stack,      \* zones under trace, outermost first, each [call, todo]
    depth,      \* _depth
    futures,    \* _futures with their compile: [key, state]
    cache,      \* keys in the persistent cache
    failed,     \* the sweep's failed shards
    drained,    \* futures _drain_compiles has counted
    stats,      \* [compiled, failed]
    exit,       \* "none", "ok", "failed" or "killed"
    executed,   \* outermost zones the real jit ran
    raised      \* shards whose chain broke by itself

trace == <<at, results, stack, depth>>
vars == <<kind, mode, strict, main, trace, futures, cache, failed, drained, stats,
          exit, executed, raised>>

-----------------------------------------------------------------------------
(* Commitment and keys.                                                    *)

\* Broken variant of ZoneZeros: the placement is dropped.
PlainZeros(call, res) == FALSE

\* _zone_zeros, as what later keys see of it.
ZoneZeros(call, res) == ArgsCommitted(call, res)

\* An argument's own sharding.
LocalDevice == IF mode = "device" THEN "cuda" ELSE "cpu"
Sharding(arg, res) ==
    IF Committed(arg, res) THEN LocalDevice ELSE "unspecified"

\* _lowering_args: deviceless, a committed leaf on the host's CPU becomes a
\* spec on the topology device.
LoweringSharding(sharding) ==
    IF mode = "deviceless" /\ sharding # "unspecified" THEN "cuda" ELSE sharding

Key(call, shardings) ==
    [zone |-> call.zone, shape |-> call.shape, shardings |-> shardings]

\* The keys a real prove of the shard asks for: those of its outermost zones.
Placed(arg, res) == IF Committed(arg, res) THEN "cuda" ELSE "unspecified"
ProveKey(s, i) ==
    LET call == Chain[s][i].call
    IN  Key(call, [j \in DOMAIN call.args |-> Placed(call.args[j], Lineage(s))])
ZonesOf(s) == {i \in DOMAIN Chain[s] : IsZone(Chain[s][i])}
ProveKeys(s) == {ProveKey(s, i) : i \in ZonesOf(s)}

-----------------------------------------------------------------------------
(* The main thread's walk.                                                 *)

Init ==
    /\ kind \in Kinds
    /\ mode \in Modes
    /\ strict \in Settings
    /\ main = "chains"
    /\ at = [shard |-> 1, item |-> 1]
    /\ results = <<>>
    /\ stack = <<>>
    /\ depth = 0
    /\ futures = <<>>
    /\ cache \in Seeds
    /\ failed = {}
    /\ drained = 0
    /\ stats = [compiled |-> 0, failed |-> 0]
    /\ exit = "none"
    /\ executed = {}
    /\ raised = {}

\* A recursion worker has one entry.
Entries == IF kind = "sweep" THEN Shards ELSE {1}
Walking == main = "chains" /\ at.shard \in Entries
AtItem == Walking /\ stack = <<>> /\ at.item <= Len(Chain[at.shard])
Item == Chain[at.shard][at.item]
Top == stack[Len(stack)]

\* The item's result is there: the walk moves to the next one.
Pass(committed) ==
    /\ results' = Append(results, committed)
    /\ at' = [at EXCEPT !.item = @ + 1]

NextShard ==
    /\ at' = [shard |-> at.shard + 1, item |-> 1]
    /\ results' = <<>>

\* The wrapper's depth guard.
Outermost == depth = 0

\* An intercepted call is traced: the zones it calls meet the wrapper too.
Intercept(call, outer) ==
    /\ depth' = depth + 1
    /\ stack' = Append(outer, [call |-> call, todo |-> call.nested])

\* The wrapper called from the chain; past the guard the real jit executes.
CallZone ==
    /\ AtItem
    /\ IsZone(Item)
    /\ IF Outermost
       THEN /\ Intercept(Item.call, stack)
            /\ UNCHANGED <<at, results, executed>>
       ELSE /\ executed' = executed \cup {Item.call.zone}
            /\ Pass(ArgsCommitted(Item.call, results))
            /\ UNCHANGED <<stack, depth>>
    /\ UNCHANGED <<kind, mode, strict, main, futures, cache, failed, drained, stats,
                   exit, raised>>

\* The wrapper called from a zone under trace; the real jit inlines.
CallNested ==
    /\ Walking
    /\ stack # <<>>
    /\ \E call \in Top.todo :
          LET rest == [stack EXCEPT ![Len(stack)].todo = @ \ {call}]
          IN  IF Outermost THEN Intercept(call, rest)
              ELSE stack' = rest /\ UNCHANGED depth
    /\ UNCHANGED <<kind, mode, strict, main, at, results, futures, cache, failed,
                   drained, stats, exit, executed, raised>>

\* lower and eval_shape are through: the compile is queued and zeros return.
Lowered ==
    /\ Walking
    /\ stack # <<>>
    /\ Top.todo = {}
    /\ depth' = depth - 1
    /\ stack' = SubSeq(stack, 1, Len(stack) - 1)
    /\ futures' = Append(futures,
          [key |-> Key(Top.call, [i \in DOMAIN Top.call.args |->
                       LoweringSharding(Sharding(Top.call.args[i], results))]),
           state |-> "queued"])
    /\ IF Len(stack) = 1 THEN Pass(ZoneZeros(Top.call, results))
       ELSE UNCHANGED <<at, results>>
    /\ UNCHANGED <<kind, mode, strict, main, cache, failed, drained, stats, exit,
                   executed, raised>>

\* Broken variant of ShardFails: the first dead chain ends the sweep.
SweepStops ==
    \/ /\ kind = "sweep"
       /\ failed' = failed \cup {at.shard}
       /\ at' = [shard |-> Len(Chain) + 1, item |-> 1]
       /\ results' = <<>>
       /\ UNCHANGED main
    \/ /\ kind = "recursion"
       /\ main' = "uncaught"
       /\ UNCHANGED <<failed, at, results>>

\* The sweep notes the shard and goes on; nothing catches it in run_entry.
ShardFails ==
    \/ /\ kind = "sweep"
       /\ failed' = failed \cup {at.shard}
       /\ NextShard
       /\ UNCHANGED main
    \/ /\ kind = "recursion"
       /\ main' = "uncaught"
       /\ UNCHANGED <<failed, at, results>>

\* A gate reads values: rebound it passes, otherwise zeros fail it.
Gate ==
    /\ AtItem
    /\ ~IsZone(Item)
    /\ IF Item.gate \in PatchedGates
       THEN Pass(FALSE) /\ UNCHANGED <<main, failed>>
       ELSE ShardFails
    /\ UNCHANGED <<kind, mode, strict, stack, depth, futures, cache, drained, stats,
                   exit, executed, raised>>

\* Broken variant of Unwound: the decrement is not in a finally.
NotUnwound == depth

\* Broken variant of Unwound: an except decrements what the finally does.
UnwoundTwice == depth - 2 * Len(stack)

\* Each frame's finally has run.
Unwound == depth - Len(stack)

\* Lowering or the chain's eager code raises: out of memory, a limit, a dump
\* that does not parse.
ChainRaises ==
    /\ Walking
    /\ raised' = raised \cup {at.shard}
    /\ depth' = Unwound
    /\ stack' = <<>>
    /\ ShardFails
    /\ UNCHANGED <<kind, mode, strict, futures, cache, drained, stats, exit, executed>>

ShardDone ==
    /\ Walking
    /\ stack = <<>>
    /\ at.item > Len(Chain[at.shard])
    /\ NextShard
    /\ UNCHANGED <<kind, mode, strict, main, stack, depth, futures, cache, failed,
                   drained, stats, exit, executed, raised>>

\* The chains are over, by SystemExit or by return.
Leave ==
    /\ main = "chains"
    /\ at.shard \notin Entries
    /\ main' = "drain"
    /\ UNCHANGED <<kind, mode, strict, trace, futures, cache, failed, drained, stats,
                   exit, executed, raised>>

-----------------------------------------------------------------------------
(* The compile pool and the end.                                           *)

Running == {i \in DOMAIN futures : futures[i].state = "running"}
Queued == {i \in DOMAIN futures : futures[i].state = "queued"}
Resolved(i) == futures[i].state \in {"ok", "failed"}

\* Broken variant of FreeThread: a failed compile takes its thread along.
ThreadOutlivesFailures ==
    Cardinality({i \in DOMAIN futures : futures[i].state \in {"running", "failed"}})
        < Threads

FreeThread == Cardinality(Running) < Threads

\* The pool's threads take the queue in order.
StartCompile ==
    /\ exit = "none"
    /\ FreeThread
    /\ \E i \in Queued :
          /\ \A j \in Queued : i <= j
          /\ futures' = [futures EXCEPT ![i].state = "running"]
    /\ UNCHANGED <<kind, mode, strict, main, trace, cache, failed, drained, stats,
                   exit, executed, raised>>

\* compile() writes the cache before the future resolves.  Unless the cache is
\* strict the write may not happen, and nothing is raised: a compile below the
\* time threshold is not written, an error on the way is a warning.
FinishCompile(i) ==
    /\ exit = "none"
    /\ i \in Running
    /\ \/ /\ futures' = [futures EXCEPT ![i].state = "ok"]
          /\ \/ cache' = cache \cup {futures[i].key}
             \/ ~strict /\ UNCHANGED cache
       \/ /\ futures' = [futures EXCEPT ![i].state = "failed"]
          /\ UNCHANGED cache
    /\ UNCHANGED <<kind, mode, strict, main, trace, failed, drained, stats, exit,
                   executed, raised>>

Counted(state) ==
    IF state = "ok" THEN [stats EXCEPT !.compiled = @ + 1]
    ELSE [stats EXCEPT !.failed = @ + 1]

\* _drain_compiles waits for the futures in order.
Drain ==
    /\ main = "drain"
    /\ drained < Len(futures)
    /\ Resolved(drained + 1)
    /\ stats' = Counted(futures[drained + 1].state)
    /\ drained' = drained + 1
    /\ UNCHANGED <<kind, mode, strict, main, trace, futures, cache, failed, exit,
                   executed, raised>>

\* _chain_rc: the sweep leaves with a payload when a shard failed.
ChainRc == IF failed = {} THEN "ok" ELSE "failed"

\* Broken variant of Verdict: the chain's own status is swallowed.
CompilesOnly == IF stats.failed > 0 THEN "failed" ELSE "ok"

Verdict == IF stats.failed > 0 \/ ChainRc # "ok" THEN "failed" ELSE "ok"

AllDrained == drained = Len(futures)

Exit ==
    /\ main = "drain"
    /\ AllDrained
    /\ main' = "ended"
    /\ exit' = Verdict
    /\ UNCHANGED <<kind, mode, strict, trace, futures, cache, failed, drained, stats,
                   executed, raised>>

\* An uncaught exception: the interpreter joins the pool, then fails.
ExitUncaught ==
    /\ main = "uncaught"
    /\ \A i \in DOMAIN futures : Resolved(i)
    /\ main' = "ended"
    /\ exit' = "failed"
    /\ UNCHANGED <<kind, mode, strict, trace, futures, cache, failed, drained, stats,
                   executed, raised>>

\* The process dies: a device abort, the kernel's out-of-memory killer.
Killed ==
    /\ exit = "none"
    /\ main' = "ended"
    /\ exit' = "killed"
    /\ UNCHANGED <<kind, mode, strict, trace, futures, cache, failed, drained, stats,
                   executed, raised>>

Ended == exit # "none" /\ UNCHANGED vars

Step == \/ CallZone \/ CallNested \/ Lowered \/ Gate \/ ShardDone
        \/ Leave \/ Drain \/ Exit \/ ExitUncaught
Compile == StartCompile \/ \E i \in DOMAIN futures : FinishCompile(i)

Next == Step \/ Compile \/ ChainRaises \/ Killed \/ Ended

Spec == Init /\ [][Next]_vars

\* The main thread and the pool's threads keep running.
FairSpec == Spec /\ WF_vars(Step) /\ WF_vars(Compile)

-----------------------------------------------------------------------------
(* Properties.                                                             *)

Sharded == {"unspecified", "cpu", "cuda"}

\* Type invariant of the worker's state.
TypeOK ==
    /\ kind \in Kinds /\ mode \in Modes /\ strict \in Settings
    /\ main \in {"chains", "drain", "uncaught", "ended"}
    /\ at.shard \in 1..(Len(Chain) + 1) /\ at.item \in Nat \ {0}
    /\ \A i \in DOMAIN results : results[i] \in BOOLEAN
    /\ depth \in Nat
    /\ \A i \in DOMAIN futures :
          /\ futures[i].state \in {"queued", "running", "ok", "failed"}
          /\ Range(futures[i].key.shardings) \subseteq Sharded
    /\ failed \subseteq Shards /\ raised \subseteq Shards
    /\ drained \in 0..Len(futures)
    /\ exit \in {"none", "ok", "failed", "killed"}

Submitted == {futures[i].key : i \in DOMAIN futures}
Walked == {s \in Entries : s < at.shard} \ (failed \cup raised)

\* warm_worker: the worker compiles what a prove of its shards asks the cache
\* for and nothing else: the committed placement of the zeros, the depth guard
\* and the deviceless translation together keep the keys the prove's.
KeysAreTheProves == Submitted \subseteq UNION {ProveKeys(s) : s \in Entries}

\* staged_prove_shard.main: a shard whose chain died costs no other shard its
\* keys, whatever the zone it died in left behind.
OthersStillWarm == \A s \in Walked : ProveKeys(s) \subseteq Submitted

\* warm_worker: the worker never executes a kernel; its few GiB rest on that.
NothingExecutes == executed = {}

Compiled == {futures[i].key : i \in {j \in DOMAIN futures : futures[j].state = "ok"}}

\* warm_worker: exit 0 means that every zone a prove of its shards asks for was
\* compiled, the chains walked to their ends and every future joined, and where
\* the cache is strict that it holds them; exit 1 that a chain or a compile
\* broke by itself.
ExitTellsTheTruth ==
    /\ exit = "ok" => \A s \in Entries :
            /\ ProveKeys(s) \subseteq Compiled
            /\ strict => ProveKeys(s) \subseteq cache
    /\ exit = "failed" => raised # {} \/ \E i \in DOMAIN futures :
                                      futures[i].state = "failed"

\* "A real prove of a WARMED shard later hits every entry with zero recompiles"
\* (warm_shard_cache): a worker that reports success has the keys of its shards
\* in the cache.
SuccessMeansCached == exit = "ok" => \A s \in Entries : ProveKeys(s) \subseteq cache

\* warm_worker: a worker that exits has no compile left in its pool, and a
\* draining one has told every failure apart from a compiled zone.
PoolIsDone ==
    exit \in {"ok", "failed"} =>
        /\ \A i \in DOMAIN futures : Resolved(i)
        /\ main = "ended" /\ drained = Len(futures) =>
              stats.failed = Cardinality({i \in DOMAIN futures :
                                              futures[i].state = "failed"})

\* warm_worker: every worker comes to an end.
WorkerEnds == <>(exit # "none")

=============================================================================
