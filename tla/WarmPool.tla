------------------------------ MODULE WarmPool ------------------------------
(***************************************************************************)
(* The peak-aware warm pool of shard_prover/warm_shard_cache.py: `_warm`   *)
(* and its helpers front_load, launch_allowed, _gpu_free_gib, shard_peaks, *)
(* _group_queue and _solo_retry.                                           *)
(*                                                                         *)
(* One Python process dispatches shard-warming subprocesses over the GPUs, *)
(* polls them, retries every failed shard once after the pool drained, and *)
(* turns the outcome into its exit status.  The subprocesses terminate on  *)
(* their own, at any moment between two statements of the dispatcher.      *)
(*                                                                         *)
(* Shards are numbered in dump-directory order, GPUs in --gpus order and   *)
(* chip-set groups in the order `_analyze` first meets them.               *)
(***************************************************************************)
EXTENDS Integers, FiniteSets, FiniteSetsExt, Recurrences

CONSTANTS
    NShards,         \* number of shards handed to _warm
    NGpus,           \* number of --gpus entries; 1 when --gpus is empty
    GpusGiven,       \* TRUE iff --gpus is not empty
    ChipSet,         \* the chip-set group of each shard
    Area,            \* area_cap of each shard's class (scaled)
    Peak,            \* peaks[s]: estimated or overridden peak GiB
    FrontRank,       \* index in --front_shards; larger than any for the rest
    Rider,           \* the per-shard cost term of _group_queue (scaled 120e6)
    Budget,          \* --mem_budget_gib
    Jobs,            \* --jobs
    Headroom,        \* _LAUNCH_HEADROOM_GIB (scaled with Peak and FreeGib)
    FreeGib,         \* readings nvidia-smi may return, Unreadable among them
    Unreadable,      \* the None of _gpu_free_gib
    ManifestInCache  \* TRUE iff main wrote group_manifest.json into cache_dir

Shards == 1..NShards
Gpus == 1..NGpus

\* `--jobs` and `--gpus` carry no bound in the flags: Jobs >= 1 is what the
\* dispatcher needs to make progress, and a warm of no shards dies on
\* peaks[shards[0]] before it dispatches.
ASSUME PoolAssumption ==
    /\ NShards \in Nat \ {0}
    /\ NGpus \in Nat \ {0}
    /\ GpusGiven \in BOOLEAN
    /\ ~GpusGiven => NGpus = 1
    /\ ChipSet \in [Shards -> Nat]
    /\ Area \in [Shards -> Nat]
    /\ Peak \in [Shards -> Nat]
    /\ FrontRank \in [Shards -> Nat]
    /\ Rider \in Nat
    /\ Budget \in Nat
    /\ Jobs \in Nat \ {0}
    /\ Headroom \in Nat
    /\ Unreadable \notin Nat
    /\ FreeGib \subseteq Nat \cup {Unreadable}
    /\ FreeGib # {}
    /\ ManifestInCache \in BOOLEAN

-----------------------------------------------------------------------------
(* The work queue: groups costliest first, shards biggest first.           *)

\* One group per chip set when GPUs are named, else one list of every shard.
GroupOf(s) == IF GpusGiven THEN ChipSet[s] ELSE 0
Members(g) == {s \in Shards : GroupOf(s) = g}
AllGroups == {GroupOf(s) : s \in Shards}

\* _group_queue: the compile cost of a group, with a rider term per shard.
GroupCost(g) ==
    2 * Max({Area[s] : s \in Members(g)}) + Rider * Cardinality(Members(g))

\* group_q.pop(0): the costliest group, the first met one among equals.
IsCostliest(g, Q) ==
    \A h \in Q \ {g} : \/ GroupCost(g) > GroupCost(h)
                       \/ GroupCost(g) = GroupCost(h) /\ g < h

\* front_load puts the named shards first, in the given order; the rest keep
\* their order.  Only the list of the pool without --gpus goes through it.
FrontBefore(s, t) ==
    \/ FrontRank[s] < FrontRank[t]
    \/ FrontRank[s] = FrontRank[t] /\ s < t

\* queue.extend(sorted(group_q.pop(0), key=-area)): whatever the order of the
\* list, the shards enter the GPU's queue by area; the list order breaks ties.
Precedes(s, t) ==
    \/ Area[s] > Area[t]
    \/ /\ Area[s] = Area[t]
       /\ IF GpusGiven THEN s < t ELSE FrontBefore(s, t)

-----------------------------------------------------------------------------
VARIABLES
    groupQ,       \* group_q: groups no GPU has taken yet
    pending,      \* pending[g]: shards queued on GPU g
    running,      \* keys of `running`: shards whose Popen is not reaped
    gpuOf,        \* GPU of the shard's latest worker, 0 before its first
    ok,           \* counter of workers reaped with return code 0
    fail,         \* counter of workers reaped with another return code
    failedShards, \* failed_shards, in no particular order
    retried,      \* failed shards whose solo retry has returned
    recovered,    \* solo retries that returned 0
    pc,           \* where the dispatcher is
    cursor,       \* the GPU of the current round of `for g in gpus`
    toPoll,       \* workers the current `for p in list(running)` has left
    exit,         \* exit status of the warm
    proc,         \* the subprocess of each shard, as the OS sees it
    wrote         \* the cache directory holds a compile-cache entry

dispatcher == <<groupQ, pending, running, gpuOf, ok, fail, failedShards,
                retried, recovered, pc, cursor, toPoll, exit>>
vars == <<groupQ, pending, running, gpuOf, ok, fail, failedShards, retried,
          recovered, pc, cursor, toPoll, exit, proc, wrote>>

Steps == {"visit", "launch", "poll", "solo", "wait", "exited"}
ProcStates == {"none", "alive", "zero", "nonzero"}

Init ==
    /\ groupQ = AllGroups
    /\ pending = [g \in Gpus |-> {}]
    /\ running = {}
    /\ gpuOf = [s \in Shards |-> 0]
    /\ ok = 0
    /\ fail = 0
    /\ failedShards = {}
    /\ retried = {}
    /\ recovered = 0
    /\ pc = "visit"
    /\ cursor = 1
    /\ toPoll = {}
    /\ exit = "none"
    /\ proc = [s \in Shards |-> "none"]
    /\ wrote \in BOOLEAN  \* an earlier warm may have filled the cache

-----------------------------------------------------------------------------
(* One round over the GPUs.                                                *)

\* `mine`, and `used`: the workers the dispatcher counts on GPU g.
Mine(g) == {s \in running : gpuOf[s] = g}
Used(S) == Total([s \in Shards |-> IF s \in S THEN Peak[s] ELSE 0])

\* Broken variants of Fits: the candidate's own peak is not added; a lone big
\* shard has to fit the budget too.
FitsIgnoringCandidate(g, s) == Mine(g) = {} \/ Used(Mine(g)) <= Budget
FitsWithoutLoneException(g, s) == Used(Mine(g)) + Peak[s] <= Budget

\* A candidate fits next to the running workers, or has the card for itself.
Fits(g, s) == Mine(g) = {} \/ Used(Mine(g)) + Peak[s] <= Budget
Fitting(g) == {s \in pending[g] : Fits(g, s)}

\* The first fitting candidate of the queue.
IsPick(g, s) ==
    /\ s \in Fitting(g)
    /\ \A t \in Fitting(g) \ {s} : Precedes(s, t)

LaunchAllowed(free, peak) == free # Unreadable => free >= peak + Headroom

\* Steal the next group when this GPU's queue drained.
Visit ==
    /\ pc = "visit"
    /\ \/ /\ pending[cursor] = {}
          /\ \E g \in groupQ :
               /\ IsCostliest(g, groupQ)
               /\ groupQ' = groupQ \ {g}
               /\ pending' = [pending EXCEPT ![cursor] = Members(g)]
       \/ (pending[cursor] # {} \/ groupQ = {}) /\ UNCHANGED <<groupQ, pending>>
    /\ pc' = "launch"
    /\ UNCHANGED <<running, gpuOf, ok, fail, failedShards, retried, recovered,
                   cursor, toPoll, exit, proc, wrote>>

\* One turn of `while launched and queue` that starts a worker.  A GPU with no
\* worker takes the head whatever it needs; next to running workers the card's
\* measured free memory has to admit the newcomer.
Launch(s) ==
    /\ pc = "launch"
    /\ IsPick(cursor, s)
    /\ Cardinality(Mine(cursor)) < Jobs
    /\ \/ Mine(cursor) = {}
       \/ \E free \in FreeGib : LaunchAllowed(free, Peak[s])
    /\ pending' = [pending EXCEPT ![cursor] = @ \ {s}]
    /\ running' = running \cup {s}
    /\ gpuOf' = [gpuOf EXCEPT ![s] = cursor]
    /\ proc' = [proc EXCEPT ![s] = "alive"]
    /\ UNCHANGED <<groupQ, ok, fail, failedShards, retried, recovered, pc,
                   cursor, toPoll, exit, wrote>>

\* The turns that start nothing: the queue is empty, no candidate fits, the
\* GPU has its workers, or the measured free memory refuses the pick.
NothingToLaunch ==
    \/ Fitting(cursor) = {}
    \/ Cardinality(Mine(cursor)) >= Jobs
    \/ /\ Mine(cursor) # {}
       /\ \E s \in Fitting(cursor), free \in FreeGib :
            IsPick(cursor, s) /\ ~LaunchAllowed(free, Peak[s])

LeaveGpu ==
    /\ pc = "launch"
    /\ NothingToLaunch
    /\ IF cursor < NGpus
       THEN /\ cursor' = cursor + 1
            /\ pc' = "visit"
            /\ UNCHANGED toPoll
       ELSE /\ cursor' = 1
            /\ pc' = "poll"
            /\ toPoll' = running
    /\ UNCHANGED <<groupQ, pending, running, gpuOf, ok, fail, failedShards,
                   retried, recovered, exit, proc, wrote>>

-----------------------------------------------------------------------------
(* Reaping, and the end of the loop.                                       *)

\* Broken variant of Poll: a worker leaves `running` whether or not it exited.
PollDroppingAlive(s) ==
    /\ pc = "poll"
    /\ s \in toPoll
    /\ toPoll' = toPoll \ {s}
    /\ running' = running \ {s}
    /\ ok' = IF proc[s] = "zero" THEN ok + 1 ELSE ok
    /\ fail' = IF proc[s] = "nonzero" THEN fail + 1 ELSE fail
    /\ failedShards' = failedShards \cup {t \in {s} : proc[t] = "nonzero"}
    /\ UNCHANGED <<groupQ, pending, gpuOf, retried, recovered, pc, cursor,
                   exit, proc, wrote>>

\* p.poll() on one worker of the snapshot; an exited one is counted and gone.
Poll(s) ==
    /\ pc = "poll"
    /\ s \in toPoll
    /\ toPoll' = toPoll \ {s}
    /\ IF proc[s] = "alive"
       THEN UNCHANGED <<running, ok, fail, failedShards>>
       ELSE /\ running' = running \ {s}
            /\ IF proc[s] = "zero"
               THEN /\ ok' = ok + 1
                    /\ UNCHANGED <<fail, failedShards>>
               ELSE /\ fail' = fail + 1
                    /\ failedShards' = failedShards \cup {s}
                    /\ UNCHANGED ok
    /\ UNCHANGED <<groupQ, pending, gpuOf, retried, recovered, pc, cursor,
                   exit, proc, wrote>>

\* Broken variant of WorkLeft: workers still running do not keep the loop up.
WorkLeftIgnoringRunning == (\E g \in Gpus : pending[g] # {}) \/ groupQ # {}

\* `while any(pending.values()) or group_q or running`.
WorkLeft == \/ \E g \in Gpus : pending[g] # {}
            \/ groupQ # {}
            \/ running # {}

\* The snapshot is polled (and the dispatcher slept, if workers run).
EndPoll ==
    /\ pc = "poll"
    /\ toPoll = {}
    /\ pc' = IF WorkLeft THEN "visit" ELSE "solo"
    /\ UNCHANGED <<groupQ, pending, running, gpuOf, ok, fail, failedShards,
                   retried, recovered, cursor, toPoll, exit, proc, wrote>>

\* _solo_retry: one blocking subprocess.run per failed shard, on the first GPU.
SoloStart(s) ==
    /\ pc = "solo"
    /\ s \in failedShards \ retried
    /\ gpuOf' = [gpuOf EXCEPT ![s] = 1]
    /\ proc' = [proc EXCEPT ![s] = "alive"]
    /\ toPoll' = {s}
    /\ pc' = "wait"
    /\ UNCHANGED <<groupQ, pending, running, ok, fail, failedShards, retried,
                   recovered, cursor, exit, wrote>>

\* Broken variant of SoloEnd: the retry's return code is not looked at.
SoloEndAnyCode(s) ==
    /\ pc = "wait"
    /\ s \in toPoll
    /\ proc[s] # "alive"
    /\ toPoll' = {}
    /\ retried' = retried \cup {s}
    /\ recovered' = recovered + 1
    /\ pc' = "solo"
    /\ UNCHANGED <<groupQ, pending, running, ok, fail, failedShards, gpuOf,
                   cursor, exit, proc, wrote>>

SoloEnd(s) ==
    /\ pc = "wait"
    /\ s \in toPoll
    /\ proc[s] # "alive"
    /\ toPoll' = {}
    /\ retried' = retried \cup {s}
    /\ recovered' = IF proc[s] = "zero" THEN recovered + 1 ELSE recovered
    /\ pc' = "solo"
    /\ UNCHANGED <<groupQ, pending, running, gpuOf, ok, fail, failedShards,
                   cursor, exit, proc, wrote>>

\* `entries`: every file under cache_dir counts, the manifest that main writes
\* there by default included.
CacheHasFiles == wrote \/ ManifestInCache

\* Broken variant of Finish: failed workers pass.
FinishDespiteFailures ==
    /\ pc = "solo"
    /\ failedShards \subseteq retried
    /\ ok' = ok + recovered
    /\ fail' = fail - recovered
    /\ exit' = IF ok' = 0 \/ ~CacheHasFiles THEN "failure" ELSE "success"
    /\ pc' = "exited"
    /\ UNCHANGED <<groupQ, pending, running, gpuOf, failedShards, retried,
                   recovered, cursor, toPoll, proc, wrote>>

\* The exit status of the warm, after the recovered shards are credited.
Finish ==
    /\ pc = "solo"
    /\ failedShards \subseteq retried
    /\ ok' = ok + recovered
    /\ fail' = fail - recovered
    /\ exit' = IF fail' # 0 \/ ok' = 0 \/ ~CacheHasFiles
               THEN "failure" ELSE "success"
    /\ pc' = "exited"
    /\ UNCHANGED <<groupQ, pending, running, gpuOf, failedShards, retried,
                   recovered, cursor, toPoll, proc, wrote>>

-----------------------------------------------------------------------------
(* The subprocesses.                                                       *)

\* A worker leaves, with zero or not; it may have written cache entries, and
\* a worker that exits zero need not have.
WorkerExit(s) ==
    /\ proc[s] = "alive"
    /\ \E rc \in {"zero", "nonzero"} : proc' = [proc EXCEPT ![s] = rc]
    /\ wrote' \in {wrote, TRUE}
    /\ UNCHANGED dispatcher

Dispatch ==
    \/ Visit
    \/ \E s \in Shards : Launch(s)
    \/ LeaveGpu
    \/ \E s \in Shards : Poll(s)
    \/ EndPoll
    \/ \E s \in Shards : SoloStart(s)
    \/ \E s \in Shards : SoloEnd(s)
    \/ Finish

Exited == pc = "exited" /\ UNCHANGED vars

Next == Dispatch \/ (\E s \in Shards : WorkerExit(s)) \/ Exited

Spec == Init /\ [][Next]_vars

\* The dispatcher is a running process and every subprocess ends: nothing in
\* the code bounds a worker's run time, so this is an assumption on workers.
Fairness == WF_vars(Dispatch) /\ \A s \in Shards : WF_vars(WorkerExit(s))

FairSpec == Spec /\ Fairness

-----------------------------------------------------------------------------
(* Properties.                                                             *)

\* Every variable has its type.
TypeOK ==
    /\ groupQ \in SUBSET AllGroups
    /\ pending \in [Gpus -> SUBSET Shards]
    /\ running \in SUBSET Shards
    /\ gpuOf \in [Shards -> Gpus \cup {0}]
    /\ ok \in Nat
    /\ fail \in Int
    /\ failedShards \in SUBSET Shards
    /\ retried \in SUBSET Shards
    /\ recovered \in Nat
    /\ pc \in Steps
    /\ cursor \in Gpus
    /\ toPoll \in SUBSET Shards
    /\ exit \in {"none", "success", "failure"}
    /\ proc \in [Shards -> ProcStates]
    /\ wrote \in BOOLEAN

Alive == {s \in Shards : proc[s] = "alive"}
AliveOn(g) == {s \in Alive : gpuOf[s] = g}

\* The peaks of the workers really alive on a card sum within
\* --mem_budget_gib unless one worker has the card for itself (the pool phase
\* of _warm and _solo_retry together).
MemoryBudget ==
    \A g \in Gpus : \/ Cardinality(AliveOn(g)) <= 1
                    \/ Used(AliveOn(g)) <= Budget

\* "Max parallel warm workers per GPU" (--jobs), counted in live processes,
\* the solo retries on the first GPU included.
JobsRespected == \A g \in Gpus : Cardinality(AliveOn(g)) <= Jobs

\* "A group never splits across GPUs: concurrent same-class compiles race the
\* cache" (_group_queue): workers of one chip set alive together share a card,
\* a retry on the first GPU included.
GroupOnOneGpu ==
    \A s, t \in Alive : ChipSet[s] = ChipSet[t] => gpuOf[s] = gpuOf[t]

\* A retry sees the whole machine: while _solo_retry waits for its worker no
\* other worker is alive on any GPU ("a lone retry sees the whole card").
SoloRetryIsAlone == pc = "wait" => Alive \subseteq toPoll

\* No shard is lost or counted twice on its way through group_q, the GPU
\* queues, `running` and the counters.
EveryShardAccounted ==
    LET waiting == {s \in Shards : GroupOf(s) \in groupQ}
        queued  == UNION {pending[g] : g \in Gpus}
        reaped  == {s \in Shards : gpuOf[s] # 0} \ running
    IN  /\ waiting \cap queued = {}
        /\ (waiting \cup queued) \cap {s \in Shards : gpuOf[s] # 0} = {}
        /\ waiting \cup queued \cup running \cup reaped = Shards
        /\ pc # "exited" =>
             /\ ok + fail = Cardinality(reaped)
             /\ fail = Cardinality(failedShards)

\* The exit status is success exactly if the last worker of every shard
\* returned zero and the cache directory holds a file, whatever failed first
\* and recovered later; and the printed counts are those of the workers.
ExitTellsTheTruth ==
    pc = "exited" =>
        /\ exit = "success" <=> /\ \A s \in Shards : proc[s] = "zero"
                                /\ CacheHasFiles
        /\ ok = Cardinality({s \in Shards : proc[s] = "zero"})
        /\ fail = Cardinality({s \in Shards : proc[s] = "nonzero"})

\* "callers treat exit 0 as 'cache is served'" (_warm): success only if the
\* cache holds a compile entry.
SuccessMeansServed == exit = "success" => wrote

\* A worker is started for a shard never tried, or once more for a shard whose
\* worker died, after the pool drained.
WorkersStartOnceOrRetry ==
    [][\A s \in Shards : proc[s] # "alive" /\ proc'[s] = "alive" =>
          \/ proc[s] = "none"
          \/ proc[s] = "nonzero" /\ s \notin retried /\ ~WorkLeft]_vars

\* Every warm ends, and not before every shard had a worker.
WarmTerminates ==
    <>(pc = "exited" /\ \A s \in Shards : proc[s] \in {"zero", "nonzero"})

\* What makes the properties above inductive.  Where a shard is: in a group
\* nobody took, queued on one GPU, or started; and what the dispatcher holds
\* of its worker at each point of the program.
Started == {s \in Shards : gpuOf[s] # 0}
Draining == pc \in {"visit", "launch", "poll"}

Places ==
    /\ \A s \in Shards : gpuOf[s] = 0 <=> proc[s] = "none"
    /\ \A s \in Shards : GroupOf(s) \in groupQ => gpuOf[s] = 0
    /\ \A g \in Gpus : \A s \in pending[g] : gpuOf[s] = 0 /\ GroupOf(s) \notin groupQ
    /\ \A s \in Shards : gpuOf[s] # 0 \/ GroupOf(s) \in groupQ
                           \/ \E g \in Gpus : s \in pending[g]
    /\ running \subseteq Started
    /\ failedShards \subseteq Started \ running
    /\ retried \subseteq failedShards
    /\ Draining => retried = {}
    /\ ~Draining => ~WorkLeft
    /\ pc = "poll" => toPoll \subseteq running
    /\ pc = "wait" => \E s \in failedShards \ retried : toPoll = {s}
    /\ pc \in {"solo", "exited"} => toPoll = {}
    /\ pc = "exited" => failedShards \subseteq retried
    /\ pc = "exited" <=> exit # "none"

\* The outcome of each reaped worker, as the operating system reported it.
Outcomes ==
    /\ \A s \in Started \ running : s \notin failedShards => proc[s] = "zero"
    /\ \A s \in failedShards \ retried :
         proc[s] = "nonzero" \/ (pc = "wait" /\ s \in toPoll)
    /\ \A s \in retried : proc[s] \in {"zero", "nonzero"}

\* Every group has one home GPU until the pool drained.
Homes ==
    Draining => \A s, t \in Shards : GroupOf(s) = GroupOf(t) =>
        /\ \A g, h \in Gpus : s \in pending[g] /\ t \in pending[h] => g = h
        /\ \A g \in Gpus : s \in pending[g] => gpuOf[t] \in {0, g}
        /\ gpuOf[s] # 0 /\ gpuOf[t] # 0 => gpuOf[s] = gpuOf[t]

\* The counters are cardinalities.
Counts ==
    /\ recovered = Cardinality({s \in retried : proc[s] = "zero"})
    /\ exit = "none" =>
         /\ ok = Cardinality(Started \ (running \cup failedShards))
         /\ fail = Cardinality(failedShards)

\* The dispatcher counts at most --jobs workers per GPU.
JobsCounted == \A g \in Gpus : Cardinality(Mine(g)) <= Jobs

\* What the dispatcher counts on a GPU fits the budget unless it is one worker.
BudgetCounted ==
    \A g \in Gpus : Cardinality(Mine(g)) <= 1 \/ Used(Mine(g)) <= Budget

IInv == /\ TypeOK /\ Places /\ Outcomes /\ Homes /\ Counts
        /\ JobsCounted /\ BudgetCounted

\* The shards named by --front_shards are "moved to the head of the dispatch
\* order": the first worker started is one of theirs.
FrontShards == {s \in Shards : \E t \in Shards : FrontRank[s] < FrontRank[t]}
FrontShardsLead ==
    (\E s \in Shards : gpuOf[s] # 0) => \E s \in FrontShards : gpuOf[s] # 0

\* What the warm promises its callers: WarmJob, with a shard's fate known when
\* the dispatcher reaps its worker.
Status(s) ==
    IF gpuOf[s] = 0 THEN "todo"
    ELSE IF s \in running THEN "trying"
    ELSE IF pc = "wait" /\ s \in toPoll THEN "retrying"
    ELSE IF s \in failedShards \ retried THEN "failed"
    ELSE IF proc[s] = "zero" THEN "warm" ELSE "lost"

Job == INSTANCE WarmJob WITH
    status <- [s \in Shards |-> Status(s)], verdict <- exit

\* Every behaviour of the pool is one of WarmJob, which concludes.
ImplementsWarmJob == Job!FairSpec

=============================================================================
