-------------------------- MODULE WarmWorkerProofs --------------------------
(***************************************************************************)
(* Proofs about WarmWorker for every set of chains, every number of        *)
(* compile threads and every cache the worker may find.                    *)
(***************************************************************************)
EXTENDS WarmWorker, FiniteSetTheorems, TLAPS

FutureStates == {"queued", "running", "ok", "failed"}
AllKeys == UNION {ProveKeys(s) : s \in Entries}

\* The walk: the depth is that of the trace, one zone is traced at a time, and
\* the zeros passed so far are committed as the prove's results.
WalkInv ==
    /\ kind \in Kinds /\ mode \in Modes /\ strict \in Settings
    /\ main \in {"chains", "drain", "uncaught", "ended"}
    /\ at \in [shard : 1..(Len(Chain) + 1), item : Nat \ {0}]
    /\ results \in Seq(BOOLEAN)
    /\ executed = {}
    /\ depth = Len(stack)
    /\ stack # <<>> =>
          /\ at.shard \in Entries
          /\ at.item <= Len(Chain[at.shard])
          /\ IsZone(Item)
          /\ stack = <<[call |-> Item.call, todo |-> Top.todo]>>
    /\ at.shard \in Entries =>
          /\ Len(results) = at.item - 1
          /\ at.item <= Len(Chain[at.shard]) + 1
          /\ \A j \in 1..(at.item - 1) :
                results[j] = Chain[at.shard][j].committed

\* The keys: those submitted are the prove's, and a zone passed is submitted.
KeyInv ==
    /\ futures \in Seq([key : AllKeys, state : FutureStates])
    /\ at.shard \in Entries =>
          \A j \in ZonesOf(at.shard) :
              j < at.item => ProveKey(at.shard, j) \in Submitted
    /\ OthersStillWarm

DrainedFailures == {i \in 1..drained : futures[i].state = "failed"}

\* The pool: what has been drained is resolved and counted, and a strict cache
\* holds every compiled key.
PoolInv ==
    /\ drained \in 0..Len(futures)
    /\ stats \in [compiled : Nat, failed : Nat]
    /\ \A i \in 1..drained : Resolved(i)
    /\ stats.failed = Cardinality(DrainedFailures)
    /\ strict => \A i \in DOMAIN futures :
                    futures[i].state = "ok" => futures[i].key \in cache

\* The verdict: a shard is failed exactly when it broke.
EndInv ==
    /\ failed \subseteq raised /\ raised \subseteq Shards
    /\ kind = "sweep" => raised \subseteq failed
    /\ (kind = "recursion" /\ raised # {}) => main \in {"uncaught", "ended"}
    /\ main = "uncaught" => raised # {}
    /\ main = "drain" => at.shard \notin Entries
    /\ main = "ended" <=> exit # "none"
    /\ exit \in {"none", "ok", "failed", "killed"}
    /\ ExitTellsTheTruth
    /\ PoolIsDone

IInv == WalkInv /\ KeyInv /\ PoolInv /\ EndInv

-----------------------------------------------------------------------------
(* The chains.                                                             *)

\* Every entry is a shard with a chain.
LEMMA EntriesFact ==
    /\ Len(Chain) \in Nat \ {0}
    /\ \A s \in Shards : Len(Chain[s]) \in Nat /\ DOMAIN Chain[s] = 1..Len(Chain[s])
    /\ Entries \subseteq Shards
BY ChainAssumption DEF Entries, Shards

\* The arguments of a zone are host values, device_puts or earlier results, and
\* its result is committed when one of them is.
LEMMA ItemFact ==
    ASSUME NEW s \in Shards, NEW i \in 1..Len(Chain[s])
    PROVE  /\ Chain[s][i].committed =
                 (IsZone(Chain[s][i]) /\ ArgsCommitted(Chain[s][i].call, Lineage(s)))
           /\ IsZone(Chain[s][i]) =>
                 \A j \in DOMAIN Chain[s][i].call.args :
                     Chain[s][i].call.args[j] \in {Host, Put} \cup 1..(i - 1)
           /\ ~IsZone(Chain[s][i]) => Chain[s][i].gate \in PatchedGates
BY ChainAssumption, EntriesFact

\* An argument of the item at hand has the commitment it has in the prove.
LEMMA SameCommitment ==
    ASSUME WalkInv, at.shard \in Entries, at.item <= Len(Chain[at.shard]),
           NEW arg \in {Host, Put} \cup 1..(at.item - 1)
    PROVE  Committed(arg, results) = Committed(arg, Lineage(at.shard))
<1>1. CASE arg \in {Host, Put}
  BY <1>1 DEF Committed, Host, Put
<1>2. CASE arg \in 1..(at.item - 1)
  <2>1. results[arg] = Chain[at.shard][arg].committed
    BY <1>2 DEF WalkInv
  <2>2. Lineage(at.shard)[arg] = Chain[at.shard][arg].committed
    BY <1>2, EntriesFact DEF Lineage, WalkInv
  <2> QED
    BY <2>1, <2>2 DEF Committed
<1> QED
  BY <1>1, <1>2

\* The zeros of a zone are committed as the zone's results in the prove.
LEMMA ZerosAsProved ==
    ASSUME WalkInv, at.shard \in Entries, at.item <= Len(Chain[at.shard]),
           IsZone(Item)
    PROVE  ZoneZeros(Item.call, results) = Item.committed
<1>1. \A j \in DOMAIN Item.call.args :
          Committed(Item.call.args[j], results)
            = Committed(Item.call.args[j], Lineage(at.shard))
  <2>1. at.shard \in Shards /\ at.item \in 1..Len(Chain[at.shard])
    BY EntriesFact DEF WalkInv
  <2>2. \A j \in DOMAIN Item.call.args :
            Item.call.args[j] \in {Host, Put} \cup 1..(at.item - 1)
    BY <2>1, ItemFact DEF Item
  <2> QED
    BY <2>2, SameCommitment
<1>2. Item.committed = ArgsCommitted(Item.call, Lineage(at.shard))
  <2>1. at.shard \in Shards /\ at.item \in 1..Len(Chain[at.shard])
    BY EntriesFact DEF WalkInv
  <2>2. Item.committed = (IsZone(Item) /\ ArgsCommitted(Item.call, Lineage(at.shard)))
    BY <2>1, ItemFact DEF Item
  <2>3. ArgsCommitted(Item.call, Lineage(at.shard)) \in BOOLEAN
    BY DEF ArgsCommitted
  <2> QED
    BY <2>2, <2>3
<1> QED
  BY <1>1, <1>2 DEF ZoneZeros, ArgsCommitted

\* The key of the zone under trace is the key the prove asks for.
LEMMA KeyAsProved ==
    ASSUME WalkInv, stack # <<>>
    PROVE  Key(Top.call, [j \in DOMAIN Top.call.args |->
                   LoweringSharding(Sharding(Top.call.args[j], results))])
             = ProveKey(at.shard, at.item)
<1>1. Top.call = Item.call
  BY DEF WalkInv, Top
<1>2. \A j \in DOMAIN Item.call.args :
          Committed(Item.call.args[j], results)
            = Committed(Item.call.args[j], Lineage(at.shard))
  <2>1. /\ at.shard \in Entries
        /\ at.item <= Len(Chain[at.shard])
        /\ IsZone(Item)
    BY DEF WalkInv
  <2>2. at.shard \in Shards /\ at.item \in 1..Len(Chain[at.shard])
    BY <2>1, EntriesFact DEF WalkInv
  <2>3. \A j \in DOMAIN Item.call.args :
            Item.call.args[j] \in {Host, Put} \cup 1..(at.item - 1)
    BY ONLY <2>1, <2>2, ItemFact DEF Item
  <2> QED
    BY <2>1, <2>3, SameCommitment
<1>3. mode \in {"device", "deviceless"}
  BY WorkerAssumption DEF WalkInv
<1>4. \A j \in DOMAIN Item.call.args :
          LoweringSharding(Sharding(Item.call.args[j], results))
            = Placed(Item.call.args[j], Lineage(at.shard))
  BY <1>2, <1>3 DEF LoweringSharding, Sharding, LocalDevice, Placed
<1> QED
  BY <1>1, <1>4 DEF ProveKey, Item


-----------------------------------------------------------------------------
(* The walk.                                                               *)

\* No step changes what the worker was started as.
LEMMA StartFixed == [Next]_vars => /\ kind' = kind /\ mode' = mode /\ strict' = strict
                                   /\ Entries' = Entries /\ AllKeys' = AllKeys
<1> SUFFICES ASSUME [Next]_vars PROVE UNCHANGED <<kind, mode, strict>>
  BY DEF Entries, AllKeys
<1> QED
  BY DEF Next, Step, Compile, vars, CallZone, CallNested, Lowered, Gate,
         ShardDone, Leave, Drain, Exit, ExitUncaught, StartCompile,
         FinishCompile, ChainRaises, Killed, Ended

LEMMA InitWalkInv == Init => WalkInv
BY EntriesFact DEF Init, WalkInv, Entries

\* Steps other than the walk's leave the walk where it is.
LEMMA WalkStays ==
    ASSUME WalkInv, UNCHANGED <<kind, mode, strict, trace, executed>>,
           main' \in {"chains", "drain", "uncaught", "ended"}
    PROVE  WalkInv'
BY DEF WalkInv, trace, Entries, Item, Top

\* A shard given up or done leaves the walk at the head of the next.
LEMMA WalkNextShard ==
    ASSUME WalkInv, at.shard \in Entries, NextShard, stack' = <<>>, depth' = 0,
           UNCHANGED <<kind, mode, strict, main, executed>>
    PROVE  WalkInv'
BY EntriesFact DEF WalkInv, NextShard, Entries, Shards

\* An item passed with the prove's commitment extends the walk.
LEMMA WalkPass ==
    ASSUME WalkInv, at.shard \in Entries, at.item <= Len(Chain[at.shard]),
           NEW c \in BOOLEAN, c = Item.committed, Pass(c),
           stack' = <<>>, depth' = 0, UNCHANGED <<kind, mode, strict, main, executed>>
    PROVE  WalkInv'
<1>1. at' \in [shard : 1..(Len(Chain) + 1), item : Nat \ {0}] /\ at'.shard = at.shard
      /\ at'.item = at.item + 1 /\ results' \in Seq(BOOLEAN)
      /\ Len(results') = Len(results) + 1
  BY DEF WalkInv, Pass
<1>2. Len(results') = at'.item - 1 /\ at'.item <= Len(Chain[at.shard]) + 1
  BY <1>1, EntriesFact DEF WalkInv
<1>3. \A j \in 1..(at'.item - 1) : results'[j] = Chain[at.shard][j].committed
  <2> TAKE j \in 1..(at'.item - 1)
  <2>1. Len(results) = at.item - 1 /\ at.item \in Nat \ {0} /\ results \in Seq(BOOLEAN)
    BY DEF WalkInv
  <2>2. results' = Append(results, c)
    BY DEF Pass
  <2>3. CASE j = at.item
    BY <2>1, <2>2, <2>3 DEF Item
  <2>4. CASE j \in 1..(at.item - 1)
    <3>1. results[j] = Chain[at.shard][j].committed
      BY <2>4 DEF WalkInv
    <3> QED
      BY <2>1, <2>2, <2>4, <3>1
  <2> QED
    BY <1>1, <2>1, <2>3, <2>4
<1> QED
  BY <1>1, <1>2, <1>3 DEF WalkInv, Entries

\* The step a walk that fails at its shard takes.
LEMMA WalkFails ==
    ASSUME WalkInv, at.shard \in Entries, ShardFails, stack' = <<>>, depth' = 0,
           UNCHANGED <<kind, mode, strict, executed>>
    PROVE  WalkInv'
<1>1. CASE kind = "sweep"
  BY <1>1, WalkNextShard DEF ShardFails
<1>2. CASE kind = "recursion"
  <2>1. UNCHANGED <<at, results>> /\ main' = "uncaught"
    BY <1>2 DEF ShardFails
  <2> QED
    BY <2>1 DEF WalkInv, Entries
<1> QED
  BY <1>1, <1>2 DEF ShardFails

\* Every step keeps the walk's invariant.
LEMMA WalkStep == WalkInv /\ [Next]_vars => WalkInv'
<1> SUFFICES ASSUME WalkInv, [Next]_vars PROVE WalkInv'
  OBVIOUS
<1>0. stack \in {<<>>} \/ (stack # <<>> /\ Len(stack) = 1)
  BY DEF WalkInv
<1>1. CASE CallZone
  <2>1. depth = 0 /\ stack = <<>>
    BY <1>1 DEF CallZone, AtItem, WalkInv
  <2>2. /\ depth' = 1 /\ UNCHANGED <<at, results, executed, kind, mode, strict, main>>
        /\ stack' = <<[call |-> Item.call, todo |-> Item.call.nested]>>
    BY <1>1, <2>1 DEF CallZone, Outermost, Intercept
  <2>3. Top'.todo = Item.call.nested /\ Item' = Item /\ Len(stack') = 1
    BY <2>2 DEF Top, Item
  <2>4. at.shard \in Entries /\ at.item <= Len(Chain[at.shard]) /\ IsZone(Item)
    BY <1>1 DEF CallZone, AtItem, Walking
  <2> QED
    BY <2>2, <2>3, <2>4 DEF WalkInv, Entries, IsZone
<1>2. CASE CallNested
  <2>1. stack # <<>> /\ Len(stack) = 1 /\ depth = 1
    BY <1>0, <1>2 DEF CallNested, WalkInv
  <2>2. PICK call \in Top.todo :
            /\ stack' = [stack EXCEPT ![1].todo = @ \ {call}]
            /\ UNCHANGED <<depth, at, results, executed, kind, mode, strict, main>>
    BY <1>2, <2>1 DEF CallNested, Outermost
  <2>3. stack = <<[call |-> Item.call, todo |-> Top.todo]>>
    BY <2>1 DEF WalkInv
  <2>4. stack' = <<[call |-> Item.call, todo |-> Top.todo \ {call}]>>
    BY <2>2, <2>3
  <2>5. Top'.todo = Top.todo \ {call} /\ Item' = Item /\ Len(stack') = 1
    BY <2>2, <2>4 DEF Top, Item
  <2> QED
    BY <2>1, <2>2, <2>4, <2>5 DEF WalkInv, Entries, IsZone
<1>3. CASE Lowered
  <2>1. stack # <<>> /\ Len(stack) = 1 /\ depth = 1
    BY <1>0, <1>3 DEF Lowered, WalkInv
  <2>2. /\ at.shard \in Entries /\ at.item <= Len(Chain[at.shard]) /\ IsZone(Item)
        /\ Top.call = Item.call
    BY <2>1 DEF WalkInv, Top
  <2>3. Pass(Item.committed)
    BY <1>3, <2>1, <2>2, ZerosAsProved DEF Lowered
  <2>4. stack' = <<>> /\ depth' = 0 /\ UNCHANGED <<kind, mode, strict, main, executed>>
    BY <1>3, <2>1 DEF Lowered
  <2>5. Item.committed \in BOOLEAN
    BY <2>2, ZerosAsProved DEF ZoneZeros, ArgsCommitted
  <2> QED
    BY <2>2, <2>3, <2>4, <2>5, WalkPass
<1>4. CASE Gate
  <2>1. /\ at.shard \in Entries /\ at.item <= Len(Chain[at.shard]) /\ ~IsZone(Item)
        /\ stack' = <<>> /\ depth' = 0 /\ UNCHANGED <<kind, mode, strict, executed>>
    BY <1>4 DEF Gate, AtItem, Walking, WalkInv
  <2>2. Item.gate \in PatchedGates /\ Item.committed = FALSE
    <3>1. at.shard \in Shards /\ at.item \in 1..Len(Chain[at.shard])
      BY <2>1, EntriesFact DEF WalkInv
    <3>2. /\ Item.committed =
                (IsZone(Item) /\ ArgsCommitted(Item.call, Lineage(at.shard)))
          /\ Item.gate \in PatchedGates
      BY <2>1, <3>1, ItemFact DEF Item
    <3> QED
      BY <2>1, <3>2
  <2>3. Pass(FALSE) /\ UNCHANGED main
    BY <1>4, <2>2 DEF Gate
  <2> QED
    BY <2>1, <2>2, <2>3, WalkPass
<1>5. CASE ShardDone
  BY <1>5, WalkNextShard DEF ShardDone, Walking, WalkInv
<1>6. CASE ChainRaises
  <2>1. at.shard \in Entries /\ ShardFails /\ UNCHANGED <<kind, mode, strict, executed>>
    BY <1>6 DEF ChainRaises, Walking
  <2>2. stack' = <<>> /\ depth' = 0
    BY <1>6, <1>0 DEF ChainRaises, Unwound, WalkInv
  <2> QED
    BY <2>1, <2>2, WalkFails
<1>7. CASE Leave \/ Drain \/ Exit \/ ExitUncaught \/ Killed
  <2>1. UNCHANGED <<kind, mode, strict, trace, executed>>
        /\ main' \in {"chains", "drain", "uncaught", "ended"}
    BY <1>7 DEF Leave, Drain, Exit, ExitUncaught, Killed, WalkInv
  <2> QED
    BY <2>1, WalkStays
<1>8. CASE Compile \/ Ended \/ UNCHANGED vars
  <2>1. UNCHANGED <<kind, mode, strict, trace, executed, main>>
    BY <1>8 DEF Compile, StartCompile, FinishCompile, Ended, vars, trace
  <2> QED
    BY <2>1, WalkStays DEF WalkInv
<1> QED
  BY <1>1, <1>2, <1>3, <1>4, <1>5, <1>6, <1>7, <1>8 DEF Next, Step

-----------------------------------------------------------------------------
(* The keys.                                                               *)

Futures == Seq([key : AllKeys, state : FutureStates])

\* A future's state changes without its key.
LEMMA KeysKept ==
    ASSUME futures \in Futures, NEW i \in DOMAIN futures, NEW st \in FutureStates,
           futures' = [futures EXCEPT ![i].state = st]
    PROVE  /\ futures' \in Futures /\ Len(futures') = Len(futures)
           /\ \A j \in 1..Len(futures) :
                 /\ futures'[j].key = futures[j].key
                 /\ futures'[j].state = (IF j = i THEN st ELSE futures[j].state)
           /\ Submitted' = Submitted
<1> DEFINE Rec == [key : AllKeys, state : FutureStates]
<1>0. futures \in Seq(Rec) /\ futures[i] \in Rec
  <2>1. futures \in Seq(Rec)
    BY DEF Futures
  <2> HIDE DEF Rec
  <2> QED
    BY <2>1
<1>00. [futures[i] EXCEPT !.state = st] \in Rec
  BY <1>0
<1>01. futures' = [futures EXCEPT ![i] = [futures[i] EXCEPT !.state = st]]
  OBVIOUS
<1>1. /\ Len(futures') = Len(futures) /\ DOMAIN futures = 1..Len(futures)
      /\ DOMAIN futures' = DOMAIN futures
      /\ \A j \in 1..Len(futures) : futures[j] \in Rec
  <2> HIDE DEF Rec
  <2> QED
    BY <1>0, <1>00, <1>01
<1>2. \A j \in 1..Len(futures) :
          /\ futures'[j].key = futures[j].key
          /\ futures'[j].state = (IF j = i THEN st ELSE futures[j].state)
          /\ futures'[j] \in [key : AllKeys, state : FutureStates]
  BY <1>1
<1>3. futures' \in Futures
  BY <1>1, <1>2 DEF Futures
<1>4. Submitted' = Submitted
  BY <1>1, <1>2 DEF Submitted
<1> QED
  BY <1>1, <1>2, <1>3, <1>4

\* The states of the pool's steps.
LEMMA PoolMoves ==
    ASSUME futures \in Futures, Compile
    PROVE  \E i \in DOMAIN futures, st \in FutureStates :
               /\ ~Resolved(i)
               /\ futures' = [futures EXCEPT ![i].state = st]
               /\ strict /\ st = "ok" => futures[i].key \in cache'
               /\ cache \subseteq cache'
               /\ UNCHANGED <<kind, mode, main, trace, failed, drained, stats,
                              exit, executed, raised>>
<1>1. CASE StartCompile
  BY <1>1 DEF StartCompile, Queued, Resolved, FutureStates
<1>2. CASE \E i \in DOMAIN futures : FinishCompile(i)
  BY <1>2 DEF FinishCompile, Running, Resolved, FutureStates
<1> QED
  BY <1>1, <1>2 DEF Compile

LEMMA InitKeyInv == Init => KeyInv
<1> SUFFICES ASSUME Init PROVE KeyInv
  OBVIOUS
<1>1. /\ at.shard = 1 /\ at.item = 1 /\ futures = <<>> /\ Entries \subseteq Nat \ {0}
  BY EntriesFact DEF Init, Shards
<1>2. futures \in Seq([key : AllKeys, state : FutureStates])
  BY <1>1
<1>3. at.shard \in Entries => \A j \in ZonesOf(at.shard) : ~(j < at.item)
  BY <1>1, EntriesFact DEF ZonesOf
<1>4. Walked = {}
  <2>1. \A s \in Entries : ~(s < at.shard)
    BY <1>1
  <2> QED
    BY <2>1 DEF Walked
<1> QED
  BY <1>2, <1>3, <1>4 DEF KeyInv, OthersStillWarm

\* A shard given up leaves the others' keys as they were.
LEMMA KeysSurviveFailure ==
    ASSUME WalkInv, KeyInv, at.shard \in Entries, UNCHANGED <<kind, mode, futures>>,
           ShardFails, raised' = raised \cup {at.shard}
    PROVE  KeyInv'
<1>1. UNCHANGED <<Entries, AllKeys, Submitted>>
  BY DEF Entries, AllKeys, Submitted
<1>2. Walked' \subseteq Walked
  BY <1>1 DEF ShardFails, NextShard, Walked, WalkInv, Entries, Shards
<1>3. at'.shard \in Entries =>
          \A j \in ZonesOf(at'.shard) :
              j < at'.item => ProveKey(at'.shard, j) \in Submitted
  <2>1. CASE kind = "sweep"
    BY <2>1, EntriesFact DEF ShardFails, NextShard, ZonesOf, Entries, Shards
  <2>2. CASE kind = "recursion"
    BY <2>2 DEF ShardFails, KeyInv
  <2> QED
    BY <2>1, <2>2 DEF ShardFails
<1> QED
  BY <1>1, <1>2, <1>3 DEF KeyInv, OthersStillWarm

\* Every step keeps the submitted keys those of the prove.
LEMMA KeyStep == WalkInv /\ KeyInv /\ [Next]_vars => KeyInv'
<1> SUFFICES ASSUME WalkInv, KeyInv, [Next]_vars PROVE KeyInv'
  OBVIOUS
<1>0. UNCHANGED <<kind, mode, Entries, AllKeys>> /\ futures \in Futures
  BY StartFixed DEF KeyInv, Futures
<1>1. ASSUME UNCHANGED <<at, futures, failed, raised>> PROVE KeyInv'
  BY <1>0, <1>1 DEF KeyInv, OthersStillWarm, Walked, Submitted
<1>2. CASE CallZone
  <2>1. depth = 0
    BY <1>2 DEF CallZone, AtItem, WalkInv
  <2> QED
    BY <1>1, <1>2, <2>1 DEF CallZone, Outermost
<1>3. CASE CallNested \/ Leave \/ Drain \/ Exit \/ ExitUncaught \/ Killed \/ Ended
           \/ UNCHANGED vars
  BY <1>1, <1>3 DEF CallNested, Leave, Drain, Exit, ExitUncaught, Killed, Ended,
                    vars, trace
<1>4. CASE Lowered
  <2>1. stack # <<>> /\ Len(stack) = 1
    BY <1>4 DEF Lowered, WalkInv
  <2>2. /\ at.shard \in Entries /\ at.item \in 1..Len(Chain[at.shard])
        /\ IsZone(Item) /\ at \in [shard : Int, item : Int]
    BY <2>1, EntriesFact DEF WalkInv
  <2> DEFINE new == [key |-> ProveKey(at.shard, at.item), state |-> "queued"]
  <2>3. futures' = Append(futures, new)
    BY <1>4, <2>1, KeyAsProved DEF Lowered
  <2>4. at' = [at EXCEPT !.item = @ + 1] /\ UNCHANGED <<failed, raised>>
    BY <1>4, <2>1 DEF Lowered, Pass
  <2>5. at.item \in ZonesOf(at.shard)
    BY <2>2, EntriesFact DEF ZonesOf, Item
  <2>6. new \in [key : AllKeys, state : FutureStates]
    BY <2>2, <2>5 DEF AllKeys, ProveKeys, FutureStates
  <2>7. futures' \in Futures
    BY <1>0, <2>3, <2>6 DEF Futures
  <2>8. Submitted' = Submitted \cup {ProveKey(at.shard, at.item)}
    <3>1. /\ Len(futures') = Len(futures) + 1 /\ Len(futures) \in Nat
          /\ DOMAIN futures = 1..Len(futures) /\ DOMAIN futures' = 1..Len(futures')
          /\ futures'[Len(futures) + 1].key = ProveKey(at.shard, at.item)
          /\ \A j \in 1..Len(futures) : futures'[j] = futures[j]
      BY <1>0, <2>3 DEF Futures
    <3> HIDE DEF new
    <3> QED
      BY <3>1 DEF Submitted
  <2>9. \A j \in ZonesOf(at.shard) :
            j < at.item + 1 => ProveKey(at.shard, j) \in Submitted'
    <3> SUFFICES ASSUME NEW j \in ZonesOf(at.shard), j < at.item + 1
                 PROVE  ProveKey(at.shard, j) \in Submitted'
      OBVIOUS
    <3>1. j \in Int
      BY <2>2, EntriesFact DEF ZonesOf
    <3>2. CASE j < at.item
      BY <2>2, <2>8, <3>2 DEF KeyInv
    <3>3. CASE j = at.item
      BY <2>8, <3>3
    <3> QED
      BY <2>2, <3>1, <3>2, <3>3
  <2>10. at'.shard = at.shard /\ at'.item = at.item + 1
    BY <2>2, <2>4
  <2>11. OthersStillWarm'
    BY <1>0, <2>4, <2>8, <2>10 DEF KeyInv, OthersStillWarm, Walked
  <2> QED
    BY <1>0, <2>7, <2>9, <2>10, <2>11 DEF KeyInv, Futures
<1>5. CASE Gate
  <2>1. /\ at.shard \in Entries /\ at.item \in 1..Len(Chain[at.shard])
        /\ ~IsZone(Item) /\ UNCHANGED <<futures, raised>>
        /\ at \in [shard : Int, item : Int]
    BY <1>5, EntriesFact DEF Gate, AtItem, Walking, WalkInv
  <2>2. Item.gate \in PatchedGates
    BY <2>1, ItemFact, EntriesFact DEF Item
  <2>3. Pass(FALSE) /\ UNCHANGED failed
    BY <1>5, <2>2 DEF Gate
  <2>4. at'.shard = at.shard /\ at'.item = at.item + 1
    BY <2>1, <2>3 DEF Pass
  <2>5. \A j \in ZonesOf(at.shard) : j < at.item + 1 => j < at.item
    BY <2>1, EntriesFact DEF ZonesOf, Item
  <2> QED
    BY <1>0, <2>1, <2>3, <2>4, <2>5 DEF KeyInv, OthersStillWarm, Walked, Submitted
<1>6. CASE ShardDone
  <2>1. /\ at.shard \in Entries /\ at.item > Len(Chain[at.shard])
        /\ at' = [shard |-> at.shard + 1, item |-> 1]
        /\ UNCHANGED <<futures, failed, raised>>
        /\ at \in [shard : Int, item : Int] /\ Entries \subseteq Int
    BY <1>6, EntriesFact DEF ShardDone, Walking, NextShard, WalkInv, Shards
  <2>2. ProveKeys(at.shard) \subseteq Submitted
    BY <2>1, EntriesFact DEF ProveKeys, ZonesOf, KeyInv
  <2>3. Walked' \subseteq Walked \cup {at.shard}
    <3>1. /\ at'.shard = at.shard + 1 /\ at.shard \in Int /\ Entries \subseteq Int
          /\ UNCHANGED <<failed, raised, Entries>>
      BY <1>0, <2>1
    <3>2. \A s \in Entries : s < at.shard + 1 => s < at.shard \/ s = at.shard
      BY <3>1
    <3> QED
      BY <3>1, <3>2 DEF Walked
  <2>4. UNCHANGED Submitted
    BY <2>1 DEF Submitted
  <2>5. OthersStillWarm'
    BY <2>2, <2>3, <2>4 DEF KeyInv, OthersStillWarm
  <2>6. at'.shard \in Entries => \A j \in ZonesOf(at'.shard) : ~(j < at'.item)
    BY <2>1, EntriesFact DEF ZonesOf
  <2> QED
    BY <1>0, <2>1, <2>5, <2>6 DEF KeyInv
<1>7. CASE ChainRaises
  BY <1>0, <1>7, KeysSurviveFailure DEF ChainRaises, Walking
<1>8. CASE Compile
  <2>1. PICK i \in DOMAIN futures, st \in FutureStates :
            /\ futures' = [futures EXCEPT ![i].state = st]
            /\ UNCHANGED <<at, failed, raised>>
    BY <1>0, <1>8, PoolMoves DEF trace
  <2>2. futures' \in Futures /\ UNCHANGED Submitted
    BY <1>0, <2>1, KeysKept
  <2> QED
    BY <1>0, <2>1, <2>2 DEF KeyInv, OthersStillWarm, Walked, Futures
<1> QED
  BY <1>2, <1>3, <1>4, <1>5, <1>6, <1>7, <1>8 DEF Next, Step

-----------------------------------------------------------------------------
(* The pool.                                                               *)

LEMMA InitPoolInv == Init => PoolInv
<1> SUFFICES ASSUME Init PROVE PoolInv
  OBVIOUS
<1>1. DrainedFailures = {}
  BY DEF Init, DrainedFailures
<1> QED
  BY <1>1, FS_EmptySet DEF Init, PoolInv

\* A step of the pool leaves what was drained, and a longer queue too.
LEMMA DrainedKept ==
    ASSUME PoolInv, futures \in Futures, futures' \in Futures,
           Len(futures) <= Len(futures'), UNCHANGED <<drained, stats>>,
           \A j \in 1..drained : futures'[j].state = futures[j].state
    PROVE  /\ drained' \in 0..Len(futures')
           /\ stats' \in [compiled : Nat, failed : Nat]
           /\ \A j \in 1..drained' : Resolved(j)'
           /\ stats'.failed = Cardinality(DrainedFailures')
<1>1. DrainedFailures' = DrainedFailures
  BY DEF DrainedFailures
<1>2. drained' \in 0..Len(futures')
  BY DEF PoolInv, Futures
<1> QED
  BY <1>1, <1>2 DEF PoolInv, Resolved

LEMMA FailuresFinite == drained \in Nat => IsFiniteSet(DrainedFailures)
<1>1. ASSUME drained \in Nat PROVE IsFiniteSet(1..drained)
  <2>1. 1 \in Int /\ drained \in Int
    BY <1>1
  <2> QED
    BY <2>1, FS_Interval
<1>2. DrainedFailures \in SUBSET (1..drained)
  BY DEF DrainedFailures
<1> QED
  BY <1>1, <1>2, FS_Subset

\* One more future drained is one more counted.
LEMMA DrainCounts ==
    ASSUME PoolInv, futures \in Futures, Drain
    PROVE  PoolInv'
<1>1. /\ drained \in Nat /\ drained' = drained + 1 /\ drained' \in 0..Len(futures)
      /\ UNCHANGED <<strict, futures, cache>> /\ Resolved(drained + 1)
      /\ stats' = Counted(futures[drained + 1].state)
      /\ stats \in [compiled : Nat, failed : Nat]
      /\ stats.failed = Cardinality(DrainedFailures)
  BY DEF Drain, PoolInv, Futures
<1>2. IsFiniteSet(DrainedFailures) /\ (drained + 1) \notin DrainedFailures
  <2>1. IsFiniteSet(DrainedFailures)
    BY <1>1, FailuresFinite
  <2>2. \A i \in 1..drained : i # drained + 1
    BY <1>1
  <2> QED
    BY <2>1, <2>2 DEF DrainedFailures
<1>3. CASE futures[drained + 1].state = "ok"
  <2>1. DrainedFailures' = DrainedFailures
    BY <1>1, <1>3 DEF DrainedFailures
  <2>2. stats' \in [compiled : Nat, failed : Nat] /\ stats'.failed = stats.failed
    BY <1>1, <1>3 DEF Counted
  <2> QED
    BY <1>1, <2>1, <2>2 DEF PoolInv, Resolved
<1>4. CASE futures[drained + 1].state = "failed"
  <2>1. DrainedFailures' = DrainedFailures \cup {drained + 1}
    BY <1>1, <1>4 DEF DrainedFailures
  <2>2. stats' \in [compiled : Nat, failed : Nat] /\ stats'.failed = stats.failed + 1
    BY <1>1, <1>4 DEF Counted
  <2>3. Cardinality(DrainedFailures') = Cardinality(DrainedFailures) + 1
    BY <1>2, <2>1, FS_AddElement
  <2> QED
    BY <1>1, <2>2, <2>3 DEF PoolInv, Resolved
<1> QED
  BY <1>1, <1>3, <1>4 DEF Resolved

\* Every step keeps the pool's invariant.
LEMMA PoolStep == KeyInv /\ KeyInv' /\ PoolInv /\ [Next]_vars => PoolInv'
<1> SUFFICES ASSUME KeyInv, KeyInv', PoolInv, [Next]_vars PROVE PoolInv'
  OBVIOUS
<1>0. futures \in Futures /\ futures' \in Futures /\ strict' = strict
  BY StartFixed DEF KeyInv, Futures
<1>1. CASE UNCHANGED <<futures, drained, stats, cache>>
  BY <1>0, <1>1 DEF PoolInv, Resolved, DrainedFailures
<1>2. CASE CallZone \/ CallNested \/ Gate \/ ShardDone \/ Leave \/ Exit
           \/ ExitUncaught \/ ChainRaises \/ Killed \/ Ended \/ UNCHANGED vars
  BY <1>1, <1>2 DEF CallZone, CallNested, Gate, ShardDone, Leave, Exit,
                    ExitUncaught, ChainRaises, Killed, Ended, vars
<1>3. CASE Drain
  BY <1>0, <1>3, DrainCounts
<1>4. CASE Lowered
  <2>1. PICK f : futures' = Append(futures, f) /\ f.state = "queued"
                 /\ UNCHANGED <<drained, stats, cache>>
    BY <1>4 DEF Lowered
  <2>2. /\ Len(futures') = Len(futures) + 1 /\ Len(futures) \in Nat
        /\ DOMAIN futures' = 1..(Len(futures) + 1) /\ DOMAIN futures = 1..Len(futures)
        /\ futures'[Len(futures) + 1] = f
        /\ \A j \in 1..Len(futures) : futures'[j] = futures[j]
    BY <1>0, <2>1 DEF Futures
  <2>3. strict => \A j \in DOMAIN futures' :
                      futures'[j].state = "ok" => futures'[j].key \in cache'
    BY <2>1, <2>2 DEF PoolInv
  <2>4. drained \in 0..Len(futures)
    BY DEF PoolInv
  <2> QED
    BY <1>0, <2>1, <2>2, <2>3, <2>4, DrainedKept DEF PoolInv
<1>5. CASE Compile
  <2>1. PICK i \in DOMAIN futures, st \in FutureStates :
            /\ ~Resolved(i)
            /\ futures' = [futures EXCEPT ![i].state = st]
            /\ strict /\ st = "ok" => futures[i].key \in cache'
            /\ cache \subseteq cache'
            /\ UNCHANGED <<drained, stats>>
    BY <1>0, <1>5, PoolMoves
  <2>2. /\ Len(futures') = Len(futures)
        /\ \A j \in 1..Len(futures) :
              /\ futures'[j].key = futures[j].key
              /\ futures'[j].state = (IF j = i THEN st ELSE futures[j].state)
    BY <1>0, <2>1, KeysKept
  <2>3. DOMAIN futures = 1..Len(futures) /\ DOMAIN futures' = 1..Len(futures')
        /\ Len(futures) \in Nat
    BY <1>0 DEF Futures
  <2>4. strict => \A j \in DOMAIN futures' :
                      futures'[j].state = "ok" => futures'[j].key \in cache'
    BY <2>1, <2>2, <2>3 DEF PoolInv
  <2>5. \A j \in 1..drained : j \in 1..Len(futures) /\ j # i
    BY <2>1, <2>3 DEF PoolInv
  <2> QED
    BY <1>0, <2>1, <2>2, <2>3, <2>4, <2>5, DrainedKept DEF PoolInv
<1> QED
  BY <1>2, <1>3, <1>4, <1>5 DEF Next, Step

-----------------------------------------------------------------------------
(* The verdict.                                                            *)

LEMMA InitEndInv == Init => EndInv
BY DEF Init, EndInv, ExitTellsTheTruth, PoolIsDone

\* A worker that leaves with success has compiled every key of its entries, and
\* a strict cache holds them.
LEMMA SuccessIsWarm ==
    ASSUME WalkInv, KeyInv, PoolInv, EndInv, Exit, Verdict = "ok"
    PROVE  \A s \in Entries : /\ ProveKeys(s) \subseteq Compiled
                              /\ strict => ProveKeys(s) \subseteq cache
<1>1. main = "drain" /\ drained = Len(futures) /\ stats.failed = 0 /\ failed = {}
  BY DEF Exit, AllDrained, Verdict, ChainRc, PoolInv
<1>2. raised = {} /\ at.shard \notin Entries
  BY <1>1, WorkerAssumption DEF EndInv, WalkInv
<1>3. \A s \in Entries : s < at.shard
  BY <1>2, EntriesFact DEF WalkInv, Entries, Shards
<1>4. \A s \in Entries : ProveKeys(s) \subseteq Submitted
  BY <1>1, <1>2, <1>3 DEF KeyInv, OthersStillWarm, Walked
<1>5. DrainedFailures = {}
  <2>1. IsFiniteSet(DrainedFailures)
    BY FailuresFinite DEF PoolInv
  <2> QED
    BY <1>1, <2>1, FS_EmptySet DEF PoolInv
<1>6. DOMAIN futures = 1..Len(futures)
  BY DEF KeyInv
<1>7. \A i \in DOMAIN futures : futures[i].state = "ok"
  BY <1>1, <1>5, <1>6 DEF PoolInv, Resolved, DrainedFailures
<1> QED
  BY <1>4, <1>7 DEF Submitted, Compiled, PoolInv

\* A drained queue has every failure counted.
LEMMA AllCounted ==
    ASSUME KeyInv, PoolInv, drained = Len(futures)
    PROVE  stats.failed =
               Cardinality({i \in DOMAIN futures : futures[i].state = "failed"})
<1>1. DOMAIN futures = 1..Len(futures)
  BY DEF KeyInv
<1>2. {i \in DOMAIN futures : futures[i].state = "failed"} = DrainedFailures
  BY <1>1 DEF DrainedFailures
<1> QED
  BY <1>2 DEF PoolInv

\* Every step keeps the verdict's invariant.
LEMMA EndStep ==
    WalkInv /\ KeyInv /\ PoolInv /\ EndInv /\ [Next]_vars => EndInv'
<1> SUFFICES ASSUME WalkInv, KeyInv, PoolInv, EndInv, [Next]_vars PROVE EndInv'
  OBVIOUS
<1>0. UNCHANGED <<kind, strict, Entries>>
  BY StartFixed
<1>1. CASE Exit
  <2>1. /\ main = "drain" /\ main' = "ended" /\ exit' = Verdict /\ drained = Len(futures)
        /\ UNCHANGED <<trace, at, futures, cache, failed, drained, stats, raised>>
    BY <1>1 DEF Exit, AllDrained, trace
  <2>2. Verdict = "ok" \/ Verdict = "failed"
    BY DEF Verdict
  <2>3. DOMAIN futures = 1..Len(futures)
    BY DEF KeyInv
  <2>4. \A i \in DOMAIN futures : Resolved(i)
    BY <2>1, <2>3 DEF PoolInv
  <2>5. {i \in DOMAIN futures : futures[i].state = "failed"} = DrainedFailures
    BY <2>1, <2>3 DEF DrainedFailures
  <2>6. PoolIsDone'
    BY <2>1, <2>4, <2>5 DEF PoolIsDone, PoolInv, Resolved
  <2>7. Verdict = "failed" => raised # {} \/ \E i \in DOMAIN futures :
                                                 futures[i].state = "failed"
    <3>1. CASE failed # {}
      BY <3>1 DEF EndInv
    <3>2. CASE stats.failed > 0
      <4>1. DrainedFailures # {}
        BY <3>2, FS_EmptySet DEF PoolInv
      <4> QED
        BY <2>5, <4>1
    <3> QED
      BY <3>1, <3>2 DEF Verdict, ChainRc
  <2>8. ExitTellsTheTruth'
    <3>1. UNCHANGED Compiled
      BY <2>1 DEF Compiled
    <3>2. exit' = "ok" => \A s \in Entries :
                               /\ ProveKeys(s) \subseteq Compiled
                               /\ strict => ProveKeys(s) \subseteq cache
      BY <1>1, <2>1, SuccessIsWarm
    <3>3. exit' = "failed" => raised # {} \/ \E i \in DOMAIN futures :
                                                  futures[i].state = "failed"
      BY <2>1, <2>7
    <3> QED
      BY ONLY <1>0, <2>1, <3>1, <3>2, <3>3 DEF ExitTellsTheTruth
  <2> QED
    BY <1>0, <2>1, <2>2, <2>6, <2>8 DEF EndInv
<1>2. CASE ExitUncaught
  <2>1. /\ main = "uncaught" /\ main' = "ended" /\ exit' = "failed"
        /\ \A i \in DOMAIN futures : Resolved(i)
        /\ UNCHANGED <<at, futures, cache, failed, drained, stats, raised>>
    BY <1>2 DEF ExitUncaught, trace
  <2>2. PoolIsDone'
    BY <2>1, AllCounted DEF PoolIsDone, Resolved
  <2> QED
    BY <1>0, <2>1, <2>2 DEF EndInv, ExitTellsTheTruth
<1>3. CASE Killed
  BY <1>0, <1>3 DEF Killed, EndInv, ExitTellsTheTruth, PoolIsDone
<1>4. CASE ChainRaises
  <2>1. /\ main = "chains" /\ at.shard \in Entries /\ raised' = raised \cup {at.shard}
        /\ UNCHANGED exit /\ ShardFails
    BY <1>4 DEF ChainRaises, Walking
  <2>2. exit = "none" /\ at.shard \in Shards
    BY <2>1, EntriesFact DEF EndInv
  <2>3. CASE kind = "sweep"
    BY <1>0, <2>1, <2>2, <2>3
       DEF ShardFails, EndInv, ExitTellsTheTruth, PoolIsDone
  <2>4. CASE kind = "recursion"
    BY <1>0, <2>1, <2>2, <2>4
       DEF ShardFails, EndInv, ExitTellsTheTruth, PoolIsDone
  <2> QED
    BY <2>1, <2>3, <2>4 DEF ShardFails
<1>5. CASE Gate
  <2>1. /\ main = "chains" /\ at.shard \in Entries /\ stack = <<>>
        /\ at.item \in 1..Len(Chain[at.shard]) /\ ~IsZone(Item)
        /\ UNCHANGED <<exit, raised>>
    BY <1>5, EntriesFact DEF Gate, AtItem, Walking, WalkInv
  <2>2. Item.gate \in PatchedGates
    BY <2>1, ItemFact, EntriesFact DEF Item
  <2>3. UNCHANGED <<main, failed>>
    BY <1>5, <2>2 DEF Gate
  <2> QED
    BY <1>0, <2>1, <2>3 DEF EndInv, ExitTellsTheTruth, PoolIsDone
<1>6. CASE CallZone \/ CallNested \/ Lowered \/ ShardDone \/ Leave \/ Drain
  <2>1. /\ exit = "none" /\ main \in {"chains", "drain"}
        /\ main' \in {"chains", "drain"}
        /\ main' = "drain" => at'.shard \notin Entries
        /\ UNCHANGED <<exit, failed, raised>>
    BY <1>6 DEF CallZone, CallNested, Lowered, ShardDone, Leave, Drain, Walking,
                AtItem, EndInv, trace
  <2>2. ExitTellsTheTruth' /\ PoolIsDone'
    BY <2>1 DEF ExitTellsTheTruth, PoolIsDone
  <2>3. /\ failed' \subseteq raised' /\ raised' \subseteq Shards
        /\ kind = "sweep" => raised' \subseteq failed'
        /\ kind = "recursion" => raised' = {}
    BY <2>1 DEF EndInv
  <2> QED
    BY <1>0, <2>1, <2>2, <2>3 DEF EndInv
<1>7. CASE Compile
  <2>1. exit = "none" /\ UNCHANGED <<main, at, exit, failed, raised>>
    BY <1>7 DEF Compile, StartCompile, FinishCompile, trace
  <2> QED
    BY <1>0, <2>1 DEF EndInv, ExitTellsTheTruth, PoolIsDone
<1>8. CASE Ended \/ UNCHANGED vars
  <2>1. UNCHANGED <<main, at, futures, cache, failed, drained, stats, exit, raised>>
    BY <1>8 DEF Ended, vars, trace
  <2>2. UNCHANGED Compiled
    BY <2>1 DEF Compiled
  <2>3. ExitTellsTheTruth'
    BY ONLY EndInv, <1>0, <2>1, <2>2 DEF EndInv, ExitTellsTheTruth
  <2>4. PoolIsDone'
    BY <2>1 DEF EndInv, PoolIsDone, Resolved
  <2> QED
    BY <1>0, <2>1, <2>3, <2>4 DEF EndInv
<1> QED
  BY <1>1, <1>2, <1>3, <1>4, <1>5, <1>6, <1>7, <1>8 DEF Next, Step

-----------------------------------------------------------------------------
(* The theorems.                                                           *)

\* IInv holds in every reachable state.
LEMMA Inductive == Spec => []IInv
<1>1. Init => IInv
  BY InitWalkInv, InitKeyInv, InitPoolInv, InitEndInv DEF IInv
<1>2. IInv /\ [Next]_vars => IInv'
  BY WalkStep, KeyStep, PoolStep, EndStep DEF IInv
<1> QED
  BY <1>1, <1>2, PTL DEF Spec

\* However zones raise and compiles fail, no zone of any chain is executed.
THEOREM NothingIsExecuted == Spec => []NothingExecutes
<1>1. IInv => NothingExecutes
  BY DEF IInv, WalkInv, NothingExecutes
<1> QED
  BY <1>1, Inductive, PTL

\* Every key submitted is one that a prove of the worker's entries asks for.
THEOREM OnlyProveKeys == Spec => []KeysAreTheProves
<1>1. IInv => KeysAreTheProves
  <2> SUFFICES ASSUME KeyInv, NEW i \in DOMAIN futures PROVE futures[i].key \in AllKeys
    BY DEF IInv, KeysAreTheProves, AllKeys, Submitted
  <2> DEFINE Rec == [key : AllKeys, state : FutureStates]
  <2>1. futures[i] \in Rec
    <3>1. futures \in Seq(Rec)
      BY DEF KeyInv
    <3> HIDE DEF Rec
    <3> QED
      BY <3>1
  <2> QED
    BY <2>1
<1> QED
  BY <1>1, Inductive, PTL

\* A shard whose chain completes has all its keys submitted, whatever happened
\* to the shards before it.
THEOREM FailuresStayLocal == Spec => []OthersStillWarm
<1>1. IInv => OthersStillWarm
  BY DEF IInv, KeyInv
<1> QED
  BY <1>1, Inductive, PTL

\* The exit status is true: success means every key of every entry was compiled,
\* and is in the cache where the cache is strict; failure that a chain or a
\* compile broke.  Without strictness the cache may hold none of them.
THEOREM StatusIsTrue == Spec => []ExitTellsTheTruth
<1>1. IInv => ExitTellsTheTruth
  BY DEF IInv, EndInv
<1> QED
  BY <1>1, Inductive, PTL

\* A worker leaves no compile behind it and loses no failure.
THEOREM PoolEndsFirst == Spec => []PoolIsDone
<1>1. IInv => PoolIsDone
  BY DEF IInv, EndInv
<1> QED
  BY <1>1, Inductive, PTL

\* Every variable has its type in every reachable state.
THEOREM WorkerTypeCorrect == Spec => []TypeOK
<1>1. IInv => TypeOK
  <2> SUFFICES ASSUME IInv PROVE TypeOK
    OBVIOUS
  <2> DEFINE Rec == [key : AllKeys, state : FutureStates]
  <2>1. ASSUME NEW i \in DOMAIN futures
        PROVE  /\ futures[i].state \in FutureStates
               /\ Range(futures[i].key.shardings) \subseteq Sharded
    <3>1. futures[i] \in Rec
      <4>1. futures \in Seq(Rec)
        BY DEF IInv, KeyInv
      <4> HIDE DEF Rec
      <4> QED
        BY <2>1, <4>1
    <3>2. PICK s \in Entries : \E j \in ZonesOf(s) : futures[i].key = ProveKey(s, j)
      BY <3>1 DEF AllKeys, ProveKeys
    <3>3. \A k \in DOMAIN futures[i].key.shardings :
              futures[i].key.shardings[k] \in Sharded
      BY <3>2 DEF ProveKey, Key, Placed, Sharded
    <3> QED
      BY <3>1, <3>3 DEF Range
  <2>2. /\ \A i \in DOMAIN results : results[i] \in BOOLEAN
        /\ depth \in Nat
    BY DEF IInv, WalkInv
  <2>3. failed \subseteq Shards /\ raised \subseteq Shards /\ drained \in 0..Len(futures)
        /\ exit \in {"none", "ok", "failed", "killed"}
    BY DEF IInv, EndInv, PoolInv
  <2> QED
    BY <2>1, <2>2, <2>3 DEF IInv, WalkInv, TypeOK, FutureStates
<1> QED
  BY <1>1, Inductive, PTL
=============================================================================
