--------------------------- MODULE WarmPoolProofs ---------------------------
(***************************************************************************)
(* Proofs about WarmPool for any number of shards, GPUs and chip sets, any *)
(* peaks, areas, budget, job bound and readings.                           *)
(***************************************************************************)
EXTENDS WarmPool, RecurrencesProofs

\* The initial state has the types.
LEMMA InitTypeOK == Init => TypeOK
BY PoolAssumption DEF Init, TypeOK, Steps, ProcStates, Gpus, AllGroups

\* Every step of the pool keeps the variables in their types.
LEMMA TypeStep == TypeOK /\ [Next]_vars => TypeOK'
<1> SUFFICES ASSUME TypeOK, [Next]_vars PROVE TypeOK'
  OBVIOUS
<1> USE PoolAssumption DEF TypeOK, Steps, ProcStates, Gpus
<1>1. CASE Visit
  BY <1>1 DEF Visit, Members
<1>2. ASSUME NEW s \in Shards, Launch(s) PROVE TypeOK'
  BY <1>2 DEF Launch
<1>3. CASE LeaveGpu
  BY <1>3 DEF LeaveGpu
<1>4. ASSUME NEW s \in Shards, Poll(s) PROVE TypeOK'
  BY <1>4 DEF Poll
<1>5. CASE EndPoll
  BY <1>5 DEF EndPoll
<1>6. ASSUME NEW s \in Shards, SoloStart(s) PROVE TypeOK'
  BY <1>6 DEF SoloStart
<1>7. ASSUME NEW s \in Shards, SoloEnd(s) PROVE TypeOK'
  BY <1>7 DEF SoloEnd
<1>8. CASE Finish
  BY <1>8 DEF Finish
<1>9. ASSUME NEW s \in Shards, WorkerExit(s) PROVE TypeOK'
  BY <1>9 DEF WorkerExit, dispatcher
<1>10. CASE UNCHANGED vars
  BY <1>10 DEF vars
<1> QED
  BY <1>1, <1>2, <1>3, <1>4, <1>5, <1>6, <1>7, <1>8, <1>9, <1>10
  DEF Next, Dispatch, Exited

\* Every variable has its type in every reachable state of the pool.
THEOREM TypeCorrect == Spec => []TypeOK
BY InitTypeOK, TypeStep, PTL DEF Spec

-----------------------------------------------------------------------------
(* Where every shard is, and what the dispatcher knows of its worker.      *)

\* Nothing is queued twice at the start: every group is untaken.
LEMMA InitPlaces == Init => Places /\ Outcomes /\ Homes
BY PoolAssumption
DEF Init, Places, Outcomes, Homes, Started, Draining, WorkLeft, AllGroups, Gpus

\* The dispatcher and the workers keep the bookkeeping of shards consistent.
LEMMA PlacesStep == TypeOK /\ Places /\ Outcomes /\ Homes /\ [Next]_vars
                      => Places' /\ Outcomes' /\ Homes'
<1> SUFFICES ASSUME TypeOK, Places, Outcomes, Homes, [Next]_vars
             PROVE  Places' /\ Outcomes' /\ Homes'
  OBVIOUS
<1> USE PoolAssumption DEF TypeOK, Places, Outcomes, Homes, Started, Draining, WorkLeft
<1>1. CASE Visit
  <2>1. CASE UNCHANGED <<groupQ, pending>>
    BY <1>1, <2>1 DEF Visit
  <2>2. ASSUME NEW g \in groupQ, pending[cursor] = {},
               groupQ' = groupQ \ {g},
               pending' = [pending EXCEPT ![cursor] = Members(g)]
        PROVE  Places' /\ Outcomes' /\ Homes'
    <3>1. \A s \in Members(g) : s \in Shards /\ GroupOf(s) = g /\ gpuOf[s] = 0
      BY DEF Members
    <3>2. \A s \in Shards : GroupOf(s) = g => s \in pending'[cursor]
      BY <2>2 DEF Members
    <3>3. \A h \in Gpus : h # cursor => pending'[h] = pending[h]
      BY <2>2
    <3>4. pending'[cursor] = Members(g)
      BY <2>2
    <3> QED
      BY <1>1, <2>2, <3>1, <3>2, <3>3, <3>4 DEF Visit
  <2> QED
    BY <1>1, <2>1, <2>2 DEF Visit
<1>2. ASSUME NEW s \in Shards, Launch(s) PROVE Places' /\ Outcomes' /\ Homes'
  <2>1. s \in pending[cursor]
    BY <1>2 DEF Launch, IsPick, Fitting
  <2>2. /\ pc = "launch" /\ pc' = pc
        /\ pending'[cursor] = pending[cursor] \ {s}
        /\ \A h \in Gpus : h # cursor => pending'[h] = pending[h]
        /\ running' = running \cup {s}
        /\ gpuOf'[s] = cursor /\ proc'[s] = "alive"
        /\ \A t \in Shards : t # s => gpuOf'[t] = gpuOf[t] /\ proc'[t] = proc[t]
    BY <1>2 DEF Launch
  <2>3. \A h \in Gpus : h # cursor => s \notin pending[h]
    BY <2>1, <2>2
  <2> QED
    BY <1>2, <2>1, <2>2, <2>3 DEF Launch, Gpus
<1>3. CASE LeaveGpu
  BY <1>3 DEF LeaveGpu
<1>4. ASSUME NEW s \in Shards, Poll(s) PROVE Places' /\ Outcomes' /\ Homes'
  BY <1>4 DEF Poll, ProcStates
<1>5. CASE EndPoll
  BY <1>5 DEF EndPoll
<1>6. ASSUME NEW s \in Shards, SoloStart(s) PROVE Places' /\ Outcomes' /\ Homes'
  BY <1>6 DEF SoloStart, Gpus
<1>7. ASSUME NEW s \in Shards, SoloEnd(s) PROVE Places' /\ Outcomes' /\ Homes'
  BY <1>7 DEF SoloEnd, ProcStates
<1>8. CASE Finish
  <2>1. failedShards \subseteq retried /\ pc' = "exited"
    BY <1>8 DEF Finish
  <2>2. exit' \in {"success", "failure"}
    BY <1>8 DEF Finish, CacheHasFiles
  <2> QED
    BY <1>8, <2>1, <2>2 DEF Finish
<1>9. ASSUME NEW s \in Shards, WorkerExit(s) PROVE Places' /\ Outcomes' /\ Homes'
  BY <1>9 DEF WorkerExit, dispatcher
<1>10. CASE UNCHANGED vars
  BY <1>10 DEF vars
<1> QED
  BY <1>1, <1>2, <1>3, <1>4, <1>5, <1>6, <1>7, <1>8, <1>9, <1>10
  DEF Next, Dispatch, Exited

-----------------------------------------------------------------------------
(* The counters.                                                           *)

WarmSet == Started \ (running \cup failedShards)
RecoveredSet == {s \in retried : proc[s] = "zero"}

\* Sets of shards are finite, so that counting them is meaningful.
LEMMA ShardsFinite == IsFiniteSet(Shards)
BY PoolAssumption, FS_Interval DEF Shards

\* The sets the counters count are finite.
LEMMA CountedFinite ==
    TypeOK => /\ IsFiniteSet(WarmSet)
              /\ IsFiniteSet(failedShards)
              /\ IsFiniteSet(RecoveredSet)
<1> SUFFICES ASSUME TypeOK
             PROVE  /\ IsFiniteSet(WarmSet)
                    /\ IsFiniteSet(failedShards)
                    /\ IsFiniteSet(RecoveredSet)
  OBVIOUS
<1>1. WarmSet \subseteq Shards /\ failedShards \subseteq Shards
      /\ RecoveredSet \subseteq Shards
  BY DEF TypeOK, WarmSet, RecoveredSet, Started
<1> QED
  BY <1>1, ShardsFinite, FS_Subset

\* Counting starts at zero.
LEMMA InitCounts == Init => Counts
<1> SUFFICES ASSUME Init PROVE Counts
  OBVIOUS
<1>1. WarmSet = {} /\ RecoveredSet = {} /\ failedShards = {}
  BY DEF Init, WarmSet, RecoveredSet, Started
<1> QED
  BY <1>1, FS_EmptySet DEF Init, Counts, WarmSet, RecoveredSet

\* The counters follow the sets of shards they count.
LEMMA CountsStep == TypeOK /\ Places /\ Outcomes /\ Counts /\ [Next]_vars
                      => Counts'
<1> SUFFICES ASSUME TypeOK, Places, Outcomes, Counts, [Next]_vars
             PROVE  Counts'
  OBVIOUS
<1>a. /\ IsFiniteSet(WarmSet)
      /\ IsFiniteSet(failedShards)
      /\ IsFiniteSet(RecoveredSet)
  BY CountedFinite
<1>b. ASSUME WarmSet' = WarmSet, RecoveredSet' = RecoveredSet,
             UNCHANGED <<ok, fail, recovered, failedShards, exit>>
      PROVE  Counts'
  BY <1>b DEF Counts, WarmSet, RecoveredSet
<1>1. CASE Visit
  BY <1>b, <1>1 DEF Visit, WarmSet, RecoveredSet, Started
<1>2. ASSUME NEW s \in Shards, Launch(s) PROVE Counts'
  <2>1. s \in pending[cursor] /\ gpuOf[s] = 0
    BY <1>2 DEF Launch, IsPick, Fitting, TypeOK, Places
  <2>2. Started' = Started \cup {s}
    BY <1>2 DEF Launch, Started, TypeOK, Gpus
  <2>3. WarmSet' = WarmSet
    BY <1>2, <2>1, <2>2 DEF Launch, WarmSet, Started, Places
  <2>4. RecoveredSet' = RecoveredSet
    BY <1>2, <2>1 DEF Launch, RecoveredSet, TypeOK, Places, Started
  <2> QED
    BY <1>2, <1>b, <2>3, <2>4 DEF Launch
<1>3. CASE LeaveGpu
  BY <1>b, <1>3 DEF LeaveGpu, WarmSet, RecoveredSet, Started
<1>4. ASSUME NEW s \in Shards, Poll(s) PROVE Counts'
  <2>1. /\ s \in running /\ s \in Started /\ s \notin failedShards
        /\ s \notin WarmSet /\ exit = "none"
    BY <1>4 DEF Poll, Places, WarmSet
  <2>2. RecoveredSet' = RecoveredSet
    BY <1>4 DEF Poll, RecoveredSet
  <2>3. CASE proc[s] = "alive"
    BY <1>4, <1>b, <2>2, <2>3 DEF Poll, WarmSet, Started
  <2>4. CASE proc[s] = "zero"
    <3>1. WarmSet' = WarmSet \cup {s}
      BY <1>4, <2>1, <2>4 DEF Poll, WarmSet, Started
    <3>2. Cardinality(WarmSet') = Cardinality(WarmSet) + 1
      BY <3>1, <2>1, <1>a, FS_AddElement
    <3> QED
      BY <1>4, <2>1, <2>2, <2>4, <3>2 DEF Poll, Counts, WarmSet, RecoveredSet
  <2>5. CASE proc[s] \notin {"alive", "zero"}
    <3>1. failedShards' = failedShards \cup {s}
      BY <1>4, <2>5 DEF Poll
    <3>2. WarmSet' = WarmSet
      BY <1>4, <2>1, <2>5 DEF Poll, WarmSet, Started
    <3>3. Cardinality(failedShards') = Cardinality(failedShards) + 1
      BY <3>1, <2>1, <1>a, FS_AddElement
    <3> QED
      BY <1>4, <2>1, <2>2, <2>5, <3>2, <3>3 DEF Poll, Counts, WarmSet, RecoveredSet
  <2> QED
    BY <2>3, <2>4, <2>5
<1>5. CASE EndPoll
  BY <1>b, <1>5 DEF EndPoll, WarmSet, RecoveredSet, Started
<1>6. ASSUME NEW s \in Shards, SoloStart(s) PROVE Counts'
  <2>1. s \in Started /\ s \notin retried
    BY <1>6 DEF SoloStart, Places
  <2>2. Started' = Started
    BY <1>6, <2>1 DEF SoloStart, Started, TypeOK
  <2>3. RecoveredSet' = RecoveredSet
    BY <1>6, <2>1 DEF SoloStart, RecoveredSet, TypeOK
  <2> QED
    BY <1>6, <1>b, <2>2, <2>3 DEF SoloStart, WarmSet
<1>7. ASSUME NEW s \in Shards, SoloEnd(s) PROVE Counts'
  <2>1. s \notin retried
    BY <1>7 DEF SoloEnd, Places
  <2>2. WarmSet' = WarmSet
    BY <1>7 DEF SoloEnd, WarmSet, Started
  <2>3. CASE proc[s] = "zero"
    <3>1. RecoveredSet' = RecoveredSet \cup {s} /\ s \notin RecoveredSet
      BY <1>7, <2>1, <2>3 DEF SoloEnd, RecoveredSet
    <3>2. Cardinality(RecoveredSet') = Cardinality(RecoveredSet) + 1
      BY <3>1, <1>a, FS_AddElement
    <3> QED
      BY <1>7, <2>2, <2>3, <3>2 DEF SoloEnd, Counts, WarmSet, RecoveredSet
  <2>4. CASE proc[s] # "zero"
    <3>1. RecoveredSet' = RecoveredSet
      BY <1>7, <2>4 DEF SoloEnd, RecoveredSet
    <3> QED
      BY <1>7, <1>b, <2>2, <2>4, <3>1 DEF SoloEnd
  <2> QED
    BY <2>3, <2>4
<1>8. CASE Finish
  <2>1. exit' # "none"
    BY <1>8 DEF Finish, CacheHasFiles
  <2>2. RecoveredSet' = RecoveredSet
    BY <1>8 DEF Finish, RecoveredSet
  <2> QED
    BY <1>8, <2>1, <2>2 DEF Finish, Counts, RecoveredSet
<1>9. ASSUME NEW s \in Shards, WorkerExit(s) PROVE Counts'
  <2>1. s \notin retried
    BY <1>9 DEF WorkerExit, Outcomes
  <2>2. RecoveredSet' = RecoveredSet
    BY <1>9, <2>1 DEF WorkerExit, dispatcher, RecoveredSet, TypeOK
  <2>3. WarmSet' = WarmSet
    BY <1>9 DEF WorkerExit, dispatcher, WarmSet, Started
  <2> QED
    BY <1>9, <1>b, <2>2, <2>3 DEF WorkerExit, dispatcher
<1>10. CASE UNCHANGED vars
  BY <1>10, <1>b DEF vars, WarmSet, RecoveredSet, Started
<1> QED
  BY <1>1, <1>2, <1>3, <1>4, <1>5, <1>6, <1>7, <1>8, <1>9, <1>10
  DEF Next, Dispatch, Exited

-----------------------------------------------------------------------------

\* A GPU's workers are shards, so they can be counted.
LEMMA MineFinite == TypeOK => \A g \in Gpus : IsFiniteSet(Mine(g))
<1> SUFFICES ASSUME TypeOK, NEW g \in Gpus PROVE IsFiniteSet(Mine(g))
  OBVIOUS
<1>1. Mine(g) \subseteq Shards
  BY DEF TypeOK, Mine
<1> QED
  BY <1>1, ShardsFinite, FS_Subset

\* No worker runs at the start.
LEMMA InitJobs == Init => JobsCounted
<1> SUFFICES ASSUME Init, NEW g \in Gpus PROVE Cardinality(Mine(g)) <= Jobs
  BY DEF JobsCounted
<1>1. Mine(g) = {}
  BY DEF Init, Mine
<1> QED
  BY <1>1, FS_EmptySet, PoolAssumption

\* A launch is the only step that adds a worker to a GPU, and it is guarded.
LEMMA JobsStep == TypeOK /\ Places /\ JobsCounted /\ [Next]_vars
                    => JobsCounted'
<1> SUFFICES ASSUME TypeOK, Places, JobsCounted, [Next]_vars, NEW g \in Gpus
             PROVE  Cardinality(Mine(g)') <= Jobs
  BY DEF JobsCounted, Gpus
<1>a. IsFiniteSet(Mine(g)) /\ Cardinality(Mine(g)) <= Jobs
      /\ Cardinality(Mine(g)) \in Nat
  BY MineFinite, FS_CardinalityType DEF JobsCounted
<1>b. ASSUME Mine(g)' \subseteq Mine(g) PROVE Cardinality(Mine(g)') <= Jobs
  <2>1. Cardinality(Mine(g)') <= Cardinality(Mine(g)) /\ IsFiniteSet(Mine(g)')
    BY <1>a, <1>b, FS_Subset
  <2>2. Cardinality(Mine(g)') \in Nat
    BY <2>1, FS_CardinalityType
  <2> QED
    BY <1>a, <2>1, <2>2, PoolAssumption
<1>1. ASSUME NEW s \in Shards, Launch(s) PROVE Cardinality(Mine(g)') <= Jobs
  <2>1. s \notin running /\ running \subseteq Shards
    BY <1>1 DEF Launch, IsPick, Fitting, TypeOK, Places, Started
  <2>2. CASE g = cursor
    <3>1. Mine(g)' = Mine(g) \cup {s} /\ s \notin Mine(g)
      BY <1>1, <2>1, <2>2 DEF Launch, Mine, TypeOK
    <3>2. Cardinality(Mine(g)') = Cardinality(Mine(g)) + 1
      BY <3>1, <1>a, FS_AddElement
    <3>3. Cardinality(Mine(g)) < Jobs
      BY <1>1, <2>2 DEF Launch
    <3> QED
      BY <1>a, <3>2, <3>3, PoolAssumption
  <2>3. CASE g # cursor
    <3>1. Mine(g)' \subseteq Mine(g)
      BY <1>1, <2>1, <2>3 DEF Launch, Mine, TypeOK
    <3> QED
      BY <1>b, <3>1
  <2> QED
    BY <2>2, <2>3
<1>2. ASSUME NEW s \in Shards, SoloStart(s)
      PROVE  Cardinality(Mine(g)') <= Jobs
  <2>1. running = {} /\ running' = {}
    BY <1>2 DEF SoloStart, Places, Draining, WorkLeft
  <2>2. Mine(g)' \subseteq Mine(g)
    BY <2>1 DEF Mine
  <2> QED
    BY <1>b, <2>2
<1>3. ASSUME running' \subseteq running, gpuOf' = gpuOf
      PROVE  Cardinality(Mine(g)') <= Jobs
  BY <1>b, <1>3 DEF Mine
<1>4. ASSUME NEW s \in Shards, Poll(s) PROVE running' \subseteq running /\ gpuOf' = gpuOf
  BY <1>4 DEF Poll
<1> QED
  BY <1>1, <1>2, <1>3, <1>4
  DEF Next, Dispatch, Exited, Visit, LeaveGpu, EndPoll, SoloEnd, Finish,
      WorkerExit, dispatcher, vars

-----------------------------------------------------------------------------
(* The memory a set of workers is counted with.                            *)

Weights(S) == [s \in Shards |-> IF s \in S THEN Peak[s] ELSE 0]

LEMMA WeightsSeq == \A S : Weights(S) \in Seq(Nat) /\ Len(Weights(S)) = NShards
BY PoolAssumption DEF Weights, Shards

LEMMA UsedType == \A S : Used(S) \in Nat
<1> SUFFICES ASSUME NEW S PROVE Used(S) \in Nat
  OBVIOUS
<1>1. Prefix(Weights(S)) \in [0..NShards -> Nat]
  BY WeightsSeq, PrefixDef
<1>2. Used(S) = Prefix(Weights(S))[NShards]
  BY WeightsSeq DEF Used, Weights, Total
<1> QED
  BY <1>1, <1>2, PoolAssumption

\* Fewer workers need no more.
LEMMA UsedMonotone == \A S, T : S \subseteq T => Used(S) <= Used(T)
<1> SUFFICES ASSUME NEW S, NEW T, S \subseteq T PROVE Used(S) <= Used(T)
  OBVIOUS
<1>1. \A i \in 1..NShards : Weights(S)[i] <= Weights(T)[i]
  BY PoolAssumption DEF Weights, Shards
<1>2. \A n \in 0..NShards : Prefix(Weights(S))[n] <= Prefix(Weights(T))[n]
  BY <1>1, WeightsSeq, PrefixPointwise
<1>3. Used(S) = Prefix(Weights(S))[NShards] /\ Used(T) = Prefix(Weights(T))[NShards]
  BY WeightsSeq DEF Used, Weights, Total
<1> QED
  BY <1>2, <1>3, PoolAssumption

\* One more worker needs its peak more.
LEMMA UsedAdd ==
    \A S : \A s \in Shards \ S : Used(S \cup {s}) = Used(S) + Peak[s]
<1> SUFFICES ASSUME NEW S, NEW s \in Shards \ S
             PROVE  Used(S \cup {s}) = Used(S) + Peak[s]
  OBVIOUS
<1>1. Peak[s] \in Nat /\ s \in 1..NShards
  BY PoolAssumption DEF Shards
<1>2. Weights(S \cup {s})[s] = Weights(S)[s] + Peak[s]
  BY <1>1 DEF Weights
<1>3. \A i \in 1..NShards : i # s => Weights(S \cup {s})[i] = Weights(S)[i]
  BY DEF Weights, Shards
<1>4. PICK c, d : c = Weights(S) /\ d = Weights(S \cup {s})
  OBVIOUS
<1>5. c \in Seq(Nat) /\ d \in Seq(Nat) /\ Len(c) = NShards /\ Len(d) = NShards
  BY <1>4, WeightsSeq
<1>6. d[s] = c[s] + Peak[s] /\ \A i \in 1..Len(c) : i # s => d[i] = c[i]
  BY <1>2, <1>3, <1>4, <1>5
<1>7. Total(d) = Total(c) + Peak[s]
  <2>1. s \in 1..Len(c)
    BY <1>1, <1>5
  <2>2. d[s] = c[s] + Peak[s] /\ Len(d) = Len(c)
    BY <1>5, <1>6
  <2> QED
    BY <1>1, <1>5, <1>6, <2>1, <2>2, PrefixRaised
<1>8. Used(S) = Total(c) /\ Used(S \cup {s}) = Total(d)
  BY <1>4 DEF Used, Weights
<1> QED
  BY <1>7, <1>8

\* A GPU within the budget stays so with fewer workers.
LEMMA BudgetFewer ==
    ASSUME NEW S, NEW T, S \subseteq T, IsFiniteSet(T),
           Cardinality(T) <= 1 \/ Used(T) <= Budget
    PROVE  Cardinality(S) <= 1 \/ Used(S) <= Budget
<1>1. /\ Cardinality(S) <= Cardinality(T)
      /\ Cardinality(S) \in Nat /\ Cardinality(T) \in Nat
  BY FS_Subset, FS_CardinalityType
<1>2. Used(S) <= Used(T) /\ Used(S) \in Nat /\ Used(T) \in Nat
  BY UsedMonotone, UsedType
<1> QED
  BY <1>1, <1>2, PoolAssumption

\* No worker runs at the start.
LEMMA InitBudget == Init => BudgetCounted
<1> SUFFICES ASSUME Init, NEW g \in Gpus PROVE Cardinality(Mine(g)) <= 1
  BY DEF BudgetCounted
<1>1. Mine(g) = {}
  BY DEF Init, Mine
<1> QED
  BY <1>1, FS_EmptySet

\* A launch next to running workers fits the budget; no other step adds one.
LEMMA BudgetStep == TypeOK /\ Places /\ BudgetCounted /\ [Next]_vars
                      => BudgetCounted'
<1> SUFFICES ASSUME TypeOK, Places, BudgetCounted, [Next]_vars, NEW g \in Gpus
             PROVE  Cardinality(Mine(g)') <= 1 \/ Used(Mine(g)') <= Budget
  BY DEF BudgetCounted, Gpus, Used, Mine, Shards
<1>a. IsFiniteSet(Mine(g)) /\ (Cardinality(Mine(g)) <= 1 \/ Used(Mine(g)) <= Budget)
  BY MineFinite DEF BudgetCounted
<1>b. ASSUME Mine(g)' \subseteq Mine(g)
      PROVE  Cardinality(Mine(g)') <= 1 \/ Used(Mine(g)') <= Budget
  BY <1>a, <1>b, BudgetFewer
<1>1. ASSUME NEW s \in Shards, Launch(s)
      PROVE  Cardinality(Mine(g)') <= 1 \/ Used(Mine(g)') <= Budget
  <2>1. s \notin running /\ running \subseteq Shards
    BY <1>1 DEF Launch, IsPick, Fitting, TypeOK, Places, Started
  <2>2. CASE g = cursor
    <3>1. Mine(g)' = Mine(g) \cup {s} /\ s \notin Mine(g)
      BY <1>1, <2>1, <2>2 DEF Launch, Mine, TypeOK
    <3>2. CASE Mine(g) = {}
      <4>1. Mine(g)' = {s}
        BY <3>1, <3>2
      <4>2. Cardinality(Mine(g)') = 1
        BY <4>1, FS_Singleton
      <4> QED
        BY <4>2
    <3>3. CASE Mine(g) # {}
      <4>1. Used(Mine(g)) + Peak[s] <= Budget
        BY <1>1, <2>2, <3>3 DEF Launch, IsPick, Fitting, Fits
      <4>2. Used(Mine(g)') = Used(Mine(g)) + Peak[s]
        BY <3>1, UsedAdd
      <4> QED
        BY <4>1, <4>2
    <3> QED
      BY <3>2, <3>3
  <2>3. CASE g # cursor
    <3>1. Mine(g)' \subseteq Mine(g)
      BY <1>1, <2>1, <2>3 DEF Launch, Mine, TypeOK
    <3> QED
      BY <1>b, <3>1
  <2> QED
    BY <2>2, <2>3
<1>2. ASSUME NEW s \in Shards, SoloStart(s) PROVE Mine(g)' \subseteq Mine(g)
  <2>1. running = {} /\ running' = {}
    BY <1>2 DEF SoloStart, Places, Draining, WorkLeft
  <2> QED
    BY <2>1 DEF Mine
<1>3. ASSUME running' \subseteq running, gpuOf' = gpuOf
      PROVE  Mine(g)' \subseteq Mine(g)
  BY <1>3 DEF Mine
<1>4. ASSUME NEW s \in Shards, Poll(s) PROVE running' \subseteq running /\ gpuOf' = gpuOf
  BY <1>4 DEF Poll
<1> QED
  BY <1>b, <1>1, <1>2, <1>3, <1>4
  DEF Next, Dispatch, Exited, Visit, LeaveGpu, EndPoll, SoloEnd, Finish,
      WorkerExit, dispatcher, vars

-----------------------------------------------------------------------------

\* The inductive invariant of the pool holds in every reachable state.
THEOREM Inductive == Spec => []IInv
<1>1. Init => IInv
  BY InitTypeOK, InitPlaces, InitCounts, InitJobs, InitBudget DEF IInv
<1>2. IInv /\ [Next]_vars => IInv'
  BY TypeStep, PlacesStep, CountsStep, JobsStep, BudgetStep DEF IInv
<1> QED
  BY <1>1, <1>2, PTL DEF Spec

\* After the pool drained at most the one shard being retried is alive.
LEMMA AliveAfterDrain == IInv /\ ~Draining => Alive \subseteq toPoll
<1> SUFFICES ASSUME IInv, ~Draining, NEW s \in Alive PROVE s \in toPoll
  OBVIOUS
<1>1. running = {} /\ s \in Shards /\ proc[s] = "alive"
  BY DEF IInv, Places, WorkLeft, Alive
<1>2. s \in Started
  BY <1>1 DEF IInv, Places, Started
<1>3. s \in failedShards \ retried
  BY <1>1, <1>2 DEF IInv, Outcomes
<1> QED
  BY <1>1, <1>3 DEF IInv, Outcomes

\* While the pool drains, a live worker is one the dispatcher counts.
LEMMA AliveIsRunning == IInv /\ Draining => Alive \subseteq running
<1> SUFFICES ASSUME IInv, Draining, NEW s \in Alive PROVE s \in running
  OBVIOUS
<1>1. s \in Started /\ proc[s] = "alive" /\ retried = {} /\ pc # "wait"
  BY DEF IInv, Places, Alive, Started, Draining
<1> QED
  BY <1>1 DEF IInv, Outcomes

\* A solo retry has the whole machine (SoloRetryIsAlone).
THEOREM SoloRetryAlone == Spec => []SoloRetryIsAlone
<1>1. IInv => SoloRetryIsAlone
  BY AliveAfterDrain DEF SoloRetryIsAlone, Draining
<1> QED
  BY <1>1, Inductive, PTL

\* Workers of one chip set alive together share a GPU (GroupOnOneGpu).
THEOREM GroupStaysOnOneGpu == Spec => []GroupOnOneGpu
<1>1. ASSUME IInv, NEW s \in Alive, NEW t \in Alive, ChipSet[s] = ChipSet[t]
      PROVE  gpuOf[s] = gpuOf[t]
  <2>1. CASE Draining
    <3>1. s \in Shards /\ t \in Shards /\ gpuOf[s] # 0 /\ gpuOf[t] # 0
      BY <1>1 DEF Alive, IInv, Places
    <3>2. GroupOf(s) = GroupOf(t)
      BY <1>1 DEF GroupOf
    <3> QED
      BY <1>1, <2>1, <3>1, <3>2 DEF IInv, Homes
  <2>2. CASE ~Draining
    <3>1. s \in toPoll /\ t \in toPoll
      BY <1>1, <2>2, AliveAfterDrain
    <3>2. s = t
      BY <1>1, <2>2, <3>1 DEF IInv, TypeOK, Steps, Places, Draining
    <3> QED
      BY <3>2
  <2> QED
    BY <2>1, <2>2
<1>2. IInv => GroupOnOneGpu
  BY <1>1 DEF GroupOnOneGpu
<1> QED
  BY <1>2, Inductive, PTL

\* No card ever holds more live workers than --jobs (JobsRespected).
THEOREM JobsBound == Spec => []JobsRespected
<1>1. ASSUME IInv, NEW g \in Gpus PROVE Cardinality(AliveOn(g)) <= Jobs
  <2>1. CASE Draining
    <3>1. AliveOn(g) \subseteq Mine(g)
      BY <1>1, <2>1, AliveIsRunning DEF AliveOn, Mine
    <3>2. IsFiniteSet(Mine(g)) /\ Cardinality(Mine(g)) <= Jobs
      BY <1>1, MineFinite DEF IInv, JobsCounted
    <3>3. /\ IsFiniteSet(AliveOn(g))
          /\ Cardinality(AliveOn(g)) <= Cardinality(Mine(g))
      BY <3>1, <3>2, FS_Subset
    <3>4. Cardinality(AliveOn(g)) \in Nat /\ Cardinality(Mine(g)) \in Nat
      BY <3>2, <3>3, FS_CardinalityType
    <3> QED
      BY <3>2, <3>3, <3>4, PoolAssumption
  <2>2. CASE ~Draining
    <3>1. AliveOn(g) \subseteq toPoll
      BY <1>1, <2>2, AliveAfterDrain DEF AliveOn
    <3>2. toPoll = {} \/ \E s \in Shards : toPoll = {s}
      BY <1>1, <2>2 DEF IInv, TypeOK, Steps, Places, Draining
    <3>3. IsFiniteSet(toPoll) /\ Cardinality(toPoll) \in {0, 1}
      BY <3>2, FS_EmptySet, FS_Singleton
    <3>4. /\ IsFiniteSet(AliveOn(g))
          /\ Cardinality(AliveOn(g)) <= Cardinality(toPoll)
      BY <3>1, <3>3, FS_Subset
    <3>5. Cardinality(AliveOn(g)) \in Nat
      BY <3>4, FS_CardinalityType
    <3> QED
      BY <3>3, <3>4, <3>5, PoolAssumption
  <2> QED
    BY <2>1, <2>2
<1>2. IInv => JobsRespected
  BY <1>1 DEF JobsRespected
<1> QED
  BY <1>2, Inductive, PTL

\* The live workers of a card fit --mem_budget_gib unless it is one worker
\* (MemoryBudget), whatever order the workers leave and the GPUs take groups in.
THEOREM BudgetKept == Spec => []MemoryBudget
<1>1. ASSUME IInv, NEW g \in Gpus
      PROVE  Cardinality(AliveOn(g)) <= 1 \/ Used(AliveOn(g)) <= Budget
  <2>1. CASE Draining
    <3>1. AliveOn(g) \subseteq Mine(g)
      BY <1>1, <2>1, AliveIsRunning DEF AliveOn, Mine
    <3>2. /\ IsFiniteSet(Mine(g))
          /\ Cardinality(Mine(g)) <= 1 \/ Used(Mine(g)) <= Budget
      BY <1>1, MineFinite DEF IInv, BudgetCounted
    <3> QED
      BY <3>1, <3>2, BudgetFewer
  <2>2. CASE ~Draining
    <3>1. AliveOn(g) \subseteq toPoll
      BY <1>1, <2>2, AliveAfterDrain DEF AliveOn
    <3>2. toPoll = {} \/ \E s \in Shards : toPoll = {s}
      BY <1>1, <2>2 DEF IInv, TypeOK, Steps, Places, Draining
    <3>3. AliveOn(g) = {} \/ \E s \in Shards : AliveOn(g) = {s}
      BY <3>1, <3>2
    <3>4. Cardinality(AliveOn(g)) \in {0, 1}
      BY <3>3, FS_EmptySet, FS_Singleton
    <3> QED
      BY <3>4
  <2> QED
    BY <2>1, <2>2
<1>2. IInv => MemoryBudget
  BY <1>1 DEF MemoryBudget
<1> QED
  BY <1>2, Inductive, PTL

\* When nothing is left to retry, every shard is warm or failed for good.
LEMMA AllSettled ==
    IInv /\ pc = "solo" /\ failedShards \subseteq retried =>
        /\ \A s \in Shards : proc[s] \in {"zero", "nonzero"}
        /\ {s \in Shards : proc[s] = "zero"} = WarmSet \cup RecoveredSet
        /\ {s \in Shards : proc[s] = "nonzero"} = failedShards \ RecoveredSet
<1> SUFFICES ASSUME IInv, pc = "solo", failedShards \subseteq retried
             PROVE
        /\ \A s \in Shards : proc[s] \in {"zero", "nonzero"}
        /\ {s \in Shards : proc[s] = "zero"} = WarmSet \cup RecoveredSet
        /\ {s \in Shards : proc[s] = "nonzero"} = failedShards \ RecoveredSet
  OBVIOUS
<1>1. running = {} /\ groupQ = {} /\ \A g \in Gpus : pending[g] = {}
  BY DEF IInv, Places, WorkLeft, Draining
<1>2. \A s \in Shards : s \in Started
  BY <1>1 DEF IInv, Places, Started
<1>3. \A s \in Shards : s \notin failedShards => proc[s] = "zero" /\ s \in WarmSet
  BY <1>1, <1>2 DEF IInv, Outcomes, WarmSet
<1>4. \A s \in failedShards : s \in Shards /\ s \in retried /\ s \notin WarmSet
                               /\ proc[s] \in {"zero", "nonzero"}
  BY DEF IInv, Outcomes, WarmSet, TypeOK
<1>5. WarmSet \subseteq Shards /\ RecoveredSet \subseteq failedShards
  BY DEF WarmSet, RecoveredSet, Started, IInv, Places
<1> QED
  BY <1>3, <1>4, <1>5 DEF RecoveredSet

\* The last statement of the warm computes the verdict the workers deserve.
LEMMA FinishTruth == IInv /\ Finish => ExitTellsTheTruth'
<1>0. SUFFICES ASSUME IInv, Finish PROVE ExitTellsTheTruth'
  OBVIOUS
<1> DEFINE Zero == {s \in Shards : proc[s] = "zero"}
           Bad  == {s \in Shards : proc[s] = "nonzero"}
<1>1. /\ \A s \in Shards : proc[s] \in {"zero", "nonzero"}
      /\ Zero = WarmSet \cup RecoveredSet
      /\ Bad = failedShards \ RecoveredSet
  BY <1>0, AllSettled DEF Finish
<1>2. /\ IsFiniteSet(WarmSet) /\ IsFiniteSet(failedShards)
      /\ IsFiniteSet(RecoveredSet)
  BY <1>0, CountedFinite DEF IInv
<1>3. /\ Cardinality(WarmSet) \in Nat /\ Cardinality(failedShards) \in Nat
      /\ Cardinality(RecoveredSet) \in Nat
  BY <1>2, FS_CardinalityType
<1>4. WarmSet \cap RecoveredSet = {}
      /\ failedShards \cap RecoveredSet = RecoveredSet
  BY <1>0 DEF WarmSet, RecoveredSet, IInv, Places
<1>5. Cardinality(Zero) = Cardinality(WarmSet) + Cardinality(RecoveredSet)
  BY <1>1, <1>2, <1>3, <1>4, FS_Union, FS_EmptySet
<1>6. IsFiniteSet(Bad)
      /\ Cardinality(Bad) = Cardinality(failedShards) - Cardinality(RecoveredSet)
  <2>1. /\ IsFiniteSet(failedShards \ RecoveredSet)
        /\ Cardinality(failedShards \ RecoveredSet)
             = Cardinality(failedShards)
                 - Cardinality(failedShards \cap RecoveredSet)
    BY <1>2, FS_Difference
  <2>2. Bad = failedShards \ RecoveredSet
    BY <1>1
  <2> HIDE DEF Bad
  <2> QED
    BY <2>1, <2>2, <1>4
<1>7. /\ ok = Cardinality(WarmSet) /\ fail = Cardinality(failedShards)
      /\ recovered = Cardinality(RecoveredSet)
  BY <1>0 DEF IInv, Places, Counts, Finish, WarmSet, RecoveredSet
<1>8. ok' = Cardinality(Zero) /\ fail' = Cardinality(Bad)
  BY <1>0, <1>5, <1>6, <1>7 DEF Finish
<1>9. fail' = 0 <=> \A s \in Shards : proc[s] = "zero"
  <2>1. fail' = 0 <=> Bad = {}
    BY <1>6, <1>8, FS_EmptySet
  <2> QED
    BY <2>1, <1>1
<1>10. ok' = 0 => ~ \A s \in Shards : proc[s] = "zero"
  <2>1. IsFiniteSet(WarmSet \cup RecoveredSet)
    BY <1>2, FS_Union
  <2>2. Zero = WarmSet \cup RecoveredSet
    BY <1>1
  <2> HIDE DEF Zero
  <2>3. IsFiniteSet(Zero)
    BY <2>1, <2>2
  <2>4. ok' = 0 => Zero = {}
    BY <2>3, <1>8, FS_EmptySet
  <2>5. 1 \in Shards
    BY PoolAssumption DEF Shards
  <2> QED
    BY <2>4, <2>5 DEF Zero
<1>11. exit' = "success" <=> ~(fail' # 0 \/ ok' = 0 \/ ~CacheHasFiles)
  BY <1>0 DEF Finish, CacheHasFiles
<1>12. proc' = proc /\ (CacheHasFiles' <=> CacheHasFiles)
  BY <1>0 DEF Finish, CacheHasFiles
<1> QED
  BY <1>8, <1>9, <1>10, <1>11, <1>12 DEF ExitTellsTheTruth

\* The exit status and the printed counts (ExitTellsTheTruth).
THEOREM ExitIsTruthful == Spec => []ExitTellsTheTruth
<1>1. Init => ExitTellsTheTruth
  BY DEF Init, ExitTellsTheTruth
<1>2. IInv /\ Finish => ExitTellsTheTruth'
  BY FinishTruth
<1>3. ASSUME IInv, pc' = "exited" => pc = "exited", ExitTellsTheTruth, [Next]_vars
      PROVE  ExitTellsTheTruth'
  <2>1. CASE pc # "exited"
    BY <1>3, <2>1 DEF ExitTellsTheTruth
  <2>2. CASE pc = "exited"
    <3>1. Alive = {} 
      BY <1>3, <2>2, AliveAfterDrain DEF IInv, Places, Draining
    <3>2. UNCHANGED vars
      BY <1>3, <2>2, <3>1
      DEF Next, Dispatch, Visit, Launch, LeaveGpu, Poll, EndPoll, SoloStart,
          SoloEnd, Finish, WorkerExit, Exited, Alive
    <3> QED
      BY <1>3, <3>2 DEF vars, ExitTellsTheTruth, CacheHasFiles
  <2> QED
    BY <2>1, <2>2
<1>4. IInv /\ ExitTellsTheTruth /\ [Next]_vars => ExitTellsTheTruth'
  BY <1>2, <1>3
  DEF Next, Dispatch, Visit, Launch, LeaveGpu, Poll, EndPoll, SoloStart,
      SoloEnd, WorkerExit, Exited, dispatcher, vars
<1> QED
  BY <1>1, <1>4, Inductive, PTL DEF Spec

\* A worker starts for a shard never tried, or once more for a shard whose
\* worker died after the pool drained (WorkersStartOnceOrRetry).
THEOREM StartOnceOrRetry == Spec => WorkersStartOnceOrRetry
<1>1. ASSUME IInv, [Next]_vars, NEW s \in Shards,
             proc[s] # "alive", proc'[s] = "alive"
      PROVE  proc[s] = "none" \/ (proc[s] = "nonzero" /\ s \notin retried /\ ~WorkLeft)
  <2>1. ASSUME NEW t \in Shards, Launch(t) PROVE proc[s] = "none"
    <3>1. s = t /\ t \in pending[cursor]
      BY <1>1, <2>1 DEF Launch, IsPick, Fitting, IInv, TypeOK
    <3> QED
      BY <1>1, <3>1 DEF IInv, TypeOK, Places
  <2>2. ASSUME NEW t \in Shards, SoloStart(t)
        PROVE  proc[s] = "nonzero" /\ s \notin retried /\ ~WorkLeft
    <3>1. s = t /\ t \in failedShards \ retried /\ pc = "solo"
      BY <1>1, <2>2 DEF SoloStart, IInv, TypeOK
    <3> QED
      BY <1>1, <3>1 DEF IInv, Places, Outcomes, Draining
  <2>3. ASSUME NEW t \in Shards, WorkerExit(t) PROVE FALSE
    BY <1>1, <2>3 DEF WorkerExit, IInv, TypeOK
  <2> QED
    BY <1>1, <2>1, <2>2, <2>3
    DEF Next, Dispatch, Visit, LeaveGpu, Poll, EndPoll, SoloEnd, Finish,
        Exited, vars
<1>2. IInv /\ [Next]_vars
        => [\A s \in Shards : proc[s] # "alive" /\ proc'[s] = "alive" =>
              \/ proc[s] = "none"
              \/ proc[s] = "nonzero" /\ s \notin retried /\ ~WorkLeft]_vars
  BY <1>1
<1> QED
  BY <1>2, Inductive, PTL DEF Spec, WorkersStartOnceOrRetry

\* No shard is lost or counted twice (EveryShardAccounted).
THEOREM AllAccounted == Spec => []EveryShardAccounted
<1>1. IInv => EveryShardAccounted
  <2> SUFFICES ASSUME IInv PROVE EveryShardAccounted
    OBVIOUS
  <2> DEFINE waiting == {s \in Shards : GroupOf(s) \in groupQ}
             queued  == UNION {pending[g] : g \in Gpus}
             reaped  == {s \in Shards : gpuOf[s] # 0} \ running
  <2>1. waiting \cap queued = {}
    BY DEF IInv, Places
  <2>2. (waiting \cup queued) \cap {s \in Shards : gpuOf[s] # 0} = {}
    BY DEF IInv, Places
  <2>3. waiting \cup queued \cup running \cup reaped = Shards
    BY DEF IInv, TypeOK, Places, Started
  <2>4. ASSUME pc # "exited"
        PROVE  ok + fail = Cardinality(reaped) /\ fail = Cardinality(failedShards)
    <3>1. ok = Cardinality(WarmSet) /\ fail = Cardinality(failedShards)
      BY <2>4 DEF IInv, Places, Counts, WarmSet
    <3>2. reaped = WarmSet \cup failedShards /\ WarmSet \cap failedShards = {}
      BY DEF IInv, TypeOK, Places, WarmSet, Started
    <3>3. IsFiniteSet(WarmSet) /\ IsFiniteSet(failedShards)
      BY CountedFinite DEF IInv
    <3>4. Cardinality(WarmSet) \in Nat /\ Cardinality(failedShards) \in Nat
      BY <3>3, FS_CardinalityType
    <3> HIDE DEF reaped
    <3>5. Cardinality(reaped) = Cardinality(WarmSet) + Cardinality(failedShards)
      BY <3>2, <3>3, <3>4, FS_Union, FS_EmptySet
    <3> QED
      BY <3>1, <3>5
  <2> QED
    BY <2>1, <2>2, <2>3, <2>4 DEF EveryShardAccounted
<1> QED
  BY <1>1, Inductive, PTL

-----------------------------------------------------------------------------
(* The pool implements WarmJob.                                            *)

\* Every step of the pool is a step of the job, or leaves every fate alone.
LEMMA JobStep == IInv /\ [Next]_vars => [Job!Next]_(Job!jobVars)
<1> SUFFICES ASSUME IInv, [Next]_vars PROVE [Job!Next]_(Job!jobVars)
  OBVIOUS
<1> DEFINE st == [s \in Shards |-> Status(s)]
<1>a. ASSUME \A t \in Shards : Status(t)' = Status(t), exit' = exit
      PROVE  UNCHANGED Job!jobVars
  BY <1>a DEF Job!jobVars
<1>b. ASSUME NEW s \in Shards, \A t \in Shards \ {s} : Status(t)' = Status(t)
      PROVE  st' = [st EXCEPT ![s] = Status(s)']
  BY <1>b
<1>1. CASE Visit \/ LeaveGpu \/ EndPoll
  <2>1. UNCHANGED <<gpuOf, running, toPoll, failedShards, retried, proc, exit>>
        \/ LeaveGpu
    BY <1>1 DEF Visit, EndPoll
  <2>2. \A t \in Shards : Status(t)' = Status(t)
    BY <1>1 DEF Visit, LeaveGpu, EndPoll, Status, IInv, Places, Draining
  <2> QED
    BY <1>1, <1>a, <2>2 DEF Visit, LeaveGpu, EndPoll
<1>2. ASSUME NEW s \in Shards, Launch(s) PROVE Job!Next
  <2>1. Status(s) = "todo" /\ gpuOf[s] = 0 /\ s \in pending[cursor]
    BY <1>2 DEF Launch, IsPick, Fitting, Status, IInv, TypeOK, Places
  <2>2. gpuOf'[s] # 0 /\ s \in running'
    BY <1>2, PoolAssumption DEF Launch, IInv, TypeOK, Gpus
  <2>2a. Status(s)' = "trying"
    BY <2>2 DEF Status
  <2>3. \A t \in Shards \ {s} : Status(t)' = Status(t)
    BY <1>2 DEF Launch, Status, IInv, TypeOK
  <2>4. Job!Try(s)
    BY <1>2, <1>b, <2>1, <2>2a, <2>3 DEF Launch, Job!Try
  <2> QED
    BY <2>4 DEF Job!Next
<1>3. ASSUME NEW s \in Shards, Poll(s) PROVE [Job!Next]_(Job!jobVars)
  <2>1. /\ s \in running /\ gpuOf[s] # 0 /\ s \notin failedShards
        /\ s \notin retried /\ pc = "poll" /\ Status(s) = "trying"
        /\ proc[s] # "none"
    BY <1>3 DEF Poll, IInv, Places, Started, Status
  <2>2. \A t \in Shards \ {s} : Status(t)' = Status(t)
    BY <1>3 DEF Poll, Status
  <2>3. CASE proc[s] = "alive"
    <3>1. Status(s)' = Status(s)
      BY <1>3, <2>1, <2>3 DEF Poll, Status
    <3> QED
      BY <1>3, <1>a, <2>2, <3>1 DEF Poll
  <2>4. CASE proc[s] # "alive"
    <3>1. Status(s)' \in {"warm", "failed"}
      BY <1>3, <2>1, <2>4 DEF Poll, Status, IInv, TypeOK
    <3>2. Job!Tried(s)
      BY <1>3, <1>b, <2>1, <2>2, <3>1 DEF Poll, Job!Tried
    <3> QED
      BY <3>2 DEF Job!Next
  <2> QED
    BY <2>3, <2>4
<1>4. ASSUME NEW s \in Shards, SoloStart(s) PROVE Job!Next
  <2>1. /\ s \in failedShards \ retried /\ running = {} /\ gpuOf[s] # 0
        /\ pc = "solo"
    BY <1>4 DEF SoloStart, IInv, Places, Started, WorkLeft, Draining
  <2>2. \A t \in Shards : gpuOf[t] # 0
    BY <2>1 DEF IInv, Places, WorkLeft, Draining
  <2>3. \A t \in Shards : Status(t) \in {"warm", "failed", "lost"}
    BY <2>1, <2>2 DEF Status
  <2>4. Status(s) = "failed"
    BY <2>1 DEF Status
  <2>4a. /\ gpuOf'[s] # 0 /\ s \notin running' /\ pc' = "wait" /\ toPoll' = {s}
         /\ \A t \in Shards \ {s} : gpuOf'[t] = gpuOf[t] /\ proc'[t] = proc[t]
         /\ UNCHANGED <<running, failedShards, retried, exit>>
    BY <1>4, <2>1 DEF SoloStart, IInv, TypeOK
  <2>5. Status(s)' = "retrying"
    BY <2>4a DEF Status
  <2>6. \A t \in Shards \ {s} : Status(t)' = Status(t)
    BY <2>1, <2>4a DEF Status
  <2>7. Job!Retry(s)
    BY <1>4, <1>b, <2>3, <2>4, <2>5, <2>6 DEF SoloStart, Job!Retry
  <2> QED
    BY <2>7 DEF Job!Next
<1>5. ASSUME NEW s \in Shards, SoloEnd(s) PROVE Job!Next
  <2>1. /\ toPoll = {s} /\ s \in failedShards \ retried /\ running = {}
        /\ gpuOf[s] # 0 /\ pc = "wait"
    BY <1>5 DEF SoloEnd, IInv, Places, Started, WorkLeft, Draining
  <2>2. Status(s) = "retrying"
    BY <2>1 DEF Status
  <2>3. Status(s)' \in {"warm", "lost"}
    BY <1>5, <2>1 DEF SoloEnd, Status
  <2>4. \A t \in Shards \ {s} : Status(t)' = Status(t)
    BY <1>5, <2>1 DEF SoloEnd, Status
  <2>5. Job!Retried(s)
    BY <1>5, <1>b, <2>2, <2>3, <2>4 DEF SoloEnd, Job!Retried
  <2> QED
    BY <2>5 DEF Job!Next
<1>6. CASE Finish
  <2>1. \A t \in Shards : Status(t)' = Status(t)
    BY <1>6 DEF Finish, Status
  <2>2. running = {} /\ \A t \in Shards : gpuOf[t] # 0
    BY <1>6 DEF Finish, IInv, Places, WorkLeft, Draining
  <2>3. \A t \in Shards : Status(t) \in {"warm", "lost"}
    BY <1>6, <2>2 DEF Finish, Status
  <2>4. exit = "none" /\ exit' \in {"success", "failure"}
    BY <1>6 DEF Finish, CacheHasFiles, IInv, Places
  <2>5. ASSUME exit' = "success" PROVE \A t \in Shards : Status(t) = "warm"
    <3>1. \A t \in Shards : proc[t] = "zero"
      BY <1>6, <2>5, FinishTruth DEF ExitTellsTheTruth, Finish
    <3> QED
      BY <1>6, <2>2, <3>1 DEF Finish, Status
  <2>6. st' = st
    BY <2>1
  <2> QED
    BY <2>3, <2>4, <2>5, <2>6 DEF Job!Next, Job!Conclude
<1>7. ASSUME NEW s \in Shards, WorkerExit(s) PROVE UNCHANGED Job!jobVars
  <2>1. CASE s \in running
    <3>1. \A t \in Shards : Status(t)' = Status(t)
      BY <1>7, <2>1 DEF WorkerExit, dispatcher, Status, IInv, TypeOK
    <3> QED
      BY <1>7, <1>a, <3>1 DEF WorkerExit, dispatcher
  <2>2. CASE s \notin running
    <3>1. pc = "wait" /\ s \in toPoll
      BY <1>7, <2>2, AliveAfterDrain, AliveIsRunning
      DEF WorkerExit, Alive, IInv, TypeOK, Steps, Places, Draining
    <3>2. \A t \in Shards : Status(t)' = Status(t)
      BY <1>7, <3>1 DEF WorkerExit, dispatcher, Status, IInv, TypeOK
    <3> QED
      BY <1>7, <1>a, <3>2 DEF WorkerExit, dispatcher
  <2> QED
    BY <2>1, <2>2
<1>8. CASE UNCHANGED vars
  <2>1. \A t \in Shards : Status(t)' = Status(t)
    BY <1>8 DEF vars, Status
  <2> QED
    BY <1>8, <1>a, <2>1 DEF vars
<1> QED
  BY <1>1, <1>2, <1>3, <1>4, <1>5, <1>6, <1>7, <1>8
  DEF Next, Dispatch, Exited

\* Every behaviour of the pool is a behaviour of WarmJob: the safety half of
\* ImplementsWarmJob.
THEOREM PoolRefinesJob == Spec => Job!Spec
<1>1. Init => Job!Init
  BY DEF Init, Job!Init, Status
<1> QED
  BY <1>1, JobStep, Inductive, PTL DEF Spec, Job!Spec

=============================================================================
