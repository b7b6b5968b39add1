------------------------------- MODULE WarmJob ------------------------------
(***************************************************************************)
(* What a warm promises its callers (donor reseed, bring-up prewarm),      *)
(* without GPUs, queues, budgets or polling: every shard is tried; a shard *)
(* whose worker died is tried once more, and only after every first try    *)
(* has ended, alone; the exit status is success only if every shard ended  *)
(* warm.  warm_shard_cache._warm is shown to implement this module.        *)
(***************************************************************************)
CONSTANTS Shards  \* the shards to warm

VARIABLES
    status,   \* what is known of each shard
    verdict   \* "none" until the warm exits

jobVars == <<status, verdict>>

Init == /\ status = [s \in Shards |-> "todo"]
        /\ verdict = "none"

Try(s) == /\ status[s] = "todo"
          /\ status' = [status EXCEPT ![s] = "trying"]
          /\ UNCHANGED verdict

Tried(s) == /\ status[s] = "trying"
            /\ \E r \in {"warm", "failed"} :
                 status' = [status EXCEPT ![s] = r]
            /\ UNCHANGED verdict

\* The retry is solo: no shard is untried, being tried or being retried.
Retry(s) == /\ status[s] = "failed"
            /\ \A t \in Shards : status[t] \in {"warm", "failed", "lost"}
            /\ status' = [status EXCEPT ![s] = "retrying"]
            /\ UNCHANGED verdict

Retried(s) == /\ status[s] = "retrying"
              /\ \E r \in {"warm", "lost"} :
                   status' = [status EXCEPT ![s] = r]
              /\ UNCHANGED verdict

\* A warm with every shard warm may still fail: the cache can be empty.
Conclude == /\ verdict = "none"
            /\ \A s \in Shards : status[s] \in {"warm", "lost"}
            /\ \/ /\ verdict' = "success"
                  /\ \A s \in Shards : status[s] = "warm"
               \/ verdict' = "failure"
            /\ UNCHANGED status

Next == \/ \E s \in Shards : \/ Try(s)   \/ Tried(s)
                             \/ Retry(s) \/ Retried(s)
        \/ Conclude

Spec == Init /\ [][Next]_jobVars

\* A warm that every shard's fate is known of concludes.
FairSpec == Spec /\ WF_jobVars(Next)

=============================================================================
