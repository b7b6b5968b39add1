----------------------------- MODULE ShardProve -----------------------------
(***************************************************************************)
(* The composite shard prover: ShardProver.prove of                        *)
(* shard_prover/prove_shard.py as a sequence of calls on one duplex        *)
(* transcript.  The jagged PCS commits the trace, the commitment is bound  *)
(* into the transcript, and three stages each discharge the claim the one  *)
(* before produced.  What a call computes is left out; what it is given is *)
(* kept: the state of the transcript, the source claim and the witness.    *)
(***************************************************************************)
EXTENDS Sequences, Naturals

\* The calls of one prove, in order.
Stages == <<"commit", "bind", "gkr", "zerocheck", "opening">>

VARIABLES
    calls,       \* the calls of the current prove, with what each was given
    transcript,  \* what the transcript has absorbed
    claim,       \* the claim the next stage discharges
    held         \* what the caller holds for later calls

vars == <<calls, transcript, claim, held>>

\* Roots and prover data appear once the commitment exists.
Call(stage) == [stage |-> stage, transcript |-> transcript, claim |-> claim,
                held |-> held]

Fresh ==
    /\ calls = <<>>
    /\ transcript = <<>>
    /\ claim = "shard"
    /\ held = {}

Init == Fresh

\* One more call, in the order of Stages.
IsNext(stage) ==
    /\ Len(calls) < Len(Stages)
    /\ stage = Stages[Len(calls) + 1]
    /\ calls' = Append(calls, Call(stage))

\* opening.commit(witness): no transcript, no claim.
Commit ==
    /\ IsNext("commit")
    /\ held' = held \cup {"commitment", "commit_data"}
    /\ UNCHANGED <<transcript, claim>>

\* bind_commitment: vk, public values, commitment and chip metadata enter the
\* stream, and the roots of the opening are named.
Bind ==
    /\ IsNext("bind")
    /\ transcript' = Append(transcript, "preamble")
    /\ held' = held \cup {"roots"}
    /\ UNCHANGED claim

\* A stage reduces its source claim and hands its transcript on.
Reduce(stage, reduced) ==
    /\ IsNext(stage)
    /\ transcript' = Append(transcript, stage)
    /\ claim' = reduced
    /\ UNCHANGED held

Gkr == Reduce("gkr", "chip evaluations at the gkr point")
Zerocheck == Reduce("zerocheck", "column evaluations")
Opening == Reduce("opening", "trivial")

\* A caller proves again, or one of the calls raised: the next prove starts
\* from fresh_transcript().
Restart ==
    /\ calls' = <<>>
    /\ transcript' = <<>>
    /\ claim' = "shard"
    /\ held' = {}

Next == Commit \/ Bind \/ Gkr \/ Zerocheck \/ Opening \/ Restart

Spec == Init /\ [][Next]_vars
=============================================================================
