----------------------------- MODULE ShardChain -----------------------------
(***************************************************************************)
(* A shard proof end to end: ShardProver.prove chains the stages of        *)
(* ShardProver, ShardVerifier.verify the duals of ShardVerifier, each on a *)
(* transcript of its own.  Some shards are proved; then proofs are put     *)
(* together from the sections of those proves, whole, mixed or with one    *)
(* value gone stale, and verified against the statements.                  *)
(***************************************************************************)
EXTENDS ShardVerifier

CONSTANTS
    MaxProofs,  \* bound: proofs made in a behaviour
    Stale       \* fields of a proof that may carry a stale value

VARIABLES
    prover,    \* ShardProver.prove: where it is, transcript, claim, proof so far
    proofs,    \* by shard: the proof and what each stage left
    verifier   \* ShardVerifier.verify: where it is, what it was given, verdict

vars == <<prover, proofs, verifier>>

ASSUME StaleAssumption ==
    Stale \subseteq {"gkr_point", "layers", "output", "chip_openings",
                     "stage_challenges", "claimed_sum", "zerocheck_point",
                     "opened_values", "dense_eval"}

Empty == <<>>
Idle == [at |-> "idle"]

\* f with the entry at key added or replaced.
With(f, key, entry) ==
    [k \in {key} \cup DOMAIN f |-> IF k = key THEN entry ELSE f[k]]

\* What a role is left with after a stage: its transcript and reduced claim.
Seam(t, claim) == [t |-> t, claim |-> claim]

Init ==
    /\ prover = Idle
    /\ proofs = [id \in {} |-> Empty]
    /\ verifier = Idle

-----------------------------------------------------------------------------
(* ShardProver.prove.                                                      *)

\* opening.commit.
Commit(id) ==
    /\ prover.at \in {"idle", "raised"}
    /\ verifier.at = "idle"
    /\ Cardinality(DOMAIN proofs) < MaxProofs
    /\ id \notin DOMAIN proofs
    /\ prover' = [at |-> "committed", shard |-> id, t |-> Empty, claim |-> "shard",
                  trail |-> Empty,
                  proof |-> [commitment |-> Commitment(Shard[id])]]
    /\ UNCHANGED <<proofs, verifier>>

\* bind_commitment.
Bind ==
    /\ prover.at = "committed"
    /\ LET t == AbsorbPreamble(prover.t, Shard[prover.shard].claim,
                               prover.proof.commitment)
       IN  prover' = [prover EXCEPT !.at = "bound", !.t = t,
                                    !.trail = <<Seam(t, prover.claim)>>]
    /\ UNCHANGED <<proofs, verifier>>

\* Broken variant of Reduced: a stage's section is left out of the proof.
ReducedNoSection(at, section, stage) ==
    [prover EXCEPT !.at = at, !.t = stage.t, !.claim = stage.claim,
                   !.trail = Append(@, Seam(stage.t, stage.claim))]

\* A stage moved the prover on: its section joins the proof.
Reduced(at, section, stage) ==
    [prover EXCEPT !.at = at, !.t = stage.t, !.claim = stage.claim,
                   !.trail = Append(@, Seam(stage.t, stage.claim)),
                   !.proof = With(@, section, stage.proof)]

ProveGkr ==
    /\ prover.at = "bound"
    /\ ~GkrProverRaises(Shard[prover.shard], prover.t)
    /\ prover' = Reduced("gkr", "gkr", GkrProve(prover.shard, prover.t))
    /\ UNCHANGED <<proofs, verifier>>

ProveZerocheck ==
    /\ prover.at = "gkr"
    /\ ~ZerocheckProverRaises(Shard[prover.shard])
    /\ prover' = Reduced("zerocheck", "zerocheck",
                         ZerocheckProve(prover.shard, prover.t, prover.claim))
    /\ UNCHANGED <<proofs, verifier>>

\* The last stage: the proof is assembled and returned.
ProveOpening ==
    /\ prover.at = "zerocheck"
    /\ LET done == Reduced("idle", "jagged",
                           OpeningProve(prover.shard, prover.t, prover.claim))
       IN  proofs' = With(proofs, prover.shard,
                          [proof |-> done.proof, trail |-> done.trail])
    /\ prover' = Idle
    /\ UNCHANGED verifier

\* A stage raises, and the prove with it.
ProverRaises ==
    /\ \/ prover.at = "bound" /\ GkrProverRaises(Shard[prover.shard], prover.t)
       \/ prover.at = "gkr" /\ ZerocheckProverRaises(Shard[prover.shard])
    /\ prover' = [at |-> "raised"]
    /\ UNCHANGED <<proofs, verifier>>

-----------------------------------------------------------------------------
(* The proofs a verifier is given.                                         *)

\* Sections of the proves, and which field, if any, carries a stale value.
Parts == {"commitment", "gkr", "zerocheck", "jagged"}
Assemblies ==
    {a \in [from : [Parts -> DOMAIN proofs], stale : Stale \cup {"none"}] :
        a.stale # "none" => Cardinality(Range(a.from)) = 1}

\* The stale value of a field: another message, or a point never drawn.
MakeStale(proof, field) ==
    CASE field = "none" -> proof
      [] field = "gkr_point" -> [proof EXCEPT !.gkr.point = Empty]
      [] field = "layers" -> [proof EXCEPT !.gkr.layers.of = Tampered]
      [] field = "output" -> [proof EXCEPT !.gkr.output.of = Tampered]
      [] field = "chip_openings" -> [proof EXCEPT !.gkr.openings.of = Tampered]
      [] field = "stage_challenges" -> [proof EXCEPT !.zerocheck.challenges = Empty]
      [] field = "claimed_sum" -> [proof EXCEPT !.zerocheck.sum = <<Tampered, Empty>>]
      [] field = "zerocheck_point" -> [proof EXCEPT !.zerocheck.point = Empty]
      [] field = "opened_values" -> [proof EXCEPT !.zerocheck.opened.of = Tampered]
      [] field = "dense_eval" -> [proof EXCEPT !.jagged.eval.of = Tampered]

Assembled(a) ==
    MakeStale([part \in Parts |-> proofs[a.from[part]].proof[part]], a.stale)

-----------------------------------------------------------------------------
(* ShardVerifier.verify.                                                   *)

Finished == {"accepted", "rejected", "raised"}

\* The caller states a claim and brings a proof; verify binds its commitment.
Verify(id, a, checkPv) ==
    /\ verifier.at = "idle"
    /\ prover.at \in {"idle", "raised"}
    /\ DOMAIN proofs # {}
    /\ LET claim == Shard[id].claim
           proof == Assembled(a)
           t == AbsorbPreamble(Empty, claim, proof.commitment)
       IN  verifier' = [at |-> "bound", shard |-> id, assembly |-> a,
                        checkPv |-> checkPv, proof |-> proof,
                        roots |-> BoundRoots(claim, proof.commitment),
                        t |-> t, claim |-> "shard", ok |-> TRUE,
                        trail |-> <<Seam(t, "shard")>>]
    /\ UNCHANGED <<prover, proofs>>

Statement == Shard[verifier.shard].claim

\* Broken variant of Derived: only the last stage's verdict counts.
LastVerdictOnly(at, dual) ==
    [verifier EXCEPT !.at = at, !.t = dual.t, !.claim = dual.claim,
                     !.trail = Append(@, Seam(dual.t, dual.claim)),
                     !.ok = dual.ok]

\* Broken variant of Derived: the next dual starts on the old transcript.
OldTranscript(at, dual) ==
    [verifier EXCEPT !.at = at, !.claim = dual.claim,
                     !.trail = Append(@, Seam(verifier.t, dual.claim)),
                     !.ok = @ /\ dual.ok]

\* A dual returned: its verdict joins the others, whatever they were.
Derived(at, dual) ==
    [verifier EXCEPT !.at = at, !.t = dual.t, !.claim = dual.claim,
                     !.trail = Append(@, Seam(dual.t, dual.claim)),
                     !.ok = @ /\ dual.ok]

VerifyGkr ==
    /\ verifier.at = "bound"
    /\ ~GkrVerifierRaises(verifier.proof.gkr)
    /\ verifier' = Derived("gkr", GkrVerify(Statement, verifier.proof.gkr,
                                            verifier.t, verifier.checkPv))
    /\ UNCHANGED <<prover, proofs>>

VerifyZerocheck ==
    /\ verifier.at = "gkr"
    /\ ~ZerocheckVerifierRaises(verifier.proof.zerocheck)
    /\ verifier' = Derived("zerocheck",
                           ZerocheckVerify(Statement, verifier.claim,
                                           verifier.proof.zerocheck, verifier.t))
    /\ UNCHANGED <<prover, proofs>>

VerifyOpening ==
    /\ verifier.at = "zerocheck"
    /\ ~OpeningVerifierRaises(Statement, verifier.proof.jagged)
    /\ LET dual == OpeningVerify(Statement, verifier.claim, verifier.roots,
                                 verifier.proof.jagged, verifier.t)
       IN  verifier' = Derived(IF verifier.ok /\ dual.ok THEN "accepted"
                               ELSE "rejected", dual)
    /\ UNCHANGED <<prover, proofs>>

VerifierRaises ==
    /\ \/ verifier.at = "bound" /\ GkrVerifierRaises(verifier.proof.gkr)
       \/ verifier.at = "gkr" /\ ZerocheckVerifierRaises(verifier.proof.zerocheck)
       \/ /\ verifier.at = "zerocheck"
          /\ OpeningVerifierRaises(Statement, verifier.proof.jagged)
    /\ verifier' = [verifier EXCEPT !.at = "raised"]
    /\ UNCHANGED <<prover, proofs>>

\* The caller has the verdict, and may verify again.
Return ==
    /\ verifier.at \in Finished
    /\ verifier' = Idle
    /\ UNCHANGED <<prover, proofs>>

Next ==
    \/ \E id \in Id : Commit(id)
    \/ Bind
    \/ ProveGkr
    \/ ProveZerocheck
    \/ ProveOpening
    \/ ProverRaises
    \/ \E id \in Id, a \in Assemblies, checkPv \in BOOLEAN : Verify(id, a, checkPv)
    \/ VerifyGkr
    \/ VerifyZerocheck
    \/ VerifyOpening
    \/ VerifierRaises
    \/ Return

Spec == Init /\ [][Next]_vars

-----------------------------------------------------------------------------
(* Properties.                                                             *)

\* Types of the control state: where each role is, and what is proved.
TypeOK ==
    /\ prover.at \in {"idle", "committed", "bound", "gkr", "zerocheck", "raised"}
    /\ verifier.at \in {"idle", "bound", "gkr", "zerocheck"} \cup Finished
    /\ DOMAIN proofs \subseteq Id
    /\ \A id \in DOMAIN proofs :
          DOMAIN proofs[id].proof = Parts /\ Len(proofs[id].trail) = 4
    /\ verifier.at # "idle" =>
          verifier.shard \in Id /\ verifier.ok \in BOOLEAN
            /\ Len(verifier.trail) \in 1..4

\* The proof under verification is the statement's own, as it was proved.
Own == /\ verifier.at # "idle"
       /\ verifier.assembly.stale = "none"
       /\ Range(verifier.assembly.from) = {verifier.shard}

\* The regions hold the statement's chips, in its order.
Ordered(s) == s.main.order = ChipNames /\ s.prep.order = PrepNames

\* The statement fixes the preprocessed rows and the size of the dense buffer.
Supported(s) ==
    /\ Ordered(s)
    /\ \A c \in Range(s.prep.order) : s.prep.rows[c] = s.main.rows[c]
    /\ CeilLog2(DenseSize(RegionWalk(s))) = CeilLog2(RawArea(RegionWalk(s)))

\* The shard's statement is true of its trace, as far as it is looked at.
True(s, checkPv) ==
    s.satisfied /\ (checkPv => s.balanced /\ s.claim.pv \in WellFormed)

\* The verifier accepts the honest proof of a true statement and ends on the
\* prover's transcript (ShardProver.prove and ShardVerifier.verify in lockstep).
HonestAccepted ==
    Own /\ Supported(Shard[verifier.shard])
        /\ True(Shard[verifier.shard], verifier.checkPv) =>
      /\ verifier.at \notin {"rejected", "raised"}
      /\ verifier.at = "accepted" => verifier.t = Last(proofs[verifier.shard].trail).t

\* After every stage the two roles hold the same transcript and the same reduced
\* claim, for a false statement too; the last needs a supported shard.
SameSeams ==
    Own /\ Ordered(Shard[verifier.shard]) =>
      \A i \in DOMAIN verifier.trail :
        i < 4 \/ Supported(Shard[verifier.shard]) =>
          verifier.trail[i] = proofs[verifier.shard].trail[i]

\* An accepted proof is, section by section, that of one prove of this very
\* statement, whose trace satisfies what the verifier was to check.
AcceptedIsProved ==
    verifier.at = "accepted" =>
      \E id \in DOMAIN proofs :
        /\ verifier.proof = proofs[id].proof
        /\ Shard[id].claim = Statement
        /\ True(Shard[id], verifier.checkPv)

\* What each challenge must come after.
Binds ==
    [alpha |-> {"vk", "public_values", "commitment", "chip_metadata", "pow_witness"},
     z1 |-> {"numerator", "denominator"},
     r |-> {"layer"},
     batching |-> {"chip_openings"},
     zc |-> {"round_poly"},
     z_col |-> {"opened_values"},
     queries |-> {"inner", "stacked_open"}]

\* The challenge at place i of a transcript, if there is one, comes after what
\* it binds; a round's challenge, after its own message of every round so far.
BoundAt(t, i) ==
    t[i][1] = "sample" /\ t[i][2] \in DOMAIN Binds =>
      \A name \in Binds[t[i][2]] :
        /\ \E j \in 1..(i - 1) : t[j][1] = name
        /\ t[i][2] \in {"r", "zc"} =>
             Cardinality({j \in 1..i : t[j] = t[i]})
               = Cardinality({j \in 1..i : t[j][1] = name})

\* No challenge is drawn, by either role, before the values it is to bind have
\* been absorbed; challenges of rounds come after the rounds' own messages.
BoundBeforeDrawn ==
    \A t \in {IF prover.at \in {"idle", "raised"} THEN Empty ELSE prover.t,
              IF verifier.at = "idle" THEN Empty ELSE verifier.t} :
      \A i \in DOMAIN t : BoundAt(t, i)

\* Between shards of one supported shape the verifier never raises: a wrong or
\* stale value is a rejection, raising is for structure.
RaisesOnShapeOnly ==
    verifier.at = "raised" =>
      \E id \in {verifier.shard} \cup Range(verifier.assembly.from) :
        \/ ~Supported(Shard[id])
        \/ Shard[id].claim.rows # Statement.rows

\* Broken by the code: no honest proof is rejected whose regions hold the
\* statement's chips in its order.
HonestNotRejected ==
    Own /\ Ordered(Shard[verifier.shard])
        /\ True(Shard[verifier.shard], verifier.checkPv) => verifier.at # "rejected"

\* Broken by the code: no such proof makes the verifier raise.
HonestNotRaised ==
    Own /\ Ordered(Shard[verifier.shard]) => verifier.at # "raised"
=============================================================================
