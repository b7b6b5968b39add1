---------------------------- MODULE ShardVerifier ----------------------------
(***************************************************************************)
(* The verifier's duals of the stages of ShardProver.  A dual raises on a  *)
(* proof of the wrong shape, before anything else or after its first legs, *)
(* and otherwise returns its transcript, a verdict and the claim it        *)
(* derived itself: ok is the conjunction of its legs and nothing stops     *)
(* early.  A leg over field values holds when the values were computed     *)
(* from the same trace, for the very challenges this dual drew, and the    *)
(* trace has the property the leg is about; that output denominators are   *)
(* not zero is taken for granted.                                          *)
(***************************************************************************)
EXTENDS ShardProver

\* A message computed by one and the same prove, at this dual's transcript.
Answers(message, t) == Made(message.of) /\ message.at = t

-----------------------------------------------------------------------------
(* LogUp-GKR.                                                              *)

\* One layer per row variable, an output of the circuit's size, and openings
\* of exactly the statement's chips.
GkrVerifierRaises(proof) ==
    \/ proof.layers.count # RowVars
    \/ proof.output.size # OutputSize(ChipNames)
    \/ ~CoversExactly(proof.openings, ChipNames)

\* verify_logup_gkr with the public-values leg (checkPv), and LogupGkrVerifier:
\* the reduced claim is the derived point, never the proof's copy of it.
GkrVerify(claim, proof, t, checkPv) ==
    LET head == SampleHead(AbsorbGrind(t, proof.pow))
        bound == BindCircuitOutput(head, proof.output.of, proof.output.size)
        point == LayerRounds(bound, proof.layers.of, RowVars)
        okPow == PowPasses(t, proof.pow)
        okLayers == Answers(proof.output, head) /\ Answers(proof.layers, bound)
                      /\ proof.layers.of = proof.output.of
        okPoint == proof.point = point
        okLeaf == /\ Answers(proof.openings, point)
                  /\ proof.openings.of = proof.layers.of
                  /\ Shard[proof.openings.of].main.rows = claim.rows
        okBus == /\ Made(proof.output.of)
                 /\ Shard[proof.output.of].balanced
                 /\ Shard[proof.output.of].claim.pv = claim.pv
        okAccumulator == claim.pv \in WellFormed
    IN  [t |-> AbsorbChipOpenings(point, proof.openings, ChipNames),
         ok |-> okPow /\ okLayers /\ okPoint /\ okLeaf
                  /\ (checkPv => okBus /\ okAccumulator),
         claim |-> [point |-> point, openings |-> proof.openings]]

-----------------------------------------------------------------------------
(* Zerocheck.                                                              *)

\* ZerocheckVerifier: main and preprocessed values as many as the statement's
\* columns, none where it has no preprocessed trace.
OpenedAsStated(opened) ==
    \A c \in Range(ChipNames) :
        c \in DOMAIN opened.widths /\ opened.widths[c] = Width[c]

PointVars ==
    NumInteractionVars(ChipNames) + 1 + RowVars

ZerocheckVerifierRaises(proof) ==
    \/ ~OpenedAsStated(proof.opened)
    \/ PointVars < MaxLog
    \/ proof.msgs.count # MaxLog
    \/ ~CoversExactly(proof.opened, ChipNames)

\* verify_shard_zerocheck: the copies of challenges and claims on the wire,
\* the sumcheck, its point, and the oracle check over the opened values.
ZerocheckVerify(statement, claim, proof, t) ==
    LET drawn == SampleStageChallenges(t)
        point == ZerocheckRounds(drawn, proof.msgs.of, MaxLog)
        okWire == /\ proof.challenges = drawn
                  /\ proof.zeta = <<claim.point, MaxLog>>
                  /\ proof.sum = <<claim.openings.of, drawn>>
        okRounds == Answers(proof.msgs, drawn)
        okPoint == proof.point = point
        okEval == /\ Answers(proof.opened, point)
                  /\ proof.opened.of = proof.msgs.of
                  /\ claim.openings.of = proof.msgs.of
                  /\ LET s == Shard[proof.opened.of]
                     IN  /\ s.satisfied
                         /\ s.main.rows = statement.rows
                         /\ s.claim.pv = statement.pv
                         /\ PrepUncut(s)
    IN  [t |-> AbsorbOpenedValues(point, proof.opened, ChipNames),
         ok |-> okWire /\ okRounds /\ okPoint /\ okEval,
         claim |-> [point |-> point, opened |-> proof.opened]]

-----------------------------------------------------------------------------
(* Jagged opening.                                                         *)

\* The outer rounds a statement asks for: the variables of its raw area.
OuterRounds(statement) == CeilLog2(RawArea(Manifest(statement)))

OpeningVerifierRaises(statement, proof) ==
    \/ proof.eval.rounds # OuterRounds(statement)
    \/ Len(proof.open.components) # Len(Manifest(statement))

\* JaggedPcsVerifier.verify: the evaluation over the statement's columns, the
\* rebinding of the proof's commitments to the statement's structure, and the
\* stacked opening.
OpeningVerify(statement, claim, roots, proof, t) ==
    LET manifest == Manifest(statement)
        drawn == SampleColumns(t, Columns(manifest))
        point == EvalRounds(drawn, proof.eval.of, OuterRounds(statement))
        bound == InRoundOrder(roots)
        okEval == /\ Answers(proof.eval, drawn)
                  /\ proof.eval.of = claim.opened.of
                  /\ proof.eval.claims = claim.opened.of
                  /\ proof.eval.structures = manifest
        okBind == \A i \in DOMAIN manifest :
                      Root(proof.open.components[i], manifest[i]) = bound[i]
        okOpen == /\ Answers(proof.open, point)
                  /\ proof.open.of = proof.eval.of
                  /\ proof.open.components = RegionContents(Shard[proof.open.of])
    IN  [t |-> OpenRounds(point, proof.open.of),
         ok |-> okEval /\ okBind /\ okOpen,
         claim |-> "trivial"]
=============================================================================
