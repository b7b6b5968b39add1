--------------------------- MODULE ShardTranscript ---------------------------
(***************************************************************************)
(* The Fiat-Shamir schedule of a shard proof: the transcript operations    *)
(* both roles call, so that one definition drives the two streams.         *)
(*                                                                         *)
(* A transcript is the sequence of what it absorbed and of the challenges  *)
(* drawn from it; a token is <<name, value>>, or <<"sample", name>> for a  *)
(* challenge.  A challenge, and the point several of them make, is a       *)
(* function of everything before it: it is the transcript right after it   *)
(* was drawn.  Field values are left out.  A prover message is the name of *)
(* the shard whose prove sent it, so two messages are equal when the same  *)
(* prove computed them.                                                    *)
(***************************************************************************)
EXTENDS Recurrences, SequencesExt, FiniteSetsExt

CONSTANTS
    NumBetas,      \* num_beta_values: widest interaction tuple plus one
    PowBits,       \* pow_bits of the LogUp-GKR grind
    Interactions   \* number of interactions of each chip

ASSUME ScheduleAssumption == NumBetas \in Nat \ {0} /\ PowBits \in Nat

\* Interaction variables of the circuit of these chips.
NumInteractionVars(chips) ==
    CeilLog2(Total([i \in DOMAIN chips |-> Interactions[chips[i]]]))

\* A block of tokens, count times over.
Repeat(block, count) ==
    [j \in 1..(Len(block) * count) |-> block[1 + ((j - 1) % Len(block))]]

Absorb(t, name, value) == Append(t, <<name, value>>)
Sample(t, name) == Append(t, <<"sample", name>>)
SamplePoint(t, name, coords) == t \o [i \in 1..coords |-> <<"sample", name>>]

-----------------------------------------------------------------------------
(* The preamble.                                                           *)

\* ChipMetadata.preamble_stream: the chips in the claim's order, with rows.
PreambleStream(claim) ==
    [i \in DOMAIN claim.order |-> <<claim.order[i], claim.rows[claim.order[i]]>>]

\* absorb_preamble: vk, public values, main commitment, chip metadata.
AbsorbPreamble(t, claim, commitment) ==
    Absorb(Absorb(Absorb(Absorb(t, "vk", claim.vk), "public_values", claim.pv),
                  "commitment", commitment),
           "chip_metadata", PreambleStream(claim))

-----------------------------------------------------------------------------
(* The head of LogUp-GKR.                                                  *)

\* A witness is the transcript it was ground for; the zero witness is none's.
ZeroWitness == <<>>

\* check_witness: the gate of a zero-bit grind always passes.
PowPasses(t, witness) == PowBits = 0 \/ witness = t

AbsorbGrind(t, witness) == Absorb(t, "pow_witness", witness)

\* alpha, the beta seeds, and the public-values challenge.
SampleHead(t) ==
    Sample(SamplePoint(Sample(t, "alpha"), "beta", CeilLog2(NumBetas)), "pv")

\* Broken variant of BindCircuitOutput: z1 is drawn before the denominators.
BindOutputEarly(t, output, size) ==
    Absorb(Absorb(SamplePoint(Absorb(Absorb(t, "length", size), "numerator", output),
                              "z1", CeilLog2(size)),
                  "length", size), "denominator", output)

\* The length-prefixed output MLEs, then z1 with a coordinate per variable.
BindCircuitOutput(t, output, size) ==
    SamplePoint(Absorb(Absorb(Absorb(Absorb(t, "length", size),
                                     "numerator", output),
                              "length", size), "denominator", output),
                "z1", CeilLog2(size))

\* One layer: lambda, the layer's sumcheck and pair openings, r.
LayerRounds(t, layers, count) ==
    t \o Repeat(<<<<"sample", "lambda">>, <<"layer", layers>>, <<"sample", "r">>>>, count)

-----------------------------------------------------------------------------
(* Openings, and the challenges of the later stages.                       *)

None == -1

\* Openings are [of, at, widths]: whose trace was opened, at which point, and
\* per chip the number of preprocessed and of main values.
\* select_openings raises unless they cover exactly the statement's chips.
CoversExactly(openings, chips) == DOMAIN openings.widths = Range(chips)

\* flat_openings_absorb: preprocessed before main, each with its length; a
\* chip with no preprocessed values absorbs a zero length or nothing.
FlatOpenings(openings, chips, emptyPrepAbsorbsZero) ==
    LET Frame(w) == IF w.prep # None THEN <<w.prep, w.main>>
                    ELSE IF emptyPrepAbsorbsZero THEN <<0, w.main>> ELSE <<w.main>>
    IN  <<openings.of, Len(chips)>>
          \o FlattenSeq([i \in DOMAIN chips |-> Frame(openings.widths[chips[i]])])

AbsorbChipOpenings(t, openings, chips) ==
    Absorb(t, "chip_openings", FlatOpenings(openings, chips, FALSE))

\* sample_stage_challenges: one challenge per batching dimension.
SampleStageChallenges(t) ==
    Sample(Sample(Sample(t, "batching"), "gkr_batch"), "lambda_chips")

\* A coefficient polynomial and a challenge per row variable.
ZerocheckRounds(t, msgs, count) ==
    t \o Repeat(<<<<"round_poly", msgs>>, <<"sample", "zc">>>>, count)

AbsorbOpenedValues(t, opened, chips) ==
    Absorb(t, "opened_values", FlatOpenings(opened, chips, TRUE))

\* sample_z_col.
SampleColumns(t, columns) == SamplePoint(t, "z_col", CeilLog2(columns))

\* The outer and the inner sumcheck of the jagged evaluation.
EvalRounds(t, msgs, outer) ==
    Sample(Absorb(t \o Repeat(<<<<"outer_poly", msgs>>, <<"sample", "z_final">>>>, outer),
                  "inner", msgs), "inner_point")

\* The stacked opening: its commitments, and the queries.
OpenRounds(t, open) == Sample(Absorb(t, "stacked_open", open), "queries")
=============================================================================
