-------------------------- MODULE ShardChainProofs ---------------------------
(***************************************************************************)
(* Proofs about ShardChain, for any shards, widths and depths: what the    *)
(* two roles hold at each point is a function of the shard proved, and of  *)
(* the statement and the assembly verified.                                *)
(***************************************************************************)
EXTENDS ShardChain, RecurrencesProofs, SequenceTheorems

-----------------------------------------------------------------------------
(* What a prove of a shard goes through.                                   *)

AfterBind(id) == AbsorbPreamble(Empty, Shard[id].claim, Commitment(Shard[id]))
GkrOf(id) == GkrProve(id, AfterBind(id))
ZerocheckOf(id) == ZerocheckProve(id, GkrOf(id).t, GkrOf(id).claim)
OpeningOf(id) == OpeningProve(id, ZerocheckOf(id).t, ZerocheckOf(id).claim)

ProofOf(id) ==
    [commitment |-> Commitment(Shard[id]), gkr |-> GkrOf(id).proof,
     zerocheck |-> ZerocheckOf(id).proof, jagged |-> OpeningOf(id).proof]

BindSeam(id) == Seam(AfterBind(id), "shard")
GkrSeam(id) == Seam(GkrOf(id).t, GkrOf(id).claim)
ZerocheckSeam(id) == Seam(ZerocheckOf(id).t, ZerocheckOf(id).claim)
OpeningSeam(id) == Seam(OpeningOf(id).t, OpeningOf(id).claim)
TrailOf(id) == <<BindSeam(id), GkrSeam(id), ZerocheckSeam(id), OpeningSeam(id)>>

\* No stage refuses the shard.
GkrProvable(id) == ~GkrProverRaises(Shard[id], AfterBind(id))
Provable(id) == GkrProvable(id) /\ ~ZerocheckProverRaises(Shard[id])

ProverAt(at, id, t, claim, trail, proof) ==
    [at |-> at, shard |-> id, t |-> t, claim |-> claim, trail |-> trail,
     proof |-> proof]

Proving(id) ==
    \/ prover = ProverAt("committed", id, Empty, "shard", Empty,
                         [commitment |-> Commitment(Shard[id])])
    \/ prover = ProverAt("bound", id, AfterBind(id), "shard", <<BindSeam(id)>>,
                         [commitment |-> Commitment(Shard[id])])
    \/ /\ GkrProvable(id)
       /\ prover = ProverAt("gkr", id, GkrOf(id).t, GkrOf(id).claim,
                            <<BindSeam(id), GkrSeam(id)>>,
                            [commitment |-> Commitment(Shard[id]),
                             gkr |-> GkrOf(id).proof])
    \/ /\ Provable(id)
       /\ prover = ProverAt("zerocheck", id, ZerocheckOf(id).t, ZerocheckOf(id).claim,
                            <<BindSeam(id), GkrSeam(id), ZerocheckSeam(id)>>,
                            [commitment |-> Commitment(Shard[id]),
                             gkr |-> GkrOf(id).proof,
                             zerocheck |-> ZerocheckOf(id).proof])

ProverInv ==
    \/ prover = Idle
    \/ prover = [at |-> "raised"]
    \/ verifier = Idle /\ \E id \in Id : Proving(id)

ProofsInv ==
    /\ DOMAIN proofs \subseteq Id
    /\ \A id \in DOMAIN proofs :
          Provable(id) /\ proofs[id] = [proof |-> ProofOf(id), trail |-> TrailOf(id)]

-----------------------------------------------------------------------------
(* What a verification goes through.                                       *)

\* The proof assembled from those proves.
Given(a) == MakeStale([part \in Parts |-> ProofOf(a.from[part])[part]], a.stale)

Started(id, a) == AbsorbPreamble(Empty, Shard[id].claim, Given(a).commitment)
RootsOf(id, a) == BoundRoots(Shard[id].claim, Given(a).commitment)
GkrDual(id, a, pv) == GkrVerify(Shard[id].claim, Given(a).gkr, Started(id, a), pv)
ZerocheckDual(id, a, pv) ==
    ZerocheckVerify(Shard[id].claim, GkrDual(id, a, pv).claim, Given(a).zerocheck,
                    GkrDual(id, a, pv).t)
OpeningDual(id, a, pv) ==
    OpeningVerify(Shard[id].claim, ZerocheckDual(id, a, pv).claim, RootsOf(id, a),
                  Given(a).jagged, ZerocheckDual(id, a, pv).t)

StartSeam(id, a) == Seam(Started(id, a), "shard")
GkrDualSeam(id, a, pv) == Seam(GkrDual(id, a, pv).t, GkrDual(id, a, pv).claim)
ZerocheckDualSeam(id, a, pv) ==
    Seam(ZerocheckDual(id, a, pv).t, ZerocheckDual(id, a, pv).claim)
OpeningDualSeam(id, a, pv) ==
    Seam(OpeningDual(id, a, pv).t, OpeningDual(id, a, pv).claim)

VerifierAt(at, id, a, pv, t, claim, ok, trail) ==
    [at |-> at, shard |-> id, assembly |-> a, checkPv |-> pv, proof |-> Given(a),
     roots |-> RootsOf(id, a), t |-> t, claim |-> claim, ok |-> ok, trail |-> trail]

\* The verifier stands at that place, before or after a dual.
OnStart(at, id, a, pv) ==
    verifier = VerifierAt(at, id, a, pv, Started(id, a), "shard", TRUE,
                          <<StartSeam(id, a)>>)
OnGkr(at, id, a, pv) ==
    /\ ~GkrVerifierRaises(Given(a).gkr)
    /\ verifier = VerifierAt(at, id, a, pv, GkrDual(id, a, pv).t,
                             GkrDual(id, a, pv).claim, verifier.ok,
                             <<StartSeam(id, a), GkrDualSeam(id, a, pv)>>)
    /\ verifier.ok \in BOOLEAN
    /\ verifier.ok <=> GkrDual(id, a, pv).ok
OnZerocheck(at, id, a, pv) ==
    /\ ~GkrVerifierRaises(Given(a).gkr)
    /\ ~ZerocheckVerifierRaises(Given(a).zerocheck)
    /\ verifier = VerifierAt(at, id, a, pv, ZerocheckDual(id, a, pv).t,
                             ZerocheckDual(id, a, pv).claim, verifier.ok,
                             <<StartSeam(id, a), GkrDualSeam(id, a, pv),
                               ZerocheckDualSeam(id, a, pv)>>)
    /\ verifier.ok \in BOOLEAN
    /\ verifier.ok <=> GkrDual(id, a, pv).ok /\ ZerocheckDual(id, a, pv).ok
OnVerdict(at, id, a, pv) ==
    /\ ~GkrVerifierRaises(Given(a).gkr)
    /\ ~ZerocheckVerifierRaises(Given(a).zerocheck)
    /\ ~OpeningVerifierRaises(Shard[id].claim, Given(a).jagged)
    /\ verifier = VerifierAt(at, id, a, pv, OpeningDual(id, a, pv).t,
                             OpeningDual(id, a, pv).claim, verifier.ok,
                             <<StartSeam(id, a), GkrDualSeam(id, a, pv),
                               ZerocheckDualSeam(id, a, pv),
                               OpeningDualSeam(id, a, pv)>>)
    /\ verifier.ok \in BOOLEAN
    /\ verifier.ok <=> GkrDual(id, a, pv).ok /\ ZerocheckDual(id, a, pv).ok
                         /\ OpeningDual(id, a, pv).ok

Verifying(id, a, pv) ==
    \/ OnStart("bound", id, a, pv)
    \/ OnGkr("gkr", id, a, pv)
    \/ OnZerocheck("zerocheck", id, a, pv)
    \/ OnVerdict("accepted", id, a, pv) /\ verifier.ok
    \/ OnVerdict("rejected", id, a, pv) /\ ~verifier.ok
    \/ OnStart("raised", id, a, pv) /\ GkrVerifierRaises(Given(a).gkr)
    \/ OnGkr("raised", id, a, pv) /\ ZerocheckVerifierRaises(Given(a).zerocheck)
    \/ /\ OnZerocheck("raised", id, a, pv)
       /\ OpeningVerifierRaises(Shard[id].claim, Given(a).jagged)

VerifierInv ==
    \/ verifier = Idle
    \/ \E id \in Id, a \in Assemblies, pv \in BOOLEAN : Verifying(id, a, pv)

\* The inductive invariant: each role is where its inputs lead.
ChainInv == ProverInv /\ ProofsInv /\ VerifierInv

-----------------------------------------------------------------------------
(* Short sequences and records that grow by one.                           *)

LEMMA Appended ==
    ASSUME NEW S, NEW s \in Seq(S), NEW e \in S
    PROVE  /\ Append(s, e) \in Seq(S) /\ Len(Append(s, e)) = Len(s) + 1
           /\ \A i \in 1..Len(s) : Append(s, e)[i] = s[i]
           /\ Append(s, e)[Len(s) + 1] = e
OBVIOUS

LEMMA AppendedToOne ==
    ASSUME NEW x, NEW y
    PROVE  Append(<<x>>, y) = <<x, y>>
<1> DEFINE S == {x, y}
           s == <<x>>
           t == <<x, y>>
<1>1. s \in Seq(S) /\ Len(s) = 1 /\ t \in Seq(S) /\ Len(t) = 2
  OBVIOUS
<1>2. t[1] = x /\ t[2] = y /\ s[1] = x
  OBVIOUS
<1>3. y \in S
  OBVIOUS
<1> HIDE DEF S, s, t
<1>4. /\ Append(s, y) \in Seq(S) /\ Len(Append(s, y)) = 2
      /\ \A i \in 1..1 : Append(s, y)[i] = s[i]
      /\ Append(s, y)[2] = y
  <2>1. /\ Append(s, y) \in Seq(S) /\ Len(Append(s, y)) = Len(s) + 1
        /\ \A i \in 1..Len(s) : Append(s, y)[i] = s[i]
        /\ Append(s, y)[Len(s) + 1] = y
    BY <1>1, <1>3, Appended
  <2> QED
    BY <2>1, <1>1
<1>5. ASSUME NEW i \in 1..2 PROVE Append(s, y)[i] = t[i]
  <2>1. i = 1 \/ i = 2
    OBVIOUS
  <2> QED
    BY <2>1, <1>2, <1>4
<1>6. Append(s, y) = t
  BY <1>1, <1>4, <1>5, SeqEqual
<1> QED
  BY <1>6 DEF s, t

LEMMA AppendedToTwo ==
    ASSUME NEW x, NEW y, NEW z
    PROVE  Append(<<x, y>>, z) = <<x, y, z>>
<1> DEFINE S == {x, y, z}
           s == <<x, y>>
           t == <<x, y, z>>
<1>1. s \in Seq(S) /\ Len(s) = 2 /\ t \in Seq(S) /\ Len(t) = 3
  OBVIOUS
<1>2. t[1] = x /\ t[2] = y /\ t[3] = z /\ s[1] = x /\ s[2] = y
  OBVIOUS
<1>3. z \in S
  OBVIOUS
<1> HIDE DEF S, s, t
<1>4. /\ Append(s, z) \in Seq(S) /\ Len(Append(s, z)) = 3
      /\ \A i \in 1..2 : Append(s, z)[i] = s[i]
      /\ Append(s, z)[3] = z
  <2>1. /\ Append(s, z) \in Seq(S) /\ Len(Append(s, z)) = Len(s) + 1
        /\ \A i \in 1..Len(s) : Append(s, z)[i] = s[i]
        /\ Append(s, z)[Len(s) + 1] = z
    BY <1>1, <1>3, Appended
  <2> QED
    BY <2>1, <1>1
<1>5. ASSUME NEW i \in 1..3 PROVE Append(s, z)[i] = t[i]
  <2>1. i = 1 \/ i = 2 \/ i = 3
    OBVIOUS
  <2> QED
    BY <2>1, <1>2, <1>4
<1>6. Append(s, z) = t
  BY <1>1, <1>4, <1>5, SeqEqual
<1> QED
  BY <1>6 DEF s, t

LEMMA AppendedToThree ==
    ASSUME NEW x, NEW y, NEW z, NEW w
    PROVE  Append(<<x, y, z>>, w) = <<x, y, z, w>>
<1> DEFINE S == {x, y, z, w}
           s == <<x, y, z>>
           t == <<x, y, z, w>>
<1>1. s \in Seq(S) /\ Len(s) = 3 /\ t \in Seq(S) /\ Len(t) = 4
  OBVIOUS
<1>2. t[1] = x /\ t[2] = y /\ t[3] = z /\ t[4] = w /\ s[1] = x /\ s[2] = y /\ s[3] = z
  OBVIOUS
<1>3. w \in S
  OBVIOUS
<1> HIDE DEF S, s, t
<1>4. /\ Append(s, w) \in Seq(S) /\ Len(Append(s, w)) = 4
      /\ \A i \in 1..3 : Append(s, w)[i] = s[i]
      /\ Append(s, w)[4] = w
  <2>1. /\ Append(s, w) \in Seq(S) /\ Len(Append(s, w)) = Len(s) + 1
        /\ \A i \in 1..Len(s) : Append(s, w)[i] = s[i]
        /\ Append(s, w)[Len(s) + 1] = w
    BY <1>1, <1>3, Appended
  <2> QED
    BY <2>1, <1>1
<1>5. ASSUME NEW i \in 1..4 PROVE Append(s, w)[i] = t[i]
  <2>1. i = 1 \/ i = 2 \/ i = 3 \/ i = 4
    OBVIOUS
  <2> QED
    BY <2>1, <1>2, <1>4
<1>6. Append(s, w) = t
  BY <1>1, <1>4, <1>5, SeqEqual
<1> QED
  BY <1>6 DEF s, t

-----------------------------------------------------------------------------
(* The prover's steps.                                                     *)

LEMMA InitChain == Init => ChainInv
BY DEF Init, ChainInv, ProverInv, ProofsInv, VerifierInv

LEMMA CommitStep ==
    ASSUME ChainInv, NEW id \in Id, Commit(id)
    PROVE  ChainInv'
<1>1. verifier = Idle
  <2>1. verifier.at = "idle"
    BY DEF Commit
  <2> QED
    BY <2>1 DEF ChainInv, VerifierInv, Verifying, OnStart, OnGkr, OnZerocheck,
         OnVerdict, VerifierAt
<1>2. prover' = ProverAt("committed", id, Empty, "shard", Empty,
                         [commitment |-> Commitment(Shard[id])])
  BY DEF Commit, ProverAt
<1>3. UNCHANGED <<proofs, verifier>>
  BY DEF Commit
<1>4. ProverInv'
  BY <1>1, <1>2, <1>3 DEF ProverInv, Proving
<1>5. ProofsInv' /\ VerifierInv'
  BY <1>1, <1>3 DEF ChainInv, ProofsInv, VerifierInv
<1> QED
  BY <1>4, <1>5 DEF ChainInv

LEMMA WhoProves ==
    ASSUME ChainInv, prover.at \notin {"idle", "raised"}
    PROVE  verifier = Idle /\ \E id \in Id : Proving(id)
BY DEF ChainInv, ProverInv, Idle

LEMMA ProverMoved ==
    ASSUME ChainInv, verifier = Idle, UNCHANGED <<proofs, verifier>>,
           \/ prover' = [at |-> "raised"]
           \/ \E id \in Id : Proving(id)'
    PROVE  ChainInv'
<1>1. ProverInv'
  BY DEF ProverInv
<1>2. ProofsInv' /\ VerifierInv'
  BY DEF ChainInv, ProofsInv, VerifierInv
<1> QED
  BY <1>1, <1>2 DEF ChainInv

LEMMA BindStep == ASSUME ChainInv, Bind PROVE ChainInv'
<1>1. prover.at = "committed" /\ UNCHANGED <<proofs, verifier>>
  BY DEF Bind
<1>2. PICK id \in Id : verifier = Idle /\ Proving(id)
  BY <1>1, WhoProves
<1>3. prover = ProverAt("committed", id, Empty, "shard", Empty,
                        [commitment |-> Commitment(Shard[id])])
  BY <1>1, <1>2 DEF Proving, ProverAt
<1>4. prover' = ProverAt("bound", id, AfterBind(id), "shard", <<BindSeam(id)>>,
                         [commitment |-> Commitment(Shard[id])])
  <2>1. prover.shard = id /\ prover.t = Empty /\ prover.claim = "shard"
        /\ prover.proof.commitment = Commitment(Shard[id])
    BY <1>3 DEF ProverAt
  <2>2. prover' = [prover EXCEPT !.at = "bound", !.t = AfterBind(id),
                                 !.trail = <<BindSeam(id)>>]
    BY <2>1 DEF Bind, AfterBind, BindSeam
  <2> QED
    BY <2>2, <1>3 DEF ProverAt
<1> QED
  BY <1>1, <1>2, <1>4, ProverMoved DEF Proving

LEMMA ProveGkrStep == ASSUME ChainInv, ProveGkr PROVE ChainInv'
<1>1. prover.at = "bound" /\ UNCHANGED <<proofs, verifier>>
  BY DEF ProveGkr
<1>2. PICK id \in Id : verifier = Idle /\ Proving(id)
  BY <1>1, WhoProves
<1> DEFINE c == Commitment(Shard[id])
           g == GkrOf(id)
<1>3. prover = ProverAt("bound", id, AfterBind(id), "shard", <<BindSeam(id)>>,
                        [commitment |-> c])
  BY <1>1, <1>2 DEF Proving, ProverAt
<1>4. prover.shard = id /\ prover.t = AfterBind(id) /\ prover.trail = <<BindSeam(id)>>
      /\ prover.proof = [commitment |-> c]
  BY <1>3 DEF ProverAt
<1>5. GkrProvable(id) /\ prover' = Reduced("gkr", "gkr", g)
  BY <1>4 DEF ProveGkr, GkrProvable, GkrOf
<1>6. prover' = ProverAt("gkr", id, g.t, g.claim, <<BindSeam(id), GkrSeam(id)>>,
                         [commitment |-> c, gkr |-> g.proof])
  <2>1. Append(<<BindSeam(id)>>, Seam(g.t, g.claim)) = <<BindSeam(id), GkrSeam(id)>>
    BY AppendedToOne DEF GkrSeam
  <2> HIDE DEF c, g
  <2>2. With([commitment |-> c], "gkr", g.proof) = [commitment |-> c, gkr |-> g.proof]
    BY DEF With
  <2> QED
    BY <1>3, <1>4, <1>5, <2>1, <2>2 DEF Reduced, ProverAt
<1> QED
  BY <1>1, <1>2, <1>5, <1>6, ProverMoved DEF Proving

LEMMA ProveZerocheckStep == ASSUME ChainInv, ProveZerocheck PROVE ChainInv'
<1>1. prover.at = "gkr" /\ UNCHANGED <<proofs, verifier>>
  BY DEF ProveZerocheck
<1>2. PICK id \in Id : verifier = Idle /\ Proving(id)
  BY <1>1, WhoProves
<1> DEFINE c == Commitment(Shard[id])
           g == GkrOf(id)
           z == ZerocheckOf(id)
<1>3. GkrProvable(id)
      /\ prover = ProverAt("gkr", id, g.t, g.claim, <<BindSeam(id), GkrSeam(id)>>,
                           [commitment |-> c, gkr |-> g.proof])
  BY <1>1, <1>2 DEF Proving, ProverAt
<1>4. prover.shard = id /\ prover.t = g.t /\ prover.claim = g.claim
      /\ prover.trail = <<BindSeam(id), GkrSeam(id)>>
      /\ prover.proof = [commitment |-> c, gkr |-> g.proof]
  BY <1>3 DEF ProverAt
<1>5. Provable(id) /\ prover' = Reduced("zerocheck", "zerocheck", z)
  BY <1>3, <1>4 DEF ProveZerocheck, Provable, ZerocheckOf
<1>6. prover' = ProverAt("zerocheck", id, z.t, z.claim,
                         <<BindSeam(id), GkrSeam(id), ZerocheckSeam(id)>>,
                         [commitment |-> c, gkr |-> g.proof, zerocheck |-> z.proof])
  <2>1. Append(<<BindSeam(id), GkrSeam(id)>>, Seam(z.t, z.claim))
          = <<BindSeam(id), GkrSeam(id), ZerocheckSeam(id)>>
    BY AppendedToTwo DEF ZerocheckSeam
  <2> HIDE DEF c, g, z
  <2>2. With([commitment |-> c, gkr |-> g.proof], "zerocheck", z.proof)
          = [commitment |-> c, gkr |-> g.proof, zerocheck |-> z.proof]
    BY DEF With
  <2> QED
    BY <1>3, <1>4, <1>5, <2>1, <2>2 DEF Reduced, ProverAt
<1> QED
  BY <1>1, <1>2, <1>5, <1>6, ProverMoved DEF Proving

LEMMA ProveOpeningStep == ASSUME ChainInv, ProveOpening PROVE ChainInv'
<1>1. prover.at = "zerocheck" /\ UNCHANGED verifier /\ prover' = Idle
  BY DEF ProveOpening
<1>2. PICK id \in Id : verifier = Idle /\ Proving(id)
  BY <1>1, WhoProves
<1> DEFINE c == Commitment(Shard[id])
           g == GkrOf(id)
           z == ZerocheckOf(id)
           o == OpeningOf(id)
           trail == <<BindSeam(id), GkrSeam(id), ZerocheckSeam(id)>>
           proof == [commitment |-> c, gkr |-> g.proof, zerocheck |-> z.proof]
<1>3. Provable(id) /\ prover = ProverAt("zerocheck", id, z.t, z.claim, trail, proof)
  BY <1>1, <1>2 DEF Proving, ProverAt
<1>4. prover.shard = id /\ prover.t = z.t /\ prover.claim = z.claim
      /\ prover.trail = trail /\ prover.proof = proof
  BY <1>3 DEF ProverAt
<1> DEFINE done == Reduced("idle", "jagged", o)
<1>5. proofs' = With(proofs, id, [proof |-> done.proof, trail |-> done.trail])
  BY <1>4 DEF ProveOpening, OpeningOf
<1>6. done.trail = TrailOf(id)
  <2>1. Append(trail, Seam(o.t, o.claim)) = TrailOf(id)
    BY AppendedToThree DEF TrailOf, OpeningSeam
  <2> HIDE DEF c, g, z, o, trail
  <2> QED
    BY <1>3, <1>4, <2>1 DEF Reduced, ProverAt
<1>7. done.proof = ProofOf(id)
  <2>1. ProofOf(id) = [commitment |-> c, gkr |-> g.proof, zerocheck |-> z.proof,
                       jagged |-> o.proof]
    BY DEF ProofOf
  <2> HIDE DEF c, g, z, o, trail
  <2>2. With(proof, "jagged", o.proof)
          = [commitment |-> c, gkr |-> g.proof, zerocheck |-> z.proof,
             jagged |-> o.proof]
    BY DEF With
  <2>3. done.proof = With(proof, "jagged", o.proof)
    BY <1>3, <1>4 DEF Reduced, ProverAt
  <2> QED
    BY <2>1, <2>2, <2>3
<1>8. proofs' = [i \in {id} \cup DOMAIN proofs |->
                   IF i = id THEN [proof |-> ProofOf(id), trail |-> TrailOf(id)]
                   ELSE proofs[i]]
  <2> HIDE DEF done
  <2> QED
    BY <1>5, <1>6, <1>7 DEF With
<1>9. ProofsInv'
  BY <1>3, <1>8 DEF ChainInv, ProofsInv
<1>10. ProverInv' /\ VerifierInv'
  BY <1>1, <1>2 DEF ProverInv, VerifierInv
<1> QED
  BY <1>9, <1>10 DEF ChainInv

LEMMA ProverRaisesStep == ASSUME ChainInv, ProverRaises PROVE ChainInv'
<1>1. prover.at \in {"bound", "gkr"} /\ prover' = [at |-> "raised"]
      /\ UNCHANGED <<proofs, verifier>>
  BY DEF ProverRaises
<1>2. verifier = Idle
  BY <1>1, WhoProves
<1> QED
  BY <1>1, <1>2, ProverMoved

-----------------------------------------------------------------------------
(* The verifier's steps.                                                   *)

LEMMA WhoVerifies ==
    ASSUME ChainInv, verifier.at # "idle"
    PROVE  /\ prover = Idle \/ prover = [at |-> "raised"]
           /\ \E id \in Id, a \in Assemblies, pv \in BOOLEAN : Verifying(id, a, pv)
<1>1. verifier # Idle
  BY DEF Idle
<1> QED
  BY <1>1 DEF ChainInv, ProverInv, VerifierInv

LEMMA VerifierMoved ==
    ASSUME ChainInv, prover = Idle \/ prover = [at |-> "raised"],
           UNCHANGED <<prover, proofs>>,
           \/ verifier' = Idle
           \/ \E id \in Id, a \in Assemblies, pv \in BOOLEAN : Verifying(id, a, pv)'
    PROVE  ChainInv'
<1>1. Assemblies' = Assemblies
  BY DEF Assemblies
<1>2. VerifierInv'
  BY <1>1 DEF VerifierInv, Idle
<1>3. ProverInv' /\ ProofsInv'
  BY DEF ChainInv, ProverInv, ProofsInv, Idle
<1> QED
  BY <1>2, <1>3 DEF ChainInv

\* The proof put together is that of the proves it comes from.
LEMMA AssembledIsGiven ==
    ASSUME ProofsInv, NEW a \in Assemblies
    PROVE  Assembled(a) = Given(a)
<1>1. a.from \in [Parts -> DOMAIN proofs]
  BY DEF Assemblies
<1>2. \A part \in Parts : proofs[a.from[part]].proof = ProofOf(a.from[part])
  BY <1>1 DEF ProofsInv
<1>3. [part \in Parts |-> proofs[a.from[part]].proof[part]]
        = [part \in Parts |-> ProofOf(a.from[part])[part]]
  BY <1>2
<1> QED
  BY <1>3 DEF Assembled, Given

LEMMA VerifyStep ==
    ASSUME ChainInv, NEW id \in Id, NEW a \in Assemblies, NEW pv \in BOOLEAN,
           Verify(id, a, pv)
    PROVE  ChainInv'
<1>1. UNCHANGED <<prover, proofs>> /\ prover.at \in {"idle", "raised"}
  BY DEF Verify
<1>2. prover = Idle \/ prover = [at |-> "raised"]
  BY <1>1 DEF ChainInv, ProverInv, Proving, ProverAt
<1>3. Assembled(a) = Given(a)
  BY AssembledIsGiven DEF ChainInv
<1>4. OnStart("bound", id, a, pv)'
  BY <1>3 DEF Verify, OnStart, VerifierAt, Started, RootsOf, StartSeam
<1> QED
  BY <1>1, <1>2, <1>4, VerifierMoved DEF Verifying

LEMMA VerifyGkrStep == ASSUME ChainInv, VerifyGkr PROVE ChainInv'
<1>1. verifier.at = "bound" /\ UNCHANGED <<prover, proofs>>
  BY DEF VerifyGkr
<1>2. prover = Idle \/ prover = [at |-> "raised"]
  BY <1>1, WhoVerifies
<1>3. PICK id \in Id, a \in Assemblies, pv \in BOOLEAN : Verifying(id, a, pv)
  BY <1>1, WhoVerifies
<1>4. OnStart("bound", id, a, pv)
  BY <1>1, <1>3 DEF Verifying, OnStart, OnGkr, OnZerocheck, OnVerdict, VerifierAt
<1> DEFINE dual == GkrDual(id, a, pv)
<1>5. /\ verifier.shard = id /\ verifier.proof = Given(a) /\ verifier.checkPv = pv
      /\ verifier.t = Started(id, a) /\ verifier.ok = TRUE
      /\ verifier.trail = <<StartSeam(id, a)>>
  BY <1>4 DEF OnStart, VerifierAt
<1>6. ~GkrVerifierRaises(Given(a).gkr) /\ verifier' = Derived("gkr", dual)
  BY <1>5 DEF VerifyGkr, Statement, GkrDual
<1>7. Append(<<StartSeam(id, a)>>, Seam(dual.t, dual.claim))
        = <<StartSeam(id, a), GkrDualSeam(id, a, pv)>>
  BY AppendedToOne DEF GkrDualSeam
<1>8. OnGkr("gkr", id, a, pv)'
  <2> HIDE DEF dual
  <2>1. verifier' = [verifier EXCEPT !.at = "gkr", !.t = dual.t, !.claim = dual.claim,
                                     !.trail = <<StartSeam(id, a), GkrDualSeam(id, a, pv)>>,
                                     !.ok = verifier.ok /\ dual.ok]
    BY <1>5, <1>6, <1>7 DEF Derived
  <2>2. verifier' = VerifierAt("gkr", id, a, pv, dual.t, dual.claim,
                               verifier.ok /\ dual.ok,
                               <<StartSeam(id, a), GkrDualSeam(id, a, pv)>>)
    BY <2>1, <1>4 DEF OnStart, VerifierAt
  <2>3. verifier'.ok = (verifier.ok /\ dual.ok)
    BY <2>2 DEF VerifierAt
  <2>4. verifier'.ok \in BOOLEAN /\ (verifier'.ok <=> dual.ok)
    BY <2>3, <1>5
  <2>5. verifier' = VerifierAt("gkr", id, a, pv, dual.t, dual.claim, verifier'.ok,
                               <<StartSeam(id, a), GkrDualSeam(id, a, pv)>>)
    BY <2>2, <2>3
  <2> QED
    BY <1>6, <2>4, <2>5 DEF OnGkr, dual
<1> QED
  BY <1>1, <1>2, <1>8, VerifierMoved DEF Verifying

LEMMA VerifyZerocheckStep == ASSUME ChainInv, VerifyZerocheck PROVE ChainInv'
<1>1. verifier.at = "gkr" /\ UNCHANGED <<prover, proofs>>
  BY DEF VerifyZerocheck
<1>2. prover = Idle \/ prover = [at |-> "raised"]
  BY <1>1, WhoVerifies
<1>3. PICK id \in Id, a \in Assemblies, pv \in BOOLEAN : Verifying(id, a, pv)
  BY <1>1, WhoVerifies
<1>4. OnGkr("gkr", id, a, pv)
  BY <1>1, <1>3 DEF Verifying, OnStart, OnGkr, OnZerocheck, OnVerdict, VerifierAt
<1> DEFINE before == GkrDual(id, a, pv)
           dual == ZerocheckDual(id, a, pv)
           trail == <<StartSeam(id, a), GkrDualSeam(id, a, pv),
                      ZerocheckDualSeam(id, a, pv)>>
<1>5. /\ verifier.shard = id /\ verifier.proof = Given(a)
      /\ verifier.t = before.t /\ verifier.claim = before.claim
      /\ verifier.trail = <<StartSeam(id, a), GkrDualSeam(id, a, pv)>>
      /\ verifier.ok \in BOOLEAN /\ (verifier.ok <=> before.ok)
      /\ ~GkrVerifierRaises(Given(a).gkr)
  BY <1>4 DEF OnGkr, VerifierAt
<1>6. /\ ~ZerocheckVerifierRaises(Given(a).zerocheck)
      /\ verifier' = Derived("zerocheck", dual)
  BY <1>5 DEF VerifyZerocheck, Statement, ZerocheckDual
<1>7. Append(<<StartSeam(id, a), GkrDualSeam(id, a, pv)>>, Seam(dual.t, dual.claim))
        = trail
  BY AppendedToTwo DEF ZerocheckDualSeam
<1>8. OnZerocheck("zerocheck", id, a, pv)'
  <2> HIDE DEF before, dual, trail
  <2>1. verifier' = [verifier EXCEPT !.at = "zerocheck", !.t = dual.t,
                                     !.claim = dual.claim, !.trail = trail,
                                     !.ok = verifier.ok /\ dual.ok]
    BY <1>5, <1>6, <1>7 DEF Derived
  <2>2. verifier' = VerifierAt("zerocheck", id, a, pv, dual.t, dual.claim,
                               verifier.ok /\ dual.ok, trail)
    <3>1. PICK t, claim, ok, walked :
              verifier = VerifierAt("gkr", id, a, pv, t, claim, ok, walked)
      BY <1>4 DEF OnGkr
    <3>2. PICK sum : sum = (verifier.ok /\ dual.ok)
      OBVIOUS
    <3> HIDE DEF dual
    <3>3. verifier' = [verifier EXCEPT !.at = "zerocheck", !.t = dual.t, !.claim = dual.claim,
                                       !.trail = trail, !.ok = sum]
      BY <2>1, <3>2
    <3>4. verifier' = VerifierAt("zerocheck", id, a, pv, dual.t, dual.claim, sum, trail)
      BY <3>1, <3>3 DEF VerifierAt
    <3> QED
      BY <3>2, <3>4
  <2>3. verifier'.ok = (verifier.ok /\ dual.ok)
    BY <2>2 DEF VerifierAt
  <2>4. verifier'.ok \in BOOLEAN /\ (verifier'.ok <=> before.ok /\ dual.ok)
    BY <2>3, <1>5
  <2>5. verifier' = VerifierAt("zerocheck", id, a, pv, dual.t, dual.claim,
                               verifier'.ok, trail)
    BY <2>2, <2>3
  <2> QED
    BY <1>5, <1>6, <2>4, <2>5 DEF OnZerocheck, before, dual, trail
<1> QED
  BY <1>1, <1>2, <1>8, VerifierMoved DEF Verifying

LEMMA VerifyOpeningStep == ASSUME ChainInv, VerifyOpening PROVE ChainInv'
<1>1. verifier.at = "zerocheck" /\ UNCHANGED <<prover, proofs>>
  BY DEF VerifyOpening
<1>2. prover = Idle \/ prover = [at |-> "raised"]
  BY <1>1, WhoVerifies
<1>3. PICK id \in Id, a \in Assemblies, pv \in BOOLEAN : Verifying(id, a, pv)
  BY <1>1, WhoVerifies
<1>4. OnZerocheck("zerocheck", id, a, pv)
  BY <1>1, <1>3 DEF Verifying, OnStart, OnGkr, OnZerocheck, OnVerdict, VerifierAt
<1> DEFINE gkr == GkrDual(id, a, pv)
           before == ZerocheckDual(id, a, pv)
           dual == OpeningDual(id, a, pv)
           trail == <<StartSeam(id, a), GkrDualSeam(id, a, pv),
                      ZerocheckDualSeam(id, a, pv), OpeningDualSeam(id, a, pv)>>
<1>5. /\ verifier.shard = id /\ verifier.proof = Given(a)
      /\ verifier.roots = RootsOf(id, a)
      /\ verifier.t = before.t /\ verifier.claim = before.claim
      /\ verifier.trail = <<StartSeam(id, a), GkrDualSeam(id, a, pv),
                            ZerocheckDualSeam(id, a, pv)>>
      /\ verifier.ok \in BOOLEAN /\ (verifier.ok <=> gkr.ok /\ before.ok)
      /\ ~GkrVerifierRaises(Given(a).gkr)
      /\ ~ZerocheckVerifierRaises(Given(a).zerocheck)
  BY <1>4 DEF OnZerocheck, VerifierAt
<1>0. PICK at : at = IF verifier.ok /\ dual.ok THEN "accepted" ELSE "rejected"
  OBVIOUS
<1>6. /\ ~OpeningVerifierRaises(Shard[id].claim, Given(a).jagged)
      /\ verifier' = Derived(at, dual)
  BY <1>5, <1>0 DEF VerifyOpening, Statement, OpeningDual
<1>7. Append(<<StartSeam(id, a), GkrDualSeam(id, a, pv), ZerocheckDualSeam(id, a, pv)>>,
             Seam(dual.t, dual.claim)) = trail
  BY AppendedToThree DEF OpeningDualSeam
<1>8. OnVerdict(at, id, a, pv)' /\ (verifier'.ok <=> verifier.ok /\ dual.ok)
  <2> HIDE DEF gkr, before, dual, trail
  <2>1. verifier' = [verifier EXCEPT !.at = at, !.t = dual.t,
                                     !.claim = dual.claim, !.trail = trail,
                                     !.ok = verifier.ok /\ dual.ok]
    BY <1>5, <1>6, <1>7 DEF Derived
  <2>2. verifier' = VerifierAt(at, id, a, pv, dual.t, dual.claim,
                               verifier.ok /\ dual.ok, trail)
    <3>1. PICK t, claim, ok, walked :
              verifier = VerifierAt("zerocheck", id, a, pv, t, claim, ok, walked)
      BY <1>4 DEF OnZerocheck
    <3>2. PICK sum : sum = (verifier.ok /\ dual.ok)
      OBVIOUS
    <3> HIDE DEF dual
    <3>3. verifier' = [verifier EXCEPT !.at = at, !.t = dual.t, !.claim = dual.claim,
                                       !.trail = trail, !.ok = sum]
      BY <2>1, <3>2
    <3>4. verifier' = VerifierAt(at, id, a, pv, dual.t, dual.claim, sum, trail)
      BY <3>1, <3>3 DEF VerifierAt
    <3> QED
      BY <3>2, <3>4
  <2>3. verifier'.ok = (verifier.ok /\ dual.ok)
    BY <2>2 DEF VerifierAt
  <2>4. verifier'.ok \in BOOLEAN /\ (verifier'.ok <=> gkr.ok /\ before.ok /\ dual.ok)
    BY <2>3, <1>5
  <2>5. verifier' = VerifierAt(at, id, a, pv, dual.t, dual.claim, verifier'.ok, trail)
    BY <2>2, <2>3
  <2>6. OnVerdict(at, id, a, pv)'
    BY <1>5, <1>6, <2>4, <2>5 DEF OnVerdict, gkr, before, dual, trail
  <2> QED
    BY <2>3, <2>6
<1>9. Verifying(id, a, pv)'
  <2>1. CASE verifier.ok /\ dual.ok
    BY <1>0, <1>8, <2>1 DEF Verifying
  <2>2. CASE ~(verifier.ok /\ dual.ok)
    BY <1>0, <1>8, <2>2 DEF Verifying
  <2> QED
    BY <2>1, <2>2
<1> QED
  BY <1>1, <1>2, <1>9, VerifierMoved

LEMMA VerifierRaisesStep == ASSUME ChainInv, VerifierRaises PROVE ChainInv'
<1>1. /\ verifier.at \in {"bound", "gkr", "zerocheck"} /\ UNCHANGED <<prover, proofs>>
      /\ verifier' = [verifier EXCEPT !.at = "raised"]
  BY DEF VerifierRaises
<1>2. prover = Idle \/ prover = [at |-> "raised"]
  BY <1>1, WhoVerifies
<1>3. PICK id \in Id, a \in Assemblies, pv \in BOOLEAN : Verifying(id, a, pv)
  BY <1>1, WhoVerifies
<1>4. CASE verifier.at = "bound"
  <2>1. OnStart("bound", id, a, pv)
    BY <1>3, <1>4 DEF Verifying, OnStart, OnGkr, OnZerocheck, OnVerdict, VerifierAt
  <2>2. verifier.proof = Given(a)
    BY <2>1 DEF OnStart, VerifierAt
  <2>3. GkrVerifierRaises(Given(a).gkr)
    BY <1>4, <2>2 DEF VerifierRaises
  <2>4. OnStart("raised", id, a, pv)'
    BY <1>1, <2>1 DEF OnStart, VerifierAt
  <2> QED
    BY <1>1, <1>2, <2>3, <2>4, VerifierMoved DEF Verifying
<1>5. CASE verifier.at = "gkr"
  <2>1. OnGkr("gkr", id, a, pv)
    BY <1>3, <1>5 DEF Verifying, OnStart, OnGkr, OnZerocheck, OnVerdict, VerifierAt
  <2>2. verifier.proof = Given(a)
    BY <2>1 DEF OnGkr, VerifierAt
  <2>3. ZerocheckVerifierRaises(Given(a).zerocheck)
    BY <1>5, <2>2 DEF VerifierRaises
  <2>4. verifier'.ok = verifier.ok
    BY <1>1, <2>1 DEF OnGkr, VerifierAt
  <2>5. OnGkr("raised", id, a, pv)'
    BY <1>1, <2>1, <2>4 DEF OnGkr, VerifierAt
  <2> QED
    BY <1>1, <1>2, <2>3, <2>5, VerifierMoved DEF Verifying
<1>6. CASE verifier.at = "zerocheck"
  <2>1. OnZerocheck("zerocheck", id, a, pv)
    BY <1>3, <1>6 DEF Verifying, OnStart, OnGkr, OnZerocheck, OnVerdict, VerifierAt
  <2>2. verifier.proof = Given(a) /\ verifier.shard = id
    BY <2>1 DEF OnZerocheck, VerifierAt
  <2>3. OpeningVerifierRaises(Shard[id].claim, Given(a).jagged)
    BY <1>6, <2>2 DEF VerifierRaises, Statement
  <2>4. verifier'.ok = verifier.ok
    BY <1>1, <2>1 DEF OnZerocheck, VerifierAt
  <2>5. OnZerocheck("raised", id, a, pv)'
    BY <1>1, <2>1, <2>4 DEF OnZerocheck, VerifierAt
  <2> QED
    BY <1>1, <1>2, <2>3, <2>5, VerifierMoved DEF Verifying
<1> QED
  BY <1>1, <1>4, <1>5, <1>6

LEMMA ReturnStep == ASSUME ChainInv, Return PROVE ChainInv'
<1>1. verifier.at # "idle" /\ UNCHANGED <<prover, proofs>> /\ verifier' = Idle
  BY DEF Return, Finished
<1> QED
  BY <1>1, WhoVerifies, VerifierMoved

LEMMA ChainStep == ASSUME ChainInv, [Next]_vars PROVE ChainInv'
<1>1. CASE UNCHANGED vars
  <2>1. prover' = prover /\ proofs' = proofs /\ verifier' = verifier
    BY <1>1 DEF vars
  <2>2. \A id : Proving(id)' = Proving(id)
    BY <2>1 DEF Proving
  <2>3. Assemblies' = Assemblies
    BY <2>1 DEF Assemblies
  <2>4. \A id, a, pv : Verifying(id, a, pv)' = Verifying(id, a, pv)
    BY <2>1 DEF Verifying, OnStart, OnGkr, OnZerocheck, OnVerdict
  <2> QED
    BY <2>1, <2>2, <2>3, <2>4 DEF ChainInv, ProverInv, ProofsInv, VerifierInv
<1>2. CASE \E id \in Id : Commit(id)
  BY <1>2, CommitStep
<1>3. CASE \E id \in Id, a \in Assemblies, pv \in BOOLEAN : Verify(id, a, pv)
  BY <1>3, VerifyStep
<1>4. CASE Bind \/ ProveGkr \/ ProveZerocheck \/ ProveOpening \/ ProverRaises
  BY <1>4, BindStep, ProveGkrStep, ProveZerocheckStep, ProveOpeningStep,
     ProverRaisesStep
<1>5. CASE VerifyGkr \/ VerifyZerocheck \/ VerifyOpening \/ VerifierRaises \/ Return
  BY <1>5, VerifyGkrStep, VerifyZerocheckStep, VerifyOpeningStep,
     VerifierRaisesStep, ReturnStep
<1> QED
  BY <1>1, <1>2, <1>3, <1>4, <1>5 DEF Next

(***************************************************************************)
(* At every point of every behaviour the prover is where its shard leads,  *)
(* the proofs are those of shards no stage refused, and the verifier is    *)
(* where the statement and the assembly lead.                              *)
(***************************************************************************)
THEOREM ChainInductive == Spec => []ChainInv
BY InitChain, ChainStep, PTL DEF Spec

-----------------------------------------------------------------------------
(* Types of what is computed from the regions.                             *)

NextNames(p, n) ==
    IF n = 0 THEN <<>>
    ELSE IF ChipNames[n] \in Prepped THEN Append(p[n - 1], ChipNames[n])
    ELSE p[n - 1]

LEMMA PrepNamesExist ==
    \E p \in [0..Len(ChipNames) -> Seq(Prepped)] :
        \A n \in 0..Len(ChipNames) : p[n] = NextNames(p, n)
<1> DEFINE Upto(m, p) == \A n \in 0..m : p[n] = NextNames(p, n)
           Solved(m) == \E p \in [0..m -> Seq(Prepped)] : Upto(m, p)
           S == {m \in Nat : m <= Len(ChipNames) => Solved(m)}
<1>0. ChipNames \in Seq(Chips) /\ Len(ChipNames) \in Nat
  BY ShardAssumption
<1>1. 0 \in S
  <2>1. [n \in 0..0 |-> <<>>] \in [0..0 -> Seq(Prepped)]
    OBVIOUS
  <2>2. Upto(0, [n \in 0..0 |-> <<>>])
    BY DEF NextNames
  <2> QED
    BY <2>1, <2>2
<1>2. ASSUME NEW m \in Nat, m \in S PROVE m + 1 \in S
  <2> SUFFICES ASSUME m + 1 <= Len(ChipNames) PROVE Solved(m + 1)
    <3> HIDE DEF Solved
    <3> QED
      OBVIOUS
  <2>0. Solved(m)
    <3> HIDE DEF Solved
    <3> QED
      BY <1>0, <1>2
  <2>1. PICK p \in [0..m -> Seq(Prepped)] : Upto(m, p)
    BY <2>0
  <2>2. PICK e : e = IF ChipNames[m + 1] \in Prepped
                     THEN Append(p[m], ChipNames[m + 1]) ELSE p[m]
    OBVIOUS
  <2>3. p[m] \in Seq(Prepped)
    OBVIOUS
  <2>4. e \in Seq(Prepped)
    BY <2>2, <2>3
  <2> DEFINE q == [n \in 0..(m + 1) |-> IF n = m + 1 THEN e ELSE p[n]]
  <2>5. q \in [0..(m + 1) -> Seq(Prepped)]
    BY <2>4
  <2>6. ASSUME NEW n \in 0..(m + 1) PROVE q[n] = NextNames(q, n)
    <3>1. CASE n = m + 1
      <4>1. q[n] = e /\ q[n - 1] = p[m]
        BY <3>1
      <4> HIDE DEF q
      <4> QED
        BY <4>1, <3>1, <2>2 DEF NextNames
    <3>2. CASE n # m + 1
      <4>1. n \in 0..m /\ (n # 0 => n - 1 \in 0..m)
        BY <3>2
      <4>2. q[n] = p[n] /\ (n # 0 => q[n - 1] = p[n - 1])
        BY <4>1
      <4> HIDE DEF q
      <4> QED
        BY <4>1, <4>2, <2>1 DEF NextNames
    <3> QED
      BY <3>1, <3>2
  <2> QED
    BY <2>5, <2>6
<1>3. \A n \in Nat : n \in S
  <2> HIDE DEF S
  <2> QED
    BY <1>1, <1>2, NatSetInduction
<1>4. Len(ChipNames) \in S
  <2> HIDE DEF S
  <2> QED
    BY <1>0, <1>3
<1> QED
  BY <1>0, <1>4

(***************************************************************************)
(* The verifier's preprocessed chips are those of its chips with           *)
(* preprocessed columns.                                                   *)
(***************************************************************************)
LEMMA PrepNamesDef ==
    /\ PrepNames \in Seq(Prepped)
    /\ Range(PrepNames) = Range(ChipNames) \cap Prepped
<1> DEFINE F(p) == [n \in 0..Len(ChipNames) |-> NextNames(p, n)]
           named == CHOOSE p : p = F(p)
           Names(n) == {ChipNames[i] : i \in 1..n} \cap Prepped
           S == {m \in Nat : m <= Len(ChipNames) =>
                    named[m] \in Seq(Prepped) /\ Range(named[m]) = Names(m)}
<1>0. ChipNames \in Seq(Chips) /\ Len(ChipNames) \in Nat
  BY ShardAssumption
<1>1. PICK p \in [0..Len(ChipNames) -> Seq(Prepped)] :
          \A n \in 0..Len(ChipNames) : p[n] = NextNames(p, n)
  BY PrepNamesExist
<1>2. p = F(p)
  BY <1>1
<1>3. PrepNames = named[Len(ChipNames)]
  BY DEF PrepNames, NextNames
<1>4. named = F(named)
  <2> HIDE DEF F
  <2> QED
    BY <1>2
<1> HIDE DEF named
<1>5. \A n \in 0..Len(ChipNames) : named[n] = NextNames(named, n)
  BY <1>4
<1>6. 0 \in S
  <2>1. named[0] = <<>>
    BY <1>0, <1>5 DEF NextNames
  <2>2. Range(<<>>) = {}
    BY DEF Range
  <2>3. Names(0) = {}
    OBVIOUS
  <2>4. <<>> \in Seq(Prepped)
    OBVIOUS
  <2> HIDE DEF Names
  <2>5. named[0] \in Seq(Prepped) /\ Range(named[0]) = Names(0)
    BY <2>1, <2>2, <2>3, <2>4, Zenon
  <2> QED
    BY <2>5
<1>7. ASSUME NEW m \in Nat, m \in S PROVE m + 1 \in S
  <2> SUFFICES ASSUME m + 1 <= Len(ChipNames)
               PROVE  named[m + 1] \in Seq(Prepped) /\ Range(named[m + 1]) = Names(m + 1)
    OBVIOUS
  <2>1. named[m] \in Seq(Prepped) /\ Range(named[m]) = Names(m)
    BY <1>0, <1>7
  <2>2. named[m + 1] = IF ChipNames[m + 1] \in Prepped
                       THEN Append(named[m], ChipNames[m + 1]) ELSE named[m]
    <3>1. m + 1 \in 0..Len(ChipNames) /\ m + 1 # 0 /\ (m + 1) - 1 = m
      BY <1>0
    <3> QED
      BY <3>1, <1>5 DEF NextNames
  <2>3. {ChipNames[i] : i \in 1..(m + 1)} = {ChipNames[i] : i \in 1..m} \cup {ChipNames[m + 1]}
    <3>1. 1..(m + 1) = 1..m \cup {m + 1}
      OBVIOUS
    <3> QED
      BY <3>1
  <2>4. CASE ChipNames[m + 1] \in Prepped
    <3>1. named[m + 1] = Append(named[m], ChipNames[m + 1])
      BY <2>2, <2>4
    <3>2. Range(named[m + 1]) = Range(named[m]) \cup {ChipNames[m + 1]}
      <4> DEFINE s == named[m]
                 e == ChipNames[m + 1]
      <4>1. s \in Seq(Prepped) /\ e \in Prepped
        BY <2>1, <2>4
      <4> HIDE DEF s, e
      <4>2. /\ Len(Append(s, e)) = Len(s) + 1 /\ Len(s) \in Nat
            /\ DOMAIN Append(s, e) = 1..(Len(s) + 1) /\ DOMAIN s = 1..Len(s)
            /\ \A i \in 1..Len(s) : Append(s, e)[i] = s[i]
            /\ Append(s, e)[Len(s) + 1] = e
        BY <4>1, Appended
      <4>3. Range(Append(s, e)) = Range(s) \cup {e}
        BY <4>2 DEF Range
      <4> QED
        BY <3>1, <4>3 DEF s, e
    <3> QED
      BY <2>1, <2>3, <2>4, <3>1, <3>2
  <2>5. CASE ChipNames[m + 1] \notin Prepped
    BY <2>1, <2>2, <2>3, <2>5
  <2> QED
    BY <2>4, <2>5
<1>8. \A m \in Nat : m \in S
  <2> HIDE DEF S
  <2> QED
    BY <1>6, <1>7, NatSetInduction
<1>9. named[Len(ChipNames)] \in Seq(Prepped)
      /\ Range(named[Len(ChipNames)]) = Names(Len(ChipNames))
  <2>1. Len(ChipNames) \in S
    <3> HIDE DEF S
    <3> QED
      BY <1>0, <1>8
  <2> QED
    BY <1>0, <2>1
<1>10. Range(ChipNames) = {ChipNames[i] : i \in 1..Len(ChipNames)}
  BY <1>0 DEF Range
<1> QED
  BY <1>3, <1>9, <1>10

Structures == Seq(Nat \X Nat)

LEMMA InteractionVarsNat ==
    ASSUME NEW chips \in Seq(Chips)
    PROVE  NumInteractionVars(chips) \in Nat /\ OutputSize(chips) \in Nat
<1> DEFINE counts == [i \in DOMAIN chips |-> Interactions[chips[i]]]
<1>1. counts \in Seq(Nat)
  <2>1. \A i \in 1..Len(chips) : Interactions[chips[i]] \in Nat
    BY ShardAssumption
  <2> QED
    BY <2>1
<1>2. Total(counts) \in Nat
  <2> HIDE DEF counts
  <2> QED
    BY <1>1, TotalNat
<1>3. CeilLog2(Total(counts)) \in Nat
  <2> HIDE DEF counts
  <2> QED
    BY <1>2, CeilLog2Def
<1>4. NumInteractionVars(chips) \in Nat
  BY <1>3 DEF NumInteractionVars
<1> HIDE DEF counts
<1> QED
  <2>1. \A v \in Nat : v + 1 \in Nat
    OBVIOUS
  <2>2. Pow2(NumInteractionVars(chips) + 1) \in Nat
    BY <1>4, <2>1, Pow2Def, Zenon
  <2> QED
    BY <1>4, <2>2 DEF OutputSize

LEMMA StructureTyped ==
    ASSUME NEW C, NEW order \in Seq(C), NEW rows, NEW width,
           \A c \in Range(order) : rows[c] \in Nat /\ width[c] \in Nat
    PROVE  Structure(order, rows, width) \in Structures
<1>1. \A i \in 1..Len(order) : order[i] \in Range(order)
  BY DEF Range
<1>2. \A i \in 1..Len(order) : <<rows[order[i]], width[order[i]]>> \in Nat \X Nat
  BY <1>1
<1>3. DOMAIN order = 1..Len(order) /\ Len(order) \in Nat
  OBVIOUS
<1> QED
  BY <1>2, <1>3 DEF Structure, Structures

LEMMA AreaNat ==
    ASSUME NEW structure \in Structures
    PROVE  /\ Area(structure) \in Nat /\ Aligned(structure) \in Nat
           /\ ColumnCount(structure) \in Nat
<1> DEFINE areas == [i \in DOMAIN structure |-> structure[i][1] * structure[i][2]]
           columns == [i \in DOMAIN structure |-> structure[i][2]]
<1>1. \A i \in 1..Len(structure) : structure[i][1] \in Nat /\ structure[i][2] \in Nat
  BY DEF Structures
<1>2. DOMAIN structure = 1..Len(structure) /\ Len(structure) \in Nat
  BY DEF Structures
<1>3. columns \in Seq(Nat)
  BY <1>1, <1>2
<1>4. areas \in Seq(Nat)
  <2>1. \A i \in 1..Len(structure) : structure[i][1] * structure[i][2] \in Nat
    BY <1>1
  <2> QED
    BY <1>2, <2>1
<1>5. Total(areas) \in Nat /\ Total(columns) \in Nat
  <2> HIDE DEF areas, columns
  <2> QED
    BY <1>3, <1>4, TotalNat
<1>6. Area(structure) \in Nat /\ ColumnCount(structure) \in Nat
  BY <1>5 DEF Area, ColumnCount
<1>7. ASSUME NEW a \in Nat, NEW w \in Nat, w >= 1 PROVE ((a + w - 1) \div w) * w \in Nat
  <2>1. (a + w - 1) \div w \in Nat
    BY <1>7, CeilHalves
  <2>2. \A x \in Nat, y \in Nat : x * y \in Nat
    OBVIOUS
  <2> QED
    BY <2>1, <2>2, Zenon
<1>8. Pow2(LogStacking) \in Nat /\ Pow2(LogStacking) >= 1
  BY StageAssumption, Pow2Def
<1> QED
  BY <1>6, <1>7, <1>8 DEF Aligned, CeilDiv

LEMMA RegionsNat ==
    ASSUME NEW regions \in Seq(Structures)
    PROVE  /\ RawArea(regions) \in Nat /\ DenseSize(regions) \in Nat
           /\ Columns(regions) \in Nat
<1> DEFINE areas == [i \in DOMAIN regions |-> Area(regions[i])]
           sizes == [i \in DOMAIN regions |-> Aligned(regions[i])]
           columns == [i \in DOMAIN regions |-> ColumnCount(regions[i])]
<1>1. DOMAIN regions = 1..Len(regions) /\ Len(regions) \in Nat
  OBVIOUS
<1>2. \A i \in 1..Len(regions) : regions[i] \in Structures
  OBVIOUS
<1>3. areas \in Seq(Nat) /\ sizes \in Seq(Nat) /\ columns \in Seq(Nat)
  BY <1>1, <1>2, AreaNat
<1>4. Total(areas) \in Nat /\ Total(sizes) \in Nat /\ Total(columns) \in Nat
  <2> HIDE DEF areas, sizes, columns
  <2> QED
    BY <1>3, TotalNat
<1> QED
  BY <1>1, <1>4 DEF RawArea, DenseSize, Columns

\* What one or two regions make, in order.
LEMMA RegionsInOrder ==
    ASSUME NEW S, NEW x \in S, NEW y \in S
    PROVE  /\ <<>> \o <<y>> = <<y>> /\ <<x>> \o <<y>> = <<x, y>>
           /\ <<y>> \in Seq(S) /\ <<x, y>> \in Seq(S)
           /\ Len(<<y>>) = 1 /\ Len(<<x, y>>) = 2
<1>1. <<y>> \in Seq(S) /\ Len(<<y>>) = 1
  OBVIOUS
<1>2. <<x, y>> \in Seq(S) /\ Len(<<x, y>>) = 2
  OBVIOUS
<1>3. <<>> \o <<y>> = <<y>>
  BY <1>1, ConcatEmptySeq
<1>4. <<x>> \o <<y>> = Append(<<x>>, y)
  <2>1. <<x>> \in Seq(S)
    OBVIOUS
  <2> QED
    BY <2>1, AppendIsConcat
<1> QED
  BY <1>1, <1>2, <1>3, <1>4, AppendedToOne

LEMMA WidthsTyped ==
    /\ \A c \in Chips : MainWidth[c] = Width[c].main /\ PrepWidth[c] = Width[c].prep
    /\ \A c \in Chips : MainWidth[c] \in Nat
    /\ Prepped \subseteq Chips
    /\ \A c \in Prepped : PrepWidth[c] \in Nat
    /\ \A c \in Chips : Width[c] = [main |-> MainWidth[c], prep |-> PrepWidth[c]]
<1>1. ASSUME NEW c \in Chips
      PROVE  Width[c].main \in Nat /\ Width[c].prep \in Nat \cup {None}
             /\ Width[c] = [main |-> Width[c].main, prep |-> Width[c].prep]
  BY ShardAssumption
<1>2. \A c \in Chips : MainWidth[c] = Width[c].main /\ PrepWidth[c] = Width[c].prep
  BY DEF MainWidth, PrepWidth, Chips
<1> QED
  BY <1>1, <1>2 DEF Prepped

LEMMA RegionWalkTyped ==
    ASSUME NEW id \in Id
    PROVE  /\ MainStructure(Shard[id]) \in Structures
           /\ PrepStructure(Shard[id]) \in Structures
           /\ RegionWalk(Shard[id]) \in Seq(Structures)
<1> DEFINE s == Shard[id]
<1>1. /\ s.main.order \in Seq(Chips) /\ s.main.rows \in [Range(s.main.order) -> Nat]
      /\ s.prep.order \in Seq(Prepped) /\ s.prep.rows \in [Range(s.prep.order) -> Nat]
  BY ShardAssumption
<1>2. Range(s.main.order) \subseteq Chips /\ Range(s.prep.order) \subseteq Prepped
  BY <1>1 DEF Range
<1> HIDE DEF s
<1>3. \A c \in Range(s.main.order) : s.main.rows[c] \in Nat /\ MainWidth[c] \in Nat
  BY <1>1, <1>2, WidthsTyped
<1>4. \A c \in Range(s.prep.order) : s.prep.rows[c] \in Nat /\ PrepWidth[c] \in Nat
  BY <1>1, <1>2, WidthsTyped
<1>5. MainStructure(s) \in Structures
  BY <1>1, <1>3, StructureTyped DEF MainStructure
<1>6. PrepStructure(s) \in Structures
  BY <1>1, <1>4, StructureTyped DEF PrepStructure
<1>7. RegionWalk(s) \in Seq(Structures)
  BY <1>5, <1>6, RegionsInOrder DEF RegionWalk
<1> QED
  BY <1>5, <1>6, <1>7 DEF s

LEMMA ManifestTyped ==
    ASSUME NEW id \in Id
    PROVE  Manifest(Shard[id].claim) \in Seq(Structures)
<1> DEFINE rows == Shard[id].claim.rows
           main == Structure(ChipNames, rows, MainWidth)
           prep == Structure(PrepNames, rows, PrepWidth)
<1>1. /\ ChipNames \in Seq(Chips) /\ Range(ChipNames) \subseteq Range(Shard[id].claim.order)
      /\ rows \in [Range(Shard[id].claim.order) -> Nat]
  BY ShardAssumption
<1>2. Range(ChipNames) \subseteq Chips
  BY <1>1 DEF Range
<1> HIDE DEF rows
<1>3. \A c \in Range(ChipNames) : rows[c] \in Nat /\ MainWidth[c] \in Nat
  BY <1>1, <1>2, WidthsTyped
<1>4. \A c \in Range(PrepNames) : rows[c] \in Nat /\ PrepWidth[c] \in Nat
  BY <1>3, PrepNamesDef, WidthsTyped
<1>5. main \in Structures
  BY <1>1, <1>3, StructureTyped
<1>6. prep \in Structures
  BY <1>4, PrepNamesDef, StructureTyped
<1>7. Manifest(Shard[id].claim) = (IF PrepNames # <<>> THEN <<prep>> ELSE <<>>) \o <<main>>
  BY DEF Manifest, rows
<1> HIDE DEF main, prep
<1> QED
  BY <1>5, <1>6, <1>7, RegionsInOrder

(***************************************************************************)
(* A shard whose regions hold the statement's chips at the statement's     *)
(* rows has the regions of the statement's manifest.                       *)
(***************************************************************************)
LEMMA WalkIsManifest ==
    ASSUME NEW s, Ordered(s), \A c \in Range(s.prep.order) : s.prep.rows[c] = s.main.rows[c],
           NEW claim, claim.rows = s.main.rows
    PROVE  RegionWalk(s) = Manifest(claim)
<1>1. PrepStructure(s) = Structure(PrepNames, claim.rows, PrepWidth)
  <2>1. \A i \in DOMAIN PrepNames : s.prep.rows[PrepNames[i]] = claim.rows[PrepNames[i]]
    BY DEF Ordered, Range
  <2> QED
    BY <2>1 DEF PrepStructure, Structure, Ordered
<1>2. MainStructure(s) = Structure(ChipNames, claim.rows, MainWidth)
  BY DEF MainStructure, Ordered
<1> QED
  BY <1>1, <1>2 DEF RegionWalk, Manifest, HasPrep, Ordered

(***************************************************************************)
(* The control state: where each role can be, and what is proved.          *)
(***************************************************************************)
LEMMA VerifierStands ==
    ASSUME ChainInv, verifier.at # "idle"
    PROVE  \E id \in Id, a \in Assemblies, pv \in BOOLEAN :
              /\ Verifying(id, a, pv)
              /\ verifier.shard = id /\ verifier.assembly = a /\ verifier.checkPv = pv
              /\ verifier.proof = Given(a)
              /\ verifier.at \in {"bound", "gkr", "zerocheck"} \cup Finished
              /\ verifier.ok \in BOOLEAN
              /\ Len(verifier.trail) \in 1..4
<1>1. PICK id \in Id, a \in Assemblies, pv \in BOOLEAN : Verifying(id, a, pv)
  BY WhoVerifies
<1>2. ASSUME NEW at, OnStart(at, id, a, pv)
      PROVE  /\ verifier.shard = id /\ verifier.assembly = a /\ verifier.checkPv = pv
             /\ verifier.proof = Given(a) /\ verifier.at = at
             /\ verifier.ok \in BOOLEAN /\ Len(verifier.trail) \in 1..4
  BY <1>2 DEF OnStart, VerifierAt
<1>3. ASSUME NEW at, OnGkr(at, id, a, pv)
      PROVE  /\ verifier.shard = id /\ verifier.assembly = a /\ verifier.checkPv = pv
             /\ verifier.proof = Given(a) /\ verifier.at = at
             /\ verifier.ok \in BOOLEAN /\ Len(verifier.trail) \in 1..4
  BY <1>3 DEF OnGkr, VerifierAt
<1>4. ASSUME NEW at, OnZerocheck(at, id, a, pv)
      PROVE  /\ verifier.shard = id /\ verifier.assembly = a /\ verifier.checkPv = pv
             /\ verifier.proof = Given(a) /\ verifier.at = at
             /\ verifier.ok \in BOOLEAN /\ Len(verifier.trail) \in 1..4
  BY <1>4 DEF OnZerocheck, VerifierAt
<1>5. ASSUME NEW at, OnVerdict(at, id, a, pv)
      PROVE  /\ verifier.shard = id /\ verifier.assembly = a /\ verifier.checkPv = pv
             /\ verifier.proof = Given(a) /\ verifier.at = at
             /\ verifier.ok \in BOOLEAN /\ Len(verifier.trail) \in 1..4
  BY <1>5 DEF OnVerdict, VerifierAt
<1>6. /\ verifier.shard = id /\ verifier.assembly = a /\ verifier.checkPv = pv
      /\ verifier.proof = Given(a) /\ verifier.ok \in BOOLEAN /\ Len(verifier.trail) \in 1..4
      /\ verifier.at \in {"bound", "gkr", "zerocheck", "accepted", "rejected", "raised"}
  BY <1>1, <1>2, <1>3, <1>4, <1>5 DEF Verifying
<1> QED
  BY <1>1, <1>6 DEF Finished

LEMMA ChainTypes == ASSUME ChainInv PROVE TypeOK
<1>1. prover.at \in {"idle", "committed", "bound", "gkr", "zerocheck", "raised"}
  BY DEF ChainInv, ProverInv, Idle, Proving, ProverAt
<1>2. DOMAIN proofs \subseteq Id
  BY DEF ChainInv, ProofsInv
<1>3. \A id \in DOMAIN proofs :
         DOMAIN proofs[id].proof = Parts /\ Len(proofs[id].trail) = 4
  BY DEF ChainInv, ProofsInv, ProofOf, TrailOf, Parts
<1>4. CASE verifier.at = "idle"
  BY <1>1, <1>2, <1>3, <1>4 DEF TypeOK
<1>5. CASE verifier.at # "idle"
  BY <1>1, <1>2, <1>3, <1>5, VerifierStands DEF TypeOK
<1> QED
  BY <1>4, <1>5

(***************************************************************************)
(* Each role is at one of its stages, and a finished proof has its four    *)
(* parts and what each stage left.                                         *)
(***************************************************************************)
THEOREM ChainTypeCorrect == Spec => []TypeOK
<1>1. ChainInv => TypeOK
  BY ChainTypes
<1> QED
  BY <1>1, ChainInductive, PTL

-----------------------------------------------------------------------------
(* The two roles in lockstep over a shard's own proof.                     *)

LEMMA OwnAssembly ==
    ASSUME ChainInv, NEW a \in Assemblies, NEW id, a.stale = "none", Range(a.from) = {id}
    PROVE  /\ Given(a) = ProofOf(id) /\ id \in Id /\ Provable(id)
           /\ id \in DOMAIN proofs /\ proofs[id].trail = TrailOf(id)
<1>1. a.from \in [Parts -> DOMAIN proofs]
  BY DEF Assemblies
<1>2. \A part \in Parts : a.from[part] = id
  BY <1>1 DEF Range
<1>3. Given(a) = [part \in Parts |-> ProofOf(id)[part]]
  BY <1>2 DEF Given, MakeStale
<1>4. Given(a) = ProofOf(id)
  BY <1>3 DEF ProofOf, Parts
<1>5. id \in DOMAIN proofs
  BY <1>1, <1>2 DEF Parts
<1> QED
  BY <1>4, <1>5 DEF ChainInv, ProofsInv

LEMMA SameStart ==
    ASSUME NEW id, NEW a, Given(a) = ProofOf(id)
    PROVE  Started(id, a) = AfterBind(id) /\ StartSeam(id, a) = BindSeam(id)
BY DEF Started, AfterBind, ProofOf, StartSeam, BindSeam

LEMMA SameGkr ==
    ASSUME NEW id, NEW a, NEW pv, Given(a) = ProofOf(id),
           Shard[id].main.order = ChipNames
    PROVE  /\ GkrDual(id, a, pv).t = GkrOf(id).t
           /\ GkrDual(id, a, pv).claim = GkrOf(id).claim
           /\ GkrDualSeam(id, a, pv) = GkrSeam(id)
<1>1. Given(a).gkr = GkrProve(id, AfterBind(id)).proof
  BY DEF ProofOf, GkrOf
<1>2. Started(id, a) = AfterBind(id)
  BY SameStart
<1>3. GkrDual(id, a, pv).t = GkrOf(id).t /\ GkrDual(id, a, pv).claim = GkrOf(id).claim
  BY <1>1, <1>2 DEF GkrDual, GkrOf, GkrProve, GkrVerify
<1> QED
  BY <1>3 DEF GkrDualSeam, GkrSeam

LEMMA SameZerocheck ==
    ASSUME NEW id, NEW a, NEW pv, Given(a) = ProofOf(id),
           Shard[id].main.order = ChipNames
    PROVE  /\ ZerocheckDual(id, a, pv).t = ZerocheckOf(id).t
           /\ ZerocheckDual(id, a, pv).claim = ZerocheckOf(id).claim
           /\ ZerocheckDualSeam(id, a, pv) = ZerocheckSeam(id)
<1>1. Given(a).zerocheck = ZerocheckProve(id, GkrOf(id).t, GkrOf(id).claim).proof
  BY DEF ProofOf, ZerocheckOf
<1>2. GkrDual(id, a, pv).t = GkrOf(id).t /\ GkrDual(id, a, pv).claim = GkrOf(id).claim
  BY SameGkr
<1>3. /\ ZerocheckDual(id, a, pv).t = ZerocheckOf(id).t
      /\ ZerocheckDual(id, a, pv).claim = ZerocheckOf(id).claim
  BY <1>1, <1>2 DEF ZerocheckDual, ZerocheckOf, ZerocheckProve, ZerocheckVerify
<1> QED
  BY <1>3 DEF ZerocheckDualSeam, ZerocheckSeam

LEMMA SameRounds ==
    ASSUME NEW id, Supported(Shard[id]), Provable(id)
    PROVE  /\ RegionWalk(Shard[id]) = Manifest(Shard[id].claim)
           /\ OuterRounds(Shard[id].claim) = DenseVars(Shard[id])
<1>1. Shard[id].claim.rows = Shard[id].main.rows
  BY DEF Provable, GkrProvable, GkrProverRaises
<1>2. RegionWalk(Shard[id]) = Manifest(Shard[id].claim)
  BY <1>1, WalkIsManifest DEF Supported
<1> QED
  BY <1>2 DEF OuterRounds, DenseVars, Supported

LEMMA SameOpening ==
    ASSUME NEW id, NEW a, NEW pv, Given(a) = ProofOf(id),
           Supported(Shard[id]), Provable(id)
    PROVE  /\ OpeningDual(id, a, pv).t = OpeningOf(id).t
           /\ OpeningDual(id, a, pv).claim = OpeningOf(id).claim
           /\ OpeningDualSeam(id, a, pv) = OpeningSeam(id)
<1>1. Given(a).jagged = OpeningProve(id, ZerocheckOf(id).t, ZerocheckOf(id).claim).proof
  BY DEF ProofOf, OpeningOf
<1>2. Shard[id].main.order = ChipNames
  BY DEF Supported, Ordered
<1>3. /\ ZerocheckDual(id, a, pv).t = ZerocheckOf(id).t
      /\ ZerocheckDual(id, a, pv).claim = ZerocheckOf(id).claim
  BY <1>2, SameZerocheck
<1>4. /\ OpeningDual(id, a, pv).t = OpeningOf(id).t
      /\ OpeningDual(id, a, pv).claim = OpeningOf(id).claim
  BY <1>1, <1>3, SameRounds DEF OpeningDual, OpeningOf, OpeningProve, OpeningVerify
<1> QED
  BY <1>4 DEF OpeningDualSeam, OpeningSeam

LEMMA OwnSeams == ASSUME ChainInv PROVE SameSeams
<1> SUFFICES ASSUME Own, Ordered(Shard[verifier.shard]), NEW i \in DOMAIN verifier.trail,
                    i < 4 \/ Supported(Shard[verifier.shard])
             PROVE  verifier.trail[i] = proofs[verifier.shard].trail[i]
  BY DEF SameSeams
<1>1. PICK id \in Id, a \in Assemblies, pv \in BOOLEAN :
          Verifying(id, a, pv) /\ verifier.shard = id /\ verifier.assembly = a
  BY VerifierStands DEF Own
<1>2. /\ Given(a) = ProofOf(id) /\ Provable(id)
      /\ proofs[id].trail = TrailOf(id)
  BY <1>1, OwnAssembly DEF Own
<1>3. Shard[id].main.order = ChipNames
  BY <1>1 DEF Ordered
<1>4. /\ StartSeam(id, a) = BindSeam(id)
      /\ GkrDualSeam(id, a, pv) = GkrSeam(id)
      /\ ZerocheckDualSeam(id, a, pv) = ZerocheckSeam(id)
  BY <1>2, <1>3, SameStart, SameGkr, SameZerocheck
<1>5. Supported(Shard[id]) => OpeningDualSeam(id, a, pv) = OpeningSeam(id)
  BY <1>2, SameOpening
<1>6. \/ verifier.trail = <<StartSeam(id, a)>>
      \/ verifier.trail = <<StartSeam(id, a), GkrDualSeam(id, a, pv)>>
      \/ verifier.trail = <<StartSeam(id, a), GkrDualSeam(id, a, pv),
                            ZerocheckDualSeam(id, a, pv)>>
      \/ verifier.trail = <<StartSeam(id, a), GkrDualSeam(id, a, pv),
                            ZerocheckDualSeam(id, a, pv), OpeningDualSeam(id, a, pv)>>
  BY <1>1 DEF Verifying, OnStart, OnGkr, OnZerocheck, OnVerdict, VerifierAt
<1>7. /\ i \in 1..4
      /\ verifier.trail[i] = <<StartSeam(id, a), GkrDualSeam(id, a, pv),
                               ZerocheckDualSeam(id, a, pv), OpeningDualSeam(id, a, pv)>>[i]
  BY <1>6
<1>8. verifier.trail[i] = TrailOf(id)[i]
  BY <1>1, <1>4, <1>5, <1>7 DEF TrailOf
<1> QED
  BY <1>1, <1>2, <1>8

(***************************************************************************)
(* Over a shard's own proof, the prover's and the verifier's seams agree:  *)
(* the same transcript and the same reduced claim after every stage.       *)
(***************************************************************************)
THEOREM ChainSameSeams == Spec => []SameSeams
<1>1. ChainInv => SameSeams
  BY OwnSeams
<1> QED
  BY <1>1, ChainInductive, PTL

-----------------------------------------------------------------------------
(* The shape of what supported shards are proved with.                     *)

LEMMA GkrShape ==
    ASSUME NEW g, Ordered(Shard[g]), NEW section,
           section.layers.count = RowVars,
           section.output.size = OutputSize(Shard[g].main.order),
           section.openings.widths = OpenedWidths(Shard[g])
    PROVE  ~GkrVerifierRaises(section)
<1>1. DOMAIN OpenedWidths(Shard[g]) = Range(ChipNames)
  BY DEF OpenedWidths, Ordered
<1> QED
  BY <1>1 DEF GkrVerifierRaises, CoversExactly, Ordered

LEMMA ZerocheckShape ==
    ASSUME NEW z, Ordered(Shard[z]), NEW section,
           section.msgs.count = MaxLog,
           section.opened.widths = OpenedWidths(Shard[z])
    PROVE  ~ZerocheckVerifierRaises(section)
<1>1. Range(Shard[z].main.order) = Range(ChipNames)
      /\ Range(Shard[z].prep.order) = Range(PrepNames)
  BY DEF Ordered
<1>2. DOMAIN OpenedWidths(Shard[z]) = Range(ChipNames)
  BY <1>1 DEF OpenedWidths
<1>3. ChipNames \in Seq(Chips) /\ Range(ChipNames) \subseteq Chips
  BY ShardAssumption DEF Range
<1>4. ASSUME NEW c \in Range(ChipNames) PROVE OpenedWidths(Shard[z])[c] = Width[c]
  <2>1. Width[c] = [main |-> MainWidth[c], prep |-> PrepWidth[c]]
    BY <1>3, WidthsTyped
  <2>2. c \in Range(PrepNames) <=> PrepWidth[c] # None
    BY <1>3, PrepNamesDef DEF Prepped
  <2>3. OpenedWidths(Shard[z])[c]
          = [main |-> MainWidth[c],
             prep |-> IF c \in Range(PrepNames) THEN PrepWidth[c] ELSE None]
    BY <1>1 DEF OpenedWidths
  <2> QED
    BY <2>1, <2>2, <2>3
<1>5. OpenedAsStated(section.opened)
  BY <1>2, <1>4 DEF OpenedAsStated
<1>6. PointVars >= MaxLog
  <2>1. NumInteractionVars(ChipNames) \in Nat
    BY <1>3, InteractionVarsNat
  <2> QED
    BY <2>1, StageAssumption DEF PointVars
<1>7. ~(PointVars < MaxLog)
  <2>1. PointVars \in Int
    BY <1>3, InteractionVarsNat, StageAssumption DEF PointVars
  <2> QED
    BY <1>6, <2>1, StageAssumption
<1> QED
  BY <1>2, <1>5, <1>7 DEF ZerocheckVerifierRaises, CoversExactly

\* Two in order, prep before main, or main alone.
LEMMA TwoInOrder ==
    ASSUME NEW x, NEW y
    PROVE  /\ <<>> \o <<y>> = <<y>> /\ <<x>> \o <<y>> = <<x, y>>
           /\ Len(<<y>>) = 1 /\ Len(<<x, y>>) = 2
<1> DEFINE S == {x, y}
<1>1. x \in S /\ y \in S
  OBVIOUS
<1> HIDE DEF S
<1> QED
  BY <1>1, RegionsInOrder

LEMMA WalkInOrder ==
    ASSUME NEW s
    PROVE  /\ HasPrep(s) => /\ RegionContents(s) = <<s.claim.vk.id, s.trace>>
                            /\ RegionWalk(s) = <<PrepStructure(s), MainStructure(s)>>
           /\ ~HasPrep(s) => /\ RegionContents(s) = <<s.trace>>
                             /\ RegionWalk(s) = <<MainStructure(s)>>
           /\ Len(RegionContents(s)) = Len(RegionWalk(s))
<1>1. CASE HasPrep(s)
  <2>1. /\ RegionContents(s) = <<s.claim.vk.id>> \o <<s.trace>>
        /\ RegionWalk(s) = <<PrepStructure(s)>> \o <<MainStructure(s)>>
    BY <1>1 DEF RegionContents, RegionWalk
  <2>2. /\ RegionContents(s) = <<s.claim.vk.id, s.trace>>
        /\ RegionWalk(s) = <<PrepStructure(s), MainStructure(s)>>
    BY <2>1, TwoInOrder
  <2> QED
    BY <1>1, <2>2, TwoInOrder
<1>2. CASE ~HasPrep(s)
  <2>1. /\ RegionContents(s) = <<>> \o <<s.trace>>
        /\ RegionWalk(s) = <<>> \o <<MainStructure(s)>>
    BY <1>2 DEF RegionContents, RegionWalk
  <2>2. /\ RegionContents(s) = <<s.trace>>
        /\ RegionWalk(s) = <<MainStructure(s)>>
    BY <2>1, TwoInOrder
  <2> QED
    BY <1>2, <2>2, TwoInOrder
<1> QED
  BY <1>1, <1>2

LEMMA OpeningShape ==
    ASSUME NEW j, Supported(Shard[j]), Provable(j),
           NEW statement, statement.rows = Shard[j].claim.rows, NEW section,
           section.eval.rounds = DenseVars(Shard[j]),
           section.open.components = RegionContents(Shard[j])
    PROVE  ~OpeningVerifierRaises(statement, section)
<1>1. Manifest(statement) = Manifest(Shard[j].claim)
  BY DEF Manifest
<1>2. RegionWalk(Shard[j]) = Manifest(statement)
  BY <1>1, SameRounds
<1>3. OuterRounds(statement) = DenseVars(Shard[j])
  BY <1>1, SameRounds DEF OuterRounds
<1>4. Len(RegionContents(Shard[j])) = Len(RegionWalk(Shard[j]))
  BY WalkInOrder
<1> QED
  BY <1>2, <1>3, <1>4 DEF OpeningVerifierRaises

(***************************************************************************)
(* What a proof put together from proves keeps of each of them, whatever   *)
(* value of it is stale; and which value a stale field has.                *)
(***************************************************************************)
StaleValues(a) ==
    /\ a.stale = "gkr_point" => Given(a).gkr.point = Empty
    /\ a.stale = "layers" => Given(a).gkr.layers.of = Tampered
    /\ a.stale = "output" => Given(a).gkr.output.of = Tampered
    /\ a.stale = "chip_openings" => Given(a).gkr.openings.of = Tampered
    /\ a.stale = "stage_challenges" => Given(a).zerocheck.challenges = Empty
    /\ a.stale = "claimed_sum" => Given(a).zerocheck.sum = <<Tampered, Empty>>
    /\ a.stale = "zerocheck_point" => Given(a).zerocheck.point = Empty
    /\ a.stale = "opened_values" => Given(a).zerocheck.opened.of = Tampered
    /\ a.stale = "dense_eval" => Given(a).jagged.eval.of = Tampered

Fields == {"none", "gkr_point", "layers", "output", "chip_openings",
           "stage_challenges", "claimed_sum", "zerocheck_point",
           "opened_values", "dense_eval"}

LEMMA GivenShape ==
    ASSUME NEW a \in Assemblies
    PROVE  LET g == a.from["gkr"]
               z == a.from["zerocheck"]
               j == a.from["jagged"]
               given == Given(a)
           IN  /\ given.gkr.layers.count = RowVars
               /\ given.gkr.output.size = OutputSize(Shard[g].main.order)
               /\ given.gkr.openings.widths = OpenedWidths(Shard[g])
               /\ given.zerocheck.msgs.count = MaxLog
               /\ given.zerocheck.opened.widths = OpenedWidths(Shard[z])
               /\ given.jagged.eval.rounds = DenseVars(Shard[j])
               /\ given.jagged.open.components = RegionContents(Shard[j])
               /\ StaleValues(a)
<1>1. PICK g, z, j : g = a.from["gkr"] /\ z = a.from["zerocheck"] /\ j = a.from["jagged"]
  OBVIOUS
<1>2. PICK size, widths, opened, rounds, components :
          /\ size = OutputSize(Shard[g].main.order)
          /\ widths = OpenedWidths(Shard[g]) /\ opened = OpenedWidths(Shard[z])
          /\ rounds = DenseVars(Shard[j]) /\ components = RegionContents(Shard[j])
  OBVIOUS
<1>3. PICK com : com = Commitment(Shard[a.from["commitment"]])
  OBVIOUS
<1>4. PICK pow, head, bound, point :
          GkrOf(g).proof
            = [pow |-> pow, output |-> [of |-> g, at |-> head, size |-> size],
               layers |-> [of |-> g, at |-> bound, count |-> RowVars], point |-> point,
               openings |-> [of |-> g, at |-> point, widths |-> widths]]
  BY <1>2 DEF GkrOf, GkrProve
<1>5. PICK drawn, zeta, sum, reached :
          ZerocheckOf(z).proof
            = [challenges |-> drawn, zeta |-> zeta, sum |-> sum,
               msgs |-> [of |-> z, at |-> drawn, count |-> MaxLog], point |-> reached,
               opened |-> [of |-> z, at |-> reached, widths |-> opened]]
  <2>1. PICK drawn : drawn = SampleStageChallenges(GkrOf(z).t)
    OBVIOUS
  <2>2. PICK reached : reached = ZerocheckRounds(drawn, z, MaxLog)
    OBVIOUS
  <2>3. PICK zeta : zeta = <<GkrOf(z).claim.point, MaxLog>>
    OBVIOUS
  <2>4. PICK sum : sum = <<GkrOf(z).claim.openings.of, drawn>>
    OBVIOUS
  <2>5. ZerocheckOf(z).proof
            = [challenges |-> drawn, zeta |-> zeta, sum |-> sum,
               msgs |-> [of |-> z, at |-> drawn, count |-> MaxLog], point |-> reached,
               opened |-> [of |-> z, at |-> reached, widths |-> opened]]
    BY <1>2, <2>1, <2>2, <2>3, <2>4 DEF ZerocheckOf, ZerocheckProve
  <2> QED
    BY <2>5
<1>6. PICK columns, walked, claims, structures :
          OpeningOf(j).proof
            = [eval |-> [of |-> j, at |-> columns, rounds |-> rounds, claims |-> claims,
                         structures |-> structures],
               open |-> [of |-> j, at |-> walked, components |-> components]]
  <2>1. PICK columns : columns = SampleColumns(ZerocheckOf(j).t, Columns(RegionWalk(Shard[j])))
    OBVIOUS
  <2>2. PICK walked : walked = EvalRounds(columns, j, rounds)
    OBVIOUS
  <2>3. PICK claims, structures :
            claims = ZerocheckOf(j).claim.opened.of /\ structures = RegionWalk(Shard[j])
    OBVIOUS
  <2>4. OpeningOf(j).proof
            = [eval |-> [of |-> j, at |-> columns, rounds |-> rounds, claims |-> claims,
                         structures |-> structures],
               open |-> [of |-> j, at |-> walked, components |-> components]]
    BY <1>2, <2>1, <2>2, <2>3 DEF OpeningOf, OpeningProve
  <2> QED
    BY <2>4
<1>7. PICK p :
          p = [commitment |-> com,
               gkr |-> [pow |-> pow, output |-> [of |-> g, at |-> head, size |-> size],
                        layers |-> [of |-> g, at |-> bound, count |-> RowVars],
                        point |-> point,
                        openings |-> [of |-> g, at |-> point, widths |-> widths]],
               zerocheck |-> [challenges |-> drawn, zeta |-> zeta, sum |-> sum,
                              msgs |-> [of |-> z, at |-> drawn, count |-> MaxLog],
                              point |-> reached,
                              opened |-> [of |-> z, at |-> reached, widths |-> opened]],
               jagged |-> [eval |-> [of |-> j, at |-> columns, rounds |-> rounds,
                                     claims |-> claims, structures |-> structures],
                           open |-> [of |-> j, at |-> walked, components |-> components]]]
  OBVIOUS
<1>8. [part \in Parts |-> ProofOf(a.from[part])[part]] = p
  <2>1. /\ ProofOf(a.from["commitment"])["commitment"] = com
        /\ ProofOf(g)["gkr"] = p.gkr
        /\ ProofOf(z)["zerocheck"] = p.zerocheck
        /\ ProofOf(j)["jagged"] = p.jagged
    BY <1>3, <1>4, <1>5, <1>6, <1>7 DEF ProofOf
  <2>2. p = [part \in Parts |-> p[part]] /\ p["commitment"] = com
    BY <1>7 DEF Parts
  <2>3. \A part \in Parts : p[part] = ProofOf(a.from[part])[part]
    BY <1>1, <2>1, <2>2 DEF Parts
  <2> QED
    BY <2>2, <2>3
<1>9. Given(a) = MakeStale(p, a.stale)
  BY <1>8 DEF Given
<1>10. a.stale \in Fields
  <2>1. a.stale \in Stale \cup {"none"}
    BY DEF Assemblies
  <2> QED
    BY <2>1, StaleAssumption DEF Fields
<1>11. PICK given : given = Given(a)
  OBVIOUS
<1> DEFINE Kept ==
        /\ given.gkr.layers.count = RowVars
        /\ given.gkr.output.size = size
        /\ given.gkr.openings.widths = widths
        /\ given.zerocheck.msgs.count = MaxLog
        /\ given.zerocheck.opened.widths = opened
        /\ given.jagged.eval.rounds = rounds
        /\ given.jagged.open.components = components
<1>12. Kept /\ StaleValues(a)
  <2>1. CASE a.stale = "none"
    <3>1. given = p
      BY <1>9, <1>11, <2>1 DEF MakeStale
    <3> QED
      BY <1>7, <1>11, <2>1, <3>1 DEF StaleValues
  <2>2. CASE a.stale = "gkr_point"
    <3>1. given = [p EXCEPT !.gkr.point = Empty]
      BY <1>9, <1>11, <2>2 DEF MakeStale
    <3> QED
      BY <1>7, <1>11, <2>2, <3>1 DEF StaleValues
  <2>3. CASE a.stale = "layers"
    <3>1. given = [p EXCEPT !.gkr.layers.of = Tampered]
      BY <1>9, <1>11, <2>3 DEF MakeStale
    <3> QED
      BY <1>7, <1>11, <2>3, <3>1 DEF StaleValues
  <2>4. CASE a.stale = "output"
    <3>1. given = [p EXCEPT !.gkr.output.of = Tampered]
      BY <1>9, <1>11, <2>4 DEF MakeStale
    <3> QED
      BY <1>7, <1>11, <2>4, <3>1 DEF StaleValues
  <2>5. CASE a.stale = "chip_openings"
    <3>1. given = [p EXCEPT !.gkr.openings.of = Tampered]
      BY <1>9, <1>11, <2>5 DEF MakeStale
    <3> QED
      BY <1>7, <1>11, <2>5, <3>1 DEF StaleValues
  <2>6. CASE a.stale = "stage_challenges"
    <3>1. given = [p EXCEPT !.zerocheck.challenges = Empty]
      BY <1>9, <1>11, <2>6 DEF MakeStale
    <3> QED
      BY <1>7, <1>11, <2>6, <3>1 DEF StaleValues
  <2>7. CASE a.stale = "claimed_sum"
    <3>1. given = [p EXCEPT !.zerocheck.sum = <<Tampered, Empty>>]
      BY <1>9, <1>11, <2>7 DEF MakeStale
    <3> QED
      BY <1>7, <1>11, <2>7, <3>1 DEF StaleValues
  <2>8. CASE a.stale = "zerocheck_point"
    <3>1. given = [p EXCEPT !.zerocheck.point = Empty]
      BY <1>9, <1>11, <2>8 DEF MakeStale
    <3> QED
      BY <1>7, <1>11, <2>8, <3>1 DEF StaleValues
  <2>9. CASE a.stale = "opened_values"
    <3>1. given = [p EXCEPT !.zerocheck.opened.of = Tampered]
      BY <1>9, <1>11, <2>9 DEF MakeStale
    <3> QED
      BY <1>7, <1>11, <2>9, <3>1 DEF StaleValues
  <2>10. CASE a.stale = "dense_eval"
    <3>1. given = [p EXCEPT !.jagged.eval.of = Tampered]
      BY <1>9, <1>11, <2>10 DEF MakeStale
    <3> QED
      BY <1>7, <1>11, <2>10, <3>1 DEF StaleValues
  <2> HIDE DEF Kept
  <2> QED
    BY <1>10, <2>1, <2>2, <2>3, <2>4, <2>5, <2>6, <2>7, <2>8, <2>9, <2>10 DEF Fields
<1> QED
  BY <1>1, <1>2, <1>11, <1>12

(***************************************************************************)
(* No dual raises on a proof put together from proves of supported shards  *)
(* whose statements have the rows of the one verified.                     *)
(***************************************************************************)
LEMMA ShapesFit ==
    ASSUME ChainInv, NEW id \in Id, NEW a \in Assemblies,
           \A other \in Range(a.from) : Supported(Shard[other])
                                          /\ Shard[other].claim.rows = Shard[id].claim.rows
    PROVE  /\ ~GkrVerifierRaises(Given(a).gkr)
           /\ ~ZerocheckVerifierRaises(Given(a).zerocheck)
           /\ ~OpeningVerifierRaises(Shard[id].claim, Given(a).jagged)
<1>1. PICK g, z, j : g = a.from["gkr"] /\ z = a.from["zerocheck"] /\ j = a.from["jagged"]
  OBVIOUS
<1>2. a.from \in [Parts -> DOMAIN proofs]
  BY DEF Assemblies
<1>3. {g, z, j} \subseteq Range(a.from) /\ j \in DOMAIN proofs
  BY <1>1, <1>2 DEF Range, Parts
<1>4. /\ Ordered(Shard[g]) /\ Ordered(Shard[z]) /\ Supported(Shard[j])
      /\ Shard[j].claim.rows = Shard[id].claim.rows
  BY <1>3 DEF Supported
<1>5. Provable(j)
  BY <1>3 DEF ChainInv, ProofsInv
<1>6. /\ Given(a).gkr.layers.count = RowVars
      /\ Given(a).gkr.output.size = OutputSize(Shard[g].main.order)
      /\ Given(a).gkr.openings.widths = OpenedWidths(Shard[g])
      /\ Given(a).zerocheck.msgs.count = MaxLog
      /\ Given(a).zerocheck.opened.widths = OpenedWidths(Shard[z])
      /\ Given(a).jagged.eval.rounds = DenseVars(Shard[j])
      /\ Given(a).jagged.open.components = RegionContents(Shard[j])
  BY <1>1, GivenShape
<1>7. ~GkrVerifierRaises(Given(a).gkr)
  BY <1>4, <1>6, GkrShape
<1>8. ~ZerocheckVerifierRaises(Given(a).zerocheck)
  BY <1>4, <1>6, ZerocheckShape
<1>9. ~OpeningVerifierRaises(Shard[id].claim, Given(a).jagged)
  BY <1>4, <1>5, <1>6, OpeningShape
<1> QED
  BY <1>7, <1>8, <1>9

LEMMA WhenRaised ==
    ASSUME NEW id, NEW a, NEW pv, Verifying(id, a, pv), verifier.at = "raised"
    PROVE  \/ GkrVerifierRaises(Given(a).gkr)
           \/ ZerocheckVerifierRaises(Given(a).zerocheck)
           \/ OpeningVerifierRaises(Shard[id].claim, Given(a).jagged)
BY DEF Verifying, OnStart, OnGkr, OnZerocheck, OnVerdict, VerifierAt

LEMMA ShapeRaises == ASSUME ChainInv PROVE RaisesOnShapeOnly
<1> SUFFICES ASSUME verifier.at = "raised",
                    \A other \in {verifier.shard} \cup Range(verifier.assembly.from) :
                        Supported(Shard[other]) /\ Shard[other].claim.rows = Statement.rows
             PROVE  FALSE
  BY DEF RaisesOnShapeOnly
<1>1. PICK id \in Id, a \in Assemblies, pv \in BOOLEAN :
          Verifying(id, a, pv) /\ verifier.shard = id /\ verifier.assembly = a
  BY VerifierStands
<1>2. \A other \in Range(a.from) : Supported(Shard[other])
                                     /\ Shard[other].claim.rows = Shard[id].claim.rows
  BY <1>1 DEF Statement
<1> QED
  BY <1>1, <1>2, ShapesFit, WhenRaised

(***************************************************************************)
(* The verifier raises on a structure that is not the statement's, never   *)
(* on a value that is wrong or stale.                                      *)
(***************************************************************************)
THEOREM ChainRaisesOnShapeOnly == Spec => []RaisesOnShapeOnly
<1>1. ChainInv => RaisesOnShapeOnly
  BY ShapeRaises
<1> QED
  BY <1>1, ChainInductive, PTL

-----------------------------------------------------------------------------
(* Every leg of the duals holds over an honest proof.                      *)

\* The legs of each dual's verdict, given what it derives.
GkrLegs(claim, proof, t, pv, head, bound, point) ==
    /\ PowPasses(t, proof.pow)
    /\ Answers(proof.output, head) /\ Answers(proof.layers, bound)
    /\ proof.layers.of = proof.output.of
    /\ proof.point = point
    /\ Answers(proof.openings, point)
    /\ proof.openings.of = proof.layers.of
    /\ Shard[proof.openings.of].main.rows = claim.rows
    /\ pv => /\ Made(proof.output.of)
             /\ Shard[proof.output.of].balanced
             /\ Shard[proof.output.of].claim.pv = claim.pv
             /\ claim.pv \in WellFormed

ZerocheckLegs(statement, claim, proof, drawn, point) ==
    /\ proof.challenges = drawn
    /\ proof.zeta = <<claim.point, MaxLog>>
    /\ proof.sum = <<claim.openings.of, drawn>>
    /\ Answers(proof.msgs, drawn)
    /\ proof.point = point
    /\ Answers(proof.opened, point)
    /\ proof.opened.of = proof.msgs.of
    /\ claim.openings.of = proof.msgs.of
    /\ Shard[proof.opened.of].satisfied
    /\ Shard[proof.opened.of].main.rows = statement.rows
    /\ Shard[proof.opened.of].claim.pv = statement.pv
    /\ PrepUncut(Shard[proof.opened.of])

OpeningLegs(claim, proof, manifest, drawn, point, bound) ==
    /\ Answers(proof.eval, drawn)
    /\ proof.eval.of = claim.opened.of
    /\ proof.eval.claims = claim.opened.of
    /\ proof.eval.structures = manifest
    /\ \A i \in DOMAIN manifest :
           Root(proof.open.components[i], manifest[i]) = bound[i]
    /\ Answers(proof.open, point)
    /\ proof.open.of = proof.eval.of
    /\ proof.open.components = RegionContents(Shard[proof.open.of])

LEMMA GkrVerdict ==
    ASSUME NEW claim, NEW proof, NEW t, NEW pv, NEW head, NEW bound, NEW point,
           head = SampleHead(AbsorbGrind(t, proof.pow)),
           bound = BindCircuitOutput(head, proof.output.of, proof.output.size),
           point = LayerRounds(bound, proof.layers.of, RowVars)
    PROVE  /\ GkrVerify(claim, proof, t, pv).ok
                <=> GkrLegs(claim, proof, t, pv, head, bound, point)
           /\ GkrVerify(claim, proof, t, pv).claim
                = [point |-> point, openings |-> proof.openings]
BY DEF GkrVerify, GkrLegs

LEMMA ZerocheckVerdict ==
    ASSUME NEW statement, NEW claim, NEW proof, NEW t, NEW drawn, NEW point,
           drawn = SampleStageChallenges(t),
           point = ZerocheckRounds(drawn, proof.msgs.of, MaxLog)
    PROVE  /\ ZerocheckVerify(statement, claim, proof, t).ok
                <=> ZerocheckLegs(statement, claim, proof, drawn, point)
           /\ ZerocheckVerify(statement, claim, proof, t).claim
                = [point |-> point, opened |-> proof.opened]
BY DEF ZerocheckVerify, ZerocheckLegs

LEMMA OpeningVerdict ==
    ASSUME NEW statement, NEW claim, NEW roots, NEW proof, NEW t,
           NEW manifest, NEW drawn, NEW point, NEW bound,
           manifest = Manifest(statement),
           drawn = SampleColumns(t, Columns(manifest)),
           point = EvalRounds(drawn, proof.eval.of, OuterRounds(statement)),
           bound = InRoundOrder(roots)
    PROVE  OpeningVerify(statement, claim, roots, proof, t).ok
             <=> OpeningLegs(claim, proof, manifest, drawn, point, bound)
BY DEF OpeningVerify, OpeningLegs

LEMMA GkrHolds ==
    ASSUME NEW id \in Id, NEW a, NEW pv \in BOOLEAN, Given(a) = ProofOf(id),
           Provable(id), Supported(Shard[id]), True(Shard[id], pv)
    PROVE  GkrDual(id, a, pv).ok
<1>1. PICK t, pow, size, widths :
          /\ t = AfterBind(id) /\ pow = Witness(Shard[id], t)
          /\ size = OutputSize(Shard[id].main.order) /\ widths = OpenedWidths(Shard[id])
  OBVIOUS
<1>2. PICK head : head = SampleHead(AbsorbGrind(t, pow))
  OBVIOUS
<1>3. PICK bound : bound = BindCircuitOutput(head, id, size)
  OBVIOUS
<1>4. PICK point : point = LayerRounds(bound, id, RowVars)
  OBVIOUS
<1>5. PICK proof : proof = Given(a).gkr
  OBVIOUS
<1>6. proof = [pow |-> pow, output |-> [of |-> id, at |-> head, size |-> size],
               layers |-> [of |-> id, at |-> bound, count |-> RowVars], point |-> point,
               openings |-> [of |-> id, at |-> point, widths |-> widths]]
  BY <1>1, <1>2, <1>3, <1>4, <1>5 DEF ProofOf, GkrOf, GkrProve
<1>7. Started(id, a) = t
  BY <1>1, SameStart
<1>8. Shard[id].claim.rows = Shard[id].main.rows /\ PowPasses(t, pow)
  BY <1>1 DEF Provable, GkrProvable, GkrProverRaises
<1>9. /\ head = SampleHead(AbsorbGrind(t, proof.pow))
      /\ bound = BindCircuitOutput(head, proof.output.of, proof.output.size)
      /\ point = LayerRounds(bound, proof.layers.of, RowVars)
  BY <1>2, <1>3, <1>4, <1>6
<1>10. GkrVerify(Shard[id].claim, proof, t, pv).ok
         <=> GkrLegs(Shard[id].claim, proof, t, pv, head, bound, point)
  BY <1>9, GkrVerdict
<1>11. GkrLegs(Shard[id].claim, proof, t, pv, head, bound, point)
  BY <1>6, <1>8 DEF GkrLegs, Answers, Made, True
<1> QED
  BY <1>5, <1>7, <1>10, <1>11 DEF GkrDual

LEMMA ZerocheckHolds ==
    ASSUME NEW id \in Id, NEW a, NEW pv \in BOOLEAN, Given(a) = ProofOf(id),
           Provable(id), Supported(Shard[id]), True(Shard[id], pv)
    PROVE  ZerocheckDual(id, a, pv).ok
<1>1. PICK t, claim, widths :
          t = GkrOf(id).t /\ claim = GkrOf(id).claim /\ widths = OpenedWidths(Shard[id])
  OBVIOUS
<1>2. PICK drawn : drawn = SampleStageChallenges(t)
  OBVIOUS
<1>3. PICK point : point = ZerocheckRounds(drawn, id, MaxLog)
  OBVIOUS
<1>4. PICK proof : proof = Given(a).zerocheck
  OBVIOUS
<1>5. proof = [challenges |-> drawn, zeta |-> <<claim.point, MaxLog>>,
               sum |-> <<claim.openings.of, drawn>>,
               msgs |-> [of |-> id, at |-> drawn, count |-> MaxLog], point |-> point,
               opened |-> [of |-> id, at |-> point, widths |-> widths]]
  BY <1>1, <1>2, <1>3, <1>4 DEF ProofOf, ZerocheckOf, ZerocheckProve
<1>6. Shard[id].claim.rows = Shard[id].main.rows /\ Shard[id].main.order = ChipNames
  BY DEF Provable, GkrProvable, GkrProverRaises, Supported, Ordered
<1>7. GkrDual(id, a, pv).t = t /\ GkrDual(id, a, pv).claim = claim
  BY <1>1, <1>6, SameGkr
<1>8. claim.openings.of = id
  BY <1>1 DEF GkrOf, GkrProve
<1>9. PrepUncut(Shard[id])
  <2>1. \A c \in Range(Shard[id].prep.order) : Shard[id].prep.rows[c] \in Nat
    BY ShardAssumption
  <2> QED
    BY <2>1 DEF PrepUncut, Supported
<1>10. point = ZerocheckRounds(drawn, proof.msgs.of, MaxLog)
  BY <1>3, <1>5
<1>11. ZerocheckVerify(Shard[id].claim, claim, proof, t).ok
         <=> ZerocheckLegs(Shard[id].claim, claim, proof, drawn, point)
  BY <1>2, <1>10, ZerocheckVerdict
<1>12. ZerocheckLegs(Shard[id].claim, claim, proof, drawn, point)
  BY <1>5, <1>6, <1>8, <1>9 DEF ZerocheckLegs, Answers, Made, True
<1> QED
  BY <1>4, <1>7, <1>11, <1>12 DEF ZerocheckDual

LEMMA RootsFit ==
    ASSUME NEW id \in Id, NEW a, Given(a) = ProofOf(id),
           Provable(id), Supported(Shard[id]),
           NEW i \in DOMAIN Manifest(Shard[id].claim)
    PROVE  Root(RegionContents(Shard[id])[i], Manifest(Shard[id].claim)[i])
             = InRoundOrder(RootsOf(id, a))[i]
<1> DEFINE s == Shard[id]
<1>1. Manifest(s.claim) = RegionWalk(s)
  BY SameRounds
<1>2. /\ RootsOf(id, a).prep = s.claim.vk.prep
      /\ RootsOf(id, a).main = Root(s.trace, MainStructure(s))
  BY DEF RootsOf, BoundRoots, ProofOf, Commitment
<1>3. HasPrep(s) <=> PrepNames # <<>>
  BY DEF HasPrep, Supported, Ordered
<1>4. HasPrep(s) => s.claim.vk.prep = Root(s.claim.vk.id, PrepStructure(s))
  BY ShardAssumption
<1>0. i \in DOMAIN RegionWalk(s)
  BY <1>1
<1> HIDE DEF s
<1>5. CASE HasPrep(s)
  <2>1. InRoundOrder(RootsOf(id, a)) = <<RootsOf(id, a).prep>> \o <<RootsOf(id, a).main>>
    BY <1>3, <1>5 DEF InRoundOrder
  <2>2. InRoundOrder(RootsOf(id, a)) = <<RootsOf(id, a).prep, RootsOf(id, a).main>>
    BY <2>1, TwoInOrder
  <2>3. /\ RegionContents(s) = <<s.claim.vk.id, s.trace>>
        /\ RegionWalk(s) = <<PrepStructure(s), MainStructure(s)>>
    BY <1>5, WalkInOrder
  <2>4. i = 1 \/ i = 2
    BY <1>0, <2>3
  <2>5. Root(RegionContents(s)[i], RegionWalk(s)[i]) = InRoundOrder(RootsOf(id, a))[i]
    BY <1>2, <1>4, <1>5, <2>2, <2>3, <2>4
  <2> QED
    BY <1>1, <2>5 DEF s
<1>6. CASE ~HasPrep(s)
  <2>1. InRoundOrder(RootsOf(id, a)) = <<>> \o <<RootsOf(id, a).main>>
    BY <1>3, <1>6 DEF InRoundOrder
  <2>2. InRoundOrder(RootsOf(id, a)) = <<RootsOf(id, a).main>>
    BY <2>1, TwoInOrder
  <2>3. RegionContents(s) = <<s.trace>> /\ RegionWalk(s) = <<MainStructure(s)>>
    BY <1>6, WalkInOrder
  <2>4. i = 1
    BY <1>0, <2>3
  <2>5. Root(RegionContents(s)[i], RegionWalk(s)[i]) = InRoundOrder(RootsOf(id, a))[i]
    BY <1>2, <2>2, <2>3, <2>4
  <2> QED
    BY <1>1, <2>5 DEF s
<1> QED
  BY <1>5, <1>6

LEMMA OpeningHolds ==
    ASSUME NEW id \in Id, NEW a, NEW pv \in BOOLEAN, Given(a) = ProofOf(id),
           Provable(id), Supported(Shard[id])
    PROVE  OpeningDual(id, a, pv).ok
<1>1. PICK t, claim, roots, statement :
          /\ t = ZerocheckOf(id).t /\ claim = ZerocheckOf(id).claim
          /\ roots = RootsOf(id, a) /\ statement = Shard[id].claim
  OBVIOUS
<1>2. PICK manifest, rounds, components :
          /\ manifest = Manifest(statement) /\ rounds = OuterRounds(statement)
          /\ components = RegionContents(Shard[id])
  OBVIOUS
<1>3. PICK drawn : drawn = SampleColumns(t, Columns(manifest))
  OBVIOUS
<1>4. PICK point : point = EvalRounds(drawn, id, rounds)
  OBVIOUS
<1>5. PICK proof : proof = Given(a).jagged
  OBVIOUS
<1>6. RegionWalk(Shard[id]) = manifest /\ DenseVars(Shard[id]) = rounds
  BY <1>1, <1>2, SameRounds
<1>7. claim.opened.of = id
  BY <1>1 DEF ZerocheckOf, ZerocheckProve
<1>8. proof = [eval |-> [of |-> id, at |-> drawn, rounds |-> rounds, claims |-> id,
                         structures |-> manifest],
               open |-> [of |-> id, at |-> point, components |-> components]]
  BY <1>1, <1>2, <1>3, <1>4, <1>5, <1>6, <1>7 DEF ProofOf, OpeningOf, OpeningProve
<1>9. ZerocheckDual(id, a, pv).t = t /\ ZerocheckDual(id, a, pv).claim = claim
  BY <1>1, SameZerocheck DEF Supported, Ordered
<1>10. PICK bound : bound = InRoundOrder(roots)
  OBVIOUS
<1>11. \A i \in DOMAIN manifest : Root(components[i], manifest[i]) = bound[i]
  BY <1>1, <1>2, <1>10, RootsFit
<1>12. point = EvalRounds(drawn, proof.eval.of, OuterRounds(statement))
  BY <1>2, <1>4, <1>8
<1>13. OpeningVerify(statement, claim, roots, proof, t).ok
         <=> OpeningLegs(claim, proof, manifest, drawn, point, bound)
  BY <1>2, <1>3, <1>10, <1>12, OpeningVerdict
<1>14. OpeningLegs(claim, proof, manifest, drawn, point, bound)
  BY <1>2, <1>7, <1>8, <1>11 DEF OpeningLegs, Answers, Made
<1> QED
  BY <1>1, <1>5, <1>9, <1>13, <1>14 DEF OpeningDual

LEMMA HonestProofs == ASSUME ChainInv PROVE HonestAccepted
<1> SUFFICES ASSUME Own, Supported(Shard[verifier.shard]),
                    True(Shard[verifier.shard], verifier.checkPv)
             PROVE  /\ verifier.at \notin {"rejected", "raised"}
                    /\ verifier.at = "accepted" =>
                          verifier.t = Last(proofs[verifier.shard].trail).t
  BY DEF HonestAccepted
<1>1. PICK id \in Id, a \in Assemblies, pv \in BOOLEAN :
          /\ Verifying(id, a, pv)
          /\ verifier.shard = id /\ verifier.assembly = a /\ verifier.checkPv = pv
  BY VerifierStands DEF Own
<1>2. /\ Given(a) = ProofOf(id) /\ Provable(id)
      /\ proofs[id].trail = TrailOf(id) /\ Range(a.from) = {id}
  BY <1>1, OwnAssembly DEF Own
<1>3. GkrDual(id, a, pv).ok /\ ZerocheckDual(id, a, pv).ok /\ OpeningDual(id, a, pv).ok
  BY <1>1, <1>2, GkrHolds, ZerocheckHolds, OpeningHolds
<1>4. verifier.at # "raised"
  BY <1>1, <1>2, ShapesFit, WhenRaised
<1>5. verifier.at # "rejected"
  BY <1>1, <1>3 DEF Verifying, OnStart, OnGkr, OnZerocheck, OnVerdict, VerifierAt
<1>6. ASSUME verifier.at = "accepted" PROVE verifier.t = Last(proofs[id].trail).t
  <2>1. verifier.t = OpeningDual(id, a, pv).t
    BY <1>1, <1>6 DEF Verifying, OnStart, OnGkr, OnZerocheck, OnVerdict, VerifierAt
  <2>2. OpeningDual(id, a, pv).t = OpeningOf(id).t
    BY <1>1, <1>2, SameOpening
  <2>3. Last(proofs[id].trail) = OpeningSeam(id)
    BY <1>2 DEF TrailOf, Last
  <2> QED
    BY <2>1, <2>2, <2>3 DEF OpeningSeam, Seam
<1> QED
  BY <1>1, <1>4, <1>5, <1>6

(***************************************************************************)
(* The verifier accepts the honest proof of a true statement, and ends on  *)
(* the prover's transcript.                                                *)
(***************************************************************************)
THEOREM ChainHonestAccepted == Spec => []HonestAccepted
<1>1. ChainInv => HonestAccepted
  BY HonestProofs
<1> QED
  BY <1>1, ChainInductive, PTL

-----------------------------------------------------------------------------
(* Transcripts whose challenges come after what they bind.                 *)

Has(t, name) == \E j \in 1..Len(t) : t[j][1] = name
Drawn(t, challenge) == {j \in 1..Len(t) : t[j] = <<"sample", challenge>>}
Absorbed(t, name) == {j \in 1..Len(t) : t[j][1] = name}
Even(t) ==
    /\ Cardinality(Drawn(t, "r")) = Cardinality(Absorbed(t, "layer"))
    /\ Cardinality(Drawn(t, "zc")) = Cardinality(Absorbed(t, "round_poly"))

\* In order so far, those names absorbed, no round left open.
InOrder(t, names) ==
    /\ IsSeq(t)
    /\ \A i \in 1..Len(t) : BoundAt(t, i)
    /\ \A name \in names : Has(t, name)
    /\ Even(t)

LEMMA Longer ==
    ASSUME NEW t, IsSeq(t), NEW e
    PROVE  /\ IsSeq(Append(t, e)) /\ Len(t) \in Nat /\ Len(Append(t, e)) = Len(t) + 1
           /\ \A i \in 1..Len(t) : Append(t, e)[i] = t[i]
           /\ Append(t, e)[Len(t) + 1] = e
<1>1. PICK T : t \in Seq(T)
  BY DEF IsSeq
<1>2. PICK S : S = T \cup {e}
  OBVIOUS
<1>3. t \in Seq(S) /\ e \in S
  <2>1. t \in [1..Len(t) -> T] /\ Len(t) \in Nat
    BY <1>1
  <2>2. t \in [1..Len(t) -> S]
    BY <1>2, <2>1
  <2> QED
    BY <1>2, <2>1, <2>2
<1>4. Append(t, e) \in Seq(S)
  BY <1>3
<1> QED
  BY <1>3, <1>4, Appended DEF IsSeq

LEMMA StillBound ==
    ASSUME NEW t, NEW u, NEW n \in Nat, \A i \in 1..n : u[i] = t[i],
           NEW i \in 1..n, BoundAt(t, i)
    PROVE  BoundAt(u, i)
<1>1. \A j \in 1..i : u[j] = t[j]
  OBVIOUS
<1>2. {j \in 1..i : u[j] = u[i]} = {j \in 1..i : t[j] = t[i]}
  BY <1>1
<1>3. \A name : {j \in 1..i : u[j][1] = name} = {j \in 1..i : t[j][1] = name}
  BY <1>1
<1>4. \A name : (\E j \in 1..(i - 1) : t[j][1] = name) => \E j \in 1..(i - 1) : u[j][1] = name
  BY <1>1
<1> SUFFICES ASSUME u[i][1] = "sample", u[i][2] \in DOMAIN Binds,
                    NEW name \in Binds[u[i][2]]
             PROVE  /\ \E j \in 1..(i - 1) : u[j][1] = name
                    /\ u[i][2] \in {"r", "zc"} =>
                          Cardinality({j \in 1..i : u[j] = u[i]})
                            = Cardinality({j \in 1..i : u[j][1] = name})
  BY DEF BoundAt
<1>5. u[i] = t[i]
  OBVIOUS
<1>6. /\ \E j \in 1..(i - 1) : t[j][1] = name
      /\ t[i][2] \in {"r", "zc"} =>
            Cardinality({j \in 1..i : t[j] = t[i]})
              = Cardinality({j \in 1..i : t[j][1] = name})
  BY <1>5 DEF BoundAt
<1>7. {j \in 1..i : u[j][1] = name} = {j \in 1..i : t[j][1] = name}
  BY <1>3
<1>8. \E j \in 1..(i - 1) : u[j][1] = name
  BY <1>4, <1>6
<1> QED
  BY <1>2, <1>5, <1>6, <1>7, <1>8

LEMMA StillHas ==
    ASSUME NEW t, NEW e, IsSeq(t), NEW name, Has(t, name)
    PROVE  Has(Append(t, e), name)
BY Longer DEF Has

LEMMA NothingDrawn ==
    ASSUME NEW t, IsSeq(t), NEW e, NEW challenge, e # <<"sample", challenge>>
    PROVE  Drawn(Append(t, e), challenge) = Drawn(t, challenge)
<1>1. /\ Len(t) \in Nat /\ Len(Append(t, e)) = Len(t) + 1
      /\ \A i \in 1..Len(t) : Append(t, e)[i] = t[i]
      /\ Append(t, e)[Len(t) + 1] = e
  BY Longer
<1>2. PICK token : token = <<"sample", challenge>>
  OBVIOUS
<1>3. {j \in 1..(Len(t) + 1) : Append(t, e)[j] = token} = {j \in 1..Len(t) : t[j] = token}
  BY <1>1, <1>2
<1> QED
  BY <1>1, <1>2, <1>3 DEF Drawn

LEMMA NothingAbsorbed ==
    ASSUME NEW t, IsSeq(t), NEW e, NEW name, e[1] # name
    PROVE  Absorbed(Append(t, e), name) = Absorbed(t, name)
<1>1. /\ Len(t) \in Nat /\ Len(Append(t, e)) = Len(t) + 1
      /\ \A i \in 1..Len(t) : Append(t, e)[i] = t[i]
      /\ Append(t, e)[Len(t) + 1] = e
  BY Longer
<1> QED
  BY <1>1 DEF Absorbed

LEMMA AbsorbInOrder ==
    ASSUME NEW t, NEW names, InOrder(t, names), NEW value,
           NEW name, name \notin {"sample", "layer", "round_poly"}
    PROVE  InOrder(Absorb(t, name, value), names \cup {name})
<1> DEFINE e == <<name, value>>
           u == Append(t, e)
<1>1. /\ IsSeq(u) /\ Len(t) \in Nat /\ Len(u) = Len(t) + 1
      /\ \A i \in 1..Len(t) : u[i] = t[i]
      /\ u[Len(t) + 1] = e
  BY Longer DEF InOrder
<1>2. e[1] = name /\ \A challenge : e # <<"sample", challenge>>
  OBVIOUS
<1>3. /\ Drawn(u, "r") = Drawn(t, "r") /\ Drawn(u, "zc") = Drawn(t, "zc")
      /\ Absorbed(u, "layer") = Absorbed(t, "layer")
      /\ Absorbed(u, "round_poly") = Absorbed(t, "round_poly")
  BY <1>2, NothingDrawn, NothingAbsorbed DEF InOrder
<1> HIDE DEF e, u
<1>4. ASSUME NEW i \in 1..Len(u) PROVE BoundAt(u, i)
  <2>1. CASE i \in 1..Len(t)
    BY <1>1, <2>1, StillBound DEF InOrder
  <2>2. CASE i = Len(t) + 1
    BY <1>1, <1>2, <2>2 DEF BoundAt
  <2> QED
    BY <1>1, <2>1, <2>2
<1>5. ASSUME NEW known \in names \cup {name} PROVE Has(u, known)
  <2>1. CASE known \in names
    BY <2>1, StillHas DEF InOrder, u
  <2>2. CASE known = name
    BY <1>1, <1>2, <2>2 DEF Has
  <2> QED
    BY <2>1, <2>2
<1> QED
  BY <1>1, <1>3, <1>4, <1>5 DEF InOrder, Even, Absorb, u, e

LEMMA SampleInOrder ==
    ASSUME NEW t, NEW names, InOrder(t, names), NEW challenge,
           challenge \notin {"r", "zc"},
           challenge \in DOMAIN Binds => Binds[challenge] \subseteq names
    PROVE  InOrder(Sample(t, challenge), names)
<1> DEFINE e == <<"sample", challenge>>
           u == Append(t, e)
<1>1. /\ IsSeq(u) /\ Len(t) \in Nat /\ Len(u) = Len(t) + 1
      /\ \A i \in 1..Len(t) : u[i] = t[i]
      /\ u[Len(t) + 1] = e
  BY Longer DEF InOrder
<1>2. /\ e[1] = "sample" /\ e[2] = challenge
      /\ e # <<"sample", "r">> /\ e # <<"sample", "zc">>
  OBVIOUS
<1>3. /\ Drawn(u, "r") = Drawn(t, "r") /\ Drawn(u, "zc") = Drawn(t, "zc")
      /\ Absorbed(u, "layer") = Absorbed(t, "layer")
      /\ Absorbed(u, "round_poly") = Absorbed(t, "round_poly")
  BY <1>2, NothingDrawn, NothingAbsorbed DEF InOrder
<1> HIDE DEF e, u
<1>4. ASSUME NEW i \in 1..Len(u) PROVE BoundAt(u, i)
  <2>1. CASE i \in 1..Len(t)
    BY <1>1, <2>1, StillBound DEF InOrder
  <2>2. CASE i = Len(t) + 1
    <3> SUFFICES ASSUME challenge \in DOMAIN Binds, NEW name \in Binds[challenge]
                 PROVE  \E j \in 1..Len(t) : u[j][1] = name
      BY <1>1, <1>2, <2>2 DEF BoundAt
    <3>1. Has(t, name)
      BY DEF InOrder
    <3> QED
      BY <1>1, <3>1 DEF Has
  <2> QED
    BY <1>1, <2>1, <2>2
<1>5. ASSUME NEW known \in names PROVE Has(u, known)
  BY StillHas DEF InOrder, u
<1> QED
  BY <1>1, <1>3, <1>4, <1>5 DEF InOrder, Even, Sample, u, e

\* One more message of its kind, and one more challenge of its own.
LEMMA OneMore ==
    ASSUME NEW t, IsSeq(t), NEW e, NEW d
    PROVE  /\ \A challenge : e # <<"sample", challenge>> /\ d = <<"sample", challenge>> =>
                Cardinality(Drawn(Append(Append(t, e), d), challenge))
                  = Cardinality(Drawn(t, challenge)) + 1
           /\ \A name : e[1] = name /\ d[1] # name =>
                Cardinality(Absorbed(Append(Append(t, e), d), name))
                  = Cardinality(Absorbed(t, name)) + 1
<1> DEFINE u == Append(t, e)
           w == Append(u, d)
<1>1. /\ IsSeq(u) /\ Len(t) \in Nat /\ Len(u) = Len(t) + 1
      /\ \A i \in 1..Len(t) : u[i] = t[i]
      /\ u[Len(t) + 1] = e
  BY Longer
<1>2. /\ Len(w) = Len(u) + 1
      /\ \A i \in 1..Len(u) : w[i] = u[i]
      /\ w[Len(u) + 1] = d
  BY <1>1, Longer
<1> HIDE DEF u, w
<1>3. PICK n \in Nat : n = Len(t)
  BY <1>1
<1>4. /\ Len(w) = n + 2 /\ w[n + 1] = e /\ w[n + 2] = d
      /\ \A i \in 1..n : w[i] = t[i]
  BY <1>1, <1>2, <1>3
<1>5. IsFiniteSet(1..n)
  BY FS_Interval
<1>6. ASSUME NEW challenge, e # <<"sample", challenge>>, d = <<"sample", challenge>>
      PROVE  Cardinality(Drawn(w, challenge)) = Cardinality(Drawn(t, challenge)) + 1
  <2>1. PICK token : token = <<"sample", challenge>>
    OBVIOUS
  <2>2. {j \in 1..(n + 2) : w[j] = token} = {j \in 1..n : t[j] = token} \cup {n + 2}
    BY <1>4, <1>6, <2>1
  <2>3. Drawn(w, challenge) = Drawn(t, challenge) \cup {n + 2}
    BY <1>3, <1>4, <2>1, <2>2 DEF Drawn
  <2>4. Drawn(t, challenge) \in SUBSET (1..n)
    BY <1>3 DEF Drawn
  <2>5. n + 2 \notin Drawn(t, challenge)
    BY <2>4
  <2>6. IsFiniteSet(Drawn(t, challenge))
    BY <1>5, <2>4, FS_Subset
  <2> QED
    BY <2>3, <2>5, <2>6, FS_AddElement
<1>7. ASSUME NEW name, e[1] = name, d[1] # name
      PROVE  Cardinality(Absorbed(w, name)) = Cardinality(Absorbed(t, name)) + 1
  <2>1. {j \in 1..(n + 2) : w[j][1] = name} = {j \in 1..n : t[j][1] = name} \cup {n + 1}
    BY <1>4, <1>7
  <2>2. Absorbed(w, name) = Absorbed(t, name) \cup {n + 1}
    BY <1>3, <1>4, <2>1 DEF Absorbed
  <2>3. Absorbed(t, name) \in SUBSET (1..n)
    BY <1>3 DEF Absorbed
  <2>4. n + 1 \notin Absorbed(t, name)
    BY <2>3
  <2>5. IsFiniteSet(Absorbed(t, name))
    BY <1>5, <2>3, FS_Subset
  <2> QED
    BY <2>2, <2>4, <2>5, FS_AddElement
<1> QED
  BY <1>6, <1>7 DEF u, w

LEMMA RoundInOrder ==
    ASSUME NEW t, NEW names, InOrder(t, names), NEW value, NEW name, NEW challenge,
           \/ name = "layer" /\ challenge = "r"
           \/ name = "round_poly" /\ challenge = "zc"
    PROVE  InOrder(Sample(Absorb(t, name, value), challenge), names)
<1> DEFINE e == <<name, value>>
           d == <<"sample", challenge>>
           u == Append(t, e)
           w == Append(u, d)
<1>1. /\ IsSeq(u) /\ Len(t) \in Nat /\ Len(u) = Len(t) + 1
      /\ \A i \in 1..Len(t) : u[i] = t[i]
      /\ u[Len(t) + 1] = e
  BY Longer DEF InOrder
<1>2. /\ IsSeq(w) /\ Len(w) = Len(u) + 1
      /\ \A i \in 1..Len(u) : w[i] = u[i]
      /\ w[Len(u) + 1] = d
  BY <1>1, Longer
<1>3. /\ e[1] = name /\ d[1] = "sample" /\ d[2] = challenge
      /\ name # "sample" /\ \A c : e # <<"sample", c>>
      /\ name # "layer" => challenge # "r"
      /\ name # "round_poly" => challenge # "zc"
  OBVIOUS
<1>4. /\ Cardinality(Drawn(w, challenge)) = Cardinality(Drawn(t, challenge)) + 1
      /\ Cardinality(Absorbed(w, name)) = Cardinality(Absorbed(t, name)) + 1
  BY <1>3, OneMore DEF InOrder
<1>5. /\ \A c : c # challenge => d # <<"sample", c>>
      /\ \A c : c # challenge => Drawn(w, c) = Drawn(t, c)
  <2>1. ASSUME NEW c, c # challenge PROVE d # <<"sample", c>>
    BY <2>1
  <2>2. ASSUME NEW c, c # challenge PROVE Drawn(w, c) = Drawn(t, c)
    <3>1. Drawn(u, c) = Drawn(t, c)
      BY <1>3, NothingDrawn DEF InOrder
    <3>2. Drawn(w, c) = Drawn(u, c)
      BY <1>1, <2>1, <2>2, NothingDrawn
    <3> QED
      BY <3>1, <3>2
  <2> QED
    BY <2>1, <2>2
<1>6. ASSUME NEW n, n # name, n # "sample" PROVE Absorbed(w, n) = Absorbed(t, n)
  <2>1. Absorbed(u, n) = Absorbed(t, n)
    BY <1>3, <1>6, NothingAbsorbed DEF InOrder
  <2>2. Absorbed(w, n) = Absorbed(u, n)
    BY <1>1, <1>3, <1>6, NothingAbsorbed
  <2> QED
    BY <2>1, <2>2
<1>7. Sample(Absorb(t, name, value), challenge) = w
  BY DEF Sample, Absorb
<1> HIDE DEF e, d, u, w
<1>8. Even(w)
  <2>1. CASE name = "layer" /\ challenge = "r"
    <3>1. Drawn(w, "zc") = Drawn(t, "zc")
          /\ Absorbed(w, "round_poly") = Absorbed(t, "round_poly")
      BY <1>5, <1>6, <2>1
    <3> QED
      BY <1>4, <2>1, <3>1 DEF Even, InOrder
  <2>2. CASE name = "round_poly" /\ challenge = "zc"
    <3>1. Drawn(w, "r") = Drawn(t, "r") /\ Absorbed(w, "layer") = Absorbed(t, "layer")
      BY <1>5, <1>6, <2>2
    <3> QED
      BY <1>4, <2>2, <3>1 DEF Even, InOrder
  <2> QED
    BY <2>1, <2>2
<1>9. ASSUME NEW i \in 1..Len(w) PROVE BoundAt(w, i)
  <2>1. CASE i \in 1..Len(t)
    <3>1. \A k \in 1..Len(t) : w[k] = t[k]
      BY <1>1, <1>2
    <3> QED
      BY <1>1, <2>1, <3>1, StillBound DEF InOrder
  <2>2. CASE i = Len(t) + 1
    <3>1. w[i] = e
      BY <1>1, <1>2, <2>2
    <3> QED
      BY <1>3, <3>1 DEF BoundAt
  <2>3. CASE i = Len(t) + 2
    <3>1. w[i] = d /\ i = Len(w) /\ w[Len(t) + 1] = e
      BY <1>1, <1>2, <2>3
    <3>2. challenge \in DOMAIN Binds /\ Binds[challenge] = {name}
      BY DEF Binds
    <3>3. {j \in 1..i : w[j] = w[i]} = Drawn(w, challenge)
      BY <3>1 DEF Drawn, d
    <3>4. {j \in 1..i : w[j][1] = name} = Absorbed(w, name)
      BY <3>1 DEF Absorbed
    <3>5. Cardinality(Drawn(w, challenge)) = Cardinality(Absorbed(w, name))
      BY <1>8 DEF Even
    <3>6. \E j \in 1..(i - 1) : w[j][1] = name
      BY <1>1, <1>3, <2>3, <3>1
    <3> QED
      BY <1>3, <3>1, <3>2, <3>3, <3>4, <3>5, <3>6 DEF BoundAt
  <2> QED
    BY <1>1, <1>2, <2>1, <2>2, <2>3
<1>10. ASSUME NEW known \in names PROVE Has(w, known)
  <2>1. Has(u, known)
    BY StillHas DEF InOrder, u
  <2> QED
    BY <1>1, <2>1, StillHas DEF w
<1> QED
  BY <1>2, <1>7, <1>8, <1>9, <1>10 DEF InOrder

\* Two sequences joined, when the second grows.
LEMMA JoinGrows ==
    ASSUME NEW t, IsSeq(t), NEW s, IsSeq(s), NEW e
    PROVE  /\ t \o <<>> = t
           /\ t \o Append(s, e) = Append(t \o s, e)
           /\ IsSeq(t \o s)
<1>1. PICK T, U : t \in Seq(T) /\ s \in Seq(U)
  BY DEF IsSeq
<1>2. PICK S : S = T \cup U \cup {e}
  OBVIOUS
<1>3. t \in Seq(S) /\ s \in Seq(S) /\ e \in S
  <2>1. t \in [1..Len(t) -> T] /\ Len(t) \in Nat /\ s \in [1..Len(s) -> U] /\ Len(s) \in Nat
    BY <1>1
  <2>2. t \in [1..Len(t) -> S] /\ s \in [1..Len(s) -> S]
    BY <1>2, <2>1
  <2> QED
    BY <1>2, <2>1, <2>2
<1>4. t \o <<>> = t
  BY <1>3, ConcatEmptySeq
<1>5. t \o s \in Seq(S) /\ <<e>> \in Seq(S)
  BY <1>3, ConcatProperties
<1>6. Append(t \o s, e) = (t \o s) \o <<e>> /\ Append(s, e) = s \o <<e>>
  BY <1>3, <1>5, AppendIsConcat
<1>7. (t \o s) \o <<e>> = t \o (s \o <<e>>)
  BY <1>3, <1>5, ConcatAssociative
<1> QED
  BY <1>4, <1>5, <1>6, <1>7 DEF IsSeq

\* Equal at every place.
LEMMA SameSeq ==
    ASSUME NEW s, IsSeq(s), NEW t, IsSeq(t), Len(s) = Len(t),
           \A i \in 1..Len(s) : s[i] = t[i]
    PROVE  s = t
<1>1. PICK T, U : s \in Seq(T) /\ t \in Seq(U)
  BY DEF IsSeq
<1>2. s = [i \in 1..Len(s) |-> s[i]] /\ t = [i \in 1..Len(t) |-> t[i]]
  BY <1>1
<1> QED
  BY <1>2

LEMMA PointGrows ==
    ASSUME NEW t, IsSeq(t), NEW challenge
    PROVE  /\ SamplePoint(t, challenge, 0) = t
           /\ \A n \in Nat : SamplePoint(t, challenge, n + 1)
                               = Sample(SamplePoint(t, challenge, n), challenge)
<1>1. PICK token : token = <<"sample", challenge>>
  OBVIOUS
<1> DEFINE P(n) == [i \in 1..n |-> token]
<1>2. \A n \in Nat : IsSeq(P(n)) /\ Len(P(n)) = n
  BY TabulatedSeq
<1>3. P(0) = <<>>
  OBVIOUS
<1>4. ASSUME NEW n \in Nat PROVE P(n + 1) = Append(P(n), token)
  <2>1. \A i \in 1..(n + 1) : P(n + 1)[i] = token
    OBVIOUS
  <2>2. \A i \in 1..n : P(n)[i] = token
    OBVIOUS
  <2>3. /\ IsSeq(P(n)) /\ Len(P(n)) = n
        /\ IsSeq(P(n + 1)) /\ Len(P(n + 1)) = n + 1
    BY <1>2
  <2> HIDE DEF P
  <2>4. /\ IsSeq(Append(P(n), token)) /\ Len(Append(P(n), token)) = n + 1
        /\ \A i \in 1..n : Append(P(n), token)[i] = P(n)[i]
        /\ Append(P(n), token)[n + 1] = token
    BY <2>3, Longer
  <2>5. \A i \in 1..(n + 1) : Append(P(n), token)[i] = P(n + 1)[i]
    BY <2>1, <2>2, <2>4
  <2> QED
    BY <2>3, <2>4, <2>5, SameSeq
<1>5. \A n \in Nat : SamplePoint(t, challenge, n) = t \o P(n)
  BY <1>1 DEF SamplePoint
<1> HIDE DEF P
<1>6. SamplePoint(t, challenge, 0) = t
  BY <1>2, <1>3, <1>5, JoinGrows
<1>7. ASSUME NEW n \in Nat
      PROVE  SamplePoint(t, challenge, n + 1) = Sample(SamplePoint(t, challenge, n), challenge)
  <2>0. n + 1 \in Nat
    OBVIOUS
  <2>1. SamplePoint(t, challenge, n + 1) = t \o P(n + 1)
    BY <1>5, <2>0
  <2>2. t \o Append(P(n), token) = Append(t \o P(n), token)
    BY <1>2, JoinGrows
  <2>3. SamplePoint(t, challenge, n) = t \o P(n)
    BY <1>5
  <2> QED
    BY <1>1, <1>4, <2>1, <2>2, <2>3 DEF Sample
<1> QED
  BY <1>6, <1>7

LEMMA PointInOrder ==
    ASSUME NEW t, NEW names, InOrder(t, names), NEW challenge, NEW coords \in Nat,
           challenge \notin {"r", "zc"},
           challenge \in DOMAIN Binds => Binds[challenge] \subseteq names
    PROVE  InOrder(SamplePoint(t, challenge, coords), names)
<1> DEFINE S == {n \in Nat : InOrder(SamplePoint(t, challenge, n), names)}
<1>0. IsSeq(t)
  BY DEF InOrder
<1>1. 0 \in S
  BY <1>0, PointGrows
<1>2. ASSUME NEW n \in Nat, n \in S PROVE n + 1 \in S
  <2>1. InOrder(Sample(SamplePoint(t, challenge, n), challenge), names)
    BY <1>2, SampleInOrder
  <2>2. SamplePoint(t, challenge, n + 1) = Sample(SamplePoint(t, challenge, n), challenge)
    BY <1>0, PointGrows
  <2> QED
    BY <2>1, <2>2
<1>3. \A n \in Nat : n \in S
  <2> HIDE DEF S
  <2> QED
    BY <1>1, <1>2, NatSetInduction
<1> QED
  BY <1>3

\* A block of two or of three, once more.
LEMMA RepeatGrows ==
    ASSUME NEW block, NEW b \in {2, 3}, Len(block) = b, NEW n \in Nat
    PROVE  /\ IsSeq(Repeat(block, n)) /\ Len(Repeat(block, n)) = b * n
           /\ \A j \in 1..(b * n) : Repeat(block, n + 1)[j] = Repeat(block, n)[j]
           /\ \A k \in 1..b : Repeat(block, n + 1)[b * n + k] = block[k]
<1> DEFINE Tiled(m) == [j \in 1..m |-> block[1 + ((j - 1) % b)]]
<1>1. b * n \in Nat /\ b * (n + 1) = b * n + b /\ b * n + b \in Nat
  <2>1. CASE b = 2
    BY <2>1
  <2>2. CASE b = 3
    BY <2>2
  <2> QED
    BY <2>1, <2>2
<1>2. PICK m \in Nat : m = b * n
  BY <1>1
<1>3. Repeat(block, n) = Tiled(m) /\ Repeat(block, n + 1) = Tiled(m + b)
  BY <1>1, <1>2 DEF Repeat
<1>4. Tiled(m) = [j \in 1..m |-> Tiled(m)[j]]
  OBVIOUS
<1>5. IsSeq(Tiled(m)) /\ Len(Tiled(m)) = m
  <2> HIDE DEF Tiled
  <2> QED
    BY <1>4, TabulatedSeq
<1>6. \A j \in 1..m : Tiled(m + b)[j] = Tiled(m)[j]
  OBVIOUS
<1>7. ASSUME NEW k \in 1..b PROVE Tiled(m + b)[m + k] = block[k]
  <2>1. 1 + (((m + k) - 1) % b) = k
    <3>1. CASE b = 2
      BY <1>2, <3>1
    <3>2. CASE b = 3
      BY <1>2, <3>2
    <3> QED
      BY <3>1, <3>2
  <2>2. m + k \in 1..(m + b)
    OBVIOUS
  <2>3. Tiled(m + b)[m + k] = block[1 + (((m + k) - 1) % b)]
    BY <2>2
  <2> QED
    BY <2>1, <2>3
<1> HIDE DEF Tiled
<1> QED
  BY <1>2, <1>3, <1>5, <1>6, <1>7

LEMMA RepeatTwo ==
    ASSUME NEW x, NEW y, NEW block,
           Len(block) = 2, block[1] = x, block[2] = y
    PROVE  /\ Repeat(block, 0) = <<>>
           /\ \A n \in Nat : /\ IsSeq(Repeat(block, n))
                             /\ Repeat(block, n + 1)
                                  = Append(Append(Repeat(block, n), x), y)
<1>2. \A n \in Nat :
        /\ IsSeq(Repeat(block, n)) /\ Len(Repeat(block, n)) = 2 * n
        /\ \A j \in 1..(2 * n) : Repeat(block, n + 1)[j] = Repeat(block, n)[j]
        /\ \A k \in 1..2 : Repeat(block, n + 1)[2 * n + k] = block[k]
  BY RepeatGrows
<1>3. Repeat(block, 0) = <<>>
  BY <1>2 DEF IsSeq
<1>4. ASSUME NEW n \in Nat
      PROVE  Repeat(block, n + 1) = Append(Append(Repeat(block, n), x), y)
  <2>1. PICK r, s : r = Repeat(block, n) /\ s = Repeat(block, n + 1)
    OBVIOUS
  <2>2. n + 1 \in Nat /\ 2 * (n + 1) = 2 * n + 2
    OBVIOUS
  <2>3. /\ IsSeq(r) /\ Len(r) = 2 * n /\ IsSeq(s) /\ Len(s) = 2 * n + 2
        /\ \A j \in 1..(2 * n) : s[j] = r[j]
        /\ s[2 * n + 1] = x /\ s[2 * n + 2] = y
    <3>1. /\ IsSeq(r) /\ Len(r) = 2 * n
          /\ \A j \in 1..(2 * n) : s[j] = r[j]
          /\ \A k \in 1..2 : s[2 * n + k] = block[k]
      BY <1>2, <2>1
    <3>2. IsSeq(s) /\ Len(s) = 2 * (n + 1)
      BY <1>2, <2>1, <2>2
    <3> QED
      BY <2>2, <3>1, <3>2
  <2>4. PICK u, w : u = Append(r, x) /\ w = Append(u, y)
    OBVIOUS
  <2>5. /\ IsSeq(u) /\ Len(u) = 2 * n + 1 /\ u[2 * n + 1] = x
        /\ \A i \in 1..(2 * n) : u[i] = r[i]
    BY <2>3, <2>4, Longer
  <2>6. /\ IsSeq(w) /\ Len(w) = 2 * n + 2 /\ w[2 * n + 2] = y
        /\ \A i \in 1..(2 * n + 1) : w[i] = u[i]
    BY <2>4, <2>5, Longer
  <2>7. \A i \in 1..(2 * n + 2) : s[i] = w[i]
    BY <2>3, <2>5, <2>6
  <2>8. s = w
    BY <2>3, <2>6, <2>7, SameSeq
  <2> QED
    BY <2>1, <2>4, <2>8
<1> QED
  BY <1>2, <1>3, <1>4

Then(s, x, y, z) == Append(Append(Append(s, x), y), z)

LEMMA RepeatThree ==
    ASSUME NEW x, NEW y, NEW z, NEW block,
           Len(block) = 3, block[1] = x, block[2] = y, block[3] = z
    PROVE  /\ Repeat(block, 0) = <<>>
           /\ \A n \in Nat : /\ IsSeq(Repeat(block, n))
                             /\ Repeat(block, n + 1)
                                  = Then(Repeat(block, n), x, y, z)
<1>2. \A n \in Nat :
        /\ IsSeq(Repeat(block, n)) /\ Len(Repeat(block, n)) = 3 * n
        /\ \A j \in 1..(3 * n) : Repeat(block, n + 1)[j] = Repeat(block, n)[j]
        /\ \A k \in 1..3 : Repeat(block, n + 1)[3 * n + k] = block[k]
  BY RepeatGrows
<1>3. Repeat(block, 0) = <<>>
  BY <1>2 DEF IsSeq
<1>4. ASSUME NEW n \in Nat
      PROVE  Repeat(block, n + 1) = Then(Repeat(block, n), x, y, z)
  <2>1. PICK r, s : r = Repeat(block, n) /\ s = Repeat(block, n + 1)
    OBVIOUS
  <2>2. n + 1 \in Nat /\ 3 * (n + 1) = 3 * n + 3
    OBVIOUS
  <2>3. /\ IsSeq(r) /\ Len(r) = 3 * n /\ IsSeq(s) /\ Len(s) = 3 * n + 3
        /\ \A j \in 1..(3 * n) : s[j] = r[j]
        /\ s[3 * n + 1] = x /\ s[3 * n + 2] = y /\ s[3 * n + 3] = z
    <3>1. /\ IsSeq(r) /\ Len(r) = 3 * n
          /\ \A j \in 1..(3 * n) : s[j] = r[j]
          /\ \A k \in 1..3 : s[3 * n + k] = block[k]
      BY <1>2, <2>1
    <3>2. IsSeq(s) /\ Len(s) = 3 * (n + 1)
      BY <1>2, <2>1, <2>2
    <3> QED
      BY <2>2, <3>1, <3>2
  <2>10. PICK m \in Nat : m = 3 * n
    OBVIOUS
  <2>4. PICK u, w, v : u = Append(r, x) /\ w = Append(u, y) /\ v = Append(w, z)
    OBVIOUS
  <2>5. /\ IsSeq(u) /\ Len(u) = m + 1 /\ u[m + 1] = x
        /\ \A i \in 1..(m) : u[i] = r[i]
    BY <2>3, <2>10, <2>4, Longer
  <2>6. /\ IsSeq(w) /\ Len(w) = m + 2 /\ w[m + 2] = y
        /\ \A i \in 1..(m + 1) : w[i] = u[i]
    BY <2>4, <2>5, Longer
  <2>7. /\ IsSeq(v) /\ Len(v) = m + 3 /\ v[m + 3] = z
        /\ \A i \in 1..(m + 2) : v[i] = w[i]
    BY <2>4, <2>6, Longer
  <2>8. ASSUME NEW i \in 1..(m + 3) PROVE s[i] = v[i]
    <3>1. i \in 1..m \/ i = m + 1 \/ i = m + 2 \/ i = m + 3
      BY <2>10
    <3>2. CASE i \in 1..m
      <4>1. i \in 1..(m + 1) /\ i \in 1..(m + 2)
        BY <2>10, <3>2
      <4>2. s[i] = r[i]
        BY <2>3, <2>10, <3>2
      <4> QED
        BY <2>5, <2>6, <2>7, <3>2, <4>1, <4>2
    <3>3. CASE i = m + 1
      <4>1. m + 1 \in 1..(m + 1) /\ m + 1 \in 1..(m + 2)
        BY <2>10
      <4>2. s[m + 1] = x
        BY <2>3, <2>10
      <4> QED
        BY <2>5, <2>6, <2>7, <3>3, <4>1, <4>2
    <3>4. CASE i = m + 2
      <4>1. m + 2 \in 1..(m + 2)
        BY <2>10
      <4>2. s[m + 2] = y
        BY <2>3, <2>10
      <4> QED
        BY <2>6, <2>7, <3>4, <4>1, <4>2
    <3>5. CASE i = m + 3
      BY <2>3, <2>10, <2>7, <3>5
    <3> QED
      BY <3>1, <3>2, <3>3, <3>4, <3>5
  <2>9. s = v
    BY <2>3, <2>10, <2>7, <2>8, SameSeq
  <2> QED
    BY <2>1, <2>4, <2>9 DEF Then
<1> QED
  BY <1>2, <1>3, <1>4

LEMMA JoinEmpty == ASSUME NEW t, IsSeq(t) PROVE t \o <<>> = t
  BY ConcatEmptySeq DEF IsSeq

\* Two and three more tokens at the end of a joined sequence.
LEMMA JoinTwo ==
    ASSUME NEW t, IsSeq(t), NEW s, IsSeq(s), NEW x, NEW y
    PROVE  t \o Append(Append(s, x), y) = Append(Append(t \o s, x), y)
<1>1. PICK u, v : u = Append(s, x) /\ v = Append(u, y)
  OBVIOUS
<1>2. IsSeq(u)
  BY <1>1, Longer
<1>3. t \o u = Append(t \o s, x) /\ t \o v = Append(t \o u, y)
  BY <1>1, <1>2, JoinGrows
<1> QED
  BY <1>1, <1>3

LEMMA JoinThree ==
    ASSUME NEW t, IsSeq(t), NEW s, IsSeq(s), NEW x, NEW y, NEW z
    PROVE  t \o Then(s, x, y, z) = Then(t \o s, x, y, z)
<1>1. PICK u, v, w : u = Append(s, x) /\ v = Append(u, y) /\ w = Append(v, z)
  OBVIOUS
<1>2. IsSeq(u) /\ IsSeq(v)
  BY <1>1, Longer
<1>3. /\ t \o u = Append(t \o s, x) /\ t \o v = Append(t \o u, y)
      /\ t \o w = Append(t \o v, z)
  BY <1>1, <1>2, JoinGrows
<1> QED
  BY <1>1, <1>3 DEF Then

LEMMA LayersGrow ==
    ASSUME NEW t, IsSeq(t), NEW layers
    PROVE  /\ LayerRounds(t, layers, 0) = t
           /\ \A n \in Nat :
                LayerRounds(t, layers, n + 1)
                  = Sample(Absorb(Sample(LayerRounds(t, layers, n), "lambda"),
                                  "layer", layers), "r")
<1>1. PICK x, y, z : x = <<"sample", "lambda">> /\ y = <<"layer", layers>>
                     /\ z = <<"sample", "r">>
  OBVIOUS
<1>9. PICK block : block = <<x, y, z>>
  OBVIOUS
<1>10. Len(block) = 3 /\ block[1] = x /\ block[2] = y /\ block[3] = z
  BY <1>9
<1>2. \A n \in Nat : LayerRounds(t, layers, n) = t \o Repeat(block, n)
  BY <1>1, <1>9 DEF LayerRounds
<1>3. LayerRounds(t, layers, 0) = t
  <2>1. Repeat(block, 0) = <<>>
    BY <1>10, RepeatThree
  <2> QED
    BY <1>2, <2>1, JoinEmpty
<1>4. ASSUME NEW n \in Nat
      PROVE  LayerRounds(t, layers, n + 1)
               = Then(LayerRounds(t, layers, n), x, y, z)
  <2>1. n + 1 \in Nat
    OBVIOUS
  <2>2. PICK r : r = Repeat(block, n)
    OBVIOUS
  <2>3. IsSeq(r) /\ Repeat(block, n + 1) = Then(r, x, y, z)
    BY <1>10, <2>2, RepeatThree
  <2>4. t \o Then(r, x, y, z) = Then(t \o r, x, y, z)
    BY <2>3, JoinThree
  <2> QED
    BY <1>2, <2>1, <2>2, <2>3, <2>4
<1> QED
  BY <1>1, <1>3, <1>4 DEF Sample, Absorb, Then

LEMMA LayersInOrder ==
    ASSUME NEW t, NEW names, InOrder(t, names), NEW layers, NEW count \in Nat
    PROVE  InOrder(LayerRounds(t, layers, count), names)
<1> DEFINE S == {n \in Nat : InOrder(LayerRounds(t, layers, n), names)}
<1>0. IsSeq(t)
  BY DEF InOrder
<1>1. 0 \in S
  BY <1>0, LayersGrow
<1>2. ASSUME NEW n \in Nat, n \in S PROVE n + 1 \in S
  <2>1. PICK u : u = Sample(LayerRounds(t, layers, n), "lambda")
    OBVIOUS
  <2>2. InOrder(u, names)
    BY <1>2, <2>1, SampleInOrder DEF Binds
  <2>3. InOrder(Sample(Absorb(u, "layer", layers), "r"), names)
    BY <2>2, RoundInOrder
  <2>4. LayerRounds(t, layers, n + 1) = Sample(Absorb(u, "layer", layers), "r")
    BY <1>0, <2>1, LayersGrow
  <2> QED
    BY <2>3, <2>4
<1>3. \A n \in Nat : n \in S
  <2> HIDE DEF S
  <2> QED
    BY <1>1, <1>2, NatSetInduction
<1> QED
  BY <1>3

LEMMA PolysGrow ==
    ASSUME NEW t, IsSeq(t), NEW msgs
    PROVE  /\ ZerocheckRounds(t, msgs, 0) = t
           /\ \A n \in Nat :
                ZerocheckRounds(t, msgs, n + 1)
                  = Sample(Absorb(ZerocheckRounds(t, msgs, n), "round_poly", msgs), "zc")
<1>1. PICK x, y : x = <<"round_poly", msgs>> /\ y = <<"sample", "zc">>
  OBVIOUS
<1>9. PICK block : block = <<x, y>>
  OBVIOUS
<1>10. Len(block) = 2 /\ block[1] = x /\ block[2] = y
  BY <1>9
<1>2. \A n \in Nat : ZerocheckRounds(t, msgs, n) = t \o Repeat(block, n)
  BY <1>1, <1>9 DEF ZerocheckRounds
<1>3. ZerocheckRounds(t, msgs, 0) = t
  <2>1. Repeat(block, 0) = <<>>
    BY <1>10, RepeatTwo
  <2> QED
    BY <1>2, <2>1, JoinEmpty
<1>4. ASSUME NEW n \in Nat
      PROVE  ZerocheckRounds(t, msgs, n + 1)
               = Append(Append(ZerocheckRounds(t, msgs, n), x), y)
  <2>1. n + 1 \in Nat
    OBVIOUS
  <2>2. PICK r : r = Repeat(block, n)
    OBVIOUS
  <2>3. IsSeq(r) /\ Repeat(block, n + 1) = Append(Append(r, x), y)
    BY <1>10, <2>2, RepeatTwo
  <2>4. t \o Append(Append(r, x), y) = Append(Append(t \o r, x), y)
    BY <2>3, JoinTwo
  <2> QED
    BY <1>2, <2>1, <2>2, <2>3, <2>4
<1> QED
  BY <1>1, <1>3, <1>4 DEF Sample, Absorb

LEMMA PolysInOrder ==
    ASSUME NEW t, NEW names, InOrder(t, names), NEW msgs, NEW count \in Nat
    PROVE  InOrder(ZerocheckRounds(t, msgs, count), names)
<1> DEFINE S == {n \in Nat : InOrder(ZerocheckRounds(t, msgs, n), names)}
<1>0. IsSeq(t)
  BY DEF InOrder
<1>1. 0 \in S
  BY <1>0, PolysGrow
<1>2. ASSUME NEW n \in Nat, n \in S PROVE n + 1 \in S
  <2>1. InOrder(Sample(Absorb(ZerocheckRounds(t, msgs, n), "round_poly", msgs), "zc"), names)
    BY <1>2, RoundInOrder
  <2> QED
    BY <1>0, <2>1, PolysGrow
<1>3. \A n \in Nat : n \in S
  <2> HIDE DEF S
  <2> QED
    BY <1>1, <1>2, NatSetInduction
<1> QED
  BY <1>3

\* The outer rounds of the jagged evaluation.
OuterAfter(t, msgs, n) ==
    t \o Repeat(<<<<"outer_poly", msgs>>, <<"sample", "z_final">>>>, n)

LEMMA OuterGrows ==
    ASSUME NEW t, IsSeq(t), NEW msgs
    PROVE  /\ OuterAfter(t, msgs, 0) = t
           /\ \A n \in Nat :
                OuterAfter(t, msgs, n + 1)
                  = Sample(Absorb(OuterAfter(t, msgs, n), "outer_poly", msgs), "z_final")
<1>1. PICK x, y : x = <<"outer_poly", msgs>> /\ y = <<"sample", "z_final">>
  OBVIOUS
<1>9. PICK block : block = <<x, y>>
  OBVIOUS
<1>10. Len(block) = 2 /\ block[1] = x /\ block[2] = y
  BY <1>9
<1>2. \A n \in Nat : OuterAfter(t, msgs, n) = t \o Repeat(block, n)
  BY <1>1, <1>9 DEF OuterAfter
<1>3. OuterAfter(t, msgs, 0) = t
  <2>1. Repeat(block, 0) = <<>>
    BY <1>10, RepeatTwo
  <2> QED
    BY <1>2, <2>1, JoinEmpty
<1>4. ASSUME NEW n \in Nat
      PROVE  OuterAfter(t, msgs, n + 1) = Append(Append(OuterAfter(t, msgs, n), x), y)
  <2>1. n + 1 \in Nat
    OBVIOUS
  <2>2. PICK r : r = Repeat(block, n)
    OBVIOUS
  <2>3. IsSeq(r) /\ Repeat(block, n + 1) = Append(Append(r, x), y)
    BY <1>10, <2>2, RepeatTwo
  <2>4. t \o Append(Append(r, x), y) = Append(Append(t \o r, x), y)
    BY <2>3, JoinTwo
  <2> QED
    BY <1>2, <2>1, <2>2, <2>3, <2>4
<1> QED
  BY <1>1, <1>3, <1>4 DEF Sample, Absorb

LEMMA OuterInOrder ==
    ASSUME NEW t, NEW names, InOrder(t, names), NEW msgs, NEW count \in Nat
    PROVE  InOrder(OuterAfter(t, msgs, count), names)
<1> DEFINE S == {n \in Nat : InOrder(OuterAfter(t, msgs, n), names)}
<1>0. IsSeq(t)
  BY DEF InOrder
<1>1. 0 \in S
  BY <1>0, OuterGrows
<1>2. ASSUME NEW n \in Nat, n \in S PROVE n + 1 \in S
  <2>1. PICK u : u = Absorb(OuterAfter(t, msgs, n), "outer_poly", msgs)
    OBVIOUS
  <2>2. InOrder(u, names \cup {"outer_poly"})
    BY <1>2, <2>1, AbsorbInOrder
  <2>3. InOrder(u, names)
    BY <2>2 DEF InOrder
  <2>4. InOrder(Sample(u, "z_final"), names)
    BY <2>3, SampleInOrder DEF Binds
  <2> QED
    BY <1>0, <2>1, <2>4, OuterGrows
<1>3. \A n \in Nat : n \in S
  <2> HIDE DEF S
  <2> QED
    BY <1>1, <1>2, NatSetInduction
<1> QED
  BY <1>3

-----------------------------------------------------------------------------
(* The stages of either role keep their transcript in order.               *)

LEMMA Names ==
    /\ Binds["alpha"] = {"vk", "public_values", "commitment", "chip_metadata", "pow_witness"}
    /\ Binds["z1"] = {"numerator", "denominator"}
    /\ Binds["batching"] = {"chip_openings"}
    /\ Binds["z_col"] = {"opened_values"}
    /\ Binds["queries"] = {"inner", "stacked_open"}
    /\ DOMAIN Binds = {"alpha", "z1", "r", "batching", "zc", "z_col", "queries"}
  BY DEF Binds

LEMMA FewerNames ==
    ASSUME NEW t, NEW names, InOrder(t, names), NEW fewer \in SUBSET names
    PROVE  InOrder(t, fewer)
  BY DEF InOrder

PreambleNames == {"vk", "public_values", "commitment", "chip_metadata"}

LEMMA PreambleInOrder ==
    ASSUME NEW claim, NEW commitment
    PROVE  InOrder(AbsorbPreamble(Empty, claim, commitment), PreambleNames)
<1>1. InOrder(Empty, {})
  <2>1. Empty = <<>> /\ Len(Empty) = 0 /\ IsSeq(Empty)
    BY DEF Empty, IsSeq
  <2>2. \A c : Drawn(Empty, c) = {} /\ Absorbed(Empty, c) = {}
    BY <2>1 DEF Drawn, Absorbed
  <2>3. Even(Empty)
    BY <2>2 DEF Even
  <2>4. \A i \in 1..Len(Empty) : BoundAt(Empty, i)
    BY <2>1
  <2> QED
    BY <2>1, <2>3, <2>4 DEF InOrder
<1>2. PICK u, v, w, x :
        /\ u = Absorb(Empty, "vk", claim.vk) /\ v = Absorb(u, "public_values", claim.pv)
        /\ w = Absorb(v, "commitment", commitment)
        /\ x = Absorb(w, "chip_metadata", PreambleStream(claim))
  OBVIOUS
<1>3. InOrder(u, {"vk"})
  <2>1. InOrder(u, {} \cup {"vk"})
    BY <1>1, <1>2, AbsorbInOrder
  <2> QED
    BY <2>1, FewerNames
<1>4. InOrder(v, {"vk"} \cup {"public_values"})
  BY <1>2, <1>3, AbsorbInOrder
<1>5. InOrder(w, ({"vk"} \cup {"public_values"}) \cup {"commitment"})
  BY <1>2, <1>4, AbsorbInOrder
<1>6. InOrder(x, (({"vk"} \cup {"public_values"}) \cup {"commitment"}) \cup {"chip_metadata"})
  BY <1>2, <1>5, AbsorbInOrder
<1>7. PreambleNames
        \in SUBSET ((({"vk"} \cup {"public_values"}) \cup {"commitment"}) \cup {"chip_metadata"})
  BY DEF PreambleNames
<1> QED
  BY <1>2, <1>6, <1>7, FewerNames DEF AbsorbPreamble

LEMMA HeadInOrder ==
    ASSUME NEW t, InOrder(t, PreambleNames), NEW witness
    PROVE  InOrder(SampleHead(AbsorbGrind(t, witness)), PreambleNames)
<1>1. PICK u, v, w, x :
        /\ u = Absorb(t, "pow_witness", witness) /\ v = Sample(u, "alpha")
        /\ w = SamplePoint(v, "beta", CeilLog2(NumBetas)) /\ x = Sample(w, "pv")
  OBVIOUS
<1>2. PICK names : names = PreambleNames \cup {"pow_witness"}
  OBVIOUS
<1>3. InOrder(u, names)
  BY <1>1, <1>2, AbsorbInOrder
<1>4. InOrder(v, names)
  <2>1. Binds["alpha"] \subseteq names
    BY <1>2, Names DEF PreambleNames
  <2> QED
    BY <1>1, <1>3, <2>1, SampleInOrder
<1>5. InOrder(w, names)
  <2>1. CeilLog2(NumBetas) \in Nat
    BY ScheduleAssumption, CeilLog2Def
  <2>2. "beta" \notin DOMAIN Binds
    BY Names
  <2> QED
    BY <1>1, <1>4, <2>1, <2>2, PointInOrder
<1>6. InOrder(x, names)
  <2>1. "pv" \notin DOMAIN Binds
    BY Names
  <2> QED
    BY <1>1, <1>5, <2>1, SampleInOrder
<1>7. PreambleNames \in SUBSET names
  BY <1>2
<1> QED
  BY <1>1, <1>6, <1>7, FewerNames DEF SampleHead, AbsorbGrind

LEMMA CircuitInOrder ==
    ASSUME NEW t, NEW names, InOrder(t, names), NEW output, NEW size \in Nat
    PROVE  InOrder(BindCircuitOutput(t, output, size), names)
<1>1. PICK u, v, w, x, y :
        /\ u = Absorb(t, "length", size) /\ v = Absorb(u, "numerator", output)
        /\ w = Absorb(v, "length", size) /\ x = Absorb(w, "denominator", output)
        /\ y = SamplePoint(x, "z1", CeilLog2(size))
  OBVIOUS
<1>2. PICK A, B, C, D :
        /\ A = names \cup {"length"} /\ B = A \cup {"numerator"}
        /\ C = B \cup {"length"} /\ D = C \cup {"denominator"}
  OBVIOUS
<1>3. InOrder(u, A)
  BY <1>1, <1>2, AbsorbInOrder
<1>4. InOrder(v, B)
  BY <1>1, <1>2, <1>3, AbsorbInOrder
<1>5. InOrder(w, C)
  BY <1>1, <1>2, <1>4, AbsorbInOrder
<1>6. InOrder(x, D)
  BY <1>1, <1>2, <1>5, AbsorbInOrder
<1>7. Binds["z1"] \subseteq D /\ names \in SUBSET D
  BY <1>2, Names
<1>8. CeilLog2(size) \in Nat
  BY CeilLog2Def
<1>9. InOrder(y, D)
  BY <1>1, <1>6, <1>7, <1>8, PointInOrder
<1> QED
  BY <1>1, <1>7, <1>9, FewerNames DEF BindCircuitOutput

LEMMA LayerPointInOrder ==
    ASSUME NEW t, InOrder(t, PreambleNames), NEW witness, NEW output, NEW size \in Nat,
           NEW layers, NEW bound,
           bound = BindCircuitOutput(SampleHead(AbsorbGrind(t, witness)), output, size)
    PROVE  InOrder(LayerRounds(bound, layers, RowVars), PreambleNames)
<1>1. InOrder(bound, PreambleNames)
  BY HeadInOrder, CircuitInOrder
<1> QED
  BY <1>1, StageAssumption, LayersInOrder

LEMMA GkrInOrder ==
    ASSUME NEW t, InOrder(t, PreambleNames), NEW witness, NEW output, NEW size \in Nat,
           NEW layers, NEW openings, NEW chips,
           NEW bound,
           bound = BindCircuitOutput(SampleHead(AbsorbGrind(t, witness)), output, size)
    PROVE  InOrder(AbsorbChipOpenings(LayerRounds(bound, layers, RowVars), openings, chips),
                   {"chip_openings"})
<1>1. PICK u : u = LayerRounds(bound, layers, RowVars)
  OBVIOUS
<1>2. InOrder(u, PreambleNames)
  BY <1>1, LayerPointInOrder
<1>3. PICK flat : flat = FlatOpenings(openings, chips, FALSE)
  OBVIOUS
<1>4. InOrder(Absorb(u, "chip_openings", flat), PreambleNames \cup {"chip_openings"})
  BY <1>2, AbsorbInOrder
<1>5. InOrder(Absorb(u, "chip_openings", flat), {"chip_openings"})
  BY <1>4, FewerNames
<1> QED
  BY <1>1, <1>3, <1>5 DEF AbsorbChipOpenings

LEMMA StageInOrder ==
    ASSUME NEW t, InOrder(t, {"chip_openings"})
    PROVE  InOrder(SampleStageChallenges(t), {"chip_openings"})
<1>1. PICK u, v, w : /\ u = Sample(t, "batching") /\ v = Sample(u, "gkr_batch")
                     /\ w = Sample(v, "lambda_chips")
  OBVIOUS
<1>2. InOrder(u, {"chip_openings"})
  BY <1>1, Names, SampleInOrder
<1>3. "gkr_batch" \notin DOMAIN Binds /\ "lambda_chips" \notin DOMAIN Binds
  BY Names
<1>4. InOrder(v, {"chip_openings"})
  BY <1>1, <1>2, <1>3, SampleInOrder
<1>5. InOrder(w, {"chip_openings"})
  BY <1>1, <1>3, <1>4, SampleInOrder
<1> QED
  BY <1>1, <1>5 DEF SampleStageChallenges

LEMMA ZerocheckInOrder ==
    ASSUME NEW t, InOrder(t, {"chip_openings"}), NEW msgs, NEW opened, NEW chips
    PROVE  InOrder(AbsorbOpenedValues(ZerocheckRounds(SampleStageChallenges(t), msgs, MaxLog),
                                      opened, chips),
                   {"opened_values"})
<1>1. PICK x : x = ZerocheckRounds(SampleStageChallenges(t), msgs, MaxLog)
  OBVIOUS
<1>2. InOrder(x, {"chip_openings"})
  BY <1>1, StageInOrder, StageAssumption, PolysInOrder
<1>3. PICK flat : flat = FlatOpenings(opened, chips, TRUE)
  OBVIOUS
<1>4. InOrder(Absorb(x, "opened_values", flat), {"chip_openings"} \cup {"opened_values"})
  BY <1>2, AbsorbInOrder
<1>5. InOrder(Absorb(x, "opened_values", flat), {"opened_values"})
  BY <1>4, FewerNames
<1> QED
  BY <1>1, <1>3, <1>5 DEF AbsorbOpenedValues

LEMMA OpeningInOrder ==
    ASSUME NEW t, InOrder(t, {"opened_values"}), NEW columns, CeilLog2(columns) \in Nat,
           NEW msgs, NEW outer \in Nat, NEW open
    PROVE  InOrder(OpenRounds(EvalRounds(SampleColumns(t, columns), msgs, outer), open), {})
<1>1. PICK u, v, w, x, y, z :
        /\ u = SamplePoint(t, "z_col", CeilLog2(columns)) /\ v = OuterAfter(u, msgs, outer)
        /\ w = Absorb(v, "inner", msgs) /\ x = Sample(w, "inner_point")
        /\ y = Absorb(x, "stacked_open", open) /\ z = Sample(y, "queries")
  OBVIOUS
<1>2. InOrder(u, {"opened_values"})
  BY <1>1, Names, PointInOrder
<1>3. InOrder(v, {"opened_values"})
  BY <1>1, <1>2, OuterInOrder
<1>4. InOrder(w, {"opened_values"} \cup {"inner"})
  BY <1>1, <1>3, AbsorbInOrder
<1>5. InOrder(x, {"opened_values"} \cup {"inner"})
  <2>1. "inner_point" \notin DOMAIN Binds
    BY Names
  <2> QED
    BY <1>1, <1>4, <2>1, SampleInOrder
<1>6. InOrder(y, ({"opened_values"} \cup {"inner"}) \cup {"stacked_open"})
  BY <1>1, <1>5, AbsorbInOrder
<1>7. Binds["queries"] \subseteq ({"opened_values"} \cup {"inner"}) \cup {"stacked_open"}
  BY Names
<1>8. InOrder(z, ({"opened_values"} \cup {"inner"}) \cup {"stacked_open"})
  BY <1>1, <1>6, <1>7, SampleInOrder
<1>9. InOrder(z, {})
  BY <1>8, FewerNames
<1> QED
  BY <1>1, <1>9 DEF OpenRounds, EvalRounds, SampleColumns, OuterAfter

LEMMA ProverInOrder ==
    ASSUME NEW id \in Id
    PROVE  /\ InOrder(AfterBind(id), PreambleNames)
           /\ InOrder(GkrOf(id).t, {"chip_openings"})
           /\ InOrder(ZerocheckOf(id).t, {"opened_values"})
<1>1. InOrder(AfterBind(id), PreambleNames)
  BY PreambleInOrder DEF AfterBind
<1>2. InOrder(GkrOf(id).t, {"chip_openings"})
  <2>1. PICK t, order, size, witness :
            /\ t = AfterBind(id) /\ order = Shard[id].main.order
            /\ size = OutputSize(order) /\ witness = Witness(Shard[id], t)
    OBVIOUS
  <2>2. size \in Nat
    BY <2>1, ShardAssumption, InteractionVarsNat
  <2>3. PICK bound : bound = BindCircuitOutput(SampleHead(AbsorbGrind(t, witness)), id, size)
    OBVIOUS
  <2>4. PICK openings : openings = [of |-> id, at |-> LayerRounds(bound, id, RowVars),
                                    widths |-> OpenedWidths(Shard[id])]
    OBVIOUS
  <2>5. GkrOf(id).t = AbsorbChipOpenings(LayerRounds(bound, id, RowVars), openings, order)
    BY <2>1, <2>3, <2>4 DEF GkrOf, GkrProve
  <2>6. InOrder(t, PreambleNames)
    BY <1>1, <2>1
  <2> QED
    BY <2>2, <2>3, <2>5, <2>6, GkrInOrder
<1>3. InOrder(ZerocheckOf(id).t, {"opened_values"})
  <2>1. PICK t : t = GkrOf(id).t
    OBVIOUS
  <2>2. PICK opened :
            opened = [of |-> id, at |-> ZerocheckRounds(SampleStageChallenges(t), id, MaxLog),
                      widths |-> OpenedWidths(Shard[id])]
    OBVIOUS
  <2>3. ZerocheckOf(id).t
          = AbsorbOpenedValues(ZerocheckRounds(SampleStageChallenges(t), id, MaxLog),
                               opened, Shard[id].main.order)
    BY <2>1, <2>2 DEF ZerocheckOf, ZerocheckProve
  <2> QED
    BY <1>2, <2>1, <2>3, ZerocheckInOrder
<1> QED
  BY <1>1, <1>2, <1>3

LEMMA VerifierInOrder ==
    ASSUME NEW id \in Id, NEW a \in Assemblies, a.from["gkr"] \in Id, NEW pv
    PROVE  /\ InOrder(Started(id, a), PreambleNames)
           /\ InOrder(GkrDual(id, a, pv).t, {"chip_openings"})
           /\ InOrder(ZerocheckDual(id, a, pv).t, {"opened_values"})
           /\ InOrder(OpeningDual(id, a, pv).t, {})
<1>1. InOrder(Started(id, a), PreambleNames)
  BY PreambleInOrder DEF Started
<1>2. InOrder(GkrDual(id, a, pv).t, {"chip_openings"})
  <2>1. PICK t, proof : t = Started(id, a) /\ proof = Given(a).gkr
    OBVIOUS
  <2>2. proof.output.size \in Nat
    <3>1. proof.output.size = OutputSize(Shard[a.from["gkr"]].main.order)
      BY <2>1, GivenShape
    <3> QED
      BY <3>1, ShardAssumption, InteractionVarsNat
  <2>3. PICK bound : bound = BindCircuitOutput(SampleHead(AbsorbGrind(t, proof.pow)),
                                               proof.output.of, proof.output.size)
    OBVIOUS
  <2>4. GkrDual(id, a, pv).t
          = AbsorbChipOpenings(LayerRounds(bound, proof.layers.of, RowVars),
                               proof.openings, ChipNames)
    BY <2>1, <2>3 DEF GkrDual, GkrVerify
  <2>5. InOrder(t, PreambleNames)
    BY <1>1, <2>1
  <2> QED
    BY <2>2, <2>3, <2>4, <2>5, GkrInOrder
<1>3. InOrder(ZerocheckDual(id, a, pv).t, {"opened_values"})
  <2>1. PICK t, proof : t = GkrDual(id, a, pv).t /\ proof = Given(a).zerocheck
    OBVIOUS
  <2>2. ZerocheckDual(id, a, pv).t
          = AbsorbOpenedValues(ZerocheckRounds(SampleStageChallenges(t), proof.msgs.of, MaxLog),
                               proof.opened, ChipNames)
    BY <2>1 DEF ZerocheckDual, ZerocheckVerify
  <2> QED
    BY <1>2, <2>1, <2>2, ZerocheckInOrder
<1>4. InOrder(OpeningDual(id, a, pv).t, {})
  <2>1. PICK t, proof, statement :
            /\ t = ZerocheckDual(id, a, pv).t /\ proof = Given(a).jagged
            /\ statement = Shard[id].claim
    OBVIOUS
  <2>2. PICK columns, area : /\ columns = Columns(Manifest(statement))
                             /\ area = RawArea(Manifest(statement))
    OBVIOUS
  <2>3. columns \in Nat /\ area \in Nat
    BY <2>1, <2>2, ManifestTyped, RegionsNat
  <2>4. CeilLog2(columns) \in Nat /\ CeilLog2(area) \in Nat
    BY <2>3, CeilLog2Def
  <2>5. OuterRounds(statement) = CeilLog2(area)
    BY <2>2 DEF OuterRounds
  <2>6. OpeningDual(id, a, pv).t
          = OpenRounds(EvalRounds(SampleColumns(t, columns), proof.eval.of, CeilLog2(area)),
                       proof.open.of)
    BY <2>1, <2>2, <2>5 DEF OpeningDual, OpeningVerify
  <2> QED
    BY <1>3, <2>1, <2>4, <2>6, OpeningInOrder
<1> QED
  BY <1>1, <1>2, <1>3, <1>4

LEMMA InOrderBinds ==
    ASSUME NEW t, NEW names, InOrder(t, names)
    PROVE  \A i \in DOMAIN t : BoundAt(t, i)
<1>1. DOMAIN t = 1..Len(t)
  BY DEF InOrder, IsSeq
<1> QED
  BY <1>1 DEF InOrder

LEMMA DrawsInOrder == ASSUME ChainInv PROVE BoundBeforeDrawn
<1>1. \A i \in DOMAIN Empty : BoundAt(Empty, i)
  BY DEF Empty
<1>2. ASSUME prover.at \notin {"idle", "raised"}
      PROVE  \A i \in DOMAIN prover.t : BoundAt(prover.t, i)
  <2>1. PICK id \in Id : Proving(id)
    BY <1>2 DEF ChainInv, ProverInv, Idle
  <2>2. prover.t \in {Empty, AfterBind(id), GkrOf(id).t, ZerocheckOf(id).t}
    BY <2>1 DEF Proving, ProverAt
  <2> QED
    BY <1>1, <2>2, ProverInOrder, InOrderBinds
<1>3. ASSUME verifier.at # "idle"
      PROVE  \A i \in DOMAIN verifier.t : BoundAt(verifier.t, i)
  <2>1. PICK id \in Id, a \in Assemblies, pv \in BOOLEAN : Verifying(id, a, pv)
    BY <1>3 DEF ChainInv, VerifierInv, Idle
  <2>2. a.from["gkr"] \in Id
    BY DEF ChainInv, ProofsInv, Assemblies, Parts
  <2>3. verifier.t \in {Started(id, a), GkrDual(id, a, pv).t, ZerocheckDual(id, a, pv).t,
                        OpeningDual(id, a, pv).t}
    BY <2>1 DEF Verifying, OnStart, OnGkr, OnZerocheck, OnVerdict, VerifierAt
  <2> QED
    BY <2>2, <2>3, VerifierInOrder, InOrderBinds
<1> QED
  BY <1>1, <1>2, <1>3 DEF BoundBeforeDrawn

(***************************************************************************)
(* In a prove of any shard and in a verification of any assembled proof,   *)
(* no challenge is drawn before what it binds was absorbed, and a round's  *)
(* challenge follows its own message of every round so far: the order of   *)
(* the transcript calls in ShardProver.prove and ShardVerifier.verify.     *)
(***************************************************************************)
THEOREM ChainBoundBeforeDrawn == Spec => []BoundBeforeDrawn
<1>1. ChainInv => BoundBeforeDrawn
  BY DrawsInOrder
<1> QED
  BY <1>1, ChainInductive, PTL

-----------------------------------------------------------------------------
(* What an accepted proof is.                                              *)

\* What the duals derive over an assembled proof.
HeadOf(id, a) == SampleHead(AbsorbGrind(Started(id, a), Given(a).gkr.pow))
BoundOf(id, a) ==
    BindCircuitOutput(HeadOf(id, a), Given(a).gkr.output.of, Given(a).gkr.output.size)
GkrPoint(id, a) == LayerRounds(BoundOf(id, a), Given(a).gkr.layers.of, RowVars)
StageDrawn(id, a, pv) == SampleStageChallenges(GkrDual(id, a, pv).t)
StagePoint(id, a, pv) ==
    ZerocheckRounds(StageDrawn(id, a, pv), Given(a).zerocheck.msgs.of, MaxLog)

\* Every leg of every dual holds.
Satisfied(id, a, pv) ==
    GkrDual(id, a, pv).ok /\ ZerocheckDual(id, a, pv).ok /\ OpeningDual(id, a, pv).ok

LEMMA GkrSays ==
    ASSUME NEW id, NEW a, NEW pv, Satisfied(id, a, pv)
    PROVE  LET proof == Given(a).gkr
               claim == Shard[id].claim
           IN  /\ proof.output.of \in Id /\ proof.output.at = HeadOf(id, a)
               /\ proof.layers.of = proof.output.of
               /\ proof.point = GkrPoint(id, a)
               /\ proof.openings.of = proof.layers.of
               /\ pv => /\ Shard[proof.output.of].balanced
                        /\ claim.pv \in WellFormed
<1>1. PICK claim, proof, t, head, bound, point :
          /\ claim = Shard[id].claim /\ proof = Given(a).gkr /\ t = Started(id, a)
          /\ head = HeadOf(id, a) /\ bound = BoundOf(id, a) /\ point = GkrPoint(id, a)
  OBVIOUS
<1>2. /\ head = SampleHead(AbsorbGrind(t, proof.pow))
      /\ bound = BindCircuitOutput(head, proof.output.of, proof.output.size)
      /\ point = LayerRounds(bound, proof.layers.of, RowVars)
  BY <1>1 DEF HeadOf, BoundOf, GkrPoint
<1>3. GkrVerify(claim, proof, t, pv).ok
  BY <1>1 DEF Satisfied, GkrDual
<1>4. GkrLegs(claim, proof, t, pv, head, bound, point)
  BY <1>2, <1>3, GkrVerdict
<1> QED
  BY <1>1, <1>4 DEF GkrLegs, Answers, Made

LEMMA ZerocheckSays ==
    ASSUME NEW id, NEW a, NEW pv, Satisfied(id, a, pv)
    PROVE  LET proof == Given(a).zerocheck
           IN  /\ proof.challenges = StageDrawn(id, a, pv)
               /\ proof.sum = <<Given(a).gkr.openings.of, StageDrawn(id, a, pv)>>
               /\ proof.point = StagePoint(id, a, pv)
               /\ proof.opened.of \in Id /\ proof.opened.of = proof.msgs.of
               /\ Given(a).gkr.openings.of = proof.msgs.of
               /\ Shard[proof.opened.of].satisfied
<1>1. PICK statement, claim, proof, t, drawn, point :
          /\ statement = Shard[id].claim /\ claim = GkrDual(id, a, pv).claim
          /\ proof = Given(a).zerocheck /\ t = GkrDual(id, a, pv).t
          /\ drawn = StageDrawn(id, a, pv) /\ point = StagePoint(id, a, pv)
  OBVIOUS
<1>2. /\ drawn = SampleStageChallenges(t)
      /\ point = ZerocheckRounds(drawn, proof.msgs.of, MaxLog)
  BY <1>1 DEF StageDrawn, StagePoint
<1>3. ZerocheckVerify(statement, claim, proof, t).ok
  BY <1>1 DEF Satisfied, ZerocheckDual
<1>4. ZerocheckLegs(statement, claim, proof, drawn, point)
  BY <1>2, <1>3, ZerocheckVerdict
<1>5. claim.openings = Given(a).gkr.openings
  BY <1>1 DEF GkrDual, GkrVerify
<1> QED
  BY <1>1, <1>4, <1>5 DEF ZerocheckLegs, Answers, Made

LEMMA OpeningSays ==
    ASSUME NEW id, NEW a, NEW pv, Satisfied(id, a, pv)
    PROVE  LET proof == Given(a).jagged
               manifest == Manifest(Shard[id].claim)
           IN  /\ proof.eval.of \in Id
               /\ proof.eval.of = Given(a).zerocheck.opened.of
               /\ proof.eval.structures = manifest
               /\ \A i \in DOMAIN manifest :
                      Root(proof.open.components[i], manifest[i])
                        = InRoundOrder(RootsOf(id, a))[i]
<1>1. PICK statement, claim, roots, proof, t :
          /\ statement = Shard[id].claim /\ claim = ZerocheckDual(id, a, pv).claim
          /\ roots = RootsOf(id, a) /\ proof = Given(a).jagged
          /\ t = ZerocheckDual(id, a, pv).t
  OBVIOUS
<1>2. PICK manifest, drawn, bound :
          /\ manifest = Manifest(statement) /\ drawn = SampleColumns(t, Columns(manifest))
          /\ bound = InRoundOrder(roots)
  BY <1>1
<1>3. PICK point : point = EvalRounds(drawn, proof.eval.of, OuterRounds(statement))
  OBVIOUS
<1>4. OpeningVerify(statement, claim, roots, proof, t).ok
  BY <1>1 DEF Satisfied, OpeningDual
<1>5. OpeningLegs(claim, proof, manifest, drawn, point, bound)
  BY <1>2, <1>3, <1>4, OpeningVerdict
<1>6. claim.opened = Given(a).zerocheck.opened
  BY <1>1 DEF ZerocheckDual, ZerocheckVerify
<1> QED
  BY <1>1, <1>2, <1>5, <1>6 DEF OpeningLegs, Answers, Made

\* A transcript with something in it is not the empty one.
LEMMA NotEmpty ==
    ASSUME NEW t, NEW names, NEW name \in names, InOrder(t, names)
    PROVE  t # Empty
<1>1. Has(t, name)
  BY DEF InOrder
<1> QED
  BY <1>1 DEF Has, Empty

\* The points and challenges the duals derive are ones that were drawn.
LEMMA DrawnNotEmpty ==
    ASSUME NEW id \in Id, NEW a \in Assemblies, a.from["gkr"] \in Id, NEW pv
    PROVE  /\ GkrPoint(id, a) # Empty
           /\ StageDrawn(id, a, pv) # Empty
           /\ StagePoint(id, a, pv) # Empty
<1>1. GkrPoint(id, a) # Empty
  <2>1. PICK proof : proof = Given(a).gkr
    OBVIOUS
  <2>2. proof.output.size \in Nat
    <3>1. proof.output.size = OutputSize(Shard[a.from["gkr"]].main.order)
      BY <2>1, GivenShape
    <3> QED
      BY <3>1, ShardAssumption, InteractionVarsNat
  <2>3. InOrder(Started(id, a), PreambleNames)
    BY VerifierInOrder
  <2>4. BoundOf(id, a)
          = BindCircuitOutput(SampleHead(AbsorbGrind(Started(id, a), proof.pow)),
                              proof.output.of, proof.output.size)
    BY <2>1 DEF BoundOf, HeadOf
  <2>5. InOrder(LayerRounds(BoundOf(id, a), proof.layers.of, RowVars), PreambleNames)
    BY <2>2, <2>3, <2>4, LayerPointInOrder
  <2>6. GkrPoint(id, a) = LayerRounds(BoundOf(id, a), proof.layers.of, RowVars)
    BY <2>1 DEF GkrPoint
  <2>7. "vk" \in PreambleNames
    BY DEF PreambleNames
  <2> QED
    BY <2>5, <2>6, <2>7, NotEmpty
<1>2. PICK t, drawn : t = GkrDual(id, a, pv).t /\ drawn = StageDrawn(id, a, pv)
  OBVIOUS
<1>3. InOrder(t, {"chip_openings"})
  BY <1>2, VerifierInOrder
<1>4. InOrder(drawn, {"chip_openings"})
  <2>1. drawn = SampleStageChallenges(t)
    BY <1>2 DEF StageDrawn
  <2> QED
    BY <1>3, <2>1, StageInOrder
<1>5. InOrder(ZerocheckRounds(drawn, Given(a).zerocheck.msgs.of, MaxLog), {"chip_openings"})
  BY <1>4, StageAssumption, PolysInOrder
<1>6. "chip_openings" \in {"chip_openings"}
  OBVIOUS
<1>7. StagePoint(id, a, pv) = ZerocheckRounds(drawn, Given(a).zerocheck.msgs.of, MaxLog)
  BY <1>2 DEF StagePoint
<1>8. drawn # Empty
  BY <1>4, <1>6, NotEmpty
<1>9. StagePoint(id, a, pv) # Empty
  BY <1>5, <1>6, <1>7, NotEmpty
<1> QED
  BY <1>1, <1>2, <1>8, <1>9

\* Whatever is stale in a proof, some leg fails over it.
LEMMA NothingStale ==
    ASSUME NEW id \in Id, NEW a \in Assemblies, a.from["gkr"] \in Id, NEW pv,
           Satisfied(id, a, pv)
    PROVE  a.stale = "none"
<1>1. PICK given : given = Given(a)
  OBVIOUS
<1>2. /\ given.gkr.output.of \in Id /\ given.gkr.layers.of \in Id
      /\ given.gkr.openings.of \in Id /\ given.gkr.point = GkrPoint(id, a)
  BY <1>1, GkrSays
<1>3. /\ given.zerocheck.challenges = StageDrawn(id, a, pv)
      /\ given.zerocheck.sum = <<given.gkr.openings.of, StageDrawn(id, a, pv)>>
      /\ given.zerocheck.point = StagePoint(id, a, pv)
      /\ given.zerocheck.opened.of \in Id
  BY <1>1, ZerocheckSays
<1>4. given.jagged.eval.of \in Id
  BY <1>1, OpeningSays
<1>5. /\ given.gkr.point # Empty /\ given.zerocheck.challenges # Empty
      /\ given.zerocheck.point # Empty
  BY <1>2, <1>3, DrawnNotEmpty
<1>6. given.zerocheck.sum # <<Tampered, Empty>>
  <2>1. given.gkr.openings.of # Tampered
    BY <1>2, StageAssumption
  <2>2. PICK x, y, z, e : /\ x = given.gkr.openings.of /\ y = StageDrawn(id, a, pv)
                          /\ z = Tampered /\ e = Empty
    OBVIOUS
  <2>3. x # z => <<x, y>> # <<z, e>>
    OBVIOUS
  <2> QED
    BY <1>3, <2>1, <2>2, <2>3
<1>7. Tampered \notin Id
  BY StageAssumption
<1>8. StaleValues(a)
  BY GivenShape
<1>9. a.stale \in Fields
  <2>1. a.stale \in Stale \cup {"none"}
    BY DEF Assemblies
  <2> QED
    BY <2>1, StaleAssumption DEF Fields
<1> QED
  BY <1>1, <1>2, <1>3, <1>4, <1>5, <1>6, <1>7, <1>8, <1>9 DEF StaleValues, Fields

\* t is how u starts.
Starts(t, u) ==
    /\ IsSeq(t) /\ IsSeq(u) /\ Len(t) \in Nat /\ Len(u) \in Nat /\ Len(t) <= Len(u)
    /\ \A i \in 1..Len(t) : u[i] = t[i]

LEMMA StartsAppend ==
    ASSUME NEW t, NEW u, Starts(t, u), NEW e
    PROVE  Starts(t, Append(u, e))
<1>1. PICK w : w = Append(u, e)
  OBVIOUS
<1>2. /\ IsSeq(w) /\ Len(w) = Len(u) + 1 /\ \A i \in 1..Len(u) : w[i] = u[i]
  BY <1>1, Longer DEF Starts
<1>3. Starts(t, w)
  BY <1>2 DEF Starts
<1> QED
  BY <1>1, <1>3

LEMMA StartsJoin ==
    ASSUME NEW t, NEW u, Starts(t, u), NEW s, IsSeq(s)
    PROVE  Starts(t, u \o s)
<1>1. PICK T, U : u \in Seq(T) /\ s \in Seq(U)
  BY DEF IsSeq, Starts
<1>2. PICK S : S = T \cup U
  OBVIOUS
<1>3. u \in Seq(S) /\ s \in Seq(S)
  <2>1. u \in [1..Len(u) -> T] /\ Len(u) \in Nat /\ s \in [1..Len(s) -> U] /\ Len(s) \in Nat
    BY <1>1
  <2>2. u \in [1..Len(u) -> S] /\ s \in [1..Len(s) -> S]
    BY <1>2, <2>1
  <2> QED
    BY <1>2, <2>1, <2>2
<1>4. PICK w : w = u \o s
  OBVIOUS
<1>5. w \in Seq(S) /\ Len(w) = Len(u) + Len(s) /\ \A i \in 1..Len(u) : w[i] = u[i]
  BY <1>3, <1>4, ConcatProperties
<1>6. Len(s) \in Nat
  BY <1>3
<1>7. Starts(t, w)
  BY <1>5, <1>6 DEF Starts, IsSeq
<1> QED
  BY <1>4, <1>7

\* The head of LogUp-GKR starts with the transcript it was sampled after.
LEMMA StartsHead ==
    ASSUME NEW t, IsSeq(t), NEW witness
    PROVE  Starts(t, SampleHead(AbsorbGrind(t, witness)))
<1>1. PICK e, f, g : /\ e = <<"pow_witness", witness>> /\ f = <<"sample", "alpha">>
                     /\ g = <<"sample", "pv">>
  OBVIOUS
<1>2. PICK p : p = [i \in 1..CeilLog2(NumBetas) |-> <<"sample", "beta">>]
  OBVIOUS
<1>3. IsSeq(p)
  <2>1. CeilLog2(NumBetas) \in Nat
    BY ScheduleAssumption, CeilLog2Def
  <2> QED
    BY <1>2, <2>1, TabulatedSeq
<1>4. PICK u, v, w, x : /\ u = Append(t, e) /\ v = Append(u, f) /\ w = v \o p
                        /\ x = Append(w, g)
  OBVIOUS
<1>5. Starts(t, t)
  BY DEF Starts, IsSeq
<1>6. Starts(t, u)
  BY <1>4, <1>5, StartsAppend
<1>7. Starts(t, v)
  BY <1>4, <1>6, StartsAppend
<1>8. Starts(t, w)
  BY <1>3, <1>4, <1>7, StartsJoin
<1>9. Starts(t, x)
  BY <1>4, <1>8, StartsAppend
<1>10. SampleHead(AbsorbGrind(t, witness)) = x
  BY <1>1, <1>2, <1>4 DEF SampleHead, AbsorbGrind, Sample, SamplePoint, Absorb
<1> QED
  BY <1>9, <1>10

\* The preamble of a statement and a commitment, token by token.
LEMMA PreambleTokens ==
    ASSUME NEW claim, NEW commitment, NEW t, t = AbsorbPreamble(Empty, claim, commitment)
    PROVE  /\ IsSeq(t) /\ Len(t) = 4
           /\ t[1] = <<"vk", claim.vk>> /\ t[2] = <<"public_values", claim.pv>>
           /\ t[3] = <<"commitment", commitment>>
           /\ t[4] = <<"chip_metadata", PreambleStream(claim)>>
<1>1. PICK p, q, r, s :
          /\ p = <<"vk", claim.vk>> /\ q = <<"public_values", claim.pv>>
          /\ r = <<"commitment", commitment>>
          /\ s = <<"chip_metadata", PreambleStream(claim)>>
  OBVIOUS
<1>2. PICK u, v, w, x : /\ u = Append(Empty, p) /\ v = Append(u, q)
                        /\ w = Append(v, r) /\ x = Append(w, s)
  OBVIOUS
<1>3. t = x
  BY <1>1, <1>2 DEF AbsorbPreamble, Absorb
<1>4. IsSeq(Empty) /\ Len(Empty) = 0
  BY DEF Empty, IsSeq
<1>5. IsSeq(u) /\ Len(u) = 1 /\ u[1] = p
  <2>1. /\ IsSeq(u) /\ Len(u) = Len(Empty) + 1 /\ u[Len(Empty) + 1] = p
    BY <1>2, <1>4, Longer
  <2> QED
    BY <1>4, <2>1
<1>6. IsSeq(v) /\ Len(v) = 2 /\ v[1] = p /\ v[2] = q
  <2>1. /\ IsSeq(v) /\ Len(v) = Len(u) + 1 /\ v[Len(u) + 1] = q
        /\ \A i \in 1..Len(u) : v[i] = u[i]
    BY <1>2, <1>5, Longer
  <2> QED
    BY <1>5, <2>1
<1>7. IsSeq(w) /\ Len(w) = 3 /\ w[1] = p /\ w[2] = q /\ w[3] = r
  <2>1. /\ IsSeq(w) /\ Len(w) = Len(v) + 1 /\ w[Len(v) + 1] = r
        /\ \A i \in 1..Len(v) : w[i] = v[i]
    BY <1>2, <1>6, Longer
  <2> QED
    BY <1>6, <2>1
<1>8. IsSeq(x) /\ Len(x) = 4 /\ x[1] = p /\ x[2] = q /\ x[3] = r /\ x[4] = s
  <2>1. /\ IsSeq(x) /\ Len(x) = Len(w) + 1 /\ x[Len(w) + 1] = s
        /\ \A i \in 1..Len(w) : x[i] = w[i]
    BY <1>2, <1>7, Longer
  <2> QED
    BY <1>7, <2>1
<1> QED
  BY <1>1, <1>3, <1>8

\* Two preambles are one only when their statements are.
LEMMA OneStatement ==
    ASSUME NEW id \in Id, NEW j \in Id,
           Shard[id].claim.vk = Shard[j].claim.vk, Shard[id].claim.pv = Shard[j].claim.pv,
           PreambleStream(Shard[id].claim) = PreambleStream(Shard[j].claim)
    PROVE  Shard[id].claim = Shard[j].claim
<1>1. PICK c, d : c = Shard[id].claim /\ d = Shard[j].claim
  OBVIOUS
<1>2. /\ c = [vk |-> c.vk, pv |-> c.pv, order |-> c.order, rows |-> c.rows]
      /\ c.order \in Seq(Chips) /\ c.rows \in [Range(c.order) -> Nat]
  BY <1>1, ShardAssumption
<1>3. /\ d = [vk |-> d.vk, pv |-> d.pv, order |-> d.order, rows |-> d.rows]
      /\ d.order \in Seq(Chips) /\ d.rows \in [Range(d.order) -> Nat]
  BY <1>1, ShardAssumption
<1>4. PICK o, r, p, q : o = c.order /\ r = c.rows /\ p = d.order /\ q = d.rows
  OBVIOUS
<1>5. [i \in DOMAIN o |-> <<o[i], r[o[i]]>>] = [i \in DOMAIN p |-> <<p[i], q[p[i]]>>]
  BY <1>1, <1>4 DEF PreambleStream
<1>6. PICK e, f : /\ e = [i \in DOMAIN o |-> <<o[i], r[o[i]]>>]
                  /\ f = [i \in DOMAIN p |-> <<p[i], q[p[i]]>>]
  OBVIOUS
<1>7. DOMAIN o = DOMAIN p
  <2>1. DOMAIN e = DOMAIN o /\ DOMAIN f = DOMAIN p
    BY <1>6
  <2> QED
    BY <1>5, <1>6, <2>1
<1>8. \A i \in DOMAIN o : o[i] = p[i] /\ r[o[i]] = q[p[i]]
  <2> SUFFICES ASSUME NEW i \in DOMAIN o PROVE o[i] = p[i] /\ r[o[i]] = q[p[i]]
    OBVIOUS
  <2>1. e[i] = <<o[i], r[o[i]]>> /\ f[i] = <<p[i], q[p[i]]>>
    BY <1>6, <1>7
  <2>2. e[i] = f[i]
    BY <1>5, <1>6
  <2>3. \A x, y, z, w : <<x, y>> = <<z, w>> => x = z /\ y = w
    OBVIOUS
  <2> QED
    BY <2>1, <2>2, <2>3
<1>9. o = p
  BY <1>2, <1>3, <1>4, <1>7, <1>8, SeqEqual
<1>10. r = q
  <2>1. r \in [Range(o) -> Nat] /\ q \in [Range(o) -> Nat]
    BY <1>2, <1>3, <1>4, <1>9
  <2>2. \A x \in Range(o) : r[x] = q[x]
    BY <1>8, <1>9 DEF Range
  <2> QED
    BY <2>1, <2>2
<1> QED
  BY <1>1, <1>2, <1>3, <1>4, <1>9, <1>10

\* The head binds the whole statement: heads that agree are of one statement.
LEMMA HeadBindsStatement ==
    ASSUME NEW id \in Id, NEW a, NEW j \in Id,
           GkrOf(j).proof.output.at = HeadOf(id, a)
    PROVE  Shard[j].claim = Shard[id].claim
<1>1. PICK c, d, t, u, m, n :
          /\ c = Shard[id].claim /\ d = Shard[j].claim
          /\ m = Given(a).commitment /\ n = Commitment(Shard[j])
          /\ t = AbsorbPreamble(Empty, c, m) /\ u = AbsorbPreamble(Empty, d, n)
  OBVIOUS
<1>2. PICK w, x, h : /\ w = Given(a).gkr.pow /\ x = Witness(Shard[j], u)
                     /\ h = SampleHead(AbsorbGrind(t, w))
  OBVIOUS
<1>3. h = SampleHead(AbsorbGrind(u, x))
  <2>1. h = HeadOf(id, a)
    BY <1>1, <1>2 DEF HeadOf, Started
  <2>2. u = AfterBind(j)
    BY <1>1 DEF AfterBind
  <2>3. GkrOf(j).proof.output.at = SampleHead(AbsorbGrind(u, x))
    BY <1>2, <2>2 DEF GkrOf, GkrProve
  <2> QED
    BY <2>1, <2>3
<1>4. /\ IsSeq(t) /\ Len(t) = 4 /\ t[1] = <<"vk", c.vk>> /\ t[2] = <<"public_values", c.pv>>
      /\ t[4] = <<"chip_metadata", PreambleStream(c)>>
  BY <1>1, PreambleTokens
<1>5. /\ IsSeq(u) /\ Len(u) = 4 /\ u[1] = <<"vk", d.vk>> /\ u[2] = <<"public_values", d.pv>>
      /\ u[4] = <<"chip_metadata", PreambleStream(d)>>
  BY <1>1, PreambleTokens
<1>6. Starts(t, h) /\ Starts(u, h)
  BY <1>2, <1>3, <1>4, <1>5, StartsHead
<1>7. t[1] = u[1] /\ t[2] = u[2] /\ t[4] = u[4]
  BY <1>4, <1>5, <1>6 DEF Starts
<1>8. \A x1, y1, z1 : <<x1, y1>> = <<x1, z1>> => y1 = z1
  OBVIOUS
<1>9. c.vk = d.vk /\ c.pv = d.pv /\ PreambleStream(c) = PreambleStream(d)
  BY <1>4, <1>5, <1>7, <1>8
<1> QED
  BY <1>1, <1>9, OneStatement

\* The sections of an assembled proof with nothing stale, and whose they are.
LEMMA Sections ==
    ASSUME NEW a \in Assemblies, a.stale = "none",
           NEW c, NEW g, NEW z, NEW j,
           c = a.from["commitment"], g = a.from["gkr"], z = a.from["zerocheck"],
           j = a.from["jagged"]
    PROVE  /\ Given(a).commitment = Commitment(Shard[c]) /\ Given(a).gkr = GkrOf(g).proof
           /\ Given(a).zerocheck = ZerocheckOf(z).proof
           /\ Given(a).jagged = OpeningOf(j).proof
           /\ GkrOf(g).proof.output.of = g
           /\ GkrOf(g).proof.layers.of = g /\ GkrOf(g).proof.openings.of = g
           /\ ZerocheckOf(z).proof.msgs.of = z /\ ZerocheckOf(z).proof.opened.of = z
           /\ OpeningOf(j).proof.eval.of = j
           /\ OpeningOf(j).proof.eval.structures = RegionWalk(Shard[j])
           /\ OpeningOf(j).proof.open.components = RegionContents(Shard[j])
<1>1. Given(a) = [part \in Parts |-> ProofOf(a.from[part])[part]]
  BY DEF Given, MakeStale
<1>2. /\ Given(a).commitment = Commitment(Shard[c]) /\ Given(a).gkr = GkrOf(g).proof
      /\ Given(a).zerocheck = ZerocheckOf(z).proof
      /\ Given(a).jagged = OpeningOf(j).proof
  <2>1. PICK p : p = Given(a)
    OBVIOUS
  <2>2. \A part \in Parts : p[part] = ProofOf(a.from[part])[part]
    BY <1>1, <2>1
  <2>3. /\ ProofOf(c)["commitment"] = Commitment(Shard[c])
        /\ ProofOf(g)["gkr"] = GkrOf(g).proof
        /\ ProofOf(z)["zerocheck"] = ZerocheckOf(z).proof
        /\ ProofOf(j)["jagged"] = OpeningOf(j).proof
    BY DEF ProofOf
  <2> QED
    BY <2>1, <2>2, <2>3 DEF Parts
<1>3. /\ GkrOf(g).proof.output.of = g
      /\ GkrOf(g).proof.layers.of = g /\ GkrOf(g).proof.openings.of = g
  BY DEF GkrOf, GkrProve
<1>4. ZerocheckOf(z).proof.msgs.of = z /\ ZerocheckOf(z).proof.opened.of = z
  BY DEF ZerocheckOf, ZerocheckProve
<1>5. /\ OpeningOf(j).proof.eval.of = j
      /\ OpeningOf(j).proof.eval.structures = RegionWalk(Shard[j])
      /\ OpeningOf(j).proof.open.components = RegionContents(Shard[j])
  BY DEF OpeningOf, OpeningProve
<1> QED
  BY <1>2, <1>3, <1>4, <1>5

\* The last root the verifier rebinds is the proof's own commitment.
LEMMA LastRootIsOwn ==
    ASSUME NEW s, NEW claim, NEW roots, Manifest(claim) = RegionWalk(s),
           \A i \in DOMAIN Manifest(claim) :
               Root(RegionContents(s)[i], Manifest(claim)[i]) = InRoundOrder(roots)[i]
    PROVE  roots.main = Commitment(s)
<1>1. PICK p, m : /\ p = Structure(PrepNames, claim.rows, PrepWidth)
                  /\ m = Structure(ChipNames, claim.rows, MainWidth)
  OBVIOUS
<1>2. PICK walk : walk = RegionWalk(s)
  OBVIOUS
<1>3. PICK x, y : x = roots.prep /\ y = roots.main
  OBVIOUS
<1>4. CASE PrepNames # <<>>
  <2>1. walk = <<p>> \o <<m>> /\ InRoundOrder(roots) = <<x>> \o <<y>>
    BY <1>1, <1>2, <1>3, <1>4 DEF Manifest, InRoundOrder
  <2>2. walk = <<p, m>> /\ InRoundOrder(roots) = <<x, y>> /\ Len(walk) = 2
    BY <2>1, TwoInOrder
  <2>3. HasPrep(s)
    <3> SUFFICES ASSUME ~HasPrep(s) PROVE FALSE
      OBVIOUS
    <3>1. walk = <<MainStructure(s)>>
      BY <1>2, WalkInOrder
    <3>2. PICK k : k = MainStructure(s)
      OBVIOUS
    <3>3. Len(<<k>>) = 1
      OBVIOUS
    <3> QED
      BY <2>2, <3>1, <3>2, <3>3
  <2>4. /\ RegionContents(s) = <<s.claim.vk.id, s.trace>>
        /\ walk = <<PrepStructure(s), MainStructure(s)>>
    BY <1>2, <2>3, WalkInOrder
  <2>5. RegionContents(s)[2] = s.trace /\ walk[2] = MainStructure(s)
        /\ InRoundOrder(roots)[2] = y /\ 2 \in DOMAIN walk
    BY <2>2, <2>4
  <2>6. Root(RegionContents(s)[2], walk[2]) = InRoundOrder(roots)[2]
    BY <1>2, <2>5
  <2> QED
    BY <1>3, <2>5, <2>6 DEF Commitment
<1>5. CASE PrepNames = <<>>
  <2>1. walk = <<>> \o <<m>> /\ InRoundOrder(roots) = <<>> \o <<y>>
    BY <1>1, <1>2, <1>3, <1>5 DEF Manifest, InRoundOrder
  <2>2. walk = <<m>> /\ InRoundOrder(roots) = <<y>> /\ Len(walk) = 1
    BY <2>1, TwoInOrder
  <2>3. ~HasPrep(s)
    <3> SUFFICES ASSUME HasPrep(s) PROVE FALSE
      OBVIOUS
    <3>1. walk = <<PrepStructure(s), MainStructure(s)>>
      BY <1>2, WalkInOrder
    <3>2. PICK k, l : k = PrepStructure(s) /\ l = MainStructure(s)
      OBVIOUS
    <3>3. Len(<<k, l>>) = 2
      OBVIOUS
    <3> QED
      BY <2>2, <3>1, <3>2, <3>3
  <2>4. /\ RegionContents(s) = <<s.trace>> /\ walk = <<MainStructure(s)>>
    BY <1>2, <2>3, WalkInOrder
  <2>5. RegionContents(s)[1] = s.trace /\ walk[1] = MainStructure(s)
        /\ InRoundOrder(roots)[1] = y /\ 1 \in DOMAIN walk
    BY <2>2, <2>4
  <2>6. Root(RegionContents(s)[1], walk[1]) = InRoundOrder(roots)[1]
    BY <1>2, <2>5
  <2> QED
    BY <1>3, <2>5, <2>6 DEF Commitment
<1> QED
  BY <1>4, <1>5

\* A proof over which every leg holds is one prove's.
LEMMA OfOneProve ==
    ASSUME NEW id \in Id, NEW a \in Assemblies, NEW pv, a.from["gkr"] \in Id,
           Satisfied(id, a, pv), NEW g, g = a.from["gkr"]
    PROVE  /\ Given(a) = ProofOf(g)
           /\ Shard[g].claim = Shard[id].claim
           /\ True(Shard[g], pv)
<1>1. a.stale = "none"
  BY NothingStale
<1>2. PICK c, z, j : /\ c = a.from["commitment"] /\ z = a.from["zerocheck"]
                     /\ j = a.from["jagged"]
  OBVIOUS
<1>3. /\ Given(a).commitment = Commitment(Shard[c]) /\ Given(a).gkr = GkrOf(g).proof
      /\ Given(a).zerocheck = ZerocheckOf(z).proof
      /\ Given(a).jagged = OpeningOf(j).proof
  BY <1>1, <1>2, Sections
<1>4. /\ Given(a).gkr.output.of = g
      /\ Given(a).gkr.openings.of = g
      /\ Given(a).zerocheck.msgs.of = z /\ Given(a).zerocheck.opened.of = z
      /\ Given(a).jagged.eval.of = j
      /\ Given(a).jagged.eval.structures = RegionWalk(Shard[j])
      /\ Given(a).jagged.open.components = RegionContents(Shard[j])
  BY <1>1, <1>2, <1>3, Sections
<1>5. g = z /\ Shard[z].satisfied
  BY <1>4, ZerocheckSays
<1>6. j = z
  BY <1>4, OpeningSays
<1>7. Shard[g].claim = Shard[id].claim
  <2>1. GkrOf(g).proof.output.at = HeadOf(id, a)
    BY <1>3, GkrSays
  <2> QED
    BY <2>1, HeadBindsStatement
<1>8. Given(a).commitment = Commitment(Shard[g])
  <2>1. PICK claim, roots, s : /\ claim = Shard[id].claim /\ roots = RootsOf(id, a)
                               /\ s = Shard[j]
    OBVIOUS
  <2>2. Manifest(claim) = RegionWalk(s)
    BY <1>4, <2>1, OpeningSays
  <2>3. \A i \in DOMAIN Manifest(claim) :
            Root(RegionContents(s)[i], Manifest(claim)[i]) = InRoundOrder(roots)[i]
    BY <1>4, <2>1, OpeningSays
  <2>4. roots.main = Commitment(s)
    BY <2>2, <2>3, LastRootIsOwn
  <2>5. roots.main = Given(a).commitment
    BY <2>1 DEF RootsOf, BoundRoots
  <2> QED
    BY <1>5, <1>6, <2>1, <2>4, <2>5
<1>9. Given(a) = ProofOf(g)
  <2>1. Given(a) = [part \in Parts |-> ProofOf(a.from[part])[part]]
    BY <1>1 DEF Given, MakeStale
  <2>2. PICK p, q : p = Given(a) /\ q = ProofOf(g)
    OBVIOUS
  <2>3. p = [part \in Parts |-> p[part]]
    BY <2>1, <2>2
  <2>4. /\ q["commitment"] = Commitment(Shard[g]) /\ q["gkr"] = GkrOf(g).proof
        /\ q["zerocheck"] = ZerocheckOf(g).proof /\ q["jagged"] = OpeningOf(g).proof
        /\ q = [part \in Parts |-> q[part]]
    BY <2>2 DEF ProofOf, Parts
  <2>5. \A part \in Parts : p[part] = q[part]
    BY <1>3, <1>5, <1>6, <1>8, <2>2, <2>4 DEF Parts
  <2> QED
    BY <2>2, <2>3, <2>4, <2>5
<1>10. True(Shard[g], pv)
  <2>1. pv => Shard[g].balanced /\ Shard[id].claim.pv \in WellFormed
    BY <1>4, GkrSays
  <2> QED
    BY <1>5, <1>7, <2>1 DEF True
<1> QED
  BY <1>7, <1>9, <1>10

LEMMA AcceptedProofs == ASSUME ChainInv PROVE AcceptedIsProved
<1> SUFFICES ASSUME verifier.at = "accepted"
             PROVE  \E id \in DOMAIN proofs :
                      /\ verifier.proof = proofs[id].proof
                      /\ Shard[id].claim = Statement
                      /\ True(Shard[id], verifier.checkPv)
  BY DEF AcceptedIsProved
<1>1. PICK id \in Id, a \in Assemblies, pv \in BOOLEAN : Verifying(id, a, pv)
  BY DEF ChainInv, VerifierInv, Idle
<1>2. OnVerdict("accepted", id, a, pv) /\ verifier.ok
  BY <1>1 DEF Verifying, OnStart, OnGkr, OnZerocheck, OnVerdict, VerifierAt
<1>3. /\ verifier.shard = id /\ verifier.checkPv = pv /\ verifier.proof = Given(a)
      /\ Satisfied(id, a, pv)
  BY <1>2 DEF OnVerdict, VerifierAt, Satisfied
<1>4. PICK g : g = a.from["gkr"]
  OBVIOUS
<1>5. g \in DOMAIN proofs /\ g \in Id /\ proofs[g].proof = ProofOf(g)
  BY <1>4 DEF ChainInv, ProofsInv, Assemblies, Parts
<1>6. /\ Given(a) = ProofOf(g) /\ Shard[g].claim = Shard[id].claim
      /\ True(Shard[g], pv)
  BY <1>3, <1>4, <1>5, OfOneProve
<1> QED
  BY <1>3, <1>5, <1>6 DEF Statement

(***************************************************************************)
(* ShardVerifier.verify accepts nothing but the whole proof that one prove *)
(* returned for this very statement, over a trace with what was looked at: *)
(* no section of another prove, no stale value, no other statement passes  *)
(* the legs of the three duals together.                                   *)
(***************************************************************************)
THEOREM ChainAcceptedIsProved == Spec => []AcceptedIsProved
<1>1. ChainInv => AcceptedIsProved
  BY AcceptedProofs
<1> QED
  BY <1>1, ChainInductive, PTL
=============================================================================
