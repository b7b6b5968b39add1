------------------------------ MODULE WarmCover ------------------------------
(***************************************************************************)
(* Which shards `warm_shard_cache --warm` compiles, and what their workers *)
(* leave in the cache: select_warm_shards, check_warm_cover and `main` of  *)
(* shard_prover/warm_shard_cache.py, followed by the workers' proves and   *)
(* by the proves of every shard the warm was for.                          *)
(*                                                                         *)
(* The planner's keys and the prove's keys come from two code paths over   *)
(* the class math of CompileClasses; the warm is right if the keys a prove *)
(* asks for are in the cache, whichever shards were left out.              *)
(***************************************************************************)
EXTENDS CompileClasses

CONSTANTS
    Dumps,       \* dumps to analyze: functions from shard numbers to records
    Registries,  \* manifests that --in_manifest may give
    ClassFlags   \* --zc_class_json and --gkr_class_json of a later prove, as
                 \* the fields they pin

\* What an analyze record and a manifest hold: areas and heights are counts,
\* every chip of the order has a height, the class of a chip set is no other
\* set's and no shard's number.
ClassOf(c) == ClassName(Chips(c.order))
IsDump(d) ==
    /\ IsFiniteSet(DOMAIN d)
    /\ DOMAIN d \subseteq Nat
    /\ \A n \in DOMAIN d :
         /\ d[n].area \in Nat
         /\ d[n].heights \in [Chips(d[n].order) -> Nat]
         /\ TightSlots(d[n]) \in Nat
         /\ ClassOf(d[n]) \in Int \ DOMAIN d
         /\ \A m \in DOMAIN d : ClassOf(d[n]) = ClassOf(d[m]) =>
                                   Chips(d[n].order) = Chips(d[m].order)
IsManifest(r) == IsFiniteSet(DOMAIN r) /\ DOMAIN r \subseteq Int
                   /\ \A k \in DOMAIN r : AreaOr(r[k]) \in Int

ASSUME CoverAssumption ==
    /\ \A d \in Dumps : IsDump(d)
    /\ \A r \in Registries : IsManifest(r)

VARIABLES
    dump,      \* classes: the analyze record of each shard
    manifest,  \* manifest_used
    perClass,  \* --warm_per_class
    kind,      \* index of the kind the loop is at
    todo,      \* shards the loop over by_area has left, for this kind
    selected,  \* selected
    covered,   \* covered: pairs of kind and key
    pc,        \* where the filler is
    cache,     \* compile keys in the persistent cache
    warmed,    \* selected shards whose worker is done
    failed     \* selected shards whose worker failed

vars == <<dump, manifest, perClass, kind, todo, selected, covered, pc, cache,
          warmed, failed>>

Shards == DOMAIN dump

Init ==
    /\ dump \in Dumps
    /\ manifest \in Registries \cup {Plan(dump)}
    /\ perClass \in BOOLEAN
    /\ kind = 1
    /\ todo = DOMAIN dump
    /\ selected = IF perClass THEN {} ELSE DOMAIN dump
    /\ covered = {}
    /\ pc = IF perClass THEN "select" ELSE "warm"
    /\ cache = {}
    /\ warmed = {}
    /\ failed = {}

\* The pairs of kind and key that shard n counts for, by CoverKeys and by
\* ProveKeys.
CoverPair(k, n) == <<Kinds[k], CoverKeys(dump, manifest, n)[Kinds[k]]>>
CoverPairs(n) == {CoverPair(k, n) : k \in DOMAIN Kinds}
ProvePairsUnder(flags, n) ==
    LET keys == ProveKeys(dump[n], flags, manifest, n)
    IN  {<<k, keys[k]>> : k \in DOMAIN keys}
ProvePairs(n) == ProvePairsUnder(NoEntry, n)

\* by_area: largest area first, then by number.
Leads(n, m) ==
    dump[n].area > dump[m].area \/ (dump[n].area = dump[m].area /\ n < m)

\* One turn of the inner loop: a shard whose key of this kind is uncovered is
\* picked, and covers all its keys.
Visit(n) ==
    /\ pc = "select"
    /\ n \in todo
    /\ \A m \in todo \ {n} : Leads(n, m)
    /\ todo' = todo \ {n}
    /\ IF CoverPair(kind, n) \in covered THEN UNCHANGED <<selected, covered>>
       ELSE /\ selected' = selected \cup {n}
            /\ covered' = covered \cup CoverPairs(n)
    /\ UNCHANGED <<dump, manifest, perClass, kind, pc, cache, warmed, failed>>

\* The number of kinds the loop visits; one fewer or more in the broken
\* variants.
VisitedKindsButOne == Len(Kinds) - 1
VisitedKindsAndOne == Len(Kinds) + 1
VisitedKinds == Len(Kinds)

\* The outer loop moves on, or ends.
NextKind ==
    /\ pc = "select"
    /\ todo = {}
    /\ IF kind < VisitedKinds
       THEN kind' = kind + 1 /\ todo' = Shards /\ UNCHANGED pc
       ELSE pc' = "check" /\ UNCHANGED <<kind, todo>>
    /\ UNCHANGED <<dump, manifest, perClass, selected, covered, cache, warmed,
                   failed>>

\* check_warm_cover raises on a key that the selection leaves out.
Check ==
    /\ pc = "check"
    /\ pc' = IF UNION {CoverPairs(n) : n \in Shards}
                  \subseteq UNION {CoverPairs(n) : n \in selected}
             THEN "warm" ELSE "raised"
    /\ UNCHANGED <<dump, manifest, perClass, kind, todo, selected, covered,
                   cache, warmed, failed>>

\* The worker of a selected shard: it proves under the same manifest, and its
\* zones' compiles land in the cache unless the classes do not admit the shard.
Warm(n) ==
    /\ pc = "warm"
    /\ n \in selected \ warmed
    /\ warmed' = warmed \cup {n}
    /\ IF Admitted(dump[n], manifest, n)
       THEN cache' = cache \cup ProvePairs(n) /\ UNCHANGED failed
       ELSE failed' = failed \cup {n} /\ UNCHANGED cache
    /\ UNCHANGED <<dump, manifest, perClass, kind, todo, selected, covered, pc>>

Served ==
    /\ pc = "warm"
    /\ warmed = selected
    /\ pc' = "served"
    /\ UNCHANGED <<dump, manifest, perClass, kind, todo, selected, covered,
                   cache, warmed, failed>>

Ended == pc \in {"served", "raised"} /\ UNCHANGED vars

Next == (\E n \in Shards : Visit(n) \/ Warm(n)) \/ NextKind \/ Check \/ Served \/ Ended

Spec == Init /\ [][Next]_vars

-----------------------------------------------------------------------------
(* Properties.                                                             *)

\* Every variable has its type.
TypeOK ==
    /\ dump \in Dumps
    /\ manifest \in Registries \cup {Plan(dump)}
    /\ perClass \in BOOLEAN
    /\ kind \in 1..4
    /\ todo \subseteq Shards
    /\ selected \subseteq Shards
    /\ pc \in {"select", "check", "raised", "warm", "served"}
    /\ warmed \subseteq selected
    /\ failed \subseteq warmed

\* "a greedy cover of the dump's class-keyed compile keys": the contract check
\* never finds a gap in what the loop selected.
SelectionCovers == pc # "raised"

\* "the classes a warm fills are the classes a prove requests" (module
\* docstring of compile_classes): after a warm whose workers all succeeded, no
\* shard of the dump compiles a class-keyed zone cold.  Under the analyzed
\* manifest, that "overrides --zc_class_json / --gkr_class_json field-by-field
\* for any shard it covers", this is so whatever these flags pin.
NoColdProve ==
    pc = "served" /\ failed = {} =>
        \A n \in Shards :
            /\ ProvePairs(n) \subseteq cache
            /\ manifest = Plan(dump) =>
                  \A flags \in ClassFlags : ProvePairsUnder(flags, n) \subseteq cache

\* "one representative per distinct effective zerocheck class (its area-max
\* carrier)": every zerocheck key has its largest carrier selected.
AreaMaxCarrier ==
    pc \in {"warm", "served"} =>
        \A n \in Shards : \E m \in selected :
            /\ CoverKeys(dump, manifest, m).zerocheck
                 = CoverKeys(dump, manifest, n).zerocheck
            /\ dump[m].area >= dump[n].area

\* Under the analyzed manifest no worker is refused: every member of a chip
\* set fits the caps the planner quantized for the set.
PlannedCapsAdmit == manifest = Plan(dump) => failed = {}

\* "one quantized cap per chip set": under the analyzed manifest the shards of
\* one chip order compile one zerocheck and one GKR class.
OneClassPerSet ==
    manifest = Plan(dump) =>
        \A n, m \in Shards : dump[n].order = dump[m].order =>
            LET keysN == ProveKeys(dump[n], NoEntry, manifest, n)
                keysM == ProveKeys(dump[m], NoEntry, manifest, m)
            IN  keysN.zerocheck = keysM.zerocheck /\ keysN.gkr = keysM.gkr

\* "a name collision across blocks must not serve a foreign class"
\* (manifest_entry_for): whatever the registry holds, the GKR bounds a shard is
\* given are for exactly its chips, and an entry without chips serves a shard
\* only if no entry is for its chips.
ForeignClassNeverServed ==
    \A n \in Shards :
        LET entry == EntryFor(manifest, dump[n].order, n)
            chips == Chips(dump[n].order)
        IN  /\ Has(entry, "gkr") => DOMAIN entry.gkr = chips
            /\ ~Has(entry, "gkr") =>
                 \A k \in DOMAIN manifest : ~Exact(manifest[k], chips)

\* What makes the properties above inductive: the loop covers the keys of the
\* kinds it is through with, and of the shards it passed for this kind; at the
\* first kind it passed the shards of the larger areas; the cache holds what
\* the workers that did not fail asked for.
CoverInv ==
    /\ pc = "select" => perClass
    /\ ~perClass => selected = Shards
    /\ perClass =>
         /\ covered = UNION {CoverPairs(n) : n \in selected}
         /\ \A k \in DOMAIN Kinds : \A n \in Shards :
              k < kind \/ (k = kind /\ n \notin todo) => CoverPair(k, n) \in covered
         /\ pc # "select" => kind = Len(Kinds) /\ todo = {}

AreaInv ==
    perClass =>
        /\ kind = 1 =>
             /\ selected \cap todo = {}
             /\ \A m \in Shards \ todo : \A n \in todo : dump[m].area >= dump[n].area
        /\ \A n \in Shards : kind > 1 \/ n \notin todo =>
             \E m \in selected : /\ CoverPair(1, m) = CoverPair(1, n)
                                 /\ dump[m].area >= dump[n].area

CacheInv ==
    /\ cache = UNION {ProvePairs(n) : n \in warmed \ failed}
    /\ pc = "served" => warmed = selected

=============================================================================
