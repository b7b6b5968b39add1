--------------------------- MODULE ZerocheckFold ----------------------------
(***************************************************************************)
(* What the jagged zerocheck rounds promise (zerocheck/jagged.py), without *)
(* a buffer: the sumcheck of the chips' own columns zero-extended to the   *)
(* hypercube.  Round r sends, for each chip, the sum over its live row     *)
(* pairs of the summand on the pair weighted by the pair's eq mass, less   *)
(* the padding correction at the pair where the live rows end, and the     *)
(* last fold leaves the evaluation of every column.                        *)
(*                                                                         *)
(* A cell is <<chip, column, row>>.  A folded value is the set of its      *)
(* cells, each with its point: the low bits of the row, one per variable   *)
(* bound.  The eq mass of a row pair is the set of the base pairs it sums. *)
(***************************************************************************)
EXTENDS Recurrences

CONSTANTS
    Cols,         \* columns of each chip
    Constrained,  \* chips with transition constraints
    NumVars,      \* variables of the hypercube
    Shards        \* real heights, by chip

VARIABLES
    shard,     \* real heights
    messages,  \* the rounds' messages so far
    finals,    \* the columns' evaluations, <<>> until the last fold
    refused    \* the heights were refused, before any round

vars == <<shard, messages, finals, refused>>

ChipIds == 1..Len(Cols)

\* Rows left of a height after r folds.
Folded(h, r) == (h + Pow2(r) - 1) \div Pow2(r)

\* Row x of a column after r folds, and the rows past the real height there.
Value(h, i, c, r, x) ==
    LET first == x * Pow2(r)
    IN  {<<p, <<i, c, first + p>>>> : p \in {q \in 0..Pow2(r) - 1 : first + q < h}}
Beyond(h, r, x) == {p \in 0..Pow2(r) - 1 : x * Pow2(r) + p >= h}
EqMass(r, k) == {b \in 0..Pow2(NumVars) \div 2 - 1 : b \div Pow2(r) = k}

\* A chip's message: one term per live row pair, the correction at the last,
\* and whether t = 0 drops the constraints.
ChipMessage(h, i, r) ==
    LET pairs == (Folded(h, r) + 1) \div 2
    IN  [terms |-> [k \in 1..pairs |->
            <<EqMass(r, k - 1),
              [c \in 1..Cols[i] |-> <<Value(h, i, c, r, 2 * (k - 1)),
                                      Value(h, i, c, r, 2 * (k - 1) + 1)>>]>>],
         correction |->
            IF h = 0 \/ i \notin Constrained THEN <<>>
            ELSE <<EqMass(r, pairs - 1), Beyond(h, r, 2 * pairs - 2),
                   Beyond(h, r, 2 * pairs - 1)>>,
         dropped |-> r = 0 /\ h # 0 /\ i \in Constrained]

Init ==
    /\ shard \in Shards
    /\ messages = <<>> /\ finals = <<>>
    /\ refused = FALSE

Refuse ==
    /\ messages = <<>> /\ finals = <<>> /\ ~refused
    /\ refused' = TRUE
    /\ UNCHANGED <<shard, messages, finals>>

Round ==
    /\ Len(messages) < NumVars /\ ~refused
    /\ messages' = Append(messages,
           [i \in ChipIds |-> ChipMessage(shard[i], i, Len(messages))])
    /\ UNCHANGED <<shard, finals, refused>>

Finish ==
    /\ Len(messages) = NumVars /\ finals = <<>> /\ ~refused
    /\ finals' = [i \in ChipIds |-> [c \in 1..Cols[i] |-> Value(shard[i], i, c, NumVars, 0)]]
    /\ UNCHANGED <<shard, messages, refused>>

Next == Refuse \/ Round \/ Finish

Spec == Init /\ [][Next]_vars
=============================================================================
