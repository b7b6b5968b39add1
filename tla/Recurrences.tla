---------------------------- MODULE Recurrences -----------------------------
(***************************************************************************)
(* The two recurrences the packed layouts of the program are built on:     *)
(* running sums (chip offsets in the flat arrivals, segment starts in the  *)
(* first GKR layer and in the zerocheck round buffer) and a map applied a  *)
(* number of times (caps and row counts from layer to layer, from round to *)
(* round).  Powers of two are an instance, in the form their doubling can  *)
(* be reasoned from.                                                       *)
(***************************************************************************)
EXTENDS Integers, Sequences

\* cumsum(c) with a leading zero: element n is the sum of the first n of c.
Prefix(c) ==
    LET sum[n \in 0..Len(c)] == IF n = 0 THEN 0 ELSE sum[n - 1] + c[n]
    IN  sum

Total(c) == Prefix(c)[Len(c)]

\* f applied n times to a.
Iterate(f, a, n) ==
    LET after[m \in 0..n] == IF m = 0 THEN a ELSE f[after[m - 1]]
    IN  after[n]

\* 1 << n.
Pow2(n) == Iterate([x \in Nat |-> 2 * x], 1, n)

\* log2_ceil: the least exponent whose power reaches n.
CeilLog2(n) ==
    CHOOSE e \in 0..n : Pow2(e) >= n /\ (e > 0 => Pow2(e - 1) < n)
=============================================================================
