---------------------------- MODULE MCGkrLayout -----------------------------
(***************************************************************************)
(* An instance of GkrLayout: a chip whose interactions read a preprocessed *)
(* trace of another height, one that names a preprocessed column it does   *)
(* not have, one without interactions and a stub; five interactions, hence *)
(* three padding segments.                                                 *)
(***************************************************************************)
EXTENDS GkrLayout

Form(const, terms) == [const |-> const, terms |-> terms]
Interaction(index, kind, mult, values) ==
    [index |-> index, typed |-> TRUE, kind |-> kind, mult |-> mult, values |-> values]

MCWidth == <<2, 1, 1, 1>>
MCPrep == [i \in {1, 3} |-> IF i = 1 THEN [w |-> 1, h |-> 16] ELSE [w |-> 2, h |-> 4]]
Column(c) == Form(0, <<<<c, FALSE, 1>>>>)
MCManifest == <<
    [sends |-> <<Interaction(7, 2, Form(1, <<>>), <<Column(1), Form(3, <<<<0, TRUE, 1>>>>)>>),
                 Interaction(4, 3, Column(0), <<Column(0)>>)>>,
     recvs |-> <<Interaction(1, 2, Form(0, <<<<0, FALSE, 1>>, <<1, FALSE, 2>>, <<0, FALSE, 1>>>>),
                             <<Form(0, <<>>), Column(1), Column(0)>>)>>],
    [sends |-> <<Interaction(2, 5, Form(0, <<<<0, FALSE, 1>>, <<0, TRUE, 1>>>>), <<Column(0)>>)>>,
     recvs |-> <<Interaction(3, 5, Column(0), <<>>)>>],
    [sends |-> <<>>, recvs |-> <<>>],
    [sends |-> <<[Interaction(1, 1, Column(0), <<>>) EXCEPT !.typed = FALSE]>>,
     recvs |-> <<>>]>>

MCShards == {<<12, 8, 2, 0>>, <<0, 12, 4, 6>>, <<16, 2, 0, 4>>, <<4, 0, 8, 2>>,
             <<10, 14, 6, 8>>, <<0, 0, 0, 0>>, <<3, 2, 2, 2>>, <<2, 16, 2, 2>>}
MCTall == [caps |-> <<18, 16, 8, 8>>, slotCap |-> Unset]
MCClasses ==
    LET a == FromHeights(<<12, 8, 2, 0>>)
        b == FromHeights(<<0, 12, 4, 6>>)
        bounds == UnionClass(FromHeights(<<16, 16, 8, 8>>), UnionClass(a, b))
    IN  {a, UnionClass(a, b), bounds, [bounds EXCEPT !.slotCap = 46],
         UnionClass([a EXCEPT !.slotCap = 44], [b EXCEPT !.slotCap = 38]), MCTall}
=============================================================================
