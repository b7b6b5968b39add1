-------------------------- MODULE MCJaggedRounds ----------------------------
(***************************************************************************)
(* An instance of JaggedRounds: a constrained chip, a lookup-only one and  *)
(* one of two constrained columns; four variables, three unrolled rounds   *)
(* so that one round is scanned; every form of the call, with classes      *)
(* tight, wide and too small, and chunks of one row, of a few and of a     *)
(* whole chip.                                                             *)
(***************************************************************************)
EXTENDS JaggedRounds

MCCols == <<1, 1, 2>>
MCShards == ({0, 1, 5, 16} \X {0, 2, 7} \X {0, 1, 3, 16}) \cup {<<17, 1, 1>>, <<1, 0, 18>>}

NoChunk == [depth |-> 0, caps |-> <<0, 0, 0>>, cells |-> 0]
Chunk(depth, caps, cells) == [depth |-> depth, caps |-> caps, cells |-> cells]
MCPlans ==
    {[form |-> "traces", area |-> a, chunk |-> NoChunk] : a \in {Unset, 30}}
        \cup {[form |-> "padded", area |-> 56, chunk |-> NoChunk]}
        \cup {[form |-> "flat", area |-> a, chunk |-> NoChunk] : a \in {4, 30, 56}}
        \cup {[form |-> "chunked", area |-> 28, chunk |-> Chunk(1, <<16, 8, 16>>, 12)]}
        \cup {[form |-> "chunked", area |-> 56, chunk |-> c] :
                  c \in {Chunk(1, <<16, 8, 16>>, 0), Chunk(2, <<16, 7, 16>>, 12),
                         Chunk(5, <<16, 8, 4>>, 24), Chunk(3, <<5, 2, 3>>, 1)}}
=============================================================================
