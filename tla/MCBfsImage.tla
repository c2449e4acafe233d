----------------------------- MODULE MCBfsImage ----------------------------
(* Trees of one, two and three pieces, two of them alike but for one piece, *)
(* and a partition that holds two pieces and the superblock: images grow,   *)
(* shrink, share pieces, and one tree does not fit.                         *)
EXTENDS BfsImage

MCTrees == {<<"a">>, <<"a", "b">>, <<"c", "b">>, <<"a", "b", "b">>}
MCSeed == <<"s">>
MCBare == <<"root">>
MCGarbled == <<"garbled">>
============================================================================
