------------------------------ MODULE MCShare ------------------------------
EXTENDS Share, TLC

CONSTANT f   (* the longest file *)

MCChunks == [x \in Files |-> IF x = f THEN 2 ELSE 1]
=============================================================================
