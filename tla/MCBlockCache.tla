---------------------------- MODULE MCBlockCache ----------------------------
(***************************************************************************)
(* BlockCache for TLC: two blocks of one unit, one of two and a corrupt    *)
(* one of two units, the first of them sound; a cache of three units, two  *)
(* workers and three calls of get.                                         *)
(***************************************************************************)
EXTENDS BlockCache

MCBlocks == {"b1", "b2", "b3", "bad"}

MCSize == [b \in MCBlocks |-> IF b \in {"b3", "bad"} THEN 2 ELSE 1]

MCCorrupt == {"bad"}

MCSound == [b \in MCCorrupt |-> 1]

MCWorkers == {"w1", "w2"}

=============================================================================
