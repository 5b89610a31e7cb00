--------------------------- MODULE MCCheckpoints ----------------------------
(***************************************************************************)
(* Checkpoints for TLC: one compiled-in point, at height 1 like the lowest *)
(* of the main network; the points of all heights may be loaded late.      *)
(***************************************************************************)
EXTENDS Checkpoints

LowestPoint == [h \in {1} |-> CHOOSE hash \in Hashes : TRUE]
=============================================================================
