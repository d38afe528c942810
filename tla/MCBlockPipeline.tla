-------------------------- MODULE MCBlockPipeline --------------------------
(* A small instance of BlockPipeline: one piece of two blocks and one of   *)
(* half a block, so that the limiter, the pipeline and the freelist    *)
(* each run out in the middle of a piece.                                  *)
EXTENDS BlockPipeline

CONSTANTS p1, p2

TwoPieces == {p1, p2}
Lengths == [p \in TwoPieces |-> IF p = p1 THEN 4 ELSE 1]
AnyMode == {m \in [fast : BOOLEAN, limited : BOOLEAN, odd : BOOLEAN] :
               Cardinality({f \in DOMAIN m : m[f]}) <= 1}
Limited == {m \in AnyMode : m.limited}
=============================================================================
