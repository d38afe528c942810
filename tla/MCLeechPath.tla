---------------------------- MODULE MCLeechPath -----------------------------
(* Small instances of LeechPath for TLC.                                   *)
EXTENDS LeechPath, TLC

AllRemote == [p \in Peers |-> Pieces]
\* One remote offers everything, the others offer the same single piece.
OneSeed == LET s == CHOOSE p \in Peers : TRUE
               i == CHOOSE i \in Pieces : TRUE
           IN  [p \in Peers |-> IF p = s THEN Pieces ELSE {i}]
AllWanted == {Pieces}
AnyWanted == SUBSET Pieces

\* A behaviour has a fault or a change of priorities: the run explores the sum
\* of the two, not their product.
OneTrouble == faults = 0 \/ prioLeft = MaxPrio

Symm == Permutations(Peers) \cup Permutations(Pieces)
=============================================================================
