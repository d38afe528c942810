---------------------------- MODULE MCWritePath -----------------------------
(* Small instances of WritePath for TLC.                                   *)
EXTENDS WritePath, TLC

AllJobs == Sessions \X Slots
Symm == Permutations(Slots) \cup Permutations(Hashers)

\* A behaviour has failures, or recheck jobs, or a priority change: the run
\* explores the sum of the three, not their product.
OneTrouble ==
    \/ recheckLeft = 0 /\ prioLeft = 0
    \/ failLeft = 0 /\ prioLeft = 0
    \/ failLeft = 0 /\ recheckLeft = 0
SafetyInit == Init /\ OneTrouble
SafetySpec == SafetyInit /\ [][Next]_vars
=============================================================================
