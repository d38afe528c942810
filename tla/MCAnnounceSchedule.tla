-------------------------- MODULE MCAnnounceSchedule --------------------------
(* Small instances of AnnounceSchedule for TLC.                            *)
EXTENDS AnnounceSchedule, TLC

CONSTANTS t1, t2

Budget(ups, downs, failures) == [starts |-> ups, stops |-> downs, fails |-> failures]
\* A stop and a start; a stop and a failed announce; a start and a failure.
TwoTroubles == {Budget(1, 1, 0), Budget(0, 1, 1), Budget(1, 0, 1)}
OneStop == {Budget(0, 1, 0)}
=============================================================================
