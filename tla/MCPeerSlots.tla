----------------------------- MODULE MCPeerSlots ------------------------------
(* Small instances of PeerSlots for TLC.                                   *)
EXTENDS PeerSlots, TLC

CONSTANTS e1, e2, d1, d2

Quota(ups, ins, limits, known) ==
    [starts |-> ups, visits |-> ins, changes |-> limits, known |-> known]
\* One start, one visitor or one change of the limit with one endpoint to
\* dial; two endpoints.
SmallQuotas == {Quota(1, 0, 0, {e1}), Quota(0, 1, 0, {e1}), Quota(0, 0, 1, {e1}),
                Quota(0, 0, 0, {e1, e2})}
StopQuota == {Quota(1, 1, 0, {e1})}
TwoEndpoints == {Quota(0, 0, 0, {e1, e2})}
NamedPeer == {e1}
=============================================================================
