---------------------------- MODULE PeerSlotsProofs ----------------------------
(***************************************************************************)
(* TLAPS proofs about PeerSlots, for any endpoints, any number of dialers  *)
(* and connections, any limits and any quotas of starts, visits and        *)
(* changes.                                                                *)
(*                                                                         *)
(* PeersShape types every field.  SlotInv carries the limit a task read    *)
(* before the lock to the count it makes under it; KeyInv says who may     *)
(* stand behind a key of connected_out, and who may be left without one.   *)
(*                                                                         *)
(* What one connection does once it has its slot follows, each under its   *)
(* own specification: the handshakes of its two ends (Handshake), the pool *)
(* of workers that run its session (WorkerPool), and the bytes that its    *)
(* reader makes messages of (WireRead).                                    *)
(***************************************************************************)
EXTENDS PeerSlots, Handshake, WorkerPool, WireRead, SequenceTheorems, FiniteSetTheorems, TLAPS

ConnRecords ==
    [dir : {"none", "in", "out"},
     pc : {"none", "accepted", "match", "handshake", "bind", "spawned", "up", "remove", "key"},
     at : Endpoints \cup {NoEndpoint}, obj : Nat, run : Nat,
     live : BOOLEAN, bound : BOOLEAN, stop : BOOLEAN, max : Nat]
DialRecords ==
    [pc : {"idle", "have", "claim", "flag", "slot", "unclaim"}, at : Endpoints \cup {NoEndpoint},
     left : SUBSET Endpoints, obj : Nat, run : Nat, max : Nat]
QuotaRecords == [starts : Nat, visits : Nat, changes : Nat, known : SUBSET Endpoints]

\* A dialer that stands at an endpoint, from its choice to its slot.
AtWork == {"claim", "flag", "slot", "unclaim"}

\* A task and a dialer after n starts.
GoodConn(r, n) ==
    /\ r \in ConnRecords
    /\ r.at \in Endpoints <=> r.dir = "out"
    /\ r.pc = "none" <=> r.dir = "none"
    /\ r.obj <= n /\ r.run <= n
    /\ r.pc = "key" => r.dir = "out"
GoodDial(r, n) ==
    /\ r \in DialRecords
    /\ r.pc \in AtWork <=> r.at \in Endpoints
    /\ r.pc = "idle" => r.left = {}
    /\ r.obj <= n /\ r.run <= n

ConnsOK == DOMAIN conn = Conns /\ conn = [c \in Conns |-> conn[c]] /\ \A c \in Conns : GoodConn(conn[c], starts)
DialersOK == dialer = [d \in Dialers |-> dialer[d]] /\ \A d \in Dialers : GoodDial(dialer[d], starts)

RestOK ==
    /\ starts \in Nat \ {0} /\ flag \in {0, starts} /\ hotObj \in 0..starts
    /\ ctl \in {"idle", "publish", "unhot", "keys", "peers"}
    /\ connected_out \subseteq Endpoints /\ cooling \subseteq Endpoints /\ keyLost \subseteq Endpoints
    /\ max_peers \in Limits /\ peak \in Limits
    /\ quota \in QuotaRecords

PeersShape == ConnsOK /\ DialersOK /\ RestOK

-----------------------------------------------------------------------------
\* A peer task's entry is replaced by another good one.
LEMMA SetConn ==
  ASSUME ConnsOK, starts' = starts, NEW c \in Conns, NEW r, GoodConn(r, starts),
         conn' = [conn EXCEPT ![c] = r]
  PROVE  /\ ConnsOK'
         /\ \A b \in Conns : conn'[b] = IF b = c THEN r ELSE conn[b]
BY DEF ConnsOK, GoodConn

\* A dialer goes on to another good state.
LEMMA SetDial ==
  ASSUME DialersOK, starts' = starts, NEW d \in Dialers, NEW r, GoodDial(r, starts),
         dialer' = [dialer EXCEPT ![d] = r]
  PROVE  /\ DialersOK'
         /\ \A b \in Dialers : dialer'[b] = IF b = d THEN r ELSE dialer[b]
BY DEF DialersOK, GoodDial

\* The slot is taken: a fresh outbound entry for the dialer's endpoint.
SpawnedOut(d, c) ==
    /\ FreeConn(c)
    /\ conn' = [conn EXCEPT ![c] = [NoConn EXCEPT !.dir = "out", !.pc = "spawned",
                   !.at = dialer[d].at, !.obj = dialer[d].obj, !.run = dialer[d].run,
                   !.live = TRUE, !.bound = TRUE]]

\* A spawned outbound connection is well formed and touches no other task.
LEMMA SpawnedOutGood ==
  ASSUME ConnsOK, starts' = starts, NEW d \in Dialers, GoodDial(dialer[d], starts),
         dialer[d].pc \in AtWork, NEW c \in Conns, SpawnedOut(d, c)
  PROVE  /\ ConnsOK'
         /\ \A b \in Conns : b # c => conn'[b] = conn[b]
         /\ conn'[c].dir = "out" /\ conn'[c].pc = "spawned" /\ conn'[c].at = dialer[d].at
         /\ conn'[c].run = dialer[d].run /\ conn'[c].live /\ conn'[c].bound /\ ~conn'[c].stop
<1> DEFINE r == [NoConn EXCEPT !.dir = "out", !.pc = "spawned", !.at = dialer[d].at,
                               !.obj = dialer[d].obj, !.run = dialer[d].run,
                               !.live = TRUE, !.bound = TRUE]
<1>1. dialer[d].at \in Endpoints /\ dialer[d].obj \in Nat /\ dialer[d].run \in Nat
  BY DEF GoodDial, DialRecords
<1>2. /\ r \in ConnRecords
      /\ r.dir = "out" /\ r.pc = "spawned" /\ r.at = dialer[d].at /\ r.obj = dialer[d].obj
      /\ r.run = dialer[d].run /\ r.live /\ r.bound /\ ~r.stop
  BY <1>1 DEF NoConn, ConnRecords
<1>3. conn' = [conn EXCEPT ![c] = r]
  BY DEF SpawnedOut
<1> HIDE DEF r
<1>4. GoodConn(r, starts)
  BY <1>1, <1>2 DEF GoodConn, GoodDial
<1>5. ConnsOK' /\ \A b \in Conns : conn'[b] = IF b = c THEN r ELSE conn[b]
  BY <1>3, <1>4, SetConn
<1>6. QED
  BY <1>2, <1>5

\* What spawn_inbound begins with.
LEMMA NewIn ==
  ASSUME NEW r, r = [NoConn EXCEPT !.dir = "in", !.pc = "accepted"]
  PROVE  /\ r \in ConnRecords
         /\ r.dir = "in" /\ r.pc = "accepted" /\ r.at = NoEndpoint /\ r.obj = 0 /\ r.run = 0
         /\ ~r.live /\ ~r.bound
BY DEF NoConn, ConnRecords

\* The idle records are well formed.
LEMMA RestingGood ==
  ASSUME NEW n \in Nat
  PROVE  GoodDial(NoDial, n) /\ GoodConn(NoConn, n)
BY PeersAssumption DEF GoodDial, GoodConn, NoDial, NoConn, DialRecords, ConnRecords, AtWork

\* On to the next of the list is not into a slot.
LEMMA OnwardPc ==
  ASSUME NEW r
  PROVE  Onward(r).pc \in {"idle", "have"}
BY DEF Onward, NoDial

\* Whatever a dialer was at, the next of its list is a good place (the loop of
\* refill_peers_with_cache).
LEMMA OnwardGood ==
  ASSUME NEW n \in Nat, NEW r \in DialRecords, r.obj <= n
  PROVE  /\ GoodDial(Onward(r), n)
         /\ Onward(r).at = NoEndpoint /\ Onward(r).pc \in {"idle", "have"}
<1>1. CASE r.left = {}
  BY <1>1, RestingGood DEF Onward, NoDial
<1>2. CASE r.left # {}
  <2> DEFINE o == [NoDial EXCEPT !.pc = "have", !.obj = r.obj, !.left = r.left]
  <2>1. Onward(r) = o
    BY <1>2 DEF Onward
  <2>2. r.obj \in Nat /\ r.left \in SUBSET Endpoints
    BY DEF DialRecords
  <2>3. o = [NoDial EXCEPT !.pc = "have", !.obj = r.obj, !.left = r.left]
    OBVIOUS
  <2> HIDE DEF o
  <2>4. /\ o \in DialRecords
        /\ o.pc = "have" /\ o.at = NoEndpoint /\ o.obj = r.obj /\ o.run = 0
    BY <2>2, <2>3 DEF NoDial, DialRecords
  <2>5. QED
    BY <2>1, <2>4, PeersAssumption DEF GoodDial, AtWork
<1>3. QED
  BY <1>1, <1>2

\* A peer task moves on and keeps who it is.
LEMMA ConnMoves ==
  ASSUME NEW n, NEW r, GoodConn(r, n), r.pc # "none",
         NEW pc \in {"accepted", "match", "handshake", "bind", "spawned", "up", "remove"},
         NEW s, s = [r EXCEPT !.pc = pc]
  PROVE  /\ GoodConn(s, n)
         /\ s.pc = pc /\ s.dir = r.dir /\ s.at = r.at /\ s.obj = r.obj /\ s.run = r.run /\ s.max = r.max
         /\ (s.live <=> r.live) /\ (s.bound <=> r.bound) /\ (s.stop <=> r.stop)
BY DEF GoodConn, ConnRecords

\* A dialer at an endpoint moves on and stays there.
LEMMA DialMoves ==
  ASSUME NEW n, NEW r, GoodDial(r, n), r.pc \in AtWork, NEW pc \in AtWork,
         NEW s, s = [r EXCEPT !.pc = pc]
  PROVE  GoodDial(s, n) /\ s.pc = pc /\ s.at = r.at /\ s.run = r.run /\ s.max = r.max
BY DEF GoodDial, DialRecords, AtWork

-----------------------------------------------------------------------------
\* Every step of a dialer, a peer task, the accept thread or the mutation
\* worker keeps each field's shape.
LEMMA PeersShapeStep ==
  ASSUME PeersShape, [PeersNext]_peerVars
  PROVE  PeersShape'
<1>1. ASSUME StartFlag PROVE PeersShape'
  <2>1. starts' = starts + 1 /\ starts' \in Nat \ {0}
    BY <1>1 DEF StartFlag, PeersShape, RestOK
  <2>2. ConnsOK' /\ DialersOK'
    BY <1>1, <2>1 DEF StartFlag, PeersShape, RestOK, ConnsOK, DialersOK, GoodConn, GoodDial, ConnRecords, DialRecords
  <2>3. quota' \in QuotaRecords
    BY <1>1 DEF StartFlag, PeersShape, RestOK, QuotaRecords
  <2>4. QED
    BY <1>1, <2>1, <2>2, <2>3 DEF StartFlag, FreshFlag, PeersShape, RestOK
<1>2. ASSUME StartPublish PROVE PeersShape'
  BY <1>2 DEF StartPublish, PeersShape, RestOK, ConnsOK, DialersOK
<1>3. ASSUME StopFlag PROVE PeersShape'
  BY <1>3 DEF StopFlag, PeersShape, RestOK, ConnsOK, DialersOK
<1>4. ASSUME StopRegistry PROVE PeersShape'
  BY <1>4 DEF StopRegistry, PeersShape, RestOK, ConnsOK, DialersOK
<1>5. ASSUME StopKeys PROVE PeersShape'
  BY <1>5 DEF StopKeys, PeersShape, RestOK, ConnsOK, DialersOK
<1>6. ASSUME StopPeers PROVE PeersShape'
  <2>1. \A c \in Conns : GoodConn(conn'[c], starts)
    <3>1. SUFFICES ASSUME NEW c \in Conns, c \in Bound PROVE GoodConn(conn'[c], starts)
      BY <1>6 DEF StopPeers, PeersShape, ConnsOK
    <3>2. conn'[c] = [conn[c] EXCEPT !.live = FALSE, !.stop = TRUE]
      BY <1>6, <3>1 DEF StopPeers
    <3>3. GoodConn(conn[c], starts)
      BY DEF PeersShape, ConnsOK
    <3>4. QED
      BY <3>2, <3>3 DEF GoodConn, ConnRecords
  <2>2. ConnsOK'
    BY <1>6, <2>1 DEF StopPeers, ConnsOK
  <2>3. QED
    BY <1>6, <2>2 DEF StopPeers, PeersShape, RestOK, DialersOK
<1>7. ASSUME ApplyLimits PROVE PeersShape'
  <2>1. quota' \in QuotaRecords
    BY <1>7 DEF ApplyLimits, PeersShape, RestOK, QuotaRecords
  <2>2. QED
    BY <1>7, <2>1 DEF ApplyLimits, PeersShape, RestOK, ConnsOK, DialersOK
<1>8. ASSUME NEW d \in Dialers, Plan(d) PROVE PeersShape'
  <2>1. PICK merged \in SUBSET (Manual \cup quota.known) :
          dialer' = [dialer EXCEPT ![d] = [NoDial EXCEPT !.pc = "have", !.obj = hotObj,
                                                         !.left = Retained(merged)]]
    BY <1>8 DEF Plan
  <2> DEFINE r == [NoDial EXCEPT !.pc = "have", !.obj = hotObj, !.left = Retained(merged)]
  <2>2. Retained(merged) \subseteq Endpoints /\ hotObj \in Nat /\ hotObj <= starts
    BY PeersAssumption DEF Retained, PeersShape, RestOK, QuotaRecords
  <2>3. dialer' = [dialer EXCEPT ![d] = r] /\ r = [NoDial EXCEPT !.pc = "have", !.obj = hotObj, !.left = Retained(merged)]
    BY <2>1
  <2> HIDE DEF r
  <2>4. /\ r \in DialRecords
        /\ r.pc = "have" /\ r.at = NoEndpoint /\ r.obj = hotObj /\ r.run = 0
    BY <2>2, <2>3 DEF NoDial, DialRecords
  <2>5. GoodDial(r, starts)
    BY <2>2, <2>4, PeersAssumption DEF GoodDial, AtWork, PeersShape, RestOK
  <2>6. DialersOK'
    BY <1>8, <2>3, <2>5, SetDial DEF Plan, PeersShape
  <2>7. QED
    BY <1>8, <2>6 DEF Plan, PeersShape, RestOK, ConnsOK
<1>9. ASSUME NEW d \in Dialers, NEW e \in Endpoints, SpawnHave(d, e) PROVE PeersShape'
  <2> DEFINE rest == [dialer[d] EXCEPT !.left = @ \ {e}]
             claim == [rest EXCEPT !.pc = "claim", !.at = e]
  <2>1. GoodDial(dialer[d], starts) /\ dialer[d].pc = "have"
    BY <1>9 DEF SpawnHave, PeersShape, DialersOK
  <2>2. /\ rest \in DialRecords /\ rest.obj <= starts /\ rest.run <= starts
        /\ rest.pc = "have"
    BY <2>1 DEF GoodDial, DialRecords
  <2>3. dialer' = [dialer EXCEPT ![d] = IF AlreadyHave(e) \/ e \in cooling THEN Onward(rest) ELSE claim]
    BY <1>9 DEF SpawnHave
  <2> HIDE DEF rest
  <2>4. GoodDial(claim, starts)
    BY <2>2 DEF GoodDial, DialRecords, AtWork
  <2>5. GoodDial(Onward(rest), starts)
    BY <2>2, OnwardGood DEF PeersShape, RestOK
  <2> HIDE DEF claim
  <2>6. DialersOK'
    BY <1>9, <2>3, <2>4, <2>5, SetDial DEF SpawnHave, PeersShape
  <2>7. QED
    BY <1>9, <2>6 DEF SpawnHave, PeersShape, RestOK, ConnsOK
<1>10. ASSUME NEW d \in Dialers, SpawnClaim(d) PROVE PeersShape'
  <2> DEFINE on == [dialer[d] EXCEPT !.pc = "flag"]
  <2>1. GoodDial(dialer[d], starts) /\ dialer[d].pc \in AtWork
    BY <1>10 DEF SpawnClaim, PeersShape, DialersOK, AtWork
  <2>2. GoodDial(on, starts)
    BY <2>1, DialMoves DEF AtWork
  <2>3. GoodDial(Onward(dialer[d]), starts)
    BY <2>1, OnwardGood DEF PeersShape, RestOK, GoodDial
  <2>4. dialer' = [dialer EXCEPT ![d] = IF dialer[d].at \in connected_out THEN Onward(dialer[d]) ELSE on]
    BY <1>10 DEF SpawnClaim
  <2> HIDE DEF on
  <2>5. DialersOK'
    BY <1>10, <2>2, <2>3, <2>4, SetDial DEF SpawnClaim, PeersShape
  <2>6. QED
    BY <1>10, <2>1, <2>5 DEF SpawnClaim, PeersShape, RestOK, ConnsOK, GoodDial
<1>11. ASSUME NEW d \in Dialers, SpawnFlag(d) PROVE PeersShape'
  <2> DEFINE back == [dialer[d] EXCEPT !.pc = "unclaim"]
             on == [dialer[d] EXCEPT !.pc = "slot", !.run = flag, !.max = max_peers]
  <2>1. GoodDial(dialer[d], starts) /\ dialer[d].pc \in AtWork
    BY <1>11 DEF SpawnFlag, PeersShape, DialersOK, AtWork
  <2>2. GoodDial(back, starts)
    BY <2>1, DialMoves DEF AtWork
  <2>3. flag \in Nat /\ max_peers \in Nat /\ flag <= starts
    BY PeersAssumption DEF PeersShape, RestOK
  <2>4. GoodDial(on, starts)
    BY <2>1, <2>3 DEF GoodDial, DialRecords, AtWork
  <2>5. dialer' = [dialer EXCEPT ![d] = IF flag = 0 THEN back ELSE on]
    BY <1>11 DEF SpawnFlag
  <2> HIDE DEF on, back
  <2>6. DialersOK'
    BY <1>11, <2>2, <2>4, <2>5, SetDial DEF SpawnFlag, PeersShape
  <2>7. QED
    BY <1>11, <2>6 DEF SpawnFlag, PeersShape, RestOK, ConnsOK
<1>12. ASSUME NEW d \in Dialers, SpawnSlot(d) PROVE PeersShape'
  <2> DEFINE back == [dialer[d] EXCEPT !.pc = "unclaim"]
  <2>1. GoodDial(dialer[d], starts) /\ dialer[d].pc \in AtWork
    BY <1>12 DEF SpawnSlot, PeersShape, DialersOK, AtWork
  <2>2. CASE ~SlotFree(d) /\ dialer' = [dialer EXCEPT ![d] = back] /\ conn' = conn
    <3>1. GoodDial(back, starts)
      BY <2>1, DialMoves DEF AtWork
    <3> HIDE DEF back
    <3>2. DialersOK'
      BY <1>12, <2>2, <3>1, SetDial DEF SpawnSlot, PeersShape
    <3>3. QED
      BY <1>12, <2>2, <3>2 DEF SpawnSlot, PeersShape, RestOK, ConnsOK
  <2>3. CASE SlotFree(d) /\ dialer' = [dialer EXCEPT ![d] = Onward(@)]
         /\ \E c \in Conns : SpawnedOut(d, c)
    <3>1. PICK c \in Conns : SpawnedOut(d, c)
      BY <2>3
    <3>2. ConnsOK'
      BY <1>12, <2>1, <3>1, SpawnedOutGood DEF SpawnSlot, PeersShape
    <3>3. GoodDial(Onward(dialer[d]), starts)
      BY <2>1, OnwardGood DEF PeersShape, RestOK, GoodDial
    <3>4. DialersOK'
      BY <1>12, <2>3, <3>3, SetDial DEF SpawnSlot, PeersShape
    <3>5. QED
      BY <1>12, <3>2, <3>4 DEF SpawnSlot, PeersShape, RestOK
  <2>4. QED
    BY <1>12, <2>2, <2>3 DEF SpawnSlot, SpawnedOut
<1>13. ASSUME NEW d \in Dialers, SpawnUnclaim(d) PROVE PeersShape'
  <2>1. GoodDial(dialer[d], starts)
    BY DEF PeersShape, DialersOK
  <2>2. GoodDial(Onward(dialer[d]), starts)
    BY <2>1, OnwardGood DEF PeersShape, RestOK, GoodDial
  <2>3. DialersOK'
    BY <1>13, <2>2, SetDial DEF SpawnUnclaim, PeersShape
  <2>4. dialer[d].at \in Endpoints
    BY <1>13, <2>1 DEF SpawnUnclaim, GoodDial, AtWork
  <2>5. QED
    BY <1>13, <2>3, <2>4 DEF SpawnUnclaim, PeersShape, RestOK, ConnsOK
<1>14. ASSUME NEW e \in Endpoints, CooledDown(e) PROVE PeersShape'
  BY <1>14 DEF CooledDown, PeersShape, RestOK, ConnsOK, DialersOK
<1>15. ASSUME Accept PROVE PeersShape'
  <2> DEFINE r == [NoConn EXCEPT !.dir = "in", !.pc = "accepted"]
  <2>1. PICK c \in Conns : conn' = [conn EXCEPT ![c] = r]
    BY <1>15 DEF Accept
  <2>2. /\ r \in ConnRecords
        /\ r.dir = "in" /\ r.pc = "accepted" /\ r.at = NoEndpoint /\ r.obj = 0 /\ r.run = 0
    BY NewIn
  <2> HIDE DEF r
  <2>3. GoodConn(r, starts)
    BY <2>2, PeersAssumption DEF GoodConn, PeersShape, RestOK
  <2>4. ConnsOK'
    BY <1>15, <2>1, <2>3, SetConn DEF Accept, PeersShape
  <2>5. quota' \in QuotaRecords
    BY <1>15 DEF Accept, PeersShape, RestOK, QuotaRecords
  <2>6. QED
    BY <1>15, <2>4, <2>5 DEF Accept, PeersShape, RestOK, DialersOK
<1>16. ASSUME NEW c \in Conns, OutBegin(c) PROVE PeersShape'
  <2> DEFINE r == [conn[c] EXCEPT !.pc = IF Cancelled(c) THEN "remove" ELSE "up"]
  <2>1. GoodConn(conn[c], starts)
    BY DEF PeersShape, ConnsOK
  <2>2. GoodConn(r, starts)
    BY <1>16, <2>1, ConnMoves DEF OutBegin
  <2>3. conn' = [conn EXCEPT ![c] = r]
    BY <1>16 DEF OutBegin
  <2> HIDE DEF r
  <2>4. ConnsOK'
    BY <1>16, <2>2, <2>3, SetConn DEF OutBegin, PeersShape
  <2>5. QED
    BY <1>16, <2>1, <2>4 DEF OutBegin, PeersShape, RestOK, DialersOK, GoodConn
<1>17. ASSUME NEW c \in Conns, PeerRemove(c) PROVE PeersShape'
  <2> DEFINE r == IF conn[c].dir = "in" THEN NoConn ELSE [conn[c] EXCEPT !.pc = "key", !.live = FALSE]
  <2>1. GoodConn(conn[c], starts)
    BY DEF PeersShape, ConnsOK
  <2>2. GoodConn(r, starts)
    BY <1>17, <2>1, RestingGood DEF PeerRemove, GoodConn, ConnRecords, PeersShape, RestOK
  <2>3. conn' = [conn EXCEPT ![c] = r]
    BY <1>17 DEF PeerRemove
  <2> HIDE DEF r
  <2>4. ConnsOK'
    BY <1>17, <2>2, <2>3, SetConn DEF PeerRemove, PeersShape
  <2>5. QED
    BY <1>17, <2>1, <2>4 DEF PeerRemove, PeersShape, RestOK, DialersOK, GoodConn
<1>18. ASSUME NEW c \in Conns, OutKey(c) PROVE PeersShape'
  <2> DEFINE r == NoConn
  <2>1. GoodConn(conn[c], starts)
    BY DEF PeersShape, ConnsOK
  <2>2. GoodConn(r, starts)
    BY <1>18, <2>1, RestingGood DEF OutKey, GoodConn, ConnRecords, PeersShape, RestOK
  <2>3. conn' = [conn EXCEPT ![c] = r]
    BY <1>18 DEF OutKey
  <2> HIDE DEF r
  <2>4. ConnsOK'
    BY <1>18, <2>2, <2>3, SetConn DEF OutKey, PeersShape
  <2>5. QED
    BY <1>18, <2>1, <2>4 DEF OutKey, PeersShape, RestOK, DialersOK, GoodConn
<1>19. ASSUME NEW c \in Conns, InEnter(c) PROVE PeersShape'
  <2> DEFINE r == [conn[c] EXCEPT !.pc = "match", !.live = TRUE]
  <2>1. GoodConn(conn[c], starts)
    BY DEF PeersShape, ConnsOK
  <2>2. GoodConn(r, starts)
    BY <1>19, <2>1, RestingGood DEF InEnter, GoodConn, ConnRecords, PeersShape, RestOK
  <2>3. conn' = [conn EXCEPT ![c] = r]
    BY <1>19 DEF InEnter
  <2> HIDE DEF r
  <2>4. ConnsOK'
    BY <1>19, <2>2, <2>3, SetConn DEF InEnter, PeersShape
  <2>5. QED
    BY <1>19, <2>1, <2>4 DEF InEnter, PeersShape, RestOK, DialersOK, GoodConn
<1>20. ASSUME NEW c \in Conns, InMatch(c) PROVE PeersShape'
  <2> DEFINE r == IF hotObj = 0 THEN [conn[c] EXCEPT !.pc = "remove"]
                  ELSE [conn[c] EXCEPT !.pc = "handshake", !.obj = hotObj]
  <2>1. GoodConn(conn[c], starts)
    BY DEF PeersShape, ConnsOK
  <2>2. GoodConn(r, starts)
    <3>1. GoodConn([conn[c] EXCEPT !.pc = "remove"], starts)
      BY <1>20, <2>1, ConnMoves DEF InMatch
    <3>2. hotObj \in Nat /\ hotObj <= starts
      BY DEF PeersShape, RestOK
    <3>3. GoodConn([conn[c] EXCEPT !.pc = "handshake", !.obj = hotObj], starts)
      BY <1>20, <2>1, <3>2 DEF InMatch, GoodConn, ConnRecords
    <3>4. QED
      BY <3>1, <3>3
  <2>3. conn' = [conn EXCEPT ![c] = r]
    BY <1>20 DEF InMatch
  <2> HIDE DEF r
  <2>4. ConnsOK'
    BY <1>20, <2>2, <2>3, SetConn DEF InMatch, PeersShape
  <2>5. QED
    BY <1>20, <2>1, <2>4 DEF InMatch, PeersShape, RestOK, DialersOK, GoodConn
<1>21. ASSUME NEW c \in Conns, InLimit(c) PROVE PeersShape'
  <2> DEFINE r == [conn[c] EXCEPT !.pc = "bind", !.max = max_peers]
  <2>1. GoodConn(conn[c], starts)
    BY DEF PeersShape, ConnsOK
  <2>2. GoodConn(r, starts)
    BY <1>21, <2>1, PeersAssumption, RestingGood DEF InLimit, GoodConn, ConnRecords, PeersShape, RestOK
  <2>3. conn' = [conn EXCEPT ![c] = r]
    BY <1>21 DEF InLimit
  <2> HIDE DEF r
  <2>4. ConnsOK'
    BY <1>21, <2>2, <2>3, SetConn DEF InLimit, PeersShape
  <2>5. QED
    BY <1>21, <2>1, <2>4 DEF InLimit, PeersShape, RestOK, DialersOK, GoodConn
<1>22. ASSUME NEW c \in Conns, InBind(c) PROVE PeersShape'
  <2> DEFINE r == IF Cardinality(Bound) >= conn[c].max THEN [conn[c] EXCEPT !.pc = "remove"]
                  ELSE [conn[c] EXCEPT !.pc = "up", !.bound = TRUE, !.max = 0]
  <2>1. GoodConn(conn[c], starts)
    BY DEF PeersShape, ConnsOK
  <2>2. GoodConn(r, starts)
    BY <1>22, <2>1, RestingGood DEF InBind, GoodConn, ConnRecords, PeersShape, RestOK
  <2>3. conn' = [conn EXCEPT ![c] = r]
    BY <1>22 DEF InBind
  <2> HIDE DEF r
  <2>4. ConnsOK'
    BY <1>22, <2>2, <2>3, SetConn DEF InBind, PeersShape
  <2>5. QED
    BY <1>22, <2>1, <2>4 DEF InBind, PeersShape, RestOK, DialersOK, GoodConn
<1>23. ASSUME NEW c \in Conns, OutEnd(c) PROVE PeersShape'
  <2> DEFINE r == [conn[c] EXCEPT !.pc = "remove"]
  <2>1. GoodConn(conn[c], starts)
    BY DEF PeersShape, ConnsOK
  <2>2. GoodConn(r, starts)
    BY <1>23, <2>1, ConnMoves DEF OutEnd
  <2>3. conn' = [conn EXCEPT ![c] = r]
    BY <1>23 DEF OutEnd
  <2> HIDE DEF r
  <2>4. ConnsOK'
    BY <1>23, <2>2, <2>3, SetConn DEF OutEnd, PeersShape
  <2>5. QED
    BY <1>23, <2>1, <2>4 DEF OutEnd, PeersShape, RestOK, DialersOK, GoodConn
<1>24. ASSUME NEW c \in Conns, InEnd(c) PROVE PeersShape'
  <2> DEFINE r == [conn[c] EXCEPT !.pc = "remove"]
  <2>1. GoodConn(conn[c], starts)
    BY DEF PeersShape, ConnsOK
  <2>2. GoodConn(r, starts)
    BY <1>24, <2>1, ConnMoves DEF InEnd
  <2>3. conn' = [conn EXCEPT ![c] = r]
    BY <1>24 DEF InEnd
  <2> HIDE DEF r
  <2>4. ConnsOK'
    BY <1>24, <2>2, <2>3, SetConn DEF InEnd, PeersShape
  <2>5. QED
    BY <1>24, <2>1, <2>4 DEF InEnd, PeersShape, RestOK, DialersOK, GoodConn
<1>25. CASE UNCHANGED peerVars
  BY <1>25 DEF peerVars, PeersShape, RestOK, ConnsOK, DialersOK
<1>26. QED
  BY <1>1, <1>2, <1>3, <1>4, <1>5, <1>6, <1>7, <1>8, <1>9, <1>10, <1>11, <1>12, <1>13, <1>14, <1>15, <1>16, <1>17, <1>18, <1>19, <1>20, <1>21, <1>22, <1>23, <1>24, <1>25 DEF PeersNext, ControlStep, DialStep, ConnStep

\* Every field keeps its shape in every behaviour.
LEMMA PeersShapeAlways == PeersSpec => []PeersShape
<1>1. PeersInit => PeersShape
  <2> SUFFICES ASSUME PeersInit PROVE PeersShape
    OBVIOUS
  <2>1. GoodDial(NoDial, 1) /\ GoodConn(NoConn, 1)
    BY RestingGood
  <2>2. ConnsOK /\ DialersOK
    BY <2>1 DEF PeersInit, ConnsOK, DialersOK
  <2>3. quota \in QuotaRecords
    BY PeersAssumption DEF PeersInit, QuotaRecords
  <2>4. QED
    BY <2>2, <2>3 DEF PeersInit, PeersShape, RestOK
<1>2. PeersShape /\ [PeersNext]_peerVars => PeersShape'
  BY PeersShapeStep
<1>3. QED
  BY <1>1, <1>2, PTL DEF PeersSpec

\* Field types, and the shape of the entries of peers and of the dialers' lists.
THEOREM PeersTypeCorrect == PeersSpec => []PeersTypeOK
<1>1. PeersShape => PeersTypeOK
  BY PeersAssumption DEF PeersShape, ConnsOK, DialersOK, RestOK, GoodConn, GoodDial, ConnRecords, PeersTypeOK
<1>2. QED
  BY <1>1, PeersShapeAlways, PTL

-----------------------------------------------------------------------------
\* SlotsHold, with the limit that a dialer or an inbound task read before it
\* took the lock on peers: none of them is above the highest limit so far.  Who
\* has only been accepted has no slot yet.
SlotInv ==
    /\ SlotsHold
    /\ max_peers <= peak
    /\ \A d \in Dialers : dialer[d].pc = "slot" => dialer[d].max <= peak
    /\ \A c \in Conns : conn[c].pc = "bind" => conn[c].max <= peak
    /\ \A c \in Conns : conn[c].pc = "accepted" => ~conn[c].bound

\* The slots in use are among the connections, a finite set.
LEMMA BoundFinite ==
  ASSUME NEW B \in SUBSET Conns
  PROVE  IsFiniteSet(B) /\ Cardinality(B) \in Nat
BY PeersAssumption, FS_Subset, FS_CardinalityType

\* Slots are only given back.
LEMMA BoundShrinks ==
  ASSUME SlotsHold, Bound' \subseteq Bound, peak \in Nat, peak' \in Nat, peak <= peak'
  PROVE  SlotsHold'
<1>1. Bound \in SUBSET Conns /\ Bound' \in SUBSET Conns
  BY DEF Bound
<1>2. Cardinality(Bound') <= Cardinality(Bound)
  BY <1>1, BoundFinite, FS_Subset
<1>3. QED
  BY <1>1, <1>2, BoundFinite DEF SlotsHold

\* One slot is taken under the lock on peers, after the count.
LEMMA BoundGrows ==
  ASSUME NEW c \in Conns, Bound' \subseteq Bound \cup {c}, NEW m \in Nat, m <= peak,
         Cardinality(Bound) < m, peak \in Nat, peak' = peak
  PROVE  SlotsHold'
<1>1. Bound \in SUBSET Conns /\ Bound' \in SUBSET Conns /\ Bound \cup {c} \in SUBSET Conns
  BY DEF Bound
<1>2. Cardinality(Bound \cup {c}) <= Cardinality(Bound) + 1
  BY <1>1, BoundFinite, FS_AddElement
<1>3. Cardinality(Bound') <= Cardinality(Bound \cup {c})
  BY <1>1, BoundFinite, FS_Subset
<1>4. QED
  BY <1>1, <1>2, <1>3, BoundFinite DEF SlotsHold

\* A dialer that takes no slot.
LEMMA DialKeepsSlots ==
  ASSUME PeersShape, SlotInv, NEW d \in Dialers, NEW r, r.pc = "slot" => r.max <= peak,
         dialer' = [dialer EXCEPT ![d] = r], UNCHANGED <<conn, max_peers, peak>>
  PROVE  SlotInv'
<1>1. \A b \in Dialers : dialer'[b] = IF b = d THEN r ELSE dialer[b]
  BY DEF PeersShape, DialersOK
<1>2. Bound' = Bound
  BY DEF Bound
<1>3. QED
  BY <1>1, <1>2 DEF SlotInv, SlotsHold

\* A peer task that takes no slot.
LEMMA ConnKeepsSlots ==
  ASSUME PeersShape, SlotInv, NEW c \in Conns, NEW r,
         r.live /\ r.bound => conn[c].live /\ conn[c].bound,
         r.pc = "bind" => r.max <= peak, r.pc = "accepted" => ~r.bound,
         conn' = [conn EXCEPT ![c] = r], UNCHANGED <<dialer, max_peers, peak>>
  PROVE  SlotInv'
<1>1. \A b \in Conns : conn'[b] = IF b = c THEN r ELSE conn[b]
  BY DEF PeersShape, ConnsOK
<1>2. Bound' \subseteq Bound
  BY <1>1 DEF Bound
<1>3. SlotsHold'
  BY <1>2, BoundShrinks, PeersAssumption DEF PeersShape, RestOK, SlotInv
<1>4. QED
  BY <1>1, <1>3 DEF SlotInv

\* A slot is taken only by a task that counts under the lock and compares with a
\* limit that was in effect; SlotInv is inductive.
LEMMA SlotInvStep ==
  ASSUME PeersShape, SlotInv, [PeersNext]_peerVars
  PROVE  SlotInv'
<1>1. ASSUME StartFlag PROVE SlotInv'
  BY <1>1 DEF StartFlag, SlotInv, SlotsHold, Bound
<1>2. ASSUME StartPublish PROVE SlotInv'
  BY <1>2 DEF StartPublish, SlotInv, SlotsHold, Bound
<1>3. ASSUME StopFlag PROVE SlotInv'
  BY <1>3 DEF StopFlag, SlotInv, SlotsHold, Bound
<1>4. ASSUME StopRegistry PROVE SlotInv'
  BY <1>4 DEF StopRegistry, SlotInv, SlotsHold, Bound
<1>5. ASSUME StopKeys PROVE SlotInv'
  BY <1>5 DEF StopKeys, SlotInv, SlotsHold, Bound
<1>6. ASSUME StopPeers PROVE SlotInv'
  <2>1. ASSUME NEW c \in Conns
        PROVE  /\ conn'[c].pc = conn[c].pc /\ conn'[c].max = conn[c].max
               /\ conn'[c].bound <=> conn[c].bound
               /\ conn'[c].live => conn[c].live
    <3>1. GoodConn(conn[c], starts)
      BY DEF PeersShape, ConnsOK
    <3>2. CASE c \notin Bound
      BY <1>6, <3>2 DEF StopPeers
    <3>3. CASE c \in Bound
      <4>1. conn'[c] = [conn[c] EXCEPT !.live = FALSE, !.stop = TRUE]
        BY <1>6, <3>3 DEF StopPeers
      <4>2. QED
        BY <3>1, <4>1 DEF GoodConn, ConnRecords
    <3>4. QED
      BY <3>2, <3>3
  <2>2. Bound' \subseteq Bound
    BY <2>1 DEF Bound
  <2>3. SlotsHold'
    <3>1. peak \in Nat /\ peak' = peak /\ SlotsHold
      BY <1>6, PeersAssumption DEF StopPeers, PeersShape, RestOK, SlotInv
    <3>2. QED
      BY <2>2, <3>1, BoundShrinks
  <2>4. QED
    BY <1>6, <2>1, <2>3 DEF StopPeers, SlotInv
<1>7. ASSUME ApplyLimits PROVE SlotInv'
  <2>1. max_peers \in Nat /\ max_peers' \in Nat /\ peak \in Nat /\ max_peers <= peak
    BY <1>7, PeersAssumption DEF ApplyLimits, PeersShape, RestOK, SlotInv
  <2>2. max_peers' <= peak' /\ peak <= peak' /\ peak' \in Nat
    BY <1>7, <2>1, PeersAssumption DEF ApplyLimits
  <2>3. SlotsHold'
    BY <1>7, <2>1, <2>2, BoundShrinks DEF ApplyLimits, SlotInv, Bound
  <2>4. \A d \in Dialers : dialer[d].max \in Nat
    BY DEF PeersShape, DialersOK, GoodDial, DialRecords
  <2>5. \A c \in Conns : conn[c].max \in Nat
    BY DEF PeersShape, ConnsOK, GoodConn, ConnRecords
  <2>6. QED
    BY <1>7, <2>1, <2>2, <2>3, <2>4, <2>5 DEF ApplyLimits, SlotInv
<1>8. ASSUME NEW d \in Dialers, Plan(d) PROVE SlotInv'
  <2>1. PICK merged \in SUBSET (Manual \cup quota.known) :
          dialer' = [dialer EXCEPT ![d] = [NoDial EXCEPT !.pc = "have", !.obj = hotObj,
                                                         !.left = Retained(merged)]]
    BY <1>8 DEF Plan
  <2> DEFINE r == [NoDial EXCEPT !.pc = "have", !.obj = hotObj, !.left = Retained(merged)]
  <2>2. r.pc = "have"
    BY DEF NoDial
  <2>3. dialer' = [dialer EXCEPT ![d] = r]
    BY <2>1
  <2> HIDE DEF r
  <2>4. QED
    BY <1>8, <2>2, <2>3, DialKeepsSlots DEF Plan
<1>9. ASSUME NEW d \in Dialers, NEW e \in Endpoints, SpawnHave(d, e) PROVE SlotInv'
  <2> DEFINE r == IF AlreadyHave(e) \/ e \in cooling THEN Onward([dialer[d] EXCEPT !.left = @ \ {e}])
                  ELSE [[dialer[d] EXCEPT !.left = @ \ {e}] EXCEPT !.pc = "claim", !.at = e]
  <2>1. GoodDial(dialer[d], starts)
    BY DEF PeersShape, DialersOK
  <2>2. r.pc # "slot"
    <3>1. Onward([dialer[d] EXCEPT !.left = @ \ {e}]).pc # "slot"
      BY OnwardPc
    <3>2. [[dialer[d] EXCEPT !.left = @ \ {e}] EXCEPT !.pc = "claim", !.at = e].pc = "claim"
      BY <2>1 DEF GoodDial, DialRecords
    <3>3. QED
      BY <3>1, <3>2
  <2>3. dialer' = [dialer EXCEPT ![d] = r]
    BY <1>9 DEF SpawnHave
  <2> HIDE DEF r
  <2>4. QED
    BY <1>9, <2>2, <2>3, DialKeepsSlots DEF SpawnHave
<1>10. ASSUME NEW d \in Dialers, SpawnClaim(d) PROVE SlotInv'
  <2> DEFINE r == IF dialer[d].at \in connected_out THEN Onward(dialer[d])
                  ELSE [dialer[d] EXCEPT !.pc = "flag"]
  <2>1. GoodDial(dialer[d], starts)
    BY DEF PeersShape, DialersOK
  <2>2. r.pc # "slot"
    BY <2>1, OnwardPc DEF GoodDial, DialRecords
  <2>3. dialer' = [dialer EXCEPT ![d] = r]
    BY <1>10 DEF SpawnClaim
  <2> HIDE DEF r
  <2>4. QED
    BY <1>10, <2>2, <2>3, DialKeepsSlots DEF SpawnClaim
<1>11. ASSUME NEW d \in Dialers, SpawnFlag(d) PROVE SlotInv'
  <2> DEFINE r == IF flag = 0 THEN [dialer[d] EXCEPT !.pc = "unclaim"]
                  ELSE [dialer[d] EXCEPT !.pc = "slot", !.run = flag, !.max = max_peers]
  <2>1. GoodDial(dialer[d], starts)
    BY DEF PeersShape, DialersOK
  <2>2. r.pc = "slot" => r.max <= peak
    BY <2>1 DEF GoodDial, DialRecords, SlotInv
  <2>3. dialer' = [dialer EXCEPT ![d] = r]
    BY <1>11 DEF SpawnFlag
  <2> HIDE DEF r
  <2>4. QED
    BY <1>11, <2>2, <2>3, DialKeepsSlots DEF SpawnFlag
<1>12. ASSUME NEW d \in Dialers, SpawnSlot(d) PROVE SlotInv'
  <2>1. GoodDial(dialer[d], starts) /\ dialer[d].pc \in AtWork
    BY <1>12 DEF SpawnSlot, PeersShape, DialersOK, AtWork
  <2>2. CASE ~SlotFree(d) /\ dialer' = [dialer EXCEPT ![d].pc = "unclaim"] /\ conn' = conn
    <3> DEFINE r == [dialer[d] EXCEPT !.pc = "unclaim"]
    <3>1. r.pc = "unclaim" /\ dialer' = [dialer EXCEPT ![d] = r]
      BY <2>1, <2>2 DEF GoodDial, DialRecords
    <3> HIDE DEF r
    <3>2. QED
      BY <1>12, <2>2, <3>1, DialKeepsSlots DEF SpawnSlot
  <2>3. CASE SlotFree(d) /\ dialer' = [dialer EXCEPT ![d] = Onward(@)]
         /\ \E c \in Conns : SpawnedOut(d, c)
    <3>1. PICK c \in Conns : SpawnedOut(d, c)
      BY <2>3
    <3>2. /\ \A b \in Conns : b # c => conn'[b] = conn[b]
          /\ conn'[c].pc = "spawned"
      BY <1>12, <2>1, <3>1, SpawnedOutGood DEF SpawnSlot, PeersShape
    <3>3. \A b \in Dialers : dialer'[b].pc = "slot" => dialer'[b].max <= peak
      BY <2>3, OnwardPc DEF PeersShape, DialersOK, SlotInv
    <3>4. Bound' \subseteq Bound \cup {c}
      BY <3>2 DEF Bound
    <3>5. dialer[d].max \in Nat /\ dialer[d].max <= peak /\ Cardinality(Bound) < dialer[d].max
      BY <1>12, <2>1, <2>3 DEF SpawnSlot, SlotFree, SlotInv, GoodDial, DialRecords
    <3>6. SlotsHold'
      BY <1>12, <3>4, <3>5, BoundGrows, PeersAssumption DEF SpawnSlot, PeersShape, RestOK
    <3>7. QED
      BY <1>12, <3>2, <3>3, <3>6 DEF SpawnSlot, SlotInv
  <2>4. QED
    BY <1>12, <2>2, <2>3 DEF SpawnSlot, SpawnedOut
<1>13. ASSUME NEW d \in Dialers, SpawnUnclaim(d) PROVE SlotInv'
  <2> DEFINE r == Onward(dialer[d])
  <2>1. GoodDial(dialer[d], starts)
    BY DEF PeersShape, DialersOK
  <2>2. r.pc # "slot"
    BY OnwardPc
  <2>3. dialer' = [dialer EXCEPT ![d] = r]
    BY <1>13 DEF SpawnUnclaim
  <2> HIDE DEF r
  <2>4. QED
    BY <1>13, <2>2, <2>3, DialKeepsSlots DEF SpawnUnclaim
<1>14. ASSUME NEW e \in Endpoints, CooledDown(e) PROVE SlotInv'
  BY <1>14 DEF CooledDown, SlotInv, SlotsHold, Bound
<1>15. ASSUME Accept PROVE SlotInv'
  <2> DEFINE r == [NoConn EXCEPT !.dir = "in", !.pc = "accepted"]
  <2>1. PICK c \in Conns : conn' = [conn EXCEPT ![c] = r]
    BY <1>15 DEF Accept
  <2>2. r.pc = "accepted" /\ ~r.bound
    BY NewIn
  <2> HIDE DEF r
  <2>3. QED
    BY <1>15, <2>1, <2>2, ConnKeepsSlots DEF Accept
<1>16. ASSUME NEW c \in Conns, OutBegin(c) PROVE SlotInv'
  <2> DEFINE r == [conn[c] EXCEPT !.pc = IF Cancelled(c) THEN "remove" ELSE "up"]
  <2>1. GoodConn(conn[c], starts)
    BY DEF PeersShape, ConnsOK
  <2>2. /\ r.live /\ r.bound => conn[c].live /\ conn[c].bound
        /\ r.pc = "bind" => r.max <= peak
        /\ r.pc = "accepted" => ~r.bound
    BY <1>16, <2>1 DEF OutBegin, GoodConn, ConnRecords, SlotInv
  <2>3. conn' = [conn EXCEPT ![c] = r]
    BY <1>16 DEF OutBegin
  <2> HIDE DEF r
  <2>4. QED
    BY <1>16, <2>2, <2>3, ConnKeepsSlots DEF OutBegin
<1>17. ASSUME NEW c \in Conns, PeerRemove(c) PROVE SlotInv'
  <2> DEFINE r == IF conn[c].dir = "in" THEN NoConn ELSE [conn[c] EXCEPT !.pc = "key", !.live = FALSE]
  <2>1. GoodConn(conn[c], starts)
    BY DEF PeersShape, ConnsOK
  <2>2. /\ r.live /\ r.bound => conn[c].live /\ conn[c].bound
        /\ r.pc = "bind" => r.max <= peak
        /\ r.pc = "accepted" => ~r.bound
    BY <1>17, <2>1 DEF PeerRemove, GoodConn, ConnRecords, SlotInv, NoConn
  <2>3. conn' = [conn EXCEPT ![c] = r]
    BY <1>17 DEF PeerRemove
  <2> HIDE DEF r
  <2>4. QED
    BY <1>17, <2>2, <2>3, ConnKeepsSlots DEF PeerRemove
<1>18. ASSUME NEW c \in Conns, OutKey(c) PROVE SlotInv'
  <2> DEFINE r == NoConn
  <2>1. GoodConn(conn[c], starts)
    BY DEF PeersShape, ConnsOK
  <2>2. /\ r.live /\ r.bound => conn[c].live /\ conn[c].bound
        /\ r.pc = "bind" => r.max <= peak
        /\ r.pc = "accepted" => ~r.bound
    BY <1>18, <2>1 DEF OutKey, GoodConn, ConnRecords, SlotInv, NoConn
  <2>3. conn' = [conn EXCEPT ![c] = r]
    BY <1>18 DEF OutKey
  <2> HIDE DEF r
  <2>4. QED
    BY <1>18, <2>2, <2>3, ConnKeepsSlots DEF OutKey
<1>19. ASSUME NEW c \in Conns, InEnter(c) PROVE SlotInv'
  <2> DEFINE r == [conn[c] EXCEPT !.pc = "match", !.live = TRUE]
  <2>1. GoodConn(conn[c], starts)
    BY DEF PeersShape, ConnsOK
  <2>2. /\ r.live /\ r.bound => conn[c].live /\ conn[c].bound
        /\ r.pc = "bind" => r.max <= peak
        /\ r.pc = "accepted" => ~r.bound
    BY <1>19, <2>1 DEF InEnter, GoodConn, ConnRecords, SlotInv
  <2>3. conn' = [conn EXCEPT ![c] = r]
    BY <1>19 DEF InEnter
  <2> HIDE DEF r
  <2>4. QED
    BY <1>19, <2>2, <2>3, ConnKeepsSlots DEF InEnter
<1>20. ASSUME NEW c \in Conns, InMatch(c) PROVE SlotInv'
  <2> DEFINE r == IF hotObj = 0 THEN [conn[c] EXCEPT !.pc = "remove"]
                  ELSE [conn[c] EXCEPT !.pc = "handshake", !.obj = hotObj]
  <2>1. GoodConn(conn[c], starts)
    BY DEF PeersShape, ConnsOK
  <2>2. /\ r.live /\ r.bound => conn[c].live /\ conn[c].bound
        /\ r.pc = "bind" => r.max <= peak
        /\ r.pc = "accepted" => ~r.bound
    BY <1>20, <2>1 DEF InMatch, GoodConn, ConnRecords, SlotInv
  <2>3. conn' = [conn EXCEPT ![c] = r]
    BY <1>20 DEF InMatch
  <2> HIDE DEF r
  <2>4. QED
    BY <1>20, <2>2, <2>3, ConnKeepsSlots DEF InMatch
<1>21. ASSUME NEW c \in Conns, InLimit(c) PROVE SlotInv'
  <2> DEFINE r == [conn[c] EXCEPT !.pc = "bind", !.max = max_peers]
  <2>1. GoodConn(conn[c], starts)
    BY DEF PeersShape, ConnsOK
  <2>2. /\ r.live /\ r.bound => conn[c].live /\ conn[c].bound
        /\ r.pc = "bind" => r.max <= peak
        /\ r.pc = "accepted" => ~r.bound
    BY <1>21, <2>1 DEF InLimit, GoodConn, ConnRecords, SlotInv
  <2>3. conn' = [conn EXCEPT ![c] = r]
    BY <1>21 DEF InLimit
  <2> HIDE DEF r
  <2>4. QED
    BY <1>21, <2>2, <2>3, ConnKeepsSlots DEF InLimit
<1>22. ASSUME NEW c \in Conns, InBind(c) PROVE SlotInv'
  <2>1. GoodConn(conn[c], starts) /\ conn[c].max \in Nat /\ conn[c].max <= peak
    BY <1>22 DEF InBind, PeersShape, ConnsOK, GoodConn, ConnRecords, SlotInv
  <2>2. CASE Cardinality(Bound) >= conn[c].max
    <3> DEFINE r == [conn[c] EXCEPT !.pc = "remove"]
    <3>1. /\ r.live /\ r.bound => conn[c].live /\ conn[c].bound
          /\ r.pc = "remove"
      BY <2>1 DEF GoodConn, ConnRecords
    <3>2. conn' = [conn EXCEPT ![c] = r]
      BY <1>22, <2>2 DEF InBind
    <3> HIDE DEF r
    <3>3. QED
      BY <1>22, <3>1, <3>2, ConnKeepsSlots DEF InBind
  <2>3. CASE ~(Cardinality(Bound) >= conn[c].max)
    <3> DEFINE r == [conn[c] EXCEPT !.pc = "up", !.bound = TRUE, !.max = 0]
    <3>1. r.pc = "up"
      BY <2>1 DEF GoodConn, ConnRecords
    <3>2. conn' = [conn EXCEPT ![c] = r]
      BY <1>22, <2>3 DEF InBind
    <3> HIDE DEF r
    <3>3. \A b \in Conns : conn'[b] = IF b = c THEN r ELSE conn[b]
      BY <3>2 DEF PeersShape, ConnsOK
    <3>4. Bound' \subseteq Bound \cup {c}
      BY <3>3 DEF Bound
    <3>5. Cardinality(Bound) \in Nat
      BY BoundFinite DEF Bound
    <3>6. SlotsHold'
      BY <1>22, <2>1, <2>3, <3>4, <3>5, BoundGrows, PeersAssumption DEF InBind, PeersShape, RestOK
    <3>7. QED
      BY <1>22, <3>1, <3>3, <3>6 DEF InBind, SlotInv
  <2>4. QED
    BY <2>2, <2>3
<1>23. ASSUME NEW c \in Conns, OutEnd(c) PROVE SlotInv'
  <2> DEFINE r == [conn[c] EXCEPT !.pc = "remove"]
  <2>1. GoodConn(conn[c], starts)
    BY DEF PeersShape, ConnsOK
  <2>2. /\ r.live /\ r.bound => conn[c].live /\ conn[c].bound
        /\ r.pc = "bind" => r.max <= peak
        /\ r.pc = "accepted" => ~r.bound
    BY <1>23, <2>1 DEF OutEnd, GoodConn, ConnRecords, SlotInv
  <2>3. conn' = [conn EXCEPT ![c] = r]
    BY <1>23 DEF OutEnd
  <2> HIDE DEF r
  <2>4. QED
    BY <1>23, <2>2, <2>3, ConnKeepsSlots DEF OutEnd
<1>24. ASSUME NEW c \in Conns, InEnd(c) PROVE SlotInv'
  <2> DEFINE r == [conn[c] EXCEPT !.pc = "remove"]
  <2>1. GoodConn(conn[c], starts)
    BY DEF PeersShape, ConnsOK
  <2>2. /\ r.live /\ r.bound => conn[c].live /\ conn[c].bound
        /\ r.pc = "bind" => r.max <= peak
        /\ r.pc = "accepted" => ~r.bound
    BY <1>24, <2>1 DEF InEnd, GoodConn, ConnRecords, SlotInv
  <2>3. conn' = [conn EXCEPT ![c] = r]
    BY <1>24 DEF InEnd
  <2> HIDE DEF r
  <2>4. QED
    BY <1>24, <2>2, <2>3, ConnKeepsSlots DEF InEnd
<1>25. CASE UNCHANGED peerVars
  BY <1>25 DEF peerVars, SlotInv, SlotsHold, Bound
<1>26. QED
  BY <1>1, <1>2, <1>3, <1>4, <1>5, <1>6, <1>7, <1>8, <1>9, <1>10, <1>11, <1>12, <1>13, <1>14, <1>15, <1>16, <1>17, <1>18, <1>19, <1>20, <1>21, <1>22, <1>23, <1>24, <1>25 DEF PeersNext, ControlStep, DialStep, ConnStep

\* The dialers and the inbound tasks together never fill more slots than the
\* highest limit that was in effect (the count under one lock in spawn_outbound
\* and on_bound).
THEOREM SlotsNeverOverfilled == PeersSpec => []SlotsHold
<1>1. PeersInit => SlotInv
  <2> SUFFICES ASSUME PeersInit PROVE SlotInv
    OBVIOUS
  <2>1. Bound = {}
    BY DEF PeersInit, Bound, NoConn
  <2>2. Cardinality(Bound) = 0
    BY <2>1, FS_EmptySet
  <2>3. QED
    BY <2>2, PeersAssumption DEF PeersInit, SlotInv, SlotsHold, NoConn, NoDial
<1>2. PeersShape /\ SlotInv /\ [PeersNext]_peerVars => SlotInv'
  BY SlotInvStep
<1>3. SlotInv => SlotsHold
  BY DEF SlotInv
<1>4. QED
  BY <1>1, <1>2, <1>3, PeersShapeAlways, PTL DEF PeersSpec

-----------------------------------------------------------------------------
\* Who stands for endpoint e in the present run: a dialer that has its key, or
\* an outbound task whose flag is the torrent's.
FreshDial(d, e) == dialer[d].at = e /\ dialer[d].pc \in {"flag", "slot", "unclaim"}
FreshConn(c, e) == conn[c].dir = "out" /\ conn[c].at = e /\ conn[c].run = flag /\ ~conn[c].stop
Fresh(e) == {d \in Dialers : FreshDial(d, e)} \cup {c \in Conns : FreshConn(c, e)}

\* At most one of them, and none when the key is not there, unless somebody's
\* end took the key of another; a stop leaves the torrent without a flag until
\* the keys and the peers are gone.
KeyInv ==
    /\ ctl \in {"unhot", "keys", "peers"} => flag = 0
    /\ \A c \in Conns : conn[c].dir = "out" => conn[c].run # 0
    /\ \A d \in Dialers : dialer[d].pc = "slot" => dialer[d].run # 0
    /\ \A e \in Endpoints \ keyLost :
          /\ \A x, y \in Fresh(e) : x = y
          /\ e \notin connected_out => Fresh(e) = {}

\* What the conjuncts about one task say.
TaskKeys ==
    /\ ctl \in {"unhot", "keys", "peers"} => flag = 0
    /\ \A c \in Conns : conn[c].dir = "out" => conn[c].run # 0
    /\ \A d \in Dialers : dialer[d].pc = "slot" => dialer[d].run # 0

\* Nobody new stands for an endpoint, and no key goes.
LEMMA KeysKeep ==
  ASSUME KeyInv, TaskKeys', \A e \in Endpoints : (Fresh(e))' \subseteq Fresh(e),
         connected_out \subseteq connected_out', keyLost \subseteq keyLost'
  PROVE  KeyInv'
<1> SUFFICES ASSUME NEW e \in Endpoints, e \notin keyLost'
             PROVE  /\ \A x, y \in (Fresh(e))' : x = y
                    /\ e \notin connected_out' => (Fresh(e))' = {}
  BY DEF KeyInv, TaskKeys
<1>1. /\ \A x, y \in Fresh(e) : x = y
      /\ e \notin connected_out => Fresh(e) = {}
  BY DEF KeyInv
<1>2. (Fresh(e))' \subseteq Fresh(e)
  OBVIOUS
<1>3. QED
  BY <1>1, <1>2

\* A dialer that moves on with the same endpoint disturbs no key.
LEMMA DialKeepsKeys ==
  ASSUME PeersShape, KeyInv, NEW d \in Dialers, NEW r,
         r.pc \in {"flag", "slot", "unclaim"} =>
             dialer[d].pc \in {"flag", "slot", "unclaim"} /\ r.at = dialer[d].at,
         r.pc = "slot" => r.run # 0,
         dialer' = [dialer EXCEPT ![d] = r],
         UNCHANGED <<conn, flag, ctl>>, connected_out \subseteq connected_out', keyLost' = keyLost
  PROVE  KeyInv'
<1>1. \A b \in Dialers : dialer'[b] = IF b = d THEN r ELSE dialer[b]
  BY DEF PeersShape, DialersOK
<1>2. TaskKeys'
  BY <1>1 DEF TaskKeys, KeyInv
<1>3. \A e \in Endpoints : (Fresh(e))' \subseteq Fresh(e)
  BY <1>1 DEF Fresh, FreshDial, FreshConn
<1>4. QED
  BY <1>2, <1>3, KeysKeep

\* A task that moves on with the same endpoint and run disturbs no key.
LEMMA ConnKeepsKeys ==
  ASSUME PeersShape, KeyInv, NEW c \in Conns, NEW r,
         r.dir = "out" => /\ conn[c].dir = "out" /\ r.at = conn[c].at /\ r.run = conn[c].run
                          /\ r.stop <=> conn[c].stop,
         conn' = [conn EXCEPT ![c] = r], UNCHANGED <<dialer, flag, connected_out, keyLost, ctl>>
  PROVE  KeyInv'
<1>1. \A b \in Conns : conn'[b] = IF b = c THEN r ELSE conn[b]
  BY DEF PeersShape, ConnsOK
<1>2. TaskKeys'
  BY <1>1 DEF TaskKeys, KeyInv
<1>3. \A e \in Endpoints : (Fresh(e))' \subseteq Fresh(e)
  BY <1>1 DEF Fresh, FreshDial, FreshConn
<1>4. QED
  BY <1>2, <1>3, KeysKeep

\* The end of a task or of a dialer takes the key of e away: either nobody is
\* left, or the key of another is lost.
LEMMA KeyGoes ==
  ASSUME KeyInv, TaskKeys', NEW e \in Endpoints,
         \A o \in Endpoints : (Fresh(o))' \subseteq Fresh(o),
         connected_out' = connected_out \ {e}, keyLost \subseteq keyLost',
         e \in keyLost' \/ (Fresh(e))' = {}
  PROVE  KeyInv'
<1> SUFFICES ASSUME NEW o \in Endpoints, o \notin keyLost'
             PROVE  /\ \A x, y \in (Fresh(o))' : x = y
                    /\ o \notin connected_out' => (Fresh(o))' = {}
  BY DEF KeyInv, TaskKeys
<1>1. /\ \A x, y \in Fresh(o) : x = y
      /\ o \notin connected_out => Fresh(o) = {}
  BY DEF KeyInv
<1>2. (Fresh(o))' \subseteq Fresh(o)
  OBVIOUS
<1>3. QED
  BY <1>1, <1>2

\* Whoever stands for an endpoint is among those whose end takes its key.
LEMMA FreshHold ==
  ASSUME NEW e \in Endpoints
  PROVE  Fresh(e) \subseteq KeyHolders(e)
BY DEF Fresh, FreshDial, FreshConn, KeyHolders

\* A key is taken once, and taken away by the end of its holder; KeyInv is
\* inductive.
LEMMA KeyInvStep ==
  ASSUME PeersShape, KeyInv, [PeersNext]_peerVars
  PROVE  KeyInv'
<1>1. ASSUME StartFlag PROVE KeyInv'
  <2>1. \A e \in Endpoints : (Fresh(e))' \subseteq Fresh(e)
    <3>1. \A c \in Conns : conn[c].run # flag'
      BY <1>1 DEF StartFlag, FreshFlag, PeersShape, ConnsOK, RestOK, GoodConn, ConnRecords
    <3>2. QED
      BY <1>1, <3>1 DEF StartFlag, Fresh, FreshDial, FreshConn
  <2>2. TaskKeys'
    BY <1>1 DEF StartFlag, TaskKeys, KeyInv
  <2>3. QED
    BY <1>1, <2>1, <2>2, KeysKeep DEF StartFlag
<1>2. ASSUME StartPublish PROVE KeyInv'
  <2>1. \A e \in Endpoints : (Fresh(e))' = Fresh(e)
    BY <1>2 DEF StartPublish, Fresh, FreshDial, FreshConn
  <2>2. TaskKeys'
    BY <1>2 DEF StartPublish, TaskKeys, KeyInv
  <2>3. QED
    BY <1>2, <2>1, <2>2, KeysKeep DEF StartPublish
<1>3. ASSUME StopFlag PROVE KeyInv'
  <2>1. \A e \in Endpoints : (Fresh(e))' \subseteq Fresh(e)
    BY <1>3 DEF StopFlag, KeyInv, Fresh, FreshDial, FreshConn
  <2>2. TaskKeys'
    BY <1>3 DEF StopFlag, TaskKeys, KeyInv
  <2>3. QED
    BY <1>3, <2>1, <2>2, KeysKeep DEF StopFlag
<1>4. ASSUME StopRegistry PROVE KeyInv'
  <2>1. \A e \in Endpoints : (Fresh(e))' = Fresh(e)
    BY <1>4 DEF StopRegistry, Fresh, FreshDial, FreshConn
  <2>2. TaskKeys'
    BY <1>4 DEF StopRegistry, TaskKeys, KeyInv
  <2>3. QED
    BY <1>4, <2>1, <2>2, KeysKeep DEF StopRegistry
<1>5. ASSUME StopKeys PROVE KeyInv'
  <2>1. flag = 0
    BY <1>5 DEF StopKeys, KeyInv
  <2>2. TaskKeys'
    BY <1>5, <2>1 DEF StopKeys, TaskKeys, KeyInv
  <2> SUFFICES ASSUME NEW e \in Endpoints, e \notin keyLost'
               PROVE  (Fresh(e))' = {}
    BY <2>2 DEF KeyInv, TaskKeys
  <2>3. (Fresh(e))' = Fresh(e)
    BY <1>5 DEF StopKeys, Fresh, FreshDial, FreshConn
  <2>4. \A c \in Conns : ~FreshConn(c, e)
    BY <2>1 DEF FreshConn, KeyInv
  <2>5. CASE e \in connected_out
    <3>1. KeyHolders(e) \cap Dialers = {}
      BY <1>5, <2>5 DEF StopKeys
    <3>2. \A d \in Dialers : ~FreshDial(d, e)
      BY <3>1 DEF KeyHolders, FreshDial
    <3>3. QED
      BY <2>3, <2>4, <3>2 DEF Fresh
  <2>6. CASE e \notin connected_out
    BY <1>5, <2>3, <2>6 DEF StopKeys, KeyInv
  <2>7. QED
    BY <2>5, <2>6
<1>6. ASSUME StopPeers PROVE KeyInv'
  <2>1. ASSUME NEW c \in Conns
        PROVE  /\ conn'[c].dir = conn[c].dir /\ conn'[c].at = conn[c].at /\ conn'[c].run = conn[c].run
               /\ conn[c].stop => conn'[c].stop
    <3>1. GoodConn(conn[c], starts)
      BY DEF PeersShape, ConnsOK
    <3>2. CASE c \notin Bound
      BY <1>6, <3>2 DEF StopPeers
    <3>3. CASE c \in Bound
      <4>1. conn'[c] = [conn[c] EXCEPT !.live = FALSE, !.stop = TRUE]
        BY <1>6, <3>3 DEF StopPeers
      <4>2. QED
        BY <3>1, <4>1 DEF GoodConn, ConnRecords
    <3>4. QED
      BY <3>2, <3>3
  <2>2. UNCHANGED <<dialer, flag, connected_out, keyLost>> /\ ctl' = "idle"
    BY <1>6 DEF StopPeers
  <2>3. \A e \in Endpoints : (Fresh(e))' \subseteq Fresh(e)
    BY <2>1, <2>2 DEF Fresh, FreshDial, FreshConn
  <2>4. TaskKeys'
    BY <2>1, <2>2 DEF TaskKeys, KeyInv
  <2>5. QED
    BY <2>2, <2>3, <2>4, KeysKeep
<1>7. ASSUME ApplyLimits PROVE KeyInv'
  <2>1. \A e \in Endpoints : (Fresh(e))' = Fresh(e)
    BY <1>7 DEF ApplyLimits, Fresh, FreshDial, FreshConn
  <2>2. TaskKeys'
    BY <1>7 DEF ApplyLimits, TaskKeys, KeyInv
  <2>3. QED
    BY <1>7, <2>1, <2>2, KeysKeep DEF ApplyLimits
<1>8. ASSUME NEW d \in Dialers, Plan(d) PROVE KeyInv'
  <2>1. PICK merged \in SUBSET (Manual \cup quota.known) :
          dialer' = [dialer EXCEPT ![d] = [NoDial EXCEPT !.pc = "have", !.obj = hotObj,
                                                         !.left = Retained(merged)]]
    BY <1>8 DEF Plan
  <2> DEFINE r == [NoDial EXCEPT !.pc = "have", !.obj = hotObj, !.left = Retained(merged)]
  <2>2. r.pc = "have"
    BY DEF NoDial
  <2>3. dialer' = [dialer EXCEPT ![d] = r]
    BY <2>1
  <2> HIDE DEF r
  <2>4. QED
    BY <1>8, <2>2, <2>3, DialKeepsKeys DEF Plan
<1>9. ASSUME NEW d \in Dialers, NEW e \in Endpoints, SpawnHave(d, e) PROVE KeyInv'
  <2> DEFINE r == IF AlreadyHave(e) \/ e \in cooling THEN Onward([dialer[d] EXCEPT !.left = @ \ {e}])
                  ELSE [[dialer[d] EXCEPT !.left = @ \ {e}] EXCEPT !.pc = "claim", !.at = e]
  <2>1. GoodDial(dialer[d], starts)
    BY DEF PeersShape, DialersOK
  <2>2. r.pc \in {"idle", "have", "claim"}
    <3>1. Onward([dialer[d] EXCEPT !.left = @ \ {e}]).pc \in {"idle", "have"}
      BY OnwardPc
    <3>2. [[dialer[d] EXCEPT !.left = @ \ {e}] EXCEPT !.pc = "claim", !.at = e].pc = "claim"
      BY <2>1 DEF GoodDial, DialRecords
    <3>3. QED
      BY <3>1, <3>2
  <2>3. dialer' = [dialer EXCEPT ![d] = r]
    BY <1>9 DEF SpawnHave
  <2> HIDE DEF r
  <2>4. QED
    BY <1>9, <2>2, <2>3, DialKeepsKeys DEF SpawnHave
<1>10. ASSUME NEW d \in Dialers, SpawnClaim(d) PROVE KeyInv'
  <2>1. GoodDial(dialer[d], starts) /\ dialer[d].pc = "claim" /\ dialer[d].at \in Endpoints
    BY <1>10 DEF SpawnClaim, PeersShape, DialersOK, GoodDial, AtWork
  <2>2. CASE dialer[d].at \in connected_out
    <3>1. Onward(dialer[d]).pc \in {"idle", "have"}
      BY OnwardPc
    <3>2. dialer' = [dialer EXCEPT ![d] = Onward(dialer[d])]
      BY <1>10, <2>2 DEF SpawnClaim
    <3>3. QED
      BY <1>10, <3>1, <3>2, DialKeepsKeys DEF SpawnClaim
  <2>3. CASE dialer[d].at \notin connected_out
    <3> DEFINE r == [dialer[d] EXCEPT !.pc = "flag"]
    <3>1. r.pc = "flag" /\ r.at = dialer[d].at
      BY <2>1 DEF GoodDial, DialRecords
    <3>2. dialer' = [dialer EXCEPT ![d] = r]
      BY <1>10, <2>3 DEF SpawnClaim
    <3> HIDE DEF r
    <3>3. \A x \in Dialers : dialer'[x] = IF x = d THEN r ELSE dialer[x]
      BY <3>2 DEF PeersShape, DialersOK
    <3>4. /\ connected_out' = connected_out \cup {dialer[d].at}
          /\ UNCHANGED <<conn, flag, ctl, keyLost>>
      BY <1>10 DEF SpawnClaim
    <3>5. TaskKeys'
      BY <3>1, <3>3, <3>4 DEF TaskKeys, KeyInv
    <3>6. ASSUME NEW e \in Endpoints, e # dialer[d].at PROVE (Fresh(e))' \subseteq Fresh(e)
      BY <3>1, <3>3, <3>4, <3>6 DEF Fresh, FreshDial, FreshConn
    <3>7. ASSUME NEW e \in Endpoints, e = dialer[d].at PROVE (Fresh(e))' \subseteq Fresh(e) \cup {d}
      BY <3>1, <3>3, <3>4, <3>7 DEF Fresh, FreshDial, FreshConn
    <3> SUFFICES ASSUME NEW e \in Endpoints, e \notin keyLost'
                 PROVE  /\ \A x, y \in (Fresh(e))' : x = y
                        /\ e \notin connected_out' => (Fresh(e))' = {}
      BY <3>5 DEF KeyInv, TaskKeys
    <3>8. /\ \A x, y \in Fresh(e) : x = y
          /\ e \notin connected_out => Fresh(e) = {}
      BY <3>4 DEF KeyInv
    <3>9. CASE e = dialer[d].at
      BY <2>3, <3>4, <3>7, <3>8, <3>9
    <3>10. CASE e # dialer[d].at
      BY <3>4, <3>6, <3>8, <3>10
    <3>11. QED
      BY <3>9, <3>10
  <2>4. QED
    BY <2>2, <2>3
<1>11. ASSUME NEW d \in Dialers, SpawnFlag(d) PROVE KeyInv'
  <2> DEFINE r == IF flag = 0 THEN [dialer[d] EXCEPT !.pc = "unclaim"]
                  ELSE [dialer[d] EXCEPT !.pc = "slot", !.run = flag, !.max = max_peers]
  <2>1. GoodDial(dialer[d], starts)
    BY DEF PeersShape, DialersOK
  <2>2. /\ r.at = dialer[d].at /\ dialer[d].pc = "flag"
        /\ r.pc = "slot" => r.run # 0
    BY <1>11, <2>1 DEF SpawnFlag, GoodDial, DialRecords
  <2>3. dialer' = [dialer EXCEPT ![d] = r]
    BY <1>11 DEF SpawnFlag
  <2> HIDE DEF r
  <2>4. QED
    BY <1>11, <2>2, <2>3, DialKeepsKeys DEF SpawnFlag
<1>12. ASSUME NEW d \in Dialers, SpawnSlot(d) PROVE KeyInv'
  <2>1. GoodDial(dialer[d], starts) /\ dialer[d].pc = "slot" /\ dialer[d].at \in Endpoints
    BY <1>12 DEF SpawnSlot, PeersShape, DialersOK, GoodDial, AtWork
  <2>2. CASE ~SlotFree(d) /\ dialer' = [dialer EXCEPT ![d].pc = "unclaim"] /\ conn' = conn
    <3> DEFINE r == [dialer[d] EXCEPT !.pc = "unclaim"]
    <3>1. r.pc = "unclaim" /\ r.at = dialer[d].at /\ dialer' = [dialer EXCEPT ![d] = r]
      BY <2>1, <2>2 DEF GoodDial, DialRecords
    <3> HIDE DEF r
    <3>2. QED
      BY <1>12, <2>1, <2>2, <3>1, DialKeepsKeys DEF SpawnSlot
  <2>3. CASE SlotFree(d) /\ dialer' = [dialer EXCEPT ![d] = Onward(@)]
         /\ \E c \in Conns : SpawnedOut(d, c)
    <3>1. PICK c \in Conns : SpawnedOut(d, c)
      BY <2>3
    <3>2. /\ \A x \in Conns : x # c => conn'[x] = conn[x]
          /\ conn'[c].dir = "out" /\ conn'[c].at = dialer[d].at /\ conn'[c].run = dialer[d].run
      BY <1>12, <2>1, <3>1, SpawnedOutGood DEF SpawnSlot, PeersShape, AtWork
    <3>3. /\ Onward(dialer[d]).pc \in {"idle", "have"}
          /\ \A x \in Dialers : dialer'[x] = IF x = d THEN Onward(dialer[d]) ELSE dialer[x]
      BY <2>3, OnwardPc DEF PeersShape, DialersOK
    <3>4. UNCHANGED <<flag, ctl, connected_out, keyLost>>
      BY <1>12 DEF SpawnSlot
    <3>5. TaskKeys'
      BY <2>1, <3>2, <3>3, <3>4 DEF TaskKeys, KeyInv
    <3>6. ASSUME NEW e \in Endpoints, e # dialer[d].at PROVE (Fresh(e))' \subseteq Fresh(e)
      BY <3>2, <3>3, <3>4, <3>6 DEF Fresh, FreshDial, FreshConn
    <3>7. ASSUME NEW e \in Endpoints, e = dialer[d].at
          PROVE  (Fresh(e))' \subseteq (Fresh(e) \ {d}) \cup {c} /\ d \in Fresh(e)
      BY <2>1, <3>2, <3>3, <3>4, <3>7, PeersAssumption DEF Fresh, FreshDial, FreshConn
    <3> SUFFICES ASSUME NEW e \in Endpoints, e \notin keyLost'
                 PROVE  /\ \A x, y \in (Fresh(e))' : x = y
                        /\ e \notin connected_out' => (Fresh(e))' = {}
      BY <3>5 DEF KeyInv, TaskKeys
    <3>8. /\ \A x, y \in Fresh(e) : x = y
          /\ e \notin connected_out => Fresh(e) = {}
      BY <3>4 DEF KeyInv
    <3>9. CASE e = dialer[d].at
      BY <3>4, <3>7, <3>8, <3>9
    <3>10. CASE e # dialer[d].at
      BY <3>4, <3>6, <3>8, <3>10
    <3>11. QED
      BY <3>9, <3>10
  <2>4. QED
    BY <1>12, <2>2, <2>3 DEF SpawnSlot, SpawnedOut
<1>13. ASSUME NEW d \in Dialers, SpawnUnclaim(d) PROVE KeyInv'
  <2>1. GoodDial(dialer[d], starts) /\ dialer[d].pc = "unclaim" /\ dialer[d].at \in Endpoints
    BY <1>13 DEF SpawnUnclaim, PeersShape, DialersOK, GoodDial, AtWork
  <2>2. /\ Onward(dialer[d]).pc \in {"idle", "have"}
        /\ \A x \in Dialers : dialer'[x] = IF x = d THEN Onward(dialer[d]) ELSE dialer[x]
    BY <1>13, OnwardPc DEF SpawnUnclaim, PeersShape, DialersOK
  <2>3. /\ connected_out' = connected_out \ {dialer[d].at} /\ keyLost \subseteq keyLost'
        /\ KeyHolders(dialer[d].at) # {d} => dialer[d].at \in keyLost'
        /\ UNCHANGED <<flag, ctl, conn>>
    BY <1>13 DEF SpawnUnclaim
  <2>4. TaskKeys'
    BY <2>2, <2>3 DEF TaskKeys, KeyInv
  <2>5. \A e \in Endpoints : (Fresh(e))' \subseteq Fresh(e) \ {d}
    BY <2>2, <2>3, PeersAssumption DEF Fresh, FreshDial, FreshConn
  <2>6. PICK e \in Endpoints : e = dialer[d].at
    BY <2>1
  <2>7. e \in keyLost' \/ (Fresh(e))' = {}
    BY <2>3, <2>5, <2>6, FreshHold
  <2>8. QED
    BY <2>3, <2>4, <2>5, <2>6, <2>7, KeyGoes
<1>14. ASSUME NEW e \in Endpoints, CooledDown(e) PROVE KeyInv'
  <2>1. \A v \in Endpoints : (Fresh(v))' = Fresh(v)
    BY <1>14 DEF CooledDown, Fresh, FreshDial, FreshConn
  <2>2. TaskKeys'
    BY <1>14 DEF CooledDown, TaskKeys, KeyInv
  <2>3. QED
    BY <1>14, <2>1, <2>2, KeysKeep DEF CooledDown
<1>15. ASSUME Accept PROVE KeyInv'
  <2> DEFINE r == [NoConn EXCEPT !.dir = "in", !.pc = "accepted"]
  <2>1. PICK c \in Conns : conn' = [conn EXCEPT ![c] = r]
    BY <1>15 DEF Accept
  <2>2. r.dir = "in"
    BY NewIn
  <2> HIDE DEF r
  <2>3. QED
    BY <1>15, <2>1, <2>2, ConnKeepsKeys DEF Accept
<1>16. ASSUME NEW c \in Conns, OutBegin(c) PROVE KeyInv'
  <2> DEFINE r == [conn[c] EXCEPT !.pc = IF Cancelled(c) THEN "remove" ELSE "up"]
  <2>1. GoodConn(conn[c], starts)
    BY DEF PeersShape, ConnsOK
  <2>2. r.dir = "out" => /\ conn[c].dir = "out" /\ r.at = conn[c].at /\ r.run = conn[c].run
                         /\ r.stop <=> conn[c].stop
    BY <2>1 DEF GoodConn, ConnRecords
  <2>3. conn' = [conn EXCEPT ![c] = r]
    BY <1>16 DEF OutBegin
  <2> HIDE DEF r
  <2>4. QED
    BY <1>16, <2>2, <2>3, ConnKeepsKeys DEF OutBegin
<1>17. ASSUME NEW c \in Conns, PeerRemove(c) PROVE KeyInv'
  <2> DEFINE r == IF conn[c].dir = "in" THEN NoConn ELSE [conn[c] EXCEPT !.pc = "key", !.live = FALSE]
  <2>1. GoodConn(conn[c], starts)
    BY DEF PeersShape, ConnsOK
  <2>2. r.dir = "out" => /\ conn[c].dir = "out" /\ r.at = conn[c].at /\ r.run = conn[c].run
                         /\ r.stop <=> conn[c].stop
    BY <2>1 DEF GoodConn, ConnRecords, NoConn
  <2>3. conn' = [conn EXCEPT ![c] = r]
    BY <1>17 DEF PeerRemove
  <2> HIDE DEF r
  <2>4. QED
    BY <1>17, <2>2, <2>3, ConnKeepsKeys DEF PeerRemove
<1>18. ASSUME NEW c \in Conns, OutKey(c) PROVE KeyInv'
  <2>1. GoodConn(conn[c], starts) /\ conn[c].pc = "key" /\ conn[c].at \in Endpoints
    BY <1>18 DEF OutKey, PeersShape, ConnsOK, GoodConn
  <2>2. \A x \in Conns : conn'[x] = IF x = c THEN NoConn ELSE conn[x]
    BY <1>18 DEF OutKey, PeersShape, ConnsOK
  <2>3. /\ connected_out' = connected_out \ {conn[c].at} /\ keyLost \subseteq keyLost'
        /\ KeyHolders(conn[c].at) # {c} => conn[c].at \in keyLost'
        /\ UNCHANGED <<flag, ctl, dialer>>
    BY <1>18 DEF OutKey
  <2>4. NoConn.dir = "none"
    BY DEF NoConn
  <2>5. TaskKeys'
    BY <2>2, <2>3, <2>4 DEF TaskKeys, KeyInv
  <2>6. \A e \in Endpoints : (Fresh(e))' \subseteq Fresh(e) \ {c}
    BY <2>2, <2>3, <2>4, PeersAssumption DEF Fresh, FreshDial, FreshConn
  <2>7. PICK e \in Endpoints : e = conn[c].at
    BY <2>1
  <2>8. e \in keyLost' \/ (Fresh(e))' = {}
    BY <2>3, <2>6, <2>7, FreshHold
  <2>9. QED
    BY <2>3, <2>5, <2>6, <2>7, <2>8, KeyGoes
<1>19. ASSUME NEW c \in Conns, InEnter(c) PROVE KeyInv'
  <2> DEFINE r == [conn[c] EXCEPT !.pc = "match", !.live = TRUE]
  <2>1. GoodConn(conn[c], starts)
    BY DEF PeersShape, ConnsOK
  <2>2. r.dir = "out" => /\ conn[c].dir = "out" /\ r.at = conn[c].at /\ r.run = conn[c].run
                         /\ r.stop <=> conn[c].stop
    BY <2>1 DEF GoodConn, ConnRecords
  <2>3. conn' = [conn EXCEPT ![c] = r]
    BY <1>19 DEF InEnter
  <2> HIDE DEF r
  <2>4. QED
    BY <1>19, <2>2, <2>3, ConnKeepsKeys DEF InEnter
<1>20. ASSUME NEW c \in Conns, InMatch(c) PROVE KeyInv'
  <2> DEFINE r == IF hotObj = 0 THEN [conn[c] EXCEPT !.pc = "remove"]
                  ELSE [conn[c] EXCEPT !.pc = "handshake", !.obj = hotObj]
  <2>1. GoodConn(conn[c], starts)
    BY DEF PeersShape, ConnsOK
  <2>2. r.dir = "out" => /\ conn[c].dir = "out" /\ r.at = conn[c].at /\ r.run = conn[c].run
                         /\ r.stop <=> conn[c].stop
    BY <2>1 DEF GoodConn, ConnRecords
  <2>3. conn' = [conn EXCEPT ![c] = r]
    BY <1>20 DEF InMatch
  <2> HIDE DEF r
  <2>4. QED
    BY <1>20, <2>2, <2>3, ConnKeepsKeys DEF InMatch
<1>21. ASSUME NEW c \in Conns, InLimit(c) PROVE KeyInv'
  <2> DEFINE r == [conn[c] EXCEPT !.pc = "bind", !.max = max_peers]
  <2>1. GoodConn(conn[c], starts)
    BY DEF PeersShape, ConnsOK
  <2>2. r.dir = "out" => /\ conn[c].dir = "out" /\ r.at = conn[c].at /\ r.run = conn[c].run
                         /\ r.stop <=> conn[c].stop
    BY <2>1 DEF GoodConn, ConnRecords
  <2>3. conn' = [conn EXCEPT ![c] = r]
    BY <1>21 DEF InLimit
  <2> HIDE DEF r
  <2>4. QED
    BY <1>21, <2>2, <2>3, ConnKeepsKeys DEF InLimit
<1>22. ASSUME NEW c \in Conns, InBind(c) PROVE KeyInv'
  <2> DEFINE r == IF Cardinality(Bound) >= conn[c].max THEN [conn[c] EXCEPT !.pc = "remove"]
                  ELSE [conn[c] EXCEPT !.pc = "up", !.bound = TRUE, !.max = 0]
  <2>1. GoodConn(conn[c], starts)
    BY DEF PeersShape, ConnsOK
  <2>2. r.dir = "out" => /\ conn[c].dir = "out" /\ r.at = conn[c].at /\ r.run = conn[c].run
                         /\ r.stop <=> conn[c].stop
    BY <2>1 DEF GoodConn, ConnRecords
  <2>3. conn' = [conn EXCEPT ![c] = r]
    BY <1>22 DEF InBind
  <2> HIDE DEF r
  <2>4. QED
    BY <1>22, <2>2, <2>3, ConnKeepsKeys DEF InBind
<1>23. ASSUME NEW c \in Conns, OutEnd(c) PROVE KeyInv'
  <2> DEFINE r == [conn[c] EXCEPT !.pc = "remove"]
  <2>1. GoodConn(conn[c], starts)
    BY DEF PeersShape, ConnsOK
  <2>2. r.dir = "out" => /\ conn[c].dir = "out" /\ r.at = conn[c].at /\ r.run = conn[c].run
                         /\ r.stop <=> conn[c].stop
    BY <2>1 DEF GoodConn, ConnRecords
  <2>3. conn' = [conn EXCEPT ![c] = r]
    BY <1>23 DEF OutEnd
  <2> HIDE DEF r
  <2>4. QED
    BY <1>23, <2>2, <2>3, ConnKeepsKeys DEF OutEnd
<1>24. ASSUME NEW c \in Conns, InEnd(c) PROVE KeyInv'
  <2> DEFINE r == [conn[c] EXCEPT !.pc = "remove"]
  <2>1. GoodConn(conn[c], starts)
    BY DEF PeersShape, ConnsOK
  <2>2. r.dir = "out" => /\ conn[c].dir = "out" /\ r.at = conn[c].at /\ r.run = conn[c].run
                         /\ r.stop <=> conn[c].stop
    BY <2>1 DEF GoodConn, ConnRecords
  <2>3. conn' = [conn EXCEPT ![c] = r]
    BY <1>24 DEF InEnd
  <2> HIDE DEF r
  <2>4. QED
    BY <1>24, <2>2, <2>3, ConnKeepsKeys DEF InEnd
<1>25. CASE UNCHANGED peerVars
  <2>1. \A e \in Endpoints : (Fresh(e))' = Fresh(e)
    BY <1>25 DEF peerVars, Fresh, FreshDial, FreshConn
  <2>2. TaskKeys'
    BY <1>25 DEF peerVars, TaskKeys, KeyInv
  <2>3. QED
    BY <1>25, <2>1, <2>2, KeysKeep DEF peerVars
<1>26. QED
  BY <1>1, <1>2, <1>3, <1>4, <1>5, <1>6, <1>7, <1>8, <1>9, <1>10, <1>11, <1>12, <1>13, <1>14, <1>15, <1>16, <1>17, <1>18, <1>19, <1>20, <1>21, <1>22, <1>23, <1>24, <1>25 DEF PeersNext, ControlStep, DialStep, ConnStep

\* One run has at most one outbound connection to an endpoint, whatever starts,
\* stops and dialers meet (the keys of connected_out), unless an end took
\* another's key.
THEOREM OneOutboundPerEndpoint == PeersSpec => []OneConnPerEndpoint
<1>1. PeersInit => KeyInv
  BY DEF PeersInit, KeyInv, Fresh, FreshDial, FreshConn, NoConn, NoDial
<1>2. PeersShape /\ KeyInv /\ [PeersNext]_peerVars => KeyInv'
  BY KeyInvStep
<1>3. KeyInv => OneConnPerEndpoint
  <2> SUFFICES ASSUME KeyInv, NEW e \in Endpoints, e \notin keyLost
               PROVE  Cardinality({c \in Conns : /\ conn[c].dir = "out" /\ conn[c].at = e
                                                 /\ conn[c].pc # "key" /\ ~Cancelled(c)}) <= 1
    BY DEF OneConnPerEndpoint
  <2> DEFINE Own == {c \in Conns : /\ conn[c].dir = "out" /\ conn[c].at = e
                                   /\ conn[c].pc # "key" /\ ~Cancelled(c)}
  <2>1. Own \subseteq Fresh(e)
    BY DEF Fresh, FreshConn, Cancelled
  <2>2. \A x, y \in Own : x = y
    BY <2>1 DEF KeyInv
  <2> HIDE DEF Own
  <2>3. CASE Own = {}
    BY <2>3, FS_EmptySet DEF Own
  <2>4. ASSUME NEW c \in Own PROVE Cardinality(Own) <= 1
    <3>1. Own = {c}
      BY <2>2
    <3>2. QED
      BY <3>1, FS_Singleton
  <2>5. QED
    BY <2>3, <2>4 DEF Own
<1>4. QED
  BY <1>1, <1>2, <1>3, PeersShapeAlways, PTL DEF PeersSpec

-----------------------------------------------------------------------------
(* Handshake.                                                              *)

\* What a mode allows a connection that is up.
Allows(mode, rc4) == /\ mode = "require-rc4" => rc4
                     /\ mode = "off" => ~rc4

\* The first message of a connection: a plain handshake, or a key when the
\* dialer waits for one.
FirstSent(n) ==
    \E m : /\ toAcc[n] = <<m>>
           /\ \/ m.k = "hs" /\ m.rc4 = FALSE /\ dial[n].pc \in {"hs", "failed"}
              \/ m.k = "ya" /\ dial[n].pc \in {"yb", "failed"}

\* The handshake of an acceptor that is up, in its cipher.
Answer(n, m) == m.k = "hs" /\ accept[n].pc = "up" /\ m.rc4 = accept[n].rc4

\* What a dialer may find under way, and how far the acceptor is by then.
DialTogether(n) ==
    /\ dial[n].pc \in {"none", "yb", "resp", "hs", "up", "failed"}
    /\ dial[n].pc = "none" => accept[n] = NoEnd /\ dial[n] = NoEnd
    /\ dial[n].pc = "yb" =>
          /\ accept[n].pc \in {"first", "sync", "failed"}
          /\ toDial[n] = <<>> \/ toDial[n] = <<[k |-> "yb"]>>
    /\ dial[n].pc = "resp" =>
          \/ toDial[n] = <<>> /\ accept[n].pc \in {"sync", "failed"}
          \/ \E r : /\ toDial[n] = <<r>> /\ accept[n].pc \in {"hs", "failed"}
                    /\ r.select \in Provides(dmode)
          \/ \E r, m : /\ toDial[n] = <<r, m>> /\ Answer(n, m)
                       /\ r.select \in Provides(dmode)
    /\ dial[n].pc = "hs" =>
          /\ Allows(dmode, dial[n].rc4)
          /\ \/ toDial[n] = <<>> /\ accept[n].pc # "sync"
             \/ \E m : toDial[n] = <<m>> /\ Answer(n, m)
    /\ dial[n].pc = "up" =>
          /\ Allows(dmode, dial[n].rc4)
          /\ accept[n].pc = "up" /\ accept[n].rc4 = dial[n].rc4

\* What an acceptor may find under way.
AcceptTogether(n) ==
    /\ accept[n].pc = "first" => toDial[n] = <<>> /\ FirstSent(n)
    /\ accept[n].pc = "sync" =>
          \/ toAcc[n] = <<>>
          \/ \E m : /\ toAcc[n] = <<m>> /\ m.provide = Provides(dmode)
                    /\ dial[n].pc \in {"resp", "failed"}
    /\ accept[n].pc \in {"hs", "up"} => Allows(amode, accept[n].rc4)

\* An attempt that is still to come has nothing.
Unused(n) == n > attempt => /\ dial[n] = NoEnd /\ accept[n] = NoEnd
                            /\ toAcc[n] = <<>> /\ toDial[n] = <<>>

EndRecords == [pc : {"none", "yb", "resp", "hs", "up", "failed", "first", "sync"}, rc4 : BOOLEAN]
ShakeShape ==
    /\ dmode \in Modes /\ amode \in Modes /\ attempt \in 0..2
    /\ dial \in [Attempts -> EndRecords] /\ accept \in [Attempts -> EndRecords]
    /\ DOMAIN toAcc = Attempts /\ DOMAIN toDial = Attempts
    /\ toAcc = [n \in Attempts |-> toAcc[n]] /\ toDial = [n \in Attempts |-> toDial[n]]

ShakeInv == ShakeShape /\ \A n \in Attempts : Unused(n) /\ DialTogether(n) /\ AcceptTogether(n)

\* A step on attempt n alone, which has begun.
LEMMA OneAttempt ==
  ASSUME ShakeInv, NEW n \in Attempts, ShakeShape', UNCHANGED <<dmode, amode>>,
         attempt' >= attempt, n <= attempt',
         \A m \in Attempts \ {n} : /\ dial'[m] = dial[m] /\ accept'[m] = accept[m]
                                   /\ toAcc'[m] = toAcc[m] /\ toDial'[m] = toDial[m],
         DialTogether(n)', AcceptTogether(n)'
  PROVE  ShakeInv'
<1> SUFFICES ASSUME NEW m \in Attempts PROVE (Unused(m) /\ DialTogether(m) /\ AcceptTogether(m))'
  BY DEF ShakeInv
<1>1. Attempts \subseteq Int /\ attempt \in Int /\ attempt' \in Int
  BY DEF Attempts, ShakeInv, ShakeShape
<1>2. CASE m = n
  <2>1. Unused(n)'
    BY <1>1 DEF Unused
  <2>2. QED
    BY <1>2, <2>1
<1>3. CASE m # n
  <2>1. /\ dial'[m] = dial[m] /\ accept'[m] = accept[m]
        /\ toAcc'[m] = toAcc[m] /\ toDial'[m] = toDial[m]
    BY <1>3
  <2>2. Unused(m) /\ DialTogether(m) /\ AcceptTogether(m)
    BY DEF ShakeInv
  <2>3. Unused(m)'
    BY <1>1, <2>1, <2>2 DEF Unused
  <2>4. DialTogether(m)'
    BY <2>1, <2>2 DEF DialTogether, Answer
  <2>5. AcceptTogether(m)'
    BY <2>1, <2>2 DEF AcceptTogether, FirstSent
  <2>6. QED
    BY <2>3, <2>4, <2>5
<1>4. QED
  BY <1>2, <1>3

\* What the invariant says of one attempt.
LEMMA AttemptIs ==
  ASSUME ShakeInv, NEW n \in Attempts
  PROVE  /\ dial[n] \in EndRecords /\ accept[n] \in EndRecords
         /\ DialTogether(n) /\ AcceptTogether(n)
         /\ dial[n].pc # "none" \/ accept[n].pc # "none" => n <= attempt
<1>1. Unused(n) /\ DialTogether(n) /\ AcceptTogether(n) /\ ShakeShape
  BY DEF ShakeInv
<1>2. n \in Int /\ attempt \in Int
  BY <1>1 DEF Attempts, ShakeShape
<1>3. QED
  BY <1>1, <1>2 DEF Unused, NoEnd, ShakeShape

\* The head and the tail of what is under way.
LEMMA ShortQueues ==
  ASSUME NEW a, NEW b
  PROVE  /\ Head(<<a>>) = a /\ Tail(<<a>>) = <<>> /\ <<a>> # <<>>
         /\ Head(<<a, b>>) = a /\ Tail(<<a, b>>) = <<b>> /\ <<a, b>> # <<>>
         /\ Append(<<>>, a) = <<a>> /\ Append(<<a>>, b) = <<a, b>>
         /\ <<>> \o <<a, b>> = <<a, b>>
<1>1. Head(<<a>>) = a /\ Tail(<<a>>) = <<>> /\ <<a>> # <<>>
  OBVIOUS
<1>2. Head(<<a, b>>) = a /\ <<a, b>> # <<>>
  OBVIOUS
<1>3. Tail(<<a, b>>) = <<b>>
  OBVIOUS
<1>4. Append(<<>>, a) = <<a>>
  OBVIOUS
<1>5. Append(<<a>>, b) = <<a, b>>
  <2> DEFINE S == {a, b}
  <2>1. <<a>> \in Seq(S) /\ <<a, b>> \in Seq(S) /\ Len(<<a>>) = 1 /\ Len(<<a, b>>) = 2 /\ b \in S
    OBVIOUS
  <2> HIDE DEF S
  <2>2. Append(<<a>>, b) \in Seq(S) /\ Len(Append(<<a>>, b)) = 2
        /\ Append(<<a>>, b)[1] = a /\ Append(<<a>>, b)[2] = b
    BY <2>1, AppendProperties
  <2>3. <<a, b>>[1] = a /\ <<a, b>>[2] = b
    OBVIOUS
  <2>4. \A i \in 1..Len(Append(<<a>>, b)) : Append(<<a>>, b)[i] = <<a, b>>[i]
    BY <2>2, <2>3
  <2>5. QED
    BY <2>1, <2>2, <2>4, SeqEqual
<1>6. <<>> \o <<a, b>> = <<a, b>>
  OBVIOUS
<1>7. QED
  BY <1>1, <1>2, <1>3, <1>4, <1>5, <1>6

\* What the acceptor selects is allowed at both ends.
LEMMA SelectsInCommon ==
  ASSUME NEW mode, NEW theirs, Select(theirs, mode) # "none"
  PROVE  Select(theirs, mode) \in theirs \cap Provides(mode)
<1>1. theirs \cap Provides(mode) # {}
  BY DEF Select
<1>2. (CHOOSE c \in Provides(mode) \cap theirs : TRUE) \in Provides(mode) \cap theirs
  BY <1>1
<1>3. QED
  BY <1>1, <1>2 DEF Select

LEMMA ProvidedIsAllowed ==
  ASSUME NEW mode \in Modes, NEW c \in Provides(mode)
  PROVE  Allows(mode, c = "rc4")
  BY DEF Modes, Provides, Allows

\* Setting the place an end is at.
LEMMA SetsPc ==
  ASSUME NEW f \in [Attempts -> EndRecords], NEW n \in Attempts, NEW c
  PROVE  [f EXCEPT ![n].pc = c] = [f EXCEPT ![n] = [pc |-> c, rc4 |-> f[n].rc4]]
<1>1. [f[n] EXCEPT !.pc = c] = [pc |-> c, rc4 |-> f[n].rc4]
  BY DEF EndRecords
<1>2. [f EXCEPT ![n].pc = c] = [f EXCEPT ![n] = [f[n] EXCEPT !.pc = c]]
  OBVIOUS
<1>3. QED
  BY <1>1, <1>2

\* A new attempt, in plain or encrypted.
LEMMA ConnectsAs ==
  ASSUME ShakeInv, NEW n \in Attempts, n = attempt + 1, NEW d, NEW m,
         attempt' = n, UNCHANGED <<dmode, amode, toDial>>,
         accept' = [accept EXCEPT ![n] = [pc |-> "first", rc4 |-> FALSE]],
         dial' = [dial EXCEPT ![n] = [pc |-> d, rc4 |-> FALSE]],
         toAcc' = [toAcc EXCEPT ![n] = <<m>>],
         \/ d = "hs" /\ m.k = "hs" /\ m.rc4 = FALSE /\ dmode # "require-rc4"
         \/ d = "yb" /\ m.k = "ya"
  PROVE  ShakeInv'
<1>1. attempt \in 0..2 /\ ShakeShape /\ Unused(n)
  BY DEF ShakeInv, ShakeShape
<1>2. toDial[n] = <<>>
  BY <1>1 DEF Unused
<1>3. ShakeShape'
  <2>1. [pc |-> d, rc4 |-> FALSE] \in EndRecords /\ [pc |-> "first", rc4 |-> FALSE] \in EndRecords
    BY DEF EndRecords
  <2>2. attempt' \in 0..2
    BY DEF Attempts
  <2>3. QED
    BY <1>1, <2>1, <2>2 DEF ShakeShape
<1>4. /\ dial'[n] = [pc |-> d, rc4 |-> FALSE] /\ accept'[n] = [pc |-> "first", rc4 |-> FALSE]
      /\ toAcc'[n] = <<m>> /\ toDial'[n] = <<>>
  BY <1>1, <1>2 DEF ShakeShape
<1>5. dial'[n].pc = d /\ ~dial'[n].rc4 /\ accept'[n].pc = "first" /\ toDial'[n] = <<>>
  BY <1>4
<1>6. DialTogether(n)'
  <2>1. CASE d = "hs"
    <3>1. Allows(dmode, dial[n].rc4)'
      BY <1>5, <2>1 DEF Allows
    <3>2. QED
      BY <1>5, <2>1, <3>1 DEF DialTogether
  <2>2. CASE d = "yb"
    BY <1>5, <2>2 DEF DialTogether
  <2>3. QED
    BY <2>1, <2>2
<1>7. AcceptTogether(n)'
  BY <1>4, <1>5 DEF AcceptTogether, FirstSent
<1>8. /\ n <= attempt' /\ attempt' >= attempt
      /\ \A k \in Attempts \ {n} : /\ dial'[k] = dial[k] /\ accept'[k] = accept[k]
                                   /\ toAcc'[k] = toAcc[k] /\ toDial'[k] = toDial[k]
  BY <1>1 DEF ShakeShape
<1>9. QED
  BY <1>3, <1>6, <1>7, <1>8, OneAttempt

LEMMA ConnectStep ==
  ASSUME ShakeInv, Connect
  PROVE  ShakeInv'
<1>1. attempt + 1 \in Attempts
  BY DEF Connect, ShakeInv, ShakeShape, Attempts, Tries, Modes
<1>2. PICK n \in Attempts : n = attempt + 1
  BY <1>1
<1>3. ShakeShape /\ Unused(n) /\ attempt \in 0..2
  BY DEF ShakeInv, ShakeShape
<1>4. dial[n] = NoEnd /\ accept[n] = NoEnd
  BY <1>2, <1>3 DEF Unused
<1>5. ASSUME NEW c
      PROVE  /\ [dial EXCEPT ![n].pc = c] = [dial EXCEPT ![n] = [pc |-> c, rc4 |-> FALSE]]
             /\ [accept EXCEPT ![n].pc = c] = [accept EXCEPT ![n] = [pc |-> c, rc4 |-> FALSE]]
  <2>1. dial \in [Attempts -> EndRecords] /\ accept \in [Attempts -> EndRecords]
    BY <1>3 DEF ShakeShape
  <2>2. dial[n].rc4 = FALSE /\ accept[n].rc4 = FALSE
    BY <1>4 DEF NoEnd
  <2>3. [dial EXCEPT ![n].pc = c] = [dial EXCEPT ![n] = [pc |-> c, rc4 |-> dial[n].rc4]]
    BY <2>1, SetsPc
  <2>4. [accept EXCEPT ![n].pc = c] = [accept EXCEPT ![n] = [pc |-> c, rc4 |-> accept[n].rc4]]
    BY <2>1, SetsPc
  <2>5. QED
    BY <2>2, <2>3, <2>4
<1>6. /\ attempt' = n /\ UNCHANGED <<dmode, amode, toDial>>
      /\ accept' = [accept EXCEPT ![n] = [pc |-> "first", rc4 |-> FALSE]]
  BY <1>2, <1>5 DEF Connect
<1>7. CASE Tries(dmode)[n] = "plain"
  <2>1. dmode # "require-rc4"
    <3>1. dmode = "require-rc4" => Tries(dmode) = <<"pe">>
      BY DEF Tries
    <3>2. n \in 1..Len(Tries(dmode))
      BY <1>2 DEF Connect, Attempts
    <3>3. QED
      BY <1>7, <3>1, <3>2
  <2>2. /\ dial' = [dial EXCEPT ![n] = [pc |-> "hs", rc4 |-> FALSE]]
        /\ toAcc' = [toAcc EXCEPT ![n] = <<[k |-> "hs", rc4 |-> FALSE]>>]
    BY <1>2, <1>5, <1>7 DEF Connect
  <2>3. QED
    BY <1>2, <1>6, <2>1, <2>2, ConnectsAs
<1>8. CASE Tries(dmode)[n] # "plain"
  <2>1. PICK b \in BOOLEAN :
           /\ dial' = [dial EXCEPT ![n] = [pc |-> "yb", rc4 |-> FALSE]]
           /\ toAcc' = [toAcc EXCEPT ![n] = <<[k |-> "ya", first19 |-> ~b]>>]
    BY <1>2, <1>5, <1>8 DEF Connect
  <2>2. QED
    BY <1>2, <1>6, <2>1, ConnectsAs
<1>9. QED
  BY <1>7, <1>8

\* A step that sets both ends of attempt n and what is under way on it.
Sets(n, d, a, p, q) ==
    /\ dial' = [dial EXCEPT ![n] = d] /\ accept' = [accept EXCEPT ![n] = a]
    /\ toAcc' = [toAcc EXCEPT ![n] = p] /\ toDial' = [toDial EXCEPT ![n] = q]
    /\ UNCHANGED <<dmode, amode, attempt>>

LEMMA StepOfAttempt ==
  ASSUME ShakeInv, NEW n \in Attempts, n <= attempt,
         NEW d \in EndRecords, NEW a \in EndRecords, NEW p, NEW q, Sets(n, d, a, p, q),
         dial'[n] = d /\ accept'[n] = a /\ toAcc'[n] = p /\ toDial'[n] = q
            => DialTogether(n)' /\ AcceptTogether(n)'
  PROVE  ShakeInv'
<1>1. ShakeShape
  BY DEF ShakeInv
<1>2. ShakeShape'
  BY <1>1 DEF Sets, ShakeShape
<1>3. dial'[n] = d /\ accept'[n] = a /\ toAcc'[n] = p /\ toDial'[n] = q
  BY <1>1 DEF Sets, ShakeShape
<1>4. \A k \in Attempts \ {n} : /\ dial'[k] = dial[k] /\ accept'[k] = accept[k]
                                /\ toAcc'[k] = toAcc[k] /\ toDial'[k] = toDial[k]
  BY <1>1 DEF Sets, ShakeShape
<1>5. n <= attempt' /\ attempt' >= attempt
  BY <1>1 DEF Sets, ShakeShape
<1>6. UNCHANGED <<dmode, amode>>
  BY DEF Sets
<1>7. QED
  BY <1>2, <1>3, <1>4, <1>5, <1>6, OneAttempt

\* A step that leaves something alone sets it to what it was.
LEMMA LeftAlone ==
  ASSUME ShakeInv, NEW n \in Attempts
  PROVE  /\ dial = [dial EXCEPT ![n] = dial[n]] /\ accept = [accept EXCEPT ![n] = accept[n]]
         /\ toAcc = [toAcc EXCEPT ![n] = toAcc[n]] /\ toDial = [toDial EXCEPT ![n] = toDial[n]]
  BY DEF ShakeInv, ShakeShape

LEMMA DialYbStep ==
  ASSUME ShakeInv, NEW n \in Attempts, DialYb(n)
  PROVE  ShakeInv'
<1> DEFINE m == [k |-> "sync", provide |-> Provides(dmode), ia |-> ia]
           d == [pc |-> "resp", rc4 |-> dial[n].rc4]
<1>1. /\ dial[n] \in EndRecords /\ accept[n] \in EndRecords /\ n <= attempt
      /\ DialTogether(n) /\ AcceptTogether(n) /\ dial[n].pc = "yb" /\ toDial[n] # <<>>
  BY AttemptIs DEF DialYb
<1>2. toDial[n] = <<[k |-> "yb"]>> /\ accept[n].pc \in {"sync", "failed"}
  BY <1>1 DEF DialTogether, AcceptTogether
<1>3. Tail(toDial[n]) = <<>>
  BY <1>2, ShortQueues
<1>4. /\ dial' = [dial EXCEPT ![n] = d] /\ accept' = [accept EXCEPT ![n] = accept[n]]
      /\ toAcc' = [toAcc EXCEPT ![n] = Append(toAcc[n], m)]
      /\ toDial' = [toDial EXCEPT ![n] = <<>>]
      /\ UNCHANGED <<dmode, amode, attempt>>
  <2>1. dial \in [Attempts -> EndRecords]
    BY DEF ShakeInv, ShakeShape
  <2>2. dial' = [dial EXCEPT ![n] = d] /\ toDial' = [toDial EXCEPT ![n] = <<>>]
    BY <1>3, <2>1, SetsPc DEF DialYb
  <2>3. QED
    BY <2>2, LeftAlone DEF DialYb
<1>5. d \in EndRecords
  BY <1>1 DEF EndRecords
<1>6. ASSUME dial'[n] = d, accept'[n] = accept[n], toAcc'[n] = Append(toAcc[n], m), toDial'[n] = <<>>
      PROVE  DialTogether(n)' /\ AcceptTogether(n)'
  <2>1. DialTogether(n)'
    BY <1>2, <1>6 DEF DialTogether
  <2>2. accept[n].pc = "sync" => toAcc'[n] = <<m>>
    BY <1>1, <1>6, ShortQueues DEF AcceptTogether
  <2>3. m.provide = Provides(dmode)'
    BY <1>4
  <2>4. AcceptTogether(n)'
    BY <1>2, <1>4, <1>6, <2>2, <2>3 DEF AcceptTogether
  <2>5. QED
    BY <2>1, <2>4
<1>7. QED
  <2>1. Sets(n, d, accept[n], Append(toAcc[n], m), <<>>)
    BY <1>4 DEF Sets
  <2> HIDE DEF d, m
  <2>2. QED
    BY <1>1, <1>5, <1>6, <2>1, StepOfAttempt

LEMMA DialRespStep ==
  ASSUME ShakeInv, NEW n \in Attempts, DialResp(n)
  PROVE  ShakeInv'
<1> DEFINE c == Head(toDial[n]).select = "rc4"
           d == [pc |-> "hs", rc4 |-> c]
<1>1. /\ accept[n] \in EndRecords /\ n <= attempt
      /\ DialTogether(n) /\ AcceptTogether(n) /\ dial[n].pc = "resp" /\ toDial[n] # <<>>
  BY AttemptIs DEF DialResp
<1>2. Head(toDial[n]).select \in Provides(dmode) /\ accept[n].pc \in {"hs", "failed", "up"}
      /\ \/ Tail(toDial[n]) = <<>>
         \/ \E m : Tail(toDial[n]) = <<m>> /\ Answer(n, m)
  <2>1. \/ \E r : /\ toDial[n] = <<r>> /\ accept[n].pc \in {"hs", "failed"}
                  /\ r.select \in Provides(dmode)
        \/ \E r, m : toDial[n] = <<r, m>> /\ Answer(n, m) /\ r.select \in Provides(dmode)
    BY <1>1 DEF DialTogether
  <2>2. CASE \E r : /\ toDial[n] = <<r>> /\ accept[n].pc \in {"hs", "failed"}
                    /\ r.select \in Provides(dmode)
    BY <2>2, ShortQueues
  <2>3. CASE \E r, m : toDial[n] = <<r, m>> /\ Answer(n, m) /\ r.select \in Provides(dmode)
    BY <2>3, ShortQueues DEF Answer
  <2>4. QED
    BY <2>1, <2>2, <2>3
<1>3. c \in BOOLEAN /\ Allows(dmode, c)
  BY <1>2, ProvidedIsAllowed DEF ShakeInv, ShakeShape
<1>4. PICK p : toAcc' = [toAcc EXCEPT ![n] = p]
  <2>1. CASE ia = "none"
    BY <2>1 DEF DialResp
  <2>2. CASE ia = "part"
    BY <2>2 DEF DialResp
  <2>3. CASE ia # "none" /\ ia # "part"
    BY <2>3 DEF DialResp
  <2>4. QED
    BY <2>1, <2>2, <2>3
<1>5. /\ dial' = [dial EXCEPT ![n] = d] /\ accept' = [accept EXCEPT ![n] = accept[n]]
      /\ toDial' = [toDial EXCEPT ![n] = Tail(toDial[n])]
      /\ UNCHANGED <<dmode, amode, attempt>>
  BY LeftAlone DEF DialResp
<1>6. d \in EndRecords
  BY <1>3 DEF EndRecords
<1>7. ASSUME dial'[n] = d, accept'[n] = accept[n], toAcc'[n] = p, toDial'[n] = Tail(toDial[n])
      PROVE  DialTogether(n)' /\ AcceptTogether(n)'
  <2>1. dial'[n].pc = "hs" /\ dial'[n].rc4 = c
    BY <1>7
  <2> HIDE DEF c
  <2>2. Allows(dmode, dial[n].rc4)'
    BY <1>3, <1>5, <2>1 DEF Allows
  <2>3. DialTogether(n)'
    BY <1>2, <1>7, <2>1, <2>2 DEF DialTogether, Answer
  <2>4. AcceptTogether(n)'
    BY <1>1, <1>2, <1>5, <1>7 DEF AcceptTogether, Allows
  <2>5. QED
    BY <2>3, <2>4
<1>8. QED
  <2>1. Sets(n, d, accept[n], p, Tail(toDial[n]))
    BY <1>4, <1>5 DEF Sets
  <2> HIDE DEF d, c
  <2>2. QED
    BY <1>1, <1>6, <1>7, <2>1, StepOfAttempt

LEMMA DialHsStep ==
  ASSUME ShakeInv, NEW n \in Attempts, DialHs(n)
  PROVE  ShakeInv'
<1> DEFINE good == Readable(Head(toDial[n]), dial[n].rc4)
           d == [pc |-> IF good THEN "up" ELSE "failed", rc4 |-> dial[n].rc4]
<1>1. /\ dial[n] \in EndRecords /\ accept[n] \in EndRecords /\ n <= attempt
      /\ DialTogether(n) /\ AcceptTogether(n) /\ dial[n].pc = "hs" /\ toDial[n] # <<>>
  BY AttemptIs DEF DialHs
<1>2. PICK m : toDial[n] = <<m>> /\ Answer(n, m)
  BY <1>1 DEF DialTogether
<1>3. Head(toDial[n]) = m /\ Allows(dmode, dial[n].rc4)
  BY <1>1, <1>2, ShortQueues DEF DialTogether
<1>4. /\ dial' = [dial EXCEPT ![n] = d] /\ accept' = [accept EXCEPT ![n] = accept[n]]
      /\ toDial' = [toDial EXCEPT ![n] = Tail(toDial[n])] /\ toAcc' = [toAcc EXCEPT ![n] = toAcc[n]]
      /\ UNCHANGED <<dmode, amode, attempt>>
  <2>1. dial \in [Attempts -> EndRecords]
    BY DEF ShakeInv, ShakeShape
  <2>2. dial' = [dial EXCEPT ![n] = d]
    <3>1. dial' = [dial EXCEPT ![n].pc = IF good THEN "up" ELSE "failed"]
      BY DEF DialHs
    <3> HIDE DEF good
    <3>2. PICK v : v = IF good THEN "up" ELSE "failed"
      OBVIOUS
    <3>3. dial' = [dial EXCEPT ![n].pc = v]
      BY <3>1, <3>2
    <3>4. dial' = [dial EXCEPT ![n] = [pc |-> v, rc4 |-> dial[n].rc4]]
      BY <2>1, <3>3, SetsPc
    <3>5. QED
      BY <3>2, <3>4
  <2>3. QED
    BY <2>2, LeftAlone DEF DialHs
<1>5. d \in EndRecords
  BY <1>1 DEF EndRecords
<1>6. ASSUME dial'[n] = d, accept'[n] = accept[n], toAcc'[n] = toAcc[n], toDial'[n] = Tail(toDial[n])
      PROVE  DialTogether(n)' /\ AcceptTogether(n)'
  <2>1. dial'[n].pc \in {"up", "failed"} /\ dial'[n].rc4 = dial[n].rc4
    BY <1>6
  <2>2. dial'[n].pc = "up" => accept[n].pc = "up" /\ accept[n].rc4 = dial[n].rc4
    BY <1>2, <1>3, <1>6 DEF Answer, Readable
  <2>3. DialTogether(n)'
    BY <1>3, <1>4, <1>6, <2>1, <2>2 DEF DialTogether, Allows
  <2>4. AcceptTogether(n)'
    BY <1>1, <1>2, <1>4, <1>6 DEF AcceptTogether, Allows, Answer
  <2>5. QED
    BY <2>3, <2>4
<1>7. QED
  <2>1. Sets(n, d, accept[n], toAcc[n], Tail(toDial[n]))
    BY <1>4 DEF Sets
  <2> HIDE DEF d, good
  <2>2. QED
    BY <1>1, <1>5, <1>6, <2>1, StepOfAttempt

LEMMA DialFailsStep ==
  ASSUME ShakeInv, NEW n \in Attempts, DialFails(n)
  PROVE  ShakeInv'
<1> DEFINE d == [pc |-> "failed", rc4 |-> dial[n].rc4]
<1>1. /\ dial[n] \in EndRecords /\ accept[n] \in EndRecords /\ n <= attempt
      /\ DialTogether(n) /\ AcceptTogether(n)
  BY AttemptIs DEF DialFails, Dialing
<1>2. /\ dial' = [dial EXCEPT ![n] = d] /\ accept' = [accept EXCEPT ![n] = accept[n]]
      /\ toDial' = [toDial EXCEPT ![n] = toDial[n]] /\ toAcc' = [toAcc EXCEPT ![n] = toAcc[n]]
      /\ UNCHANGED <<dmode, amode, attempt>>
  <2>1. dial \in [Attempts -> EndRecords]
    BY DEF ShakeInv, ShakeShape
  <2>2. dial' = [dial EXCEPT ![n] = d]
    BY <2>1, SetsPc DEF DialFails
  <2>3. QED
    BY <2>2, LeftAlone DEF DialFails
<1>3. d \in EndRecords
  BY <1>1 DEF EndRecords
<1>4. ASSUME dial'[n] = d, accept'[n] = accept[n], toAcc'[n] = toAcc[n], toDial'[n] = toDial[n]
      PROVE  DialTogether(n)' /\ AcceptTogether(n)'
  <2>1. DialTogether(n)'
    BY <1>4 DEF DialTogether
  <2>2. dial'[n].pc = "failed"
    BY <1>4
  <2>3. AcceptTogether(n)'
    BY <1>1, <1>2, <1>4, <2>2 DEF AcceptTogether, FirstSent, Allows
  <2>4. QED
    BY <2>1, <2>3
<1>5. QED
  <2>1. Sets(n, d, accept[n], toAcc[n], toDial[n])
    BY <1>2 DEF Sets
  <2> HIDE DEF d
  <2>2. QED
    BY <1>1, <1>3, <1>4, <2>1, StepOfAttempt

\* Setting the acceptor's place in an attempt.
LEMMA AcceptAt ==
  ASSUME ShakeInv, NEW n \in Attempts, NEW c
  PROVE  [accept EXCEPT ![n].pc = c] = [accept EXCEPT ![n] = [pc |-> c, rc4 |-> accept[n].rc4]]
<1>1. accept \in [Attempts -> EndRecords]
  BY DEF ShakeInv, ShakeShape
<1>2. QED
  BY <1>1, SetsPc

\* The acceptor gives up, whatever it has read.
LEMMA AcceptorEnds ==
  ASSUME ShakeInv, NEW n \in Attempts, accept[n].pc \in {"first", "sync", "hs"},
         NEW p, Sets(n, dial[n], [pc |-> "failed", rc4 |-> accept[n].rc4], p, toDial[n])
  PROVE  ShakeInv'
<1> DEFINE a == [pc |-> "failed", rc4 |-> accept[n].rc4]
<1>1. /\ dial[n] \in EndRecords /\ accept[n] \in EndRecords /\ n <= attempt /\ DialTogether(n)
  BY AttemptIs
<1>2. UNCHANGED <<dmode, amode>>
  BY DEF Sets
<1>3. a \in EndRecords
  BY <1>1 DEF EndRecords
<1>4. ASSUME dial'[n] = dial[n], accept'[n] = a, toAcc'[n] = p, toDial'[n] = toDial[n]
      PROVE  DialTogether(n)' /\ AcceptTogether(n)'
  <2>1. accept'[n].pc = "failed" /\ dial[n].pc \notin {"none", "up"}
    BY <1>1, <1>4 DEF DialTogether, NoEnd
  <2>2. ~(\E m : Answer(n, m))
    BY DEF Answer
  <2>3. ASSUME dial[n].pc \in {"yb", "failed"} PROVE DialTogether(n)'
    BY <1>1, <1>4, <2>1, <2>3 DEF DialTogether
  <2>4. ASSUME dial[n].pc = "resp" PROVE DialTogether(n)'
    BY <1>1, <1>2, <1>4, <2>1, <2>2, <2>4 DEF DialTogether
  <2>5. ASSUME dial[n].pc = "hs" PROVE DialTogether(n)'
    BY <1>1, <1>2, <1>4, <2>1, <2>2, <2>5 DEF DialTogether, Allows
  <2>6. DialTogether(n)'
    <3>1. dial[n].pc \in {"yb", "resp", "hs", "failed"}
      BY <1>1, <2>1 DEF DialTogether
    <3>2. QED
      BY <2>3, <2>4, <2>5, <3>1
  <2>7. AcceptTogether(n)'
    BY <2>1 DEF AcceptTogether
  <2>8. QED
    BY <2>6, <2>7
<1>5. QED
  <2> HIDE DEF a
  <2>1. Sets(n, dial[n], a, p, toDial[n])
    BY DEF a
  <2>2. QED
    BY <1>1, <1>3, <1>4, <2>1, StepOfAttempt

\* The acceptor comes up and answers in a cipher that its mode allows, to a
\* dialer that has the response before it or needs none.
LEMMA AcceptorAnswers ==
  ASSUME ShakeInv, NEW n \in Attempts, accept[n].pc \in {"first", "hs"},
         dial[n].pc # "yb", NEW c \in BOOLEAN, Allows(amode, c),
         NEW p, Sets(n, dial[n], [pc |-> "up", rc4 |-> c], p, Append(toDial[n], [k |-> "hs", rc4 |-> c]))
  PROVE  ShakeInv'
<1> DEFINE a == [pc |-> "up", rc4 |-> c]
           m == [k |-> "hs", rc4 |-> c]
<1>1. /\ dial[n] \in EndRecords /\ n <= attempt /\ DialTogether(n)
  BY AttemptIs
<1>2. a \in EndRecords /\ UNCHANGED <<dmode, amode>>
  BY DEF EndRecords, Sets
<1>3. ASSUME dial'[n] = dial[n], accept'[n] = a, toAcc'[n] = p, toDial'[n] = Append(toDial[n], m)
      PROVE  DialTogether(n)' /\ AcceptTogether(n)'
  <2>1. accept'[n].pc = "up" /\ accept'[n].rc4 = c /\ dial[n].pc \notin {"none", "up"}
    BY <1>1, <1>3 DEF DialTogether, NoEnd
  <2>2. ~(\E x : Answer(n, x)) /\ Answer(n, m)'
    BY <2>1 DEF Answer
  <2>3. ASSUME dial[n].pc = "failed" PROVE DialTogether(n)'
    BY <1>3, <2>3 DEF DialTogether
  <2>4. ASSUME dial[n].pc = "resp" PROVE DialTogether(n)'
    <3>1. PICK r : toDial[n] = <<r>> /\ r.select \in Provides(dmode)
      BY <1>1, <2>2, <2>4 DEF DialTogether
    <3>2. toDial'[n] = <<r, m>>
      BY <1>3, <3>1, ShortQueues
    <3>3. QED
      BY <1>2, <1>3, <2>2, <2>4, <3>1, <3>2 DEF DialTogether
  <2>5. ASSUME dial[n].pc = "hs" PROVE DialTogether(n)'
    <3>1. toDial[n] = <<>> /\ Allows(dmode, dial[n].rc4)
      BY <1>1, <2>2, <2>5 DEF DialTogether
    <3>2. toDial'[n] = <<m>>
      BY <1>3, <3>1, ShortQueues
    <3>3. QED
      BY <1>2, <1>3, <2>2, <2>5, <3>1, <3>2 DEF DialTogether, Allows
  <2>6. dial[n].pc \in {"failed", "resp", "hs"}
    BY <1>1, <2>1 DEF DialTogether
  <2>7. AcceptTogether(n)'
    BY <1>2, <2>1 DEF AcceptTogether, Allows
  <2>8. QED
    BY <2>3, <2>4, <2>5, <2>6, <2>7
<1>4. QED
  <2>1. Sets(n, dial[n], a, p, Append(toDial[n], m))
    OBVIOUS
  <2> HIDE DEF a, m
  <2>2. QED
    BY <1>1, <1>2, <1>3, <2>1, StepOfAttempt

LEMMA AccFailsStep ==
  ASSUME ShakeInv, NEW n \in Attempts, AccFails(n)
  PROVE  ShakeInv'
<1>1. Sets(n, dial[n], [pc |-> "failed", rc4 |-> accept[n].rc4], toAcc[n], toDial[n])
  BY AcceptAt, LeftAlone DEF AccFails, Sets
<1>2. QED
  BY <1>1, AcceptorEnds DEF AccFails, Accepting

\* The acceptor has taken a message of attempt n.
TakesMessage(n, p) == toAcc' = [toAcc EXCEPT ![n] = p] /\ UNCHANGED <<dmode, amode, attempt, dial>>

\* Welcome, once the first message is read.
LEMMA WelcomeStep ==
  ASSUME ShakeInv, NEW n \in Attempts, accept[n].pc \in {"first", "hs"},
         dial[n].pc # "yb", NEW c \in BOOLEAN, Allows(amode, c), Welcome(n, c),
         NEW p, TakesMessage(n, p)
  PROVE  ShakeInv'
<1>1. CASE peer \in {"self", "full"}
  <2>1. Sets(n, dial[n], [pc |-> "failed", rc4 |-> accept[n].rc4], p, toDial[n])
    BY <1>1, AcceptAt, LeftAlone DEF Welcome, TakesMessage, Sets
  <2>2. QED
    BY <2>1, AcceptorEnds
<1>2. CASE peer \notin {"self", "full"}
  <2>1. Sets(n, dial[n], [pc |-> "up", rc4 |-> c], p, Append(toDial[n], [k |-> "hs", rc4 |-> c]))
    BY <1>2, LeftAlone DEF Welcome, TakesMessage, Sets
  <2>2. QED
    BY <2>1, AcceptorAnswers
<1>3. QED
  BY <1>1, <1>2

LEMMA RefuseStep ==
  ASSUME ShakeInv, NEW n \in Attempts, accept[n].pc \in {"first", "sync", "hs"}, Refuse(n),
         NEW p, TakesMessage(n, p)
  PROVE  ShakeInv'
<1>1. Sets(n, dial[n], [pc |-> "failed", rc4 |-> accept[n].rc4], p, toDial[n])
  BY AcceptAt, LeftAlone DEF Refuse, TakesMessage, Sets
<1>2. QED
  BY <1>1, AcceptorEnds

LEMMA AccHsStep ==
  ASSUME ShakeInv, NEW n \in Attempts, AccHs(n)
  PROVE  ShakeInv'
<1>1. /\ accept[n].pc = "hs" /\ TakesMessage(n, Tail(toAcc[n]))
      /\ Welcome(n, accept[n].rc4) \/ Refuse(n)
  BY DEF AccHs, TakesMessage
<1>2. /\ accept[n] \in EndRecords /\ DialTogether(n) /\ AcceptTogether(n)
  BY AttemptIs
<1>3. dial[n].pc # "yb" /\ accept[n].rc4 \in BOOLEAN /\ Allows(amode, accept[n].rc4)
  BY <1>1, <1>2 DEF DialTogether, AcceptTogether, EndRecords
<1>4. CASE Welcome(n, accept[n].rc4)
  BY <1>1, <1>3, <1>4, WelcomeStep
<1>5. CASE Refuse(n)
  BY <1>1, <1>5, RefuseStep
<1>6. QED
  BY <1>1, <1>4, <1>5

LEMMA AccFirstStep ==
  ASSUME ShakeInv, NEW n \in Attempts, AccFirst(n)
  PROVE  ShakeInv'
<1>1. /\ dial[n] \in EndRecords /\ accept[n] \in EndRecords /\ n <= attempt
      /\ DialTogether(n) /\ AcceptTogether(n) /\ accept[n].pc = "first"
  BY AttemptIs DEF AccFirst
<1>2. PICK m : /\ toAcc[n] = <<m>> /\ toDial[n] = <<>>
               /\ \/ m.k = "hs" /\ dial[n].pc \in {"hs", "failed"}
                  \/ m.k = "ya" /\ dial[n].pc \in {"yb", "failed"}
  BY <1>1 DEF AcceptTogether, FirstSent
<1>3. Head(toAcc[n]) = m /\ Tail(toAcc[n]) = <<>>
  BY <1>2, ShortQueues
<1>4. TakesMessage(n, <<>>)
  BY <1>3 DEF AccFirst, TakesMessage
<1>5. CASE Refuse(n)
  BY <1>1, <1>4, <1>5, RefuseStep
<1>6. CASE m.k = "hs" /\ TakesPlain /\ Welcome(n, FALSE)
  <2>1. Allows(amode, FALSE) /\ dial[n].pc # "yb"
    BY <1>2, <1>6 DEF TakesPlain, Allows
  <2>2. QED
    BY <1>1, <1>4, <1>6, <2>1, WelcomeStep
<1>7. CASE /\ m.k = "ya"
           /\ accept' = [accept EXCEPT ![n].pc = "sync"]
           /\ toDial' = [toDial EXCEPT ![n] = Append(@, [k |-> "yb"])]
  <2> DEFINE a == [pc |-> "sync", rc4 |-> accept[n].rc4]
  <2>1. /\ dial' = [dial EXCEPT ![n] = dial[n]] /\ accept' = [accept EXCEPT ![n] = a]
        /\ toDial' = [toDial EXCEPT ![n] = <<[k |-> "yb"]>>]
    <3>1. toDial' = [toDial EXCEPT ![n] = Append(toDial[n], [k |-> "yb"])]
      BY <1>7
    <3>2. Append(toDial[n], [k |-> "yb"]) = <<[k |-> "yb"]>>
      BY <1>2, ShortQueues
    <3>3. QED
      BY <1>4, <1>7, <3>1, <3>2, AcceptAt, LeftAlone DEF TakesMessage
  <2>2. a \in EndRecords
    BY <1>1 DEF EndRecords
  <2>3. ASSUME dial'[n] = dial[n], accept'[n] = a, toAcc'[n] = <<>>, toDial'[n] = <<[k |-> "yb"]>>
        PROVE  DialTogether(n)' /\ AcceptTogether(n)'
    <3>1. accept'[n].pc = "sync" /\ dial'[n].pc \in {"yb", "failed"}
      BY <1>2, <1>7, <2>3
    <3>2. DialTogether(n)'
      BY <2>3, <3>1 DEF DialTogether
    <3>3. AcceptTogether(n)'
      BY <2>3, <3>1 DEF AcceptTogether
    <3>4. QED
      BY <3>2, <3>3
  <2>4. Sets(n, dial[n], a, <<>>, <<[k |-> "yb"]>>)
    BY <1>4, <2>1 DEF TakesMessage, Sets
  <2> HIDE DEF a
  <2>5. QED
    BY <1>1, <2>2, <2>3, <2>4, StepOfAttempt
<1>8. Refuse(n) \/ (m.k = "hs" /\ TakesPlain /\ Welcome(n, FALSE))
      \/ (/\ m.k = "ya" /\ accept' = [accept EXCEPT ![n].pc = "sync"]
          /\ toDial' = [toDial EXCEPT ![n] = Append(@, [k |-> "yb"])])
  <2>1. CASE m.k = "hs"
    BY <1>3, <2>1 DEF AccFirst
  <2>2. CASE m.k = "ya"
    BY <1>3, <2>2 DEF AccFirst
  <2>3. QED
    BY <1>2, <2>1, <2>2
<1>9. QED
  BY <1>5, <1>6, <1>7, <1>8

\* The response goes to a dialer that waits for it, alone when the acceptor
\* goes on or gives up, before the handshake when it comes up.
LEMMA AcceptorResponds ==
  ASSUME ShakeInv, NEW n \in Attempts, accept[n].pc = "sync", dial[n].pc \in {"resp", "failed"},
         NEW r, r.select \in Provides(dmode), NEW a \in EndRecords, NEW p, NEW q,
         a.pc = "failed" \/ (a.pc \in {"hs", "up"} /\ Allows(amode, a.rc4)),
         dial[n].pc = "resp" =>
            q = IF a.pc = "up" THEN <<r, [k |-> "hs", rc4 |-> a.rc4]>> ELSE <<r>>,
         Sets(n, dial[n], a, p, q)
  PROVE  ShakeInv'
<1>1. n <= attempt /\ dial[n] \in EndRecords
  BY AttemptIs
<1>2. UNCHANGED <<dmode, amode>>
  BY DEF Sets
<1>3. ASSUME dial'[n] = dial[n], accept'[n] = a, toAcc'[n] = p, toDial'[n] = q
      PROVE  DialTogether(n)' /\ AcceptTogether(n)'
  <2>1. ASSUME dial[n].pc = "resp" PROVE DialTogether(n)'
    <3>1. dial'[n].pc = "resp" /\ r.select \in Provides(dmode)'
      BY <1>2, <1>3, <2>1
    <3>2. ASSUME a.pc # "up" PROVE DialTogether(n)'
      BY <1>3, <2>1, <3>1, <3>2 DEF DialTogether
    <3>3. ASSUME a.pc = "up" PROVE DialTogether(n)'
      <4> DEFINE m == [k |-> "hs", rc4 |-> a.rc4]
      <4>1. toDial'[n] = <<r, m>> /\ Answer(n, m)'
        BY <1>3, <2>1, <3>3 DEF Answer
      <4> HIDE DEF m
      <4>2. QED
        BY <3>1, <4>1 DEF DialTogether
    <3>4. QED
      BY <3>2, <3>3
  <2>2. ASSUME dial[n].pc = "failed" PROVE DialTogether(n)'
    BY <1>3, <2>2 DEF DialTogether
  <2>3. AcceptTogether(n)'
    BY <1>2, <1>3 DEF AcceptTogether, Allows
  <2>4. QED
    BY <2>1, <2>2, <2>3
<1>4. QED
  BY <1>1, <1>3, StepOfAttempt

LEMMA AccSyncStep ==
  ASSUME ShakeInv, NEW n \in Attempts, AccSync(n)
  PROVE  ShakeInv'
<1>1. /\ accept[n] \in EndRecords /\ DialTogether(n) /\ AcceptTogether(n)
      /\ accept[n].pc = "sync" /\ toAcc[n] # <<>>
  BY AttemptIs DEF AccSync
<1>2. PICK m : /\ toAcc[n] = <<m>> /\ m.provide = Provides(dmode)
               /\ dial[n].pc \in {"resp", "failed"}
  BY <1>1 DEF AcceptTogether
<1>3. Head(toAcc[n]) = m
  BY <1>2, ShortQueues
<1> DEFINE cipher == Select(m.provide, amode)
           r == [k |-> "resp", select |-> cipher]
           c == cipher = "rc4"
           h == [k |-> "hs", rc4 |-> c]
<1>4. /\ TakesMessage(n, Tail(toAcc[n]))
      /\ \/ Refuse(n)
         \/ cipher # "none" /\ accept' = [accept EXCEPT ![n] = [pc |-> "hs", rc4 |-> c]]
                            /\ toDial' = [toDial EXCEPT ![n] = Append(@, r)]
         \/ cipher # "none" /\ accept' = [accept EXCEPT ![n].pc = "failed"]
                            /\ toDial' = [toDial EXCEPT ![n] = Append(@, r)]
         \/ cipher # "none" /\ accept' = [accept EXCEPT ![n] = [pc |-> "up", rc4 |-> c]]
                            /\ toDial' = [toDial EXCEPT ![n] = @ \o <<r, h>>]
  <2>1. CASE peer = "unknown" \/ cipher = "none"
    BY <1>3, <2>1 DEF AccSync, TakesMessage
  <2>2. CASE ~(peer = "unknown" \/ cipher = "none") /\ m.ia # "full"
    BY <1>3, <2>2 DEF AccSync, TakesMessage
  <2>3. CASE ~(peer = "unknown" \/ cipher = "none") /\ m.ia = "full" /\ peer \in {"self", "full"}
    BY <1>3, <2>3 DEF AccSync, TakesMessage
  <2>4. CASE ~(peer = "unknown" \/ cipher = "none") /\ m.ia = "full" /\ peer \notin {"self", "full"}
    BY <1>3, <2>4 DEF AccSync, TakesMessage
  <2>5. QED
    BY <2>1, <2>2, <2>3, <2>4
<1>5. cipher # "none" => r.select \in Provides(dmode) /\ Allows(amode, c)
  BY <1>2, SelectsInCommon, ProvidedIsAllowed DEF ShakeInv, ShakeShape
<1>6. dial[n].pc = "resp" => toDial[n] = <<>>
  BY <1>1 DEF DialTogether, Answer
<1>7. dial[n].pc = "resp" => Append(toDial[n], r) = <<r>> /\ toDial[n] \o <<r, h>> = <<r, h>>
  <2> HIDE DEF r, h
  <2>1. Append(<<>>, r) = <<r>> /\ <<>> \o <<r, h>> = <<r, h>>
    BY ShortQueues
  <2>2. QED
    BY <1>6, <2>1
<1>8. /\ [pc |-> "hs", rc4 |-> c] \in EndRecords /\ [pc |-> "up", rc4 |-> c] \in EndRecords
      /\ [pc |-> "failed", rc4 |-> accept[n].rc4] \in EndRecords
  BY <1>1 DEF EndRecords
<1>9. CASE Refuse(n)
  BY <1>1, <1>4, <1>9, RefuseStep
<1> HIDE DEF cipher, c, r
<1>10. CASE /\ cipher # "none" /\ accept' = [accept EXCEPT ![n] = [pc |-> "hs", rc4 |-> c]]
            /\ toDial' = [toDial EXCEPT ![n] = Append(@, r)]
  <2> DEFINE a == [pc |-> "hs", rc4 |-> c]
  <2>1. Sets(n, dial[n], a, Tail(toAcc[n]), Append(toDial[n], r))
    BY <1>4, <1>10, LeftAlone DEF TakesMessage, Sets
  <2>2. a.pc = "hs" /\ a.rc4 = c /\ a \in EndRecords
    BY <1>8
  <2>3. dial[n].pc = "resp" =>
           Append(toDial[n], r) = IF a.pc = "up" THEN <<r, [k |-> "hs", rc4 |-> a.rc4]>> ELSE <<r>>
    BY <1>7, <2>2
  <2> HIDE DEF a, h
  <2>4. r.select \in Provides(dmode) /\ Allows(amode, c)
    BY <1>5, <1>10
  <2>5. QED
    BY <1>1, <1>2, <2>1, <2>2, <2>3, <2>4, AcceptorResponds
<1>11. CASE /\ cipher # "none" /\ accept' = [accept EXCEPT ![n].pc = "failed"]
            /\ toDial' = [toDial EXCEPT ![n] = Append(@, r)]
  <2> DEFINE a == [pc |-> "failed", rc4 |-> accept[n].rc4]
  <2>1. Sets(n, dial[n], a, Tail(toAcc[n]), Append(toDial[n], r))
    BY <1>4, <1>11, AcceptAt, LeftAlone DEF TakesMessage, Sets
  <2>2. a.pc = "failed" /\ a.rc4 = accept[n].rc4 /\ a \in EndRecords
    BY <1>8
  <2>3. dial[n].pc = "resp" =>
           Append(toDial[n], r) = IF a.pc = "up" THEN <<r, [k |-> "hs", rc4 |-> a.rc4]>> ELSE <<r>>
    BY <1>7, <2>2
  <2> HIDE DEF a, h
  <2>4. r.select \in Provides(dmode) /\ Allows(amode, c)
    BY <1>5, <1>11
  <2>5. QED
    BY <1>1, <1>2, <2>1, <2>2, <2>3, <2>4, AcceptorResponds
<1>12. CASE /\ cipher # "none" /\ accept' = [accept EXCEPT ![n] = [pc |-> "up", rc4 |-> c]]
            /\ toDial' = [toDial EXCEPT ![n] = @ \o <<r, h>>]
  <2> DEFINE a == [pc |-> "up", rc4 |-> c]
  <2>1. Sets(n, dial[n], a, Tail(toAcc[n]), toDial[n] \o <<r, h>>)
    BY <1>4, <1>12, LeftAlone DEF TakesMessage, Sets
  <2>2. a.pc = "up" /\ a.rc4 = c /\ a \in EndRecords
    BY <1>8
  <2>3. dial[n].pc = "resp" =>
           toDial[n] \o <<r, h>> = IF a.pc = "up" THEN <<r, [k |-> "hs", rc4 |-> a.rc4]>> ELSE <<r>>
    BY <1>7, <2>2
  <2> HIDE DEF a, h
  <2>4. r.select \in Provides(dmode) /\ Allows(amode, c)
    BY <1>5, <1>12
  <2>5. QED
    BY <1>1, <1>2, <2>1, <2>2, <2>3, <2>4, AcceptorResponds
<1>13. QED
  BY <1>4, <1>9, <1>10, <1>11, <1>12

LEMMA ShakeInvariant == HandshakeSpec => []ShakeInv
<1>1. HandshakeInit => ShakeInv
  <2> SUFFICES ASSUME HandshakeInit PROVE ShakeInv
    OBVIOUS
  <2>1. ShakeShape
    BY DEF HandshakeInit, ShakeShape, EndRecords, NoEnd
  <2>2. ASSUME NEW n \in Attempts
        PROVE  /\ dial[n] = NoEnd /\ accept[n] = NoEnd /\ toAcc[n] = <<>> /\ toDial[n] = <<>>
               /\ dial[n].pc = "none" /\ accept[n].pc = "none"
    BY DEF HandshakeInit, NoEnd
  <2>3. QED
    BY <2>1, <2>2 DEF ShakeInv, Unused, DialTogether, AcceptTogether
<1>2. ShakeInv /\ [HandshakeNext]_shakeVars => ShakeInv'
  <2> SUFFICES ASSUME ShakeInv, [HandshakeNext]_shakeVars PROVE ShakeInv'
    OBVIOUS
  <2>1. CASE Connect
    BY <2>1, ConnectStep
  <2>2. ASSUME NEW n \in Attempts, DialYb(n) \/ DialResp(n) \/ DialHs(n) \/ DialFails(n) PROVE ShakeInv'
    BY <2>2, DialYbStep, DialRespStep, DialHsStep, DialFailsStep
  <2>3. ASSUME NEW n \in Attempts, AccFirst(n) \/ AccSync(n) \/ AccHs(n) \/ AccFails(n) PROVE ShakeInv'
    BY <2>3, AccFirstStep, AccSyncStep, AccHsStep, AccFailsStep
  <2>4. CASE UNCHANGED shakeVars
    BY <2>4 DEF shakeVars, ShakeInv, ShakeShape, Unused, DialTogether, AcceptTogether, Answer, FirstSent
  <2>5. QED
    BY <2>1, <2>2, <2>3, <2>4 DEF HandshakeNext
<1>3. QED
  BY <1>1, <1>2, PTL DEF HandshakeSpec

\* Whatever the modes of the two ends, the attempts, the initial payload and
\* the mishaps: an end that is up uses a cipher that its mode allows ("off",
\* "require-rc4"), and two ends that are up use the same (crypto/config.rs:111).
THEOREM CiphersAlwaysAgree == HandshakeSpec => []CipherAgreed
<1>1. ShakeInv => CipherAgreed
  <2> SUFFICES ASSUME ShakeInv, NEW n \in Attempts
               PROVE  /\ dial[n].pc = "up" => Allows(dmode, dial[n].rc4)
                      /\ accept[n].pc = "up" => Allows(amode, accept[n].rc4)
                      /\ dial[n].pc = "up" => dial[n].rc4 = accept[n].rc4
    BY DEF CipherAgreed, Allows
  <2>1. QED
    BY AttemptIs DEF DialTogether, AcceptTogether
<1>2. QED
  BY <1>1, ShakeInvariant, PTL

-----------------------------------------------------------------------------
(* Numbers and channels.                                                   *)

\* A set of naturals has a least element.
LEMMA LeastOf ==
  ASSUME NEW T \in SUBSET Nat, T # {}
  PROVE  \E n \in T : \A m \in T : n <= m
<1> DEFINE R == OpToRel(<, Nat)
<1>1. \A n \in Nat, m \in Nat : n < m => <<n, m>> \in R
  BY DEF OpToRel
<1>2. IsWellFoundedOn(R, Nat)
  BY NatLessThanWellFounded
<1> HIDE DEF R
<1>3. PICK n \in T : \A m \in T : ~ (<<m, n>> \in R)
  BY <1>2, WFMin
<1>4. \A m \in T : ~ (m < n)
  BY <1>1, <1>3
<1>5. QED
  BY <1>4

\* What holds at 0 and goes on from each number to the next holds up to m.
LEMMA HoldsUpTo ==
  ASSUME NEW T, NEW m \in Nat, 0 \in T, \A n \in 0..m : n \in T /\ n < m => n + 1 \in T
  PROVE  \A n \in 0..m : n \in T
<1> DEFINE B == {n \in 0..m : n \notin T}
<1> SUFFICES ASSUME B # {} PROVE FALSE
  OBVIOUS
<1>1. B \in SUBSET Nat
  OBVIOUS
<1>2. PICK n \in B : \A k \in B : n <= k
  <2> HIDE DEF B
  <2>1. QED
    BY <1>1, LeastOf
<1>3. n \in 0..m /\ n # 0 /\ n - 1 \in 0..m /\ n - 1 < m /\ n - 1 < n
  OBVIOUS
<1>4. n - 1 \in T
  BY <1>2, <1>3
<1>5. (n - 1) + 1 \in T
  BY <1>3, <1>4
<1>6. QED
  BY <1>3, <1>5

\* Where v stands in a channel, and how that changes with what is sent and taken.
Positions(q, v) == {i \in DOMAIN q : q[i] = v}

\* The places of v in a queue are finitely many.
LEMMA PositionsFinite ==
  ASSUME NEW S, NEW q \in Seq(S), NEW v
  PROVE  IsFiniteSet(Positions(q, v)) /\ Cardinality(Positions(q, v)) \in Nat
<1>1. Positions(q, v) \in SUBSET (1..Len(q)) /\ Len(q) \in Nat
  BY DEF Positions
<1>2. IsFiniteSet(1..Len(q))
  BY <1>1, FS_Interval
<1>3. QED
  BY <1>1, <1>2, FS_Subset, FS_CardinalityType

\* What is sent adds a place when it is v.
LEMMA PositionsAppend ==
  ASSUME NEW S, NEW q \in Seq(S), NEW e \in S, NEW v
  PROVE  Cardinality(Positions(Append(q, e), v)) =
            Cardinality(Positions(q, v)) + (IF e = v THEN 1 ELSE 0)
<1>1. /\ Len(q) \in Nat /\ DOMAIN q = 1..Len(q)
      /\ DOMAIN Append(q, e) = 1..(Len(q) + 1)
      /\ \A i \in 1..(Len(q) + 1) : Append(q, e)[i] = IF i = Len(q) + 1 THEN e ELSE q[i]
  OBVIOUS
<1>2. CASE e = v
  <2>1. Positions(Append(q, e), v) = Positions(q, v) \cup {Len(q) + 1}
    BY <1>1, <1>2 DEF Positions
  <2>2. Len(q) + 1 \notin Positions(q, v)
    BY <1>1 DEF Positions
  <2>3. QED
    BY <1>2, <2>1, <2>2, PositionsFinite, FS_AddElement
<1>3. CASE e # v
  <2>1. Positions(Append(q, e), v) = Positions(q, v)
    BY <1>1, <1>3 DEF Positions
  <2>2. QED
    BY <1>3, <2>1, PositionsFinite
<1>4. QED
  BY <1>2, <1>3

\* What is taken removes a place when it was v.
LEMMA PositionsTail ==
  ASSUME NEW S, NEW q \in Seq(S), q # <<>>, NEW v
  PROVE  /\ Tail(q) \in Seq(S) /\ Head(q) \in S
         /\ Cardinality(Positions(q, v)) =
            Cardinality(Positions(Tail(q), v)) + (IF Head(q) = v THEN 1 ELSE 0)
<1> DEFINE A == Positions(q, v) \ {1}
           B == Positions(Tail(q), v)
           f == [i \in B |-> i + 1]
<1>1. /\ Len(q) \in Nat \ {0} /\ DOMAIN q = 1..Len(q)
      /\ Tail(q) \in Seq(S) /\ Head(q) \in S /\ Head(q) = q[1]
      /\ DOMAIN Tail(q) = 1..(Len(q) - 1)
      /\ \A i \in 1..(Len(q) - 1) : Tail(q)[i] = q[i + 1]
  OBVIOUS
<1>2. \A i \in B : i \in Nat /\ i + 1 \in A
  BY <1>1 DEF Positions
<1>3. \A i \in A : i - 1 \in B /\ i = (i - 1) + 1
  BY <1>1 DEF Positions
<1>4. f \in Bijection(B, A)
  <2>1. f \in [B -> A] /\ \A i, k \in B : f[i] = f[k] => i = k
    BY <1>2
  <2>2. \A i \in A : \E k \in B : f[k] = i
    BY <1>3
  <2> HIDE DEF f, A, B
  <2>3. QED
    BY <2>1, <2>2 DEF Bijection, Injection, IsInjective, Surjection
<1>5. ExistsBijection(B, A)
  BY <1>4 DEF ExistsBijection
<1>6. IsFiniteSet(B) /\ IsFiniteSet(Positions(q, v)) /\ Cardinality(B) \in Nat
  BY <1>1, PositionsFinite
<1>7. Cardinality(A) = Cardinality(B)
  <2> HIDE DEF A, B, f
  <2>1. QED
    BY <1>5, <1>6, FS_Bijection
<1>8. 1 \in Positions(q, v) <=> Head(q) = v
  BY <1>1 DEF Positions
<1>9. Cardinality(A) = IF 1 \in Positions(q, v) THEN Cardinality(Positions(q, v)) - 1
                       ELSE Cardinality(Positions(q, v))
  BY <1>6, FS_RemoveElement
<1>10. Cardinality(Positions(q, v)) \in Nat
  BY PositionsFinite
<1> HIDE DEF A, B, f
<1>11. Cardinality(Positions(q, v)) = Cardinality(B) + (IF Head(q) = v THEN 1 ELSE 0)
  BY <1>6, <1>7, <1>8, <1>9, <1>10
<1>12. QED
  BY <1>1, <1>11 DEF B

-----------------------------------------------------------------------------
(* WorkerPool.                                                             *)

SpawnerStates == [pc : {"idle", "count", "send"}, w : Workers]
Sending(w) == {s \in Spawners : spawner[s] = [pc |-> "send", w |-> w]}

PoolShape ==
    /\ count \in [Workers -> Nat] /\ running \in [Workers -> Nat]
    /\ queue \in [Workers -> Seq({"session", "stop"})]
    /\ thread \in [Workers -> {"up", "stuck", "ended"}]
    /\ spawner \in [Spawners -> SpawnerStates]
PoolInv == PoolShape /\ CountsAreTrue

\* The counts, split into running, queued and being handed over.
LEMMA CountsByParts ==
  CountsAreTrue <=> \A w \in Workers : thread[w] # "ended" =>
      count[w] = running[w] + Cardinality(Positions(queue[w], "session")) + Cardinality(Sending(w))
BY DEF CountsAreTrue, Queued, OnTheirWay, Positions, Sending

\* Finitely many spawns are under way for a worker.
LEMMA SendingFinite == \A w : IsFiniteSet(Sending(w)) /\ Cardinality(Sending(w)) \in Nat
<1>1. TAKE w
<1>2. Sending(w) \in SUBSET Spawners /\ IsFiniteSet(Spawners)
  BY PoolAssumption DEF Sending, PoolAssumption
<1>3. QED
  BY <1>2, FS_Subset, FS_CardinalityType

\* The parts of a worker's count are naturals.
LEMMA PartsAreNat ==
  ASSUME PoolShape, NEW w \in Workers
  PROVE  /\ count[w] \in Nat /\ running[w] \in Nat
         /\ Cardinality(Positions(queue[w], "session")) \in Nat
         /\ Cardinality(Sending(w)) \in Nat
<1>1. queue[w] \in Seq({"session", "stop"})
  BY DEF PoolShape
<1>2. QED
  BY <1>1, PositionsFinite, SendingFinite DEF PoolShape

\* least_peers_worker finds one.
LEMMA LeastIsWorker ==
  ASSUME PoolShape PROVE LeastPeersWorker \in Workers
<1> DEFINE C == {count[w] : w \in Workers}
           L == {w \in Workers : \A v \in Workers : count[w] <= count[v]}
<1>1. 1 \in Workers /\ Workers \subseteq Nat
  BY PoolAssumption DEF Workers, PoolAssumption
<1>2. C \in SUBSET Nat /\ C # {}
  BY <1>1 DEF PoolShape
<1>3. \E n \in C : \A m \in C : n <= m
  <2> HIDE DEF C
  <2>1. QED
    BY <1>2, LeastOf
<1>4. L # {} /\ L \in SUBSET Nat
  <2>1. PICK n \in C : \A m \in C : n <= m
    BY <1>3
  <2>2. PICK u \in Workers : n = count[u]
    BY <2>1
  <2>3. u \in L
    BY <2>1, <2>2
  <2>4. QED
    BY <1>1, <2>3
<1>5. \E n \in L : \A m \in L : n <= m
  <2> HIDE DEF L
  <2>1. QED
    BY <1>4, LeastOf
<1>6. Min(L) \in L
  <2> HIDE DEF L
  <2>1. QED
    BY <1>5 DEF Min
<1>7. QED
  BY <1>6 DEF LeastPeersWorker

\* What a spawning task's move does to the sessions on their way to a worker.
LEMMA SendingMoves ==
  ASSUME PoolShape, NEW s \in Spawners, NEW r \in SpawnerStates,
         spawner' = [spawner EXCEPT ![s] = r], NEW w \in Workers
  PROVE  /\ spawner' \in [Spawners -> SpawnerStates]
         /\ Sending(w)' = IF r.pc = "send" /\ r.w = w THEN Sending(w) \cup {s} ELSE Sending(w) \ {s}
         /\ s \in Sending(w) <=> spawner[s].pc = "send" /\ spawner[s].w = w
<1>1. \A e \in SpawnerStates : e = [pc |-> "send", w |-> w] <=> e.pc = "send" /\ e.w = w
  BY DEF SpawnerStates
<1>2. spawner \in [Spawners -> SpawnerStates]
  BY DEF PoolShape
<1>3. QED
  BY <1>1, <1>2 DEF Sending

\* The choice changes no count.
LEMMA SpawnChoosesKeeps ==
  ASSUME PoolInv, NEW s \in Spawners, SpawnChooses(s) PROVE PoolInv'
<1> DEFINE r == [pc |-> "count", w |-> LeastPeersWorker]
<1>1. PoolShape /\ UNCHANGED <<count, running, queue, thread>> /\ spawner[s].pc = "idle"
  BY DEF SpawnChooses, PoolInv
<1>2. r \in SpawnerStates /\ r.pc # "send"
  BY <1>1, LeastIsWorker DEF SpawnerStates
<1>3. spawner' = spawner \/ spawner' = [spawner EXCEPT ![s] = r]
  BY DEF SpawnChooses
<1> HIDE DEF r
<1>4. spawner' \in [Spawners -> SpawnerStates] /\ \A w \in Workers : Sending(w)' = Sending(w)
  <2>1. CASE spawner' = spawner
    BY <1>1, <2>1 DEF PoolShape, Sending
  <2>2. CASE spawner' = [spawner EXCEPT ![s] = r]
    <3>1. spawner' \in [Spawners -> SpawnerStates]
      BY <1>1, <1>2, <2>2 DEF PoolShape
    <3>2. ASSUME NEW w \in Workers PROVE Sending(w)' = Sending(w)
      <4>1. Sending(w)' = Sending(w) \ {s} /\ s \notin Sending(w)
        BY <1>1, <1>2, <2>2, SendingMoves
      <4>2. QED
        BY <4>1
    <3>3. QED
      BY <3>1, <3>2
  <2>3. QED
    BY <1>3, <2>1, <2>2
<1>5. CountsAreTrue'
  BY <1>1, <1>4, CountsByParts DEF PoolInv, CountsAreTrue, Queued, OnTheirWay, Positions, Sending
<1>6. QED
  BY <1>1, <1>4, <1>5 DEF PoolInv, PoolShape

\* The counts, when those of one worker move.
CountHolds(w) ==
    thread[w] # "ended" =>
        count[w] = running[w] + Cardinality(Positions(queue[w], "session")) + Cardinality(Sending(w))
\* The counts, worker by worker.
LEMMA CountsAre == CountsAreTrue <=> \A w \in Workers : CountHolds(w)
BY CountsByParts DEF CountHolds
\* The same after a step.
LEMMA CountsAreNext == CountsAreTrue' <=> \A w \in Workers : CountHolds(w)'
BY DEF CountsAreTrue, Queued, OnTheirWay, Positions, Sending, CountHolds

\* The count goes up before the session is sent.
LEMMA SpawnCountsKeeps ==
  ASSUME PoolInv, NEW s \in Spawners, SpawnCounts(s) PROVE PoolInv'
<1> DEFINE r == [spawner[s] EXCEPT !.pc = "send"]
           v == spawner[s].w
<1>1. /\ PoolShape /\ UNCHANGED <<running, queue, thread>> /\ spawner[s].pc = "count"
      /\ count' = [count EXCEPT ![v] = @ + 1] /\ spawner' = [spawner EXCEPT ![s] = r]
  BY DEF SpawnCounts, PoolInv, PoolShape
<1>2. spawner[s] \in SpawnerStates
  BY <1>1 DEF PoolShape
<1>3. v \in Workers /\ r \in SpawnerStates /\ r.pc = "send" /\ r.w = v
  BY <1>2 DEF SpawnerStates
<1> HIDE DEF r, v
<1>4. \A w \in Workers : /\ spawner' \in [Spawners -> SpawnerStates]
                         /\ Sending(w)' = IF w = v THEN Sending(w) \cup {s} ELSE Sending(w) \ {s}
                         /\ s \notin Sending(w)
  BY <1>1, <1>3, SendingMoves
<1>5. ASSUME NEW w \in Workers PROVE CountHolds(w)'
  <2>1. Cardinality(Sending(w)') = Cardinality(Sending(w)) + (IF w = v THEN 1 ELSE 0)
    <3>1. CASE w = v
      BY <1>4, <3>1, SendingFinite, FS_AddElement
    <3>2. CASE w # v
      <4>1. Sending(w)' = Sending(w)
        BY <1>4, <3>2
      <4>2. QED
        BY <3>2, <4>1, SendingFinite
    <3>3. QED
      BY <3>1, <3>2
  <2>2. count'[w] = count[w] + (IF w = v THEN 1 ELSE 0)
    BY <1>1, PartsAreNat DEF PoolShape
  <2>3. CountHolds(w)
    BY CountsAre DEF PoolInv
  <2>4. QED
    BY <1>1, <2>1, <2>2, <2>3, PartsAreNat DEF CountHolds
<1>6. count' \in [Workers -> Nat]
  BY <1>1, <1>3 DEF PoolShape
<1>7. spawner' \in [Spawners -> SpawnerStates]
  BY <1>3, <1>4
<1>8. QED
  BY <1>1, <1>5, <1>6, <1>7, CountsAreNext DEF PoolInv, PoolShape

\* A session that is sent is queued, or its count is taken back.
LEMMA SpawnSendsKeeps ==
  ASSUME PoolInv, NEW s \in Spawners, SpawnSends(s) PROVE PoolInv'
<1> DEFINE v == spawner[s].w
<1>1. /\ PoolShape /\ UNCHANGED <<count, running, thread>> /\ spawner[s].pc = "send"
      /\ queue' = IF thread[v] = "ended" THEN queue ELSE [queue EXCEPT ![v] = Append(@, "session")]
      /\ spawner' = [spawner EXCEPT ![s] = IdleSpawner]
  BY DEF SpawnSends, PoolInv, PoolShape
<1>2. spawner[s] \in SpawnerStates /\ IdleSpawner \in SpawnerStates /\ IdleSpawner.pc # "send"
  BY <1>1, PoolAssumption DEF PoolShape, SpawnerStates, IdleSpawner, Workers, PoolAssumption
<1>3. v \in Workers
  BY <1>2 DEF SpawnerStates
<1> HIDE DEF v
<1>4. \A w \in Workers : /\ spawner' \in [Spawners -> SpawnerStates]
                         /\ Sending(w)' = Sending(w) \ {s}
                         /\ s \in Sending(w) <=> v = w
  BY <1>1, <1>2, SendingMoves DEF v
<1>5. \A w \in Workers : queue'[w] = IF w = v /\ thread[w] # "ended" THEN Append(queue[w], "session")
                                     ELSE queue[w]
  BY <1>1, <1>3 DEF PoolShape
<1>6. ASSUME NEW w \in Workers PROVE CountHolds(w)'
  <2>0. CountHolds(w) /\ queue[w] \in Seq({"session", "stop"})
    BY <1>1, CountsAre DEF PoolInv, PoolShape
  <2>1. CASE w = v /\ thread[w] # "ended"
    <3>1. Cardinality(Sending(w)') = Cardinality(Sending(w)) - 1
      BY <1>4, <2>1, SendingFinite, FS_RemoveElement
    <3>2. Cardinality(Positions(queue'[w], "session")) = Cardinality(Positions(queue[w], "session")) + 1
      BY <1>5, <2>0, <2>1, PositionsAppend
    <3>3. count[w] = running[w] + Cardinality(Positions(queue[w], "session")) + Cardinality(Sending(w))
      BY <2>0, <2>1 DEF CountHolds
    <3>4. count[w] = running[w] + Cardinality(Positions(queue'[w], "session")) + Cardinality(Sending(w)')
      <4> DEFINE a == Cardinality(Positions(queue[w], "session"))
                 b == Cardinality(Sending(w))
                 c == Cardinality(Positions(queue'[w], "session"))
                 d == Cardinality(Sending(w)')
      <4>1. a \in Nat /\ b \in Nat /\ running[w] \in Nat
        BY <1>1, PartsAreNat
      <4>2. count[w] = running[w] + a + b /\ d = b - 1 /\ c = a + 1
        BY <3>1, <3>2, <3>3
      <4> HIDE DEF a, b, c, d
      <4>3. count[w] = running[w] + c + d
        BY <4>1, <4>2
      <4>4. QED
        BY <4>3 DEF c, d
    <3>5. QED
      BY <1>1, <3>4 DEF CountHolds
  <2>2. CASE w # v
    <3>1. Sending(w)' = Sending(w) /\ queue'[w] = queue[w]
      BY <1>4, <1>5, <2>2
    <3>2. QED
      BY <1>1, <2>0, <3>1 DEF CountHolds
  <2>3. CASE thread[w] = "ended"
    BY <1>1, <2>3 DEF CountHolds
  <2>4. QED
    BY <2>1, <2>2, <2>3
<1>7. queue' \in [Workers -> Seq({"session", "stop"})]
  <2>1. \A w \in Workers : Append(queue[w], "session") \in Seq({"session", "stop"})
    BY <1>1 DEF PoolShape
  <2>2. QED
    BY <1>1, <2>1 DEF PoolShape
<1>8. spawner' \in [Spawners -> SpawnerStates]
  BY <1>3, <1>4
<1>9. QED
  BY <1>1, <1>6, <1>7, <1>8, CountsAreNext DEF PoolInv, PoolShape

\* A queued session becomes a running one.
LEMMA WorkerSpawnsKeeps ==
  ASSUME PoolInv, NEW v \in Workers, WorkerSpawns(v) PROVE PoolInv'
<1>1. /\ PoolShape /\ UNCHANGED <<count, thread, spawner>>
      /\ queue[v] # <<>> /\ Head(queue[v]) = "session"
      /\ queue' = [queue EXCEPT ![v] = Tail(queue[v])]
      /\ running' = [running EXCEPT ![v] = running[v] + 1]
  BY DEF WorkerSpawns, PoolInv
<1>2. queue[v] \in Seq({"session", "stop"})
  BY <1>1 DEF PoolShape
<1>3. /\ Tail(queue[v]) \in Seq({"session", "stop"})
      /\ Cardinality(Positions(queue[v], "session")) =
            Cardinality(Positions(Tail(queue[v]), "session")) + 1
  BY <1>1, <1>2, PositionsTail
<1>4. Cardinality(Positions(Tail(queue[v]), "session")) \in Nat
  BY <1>3, PositionsFinite
<1>5. ASSUME NEW w \in Workers PROVE CountHolds(w)'
  <2>0. CountHolds(w) /\ Sending(w)' = Sending(w)
    BY <1>1, CountsAre DEF PoolInv, Sending
  <2>1. CASE w = v
    <3>1. queue'[w] = Tail(queue[v]) /\ running'[w] = running[v] + 1
      BY <1>1, <2>1 DEF PoolShape
    <3>2. QED
      BY <1>1, <1>3, <1>4, <2>0, <2>1, <3>1, PartsAreNat DEF CountHolds
  <2>2. CASE w # v
    <3>1. queue'[w] = queue[w] /\ running'[w] = running[w]
      BY <1>1, <2>2 DEF PoolShape
    <3>2. QED
      BY <1>1, <2>0, <3>1 DEF CountHolds
  <2>3. QED
    BY <2>1, <2>2
<1>6. queue' \in [Workers -> Seq({"session", "stop"})] /\ running' \in [Workers -> Nat]
  BY <1>1, <1>3 DEF PoolShape
<1>7. QED
  BY <1>1, <1>5, <1>6, CountsAreNext DEF PoolInv, PoolShape

\* The guard of a session takes its count back, on a panic too.
LEMMA SessionEndsKeeps ==
  ASSUME PoolInv, NEW v \in Workers, NEW panics, SessionEnds(v, panics) PROVE PoolInv'
<1>1. /\ PoolShape /\ UNCHANGED <<queue, thread, spawner>>
      /\ thread[v] = "up" /\ running[v] > 0
      /\ running' = [running EXCEPT ![v] = running[v] - 1]
      /\ count' = [count EXCEPT ![v] = count[v] - 1]
  BY DEF SessionEnds, PoolInv, GuardDrops
<1>2. CountHolds(v) /\ running[v] - 1 \in Nat
  BY <1>1, CountsAre, PartsAreNat DEF PoolInv
<1>3. count[v] - 1 \in Nat
  BY <1>1, <1>2, PartsAreNat DEF CountHolds
<1>4. ASSUME NEW w \in Workers PROVE CountHolds(w)'
  <2>0. CountHolds(w) /\ Sending(w)' = Sending(w)
    BY <1>1, CountsAre DEF PoolInv, Sending
  <2>1. CASE w = v
    <3>1. count'[w] = count[v] - 1 /\ running'[w] = running[v] - 1
      BY <1>1, <2>1 DEF PoolShape
    <3>2. QED
      BY <1>1, <2>0, <2>1, <3>1, PartsAreNat DEF CountHolds
  <2>2. CASE w # v
    <3>1. count'[w] = count[w] /\ running'[w] = running[w]
      BY <1>1, <2>2 DEF PoolShape
    <3>2. QED
      BY <1>1, <2>0, <3>1 DEF CountHolds
  <2>3. QED
    BY <2>1, <2>2
<1>5. count' \in [Workers -> Nat] /\ running' \in [Workers -> Nat]
  BY <1>1, <1>2, <1>3 DEF PoolShape
<1>6. QED
  BY <1>1, <1>4, <1>5, CountsAreNext DEF PoolInv, PoolShape

\* A worker that ends, with what runs on it; what it counted beyond that is
\* lost with the sessions that nobody takes from its queue.
LEMMA WorkerEndsKeeps ==
  ASSUME PoolInv, NEW v \in Workers, WorkerEnds(v) PROVE PoolInv'
<1>1. /\ PoolShape /\ UNCHANGED spawner
      /\ thread[v] = "up" /\ queue[v] # <<>>
      /\ queue' = [queue EXCEPT ![v] = Tail(queue[v])]
      /\ thread' = [thread EXCEPT ![v] = "ended"]
      /\ running' = [running EXCEPT ![v] = 0]
      /\ count' = [count EXCEPT ![v] = count[v] - running[v]]
  BY DEF WorkerEnds, PoolInv
<1>2. queue[v] \in Seq({"session", "stop"}) /\ Tail(queue[v]) \in Seq({"session", "stop"})
  BY <1>1 DEF PoolShape
<1>3. count[v] - running[v] \in Nat
  <2>1. CountHolds(v)
    BY CountsAre DEF PoolInv
  <2>2. QED
    BY <1>1, <2>1, PartsAreNat DEF CountHolds
<1>4. ASSUME NEW w \in Workers PROVE CountHolds(w)'
  <2>0. CountHolds(w) /\ Sending(w)' = Sending(w)
    BY <1>1, CountsAre DEF PoolInv, Sending
  <2>1. CASE w = v
    BY <1>1, <2>1 DEF CountHolds, PoolShape
  <2>2. CASE w # v
    <3>1. count'[w] = count[w] /\ running'[w] = running[w] /\ queue'[w] = queue[w] /\ thread'[w] = thread[w]
      BY <1>1, <2>2 DEF PoolShape
    <3>2. QED
      BY <2>0, <3>1 DEF CountHolds
  <2>3. QED
    BY <2>1, <2>2
<1>5. /\ count' \in [Workers -> Nat] /\ running' \in [Workers -> Nat]
      /\ queue' \in [Workers -> Seq({"session", "stop"})]
      /\ thread' \in [Workers -> {"up", "stuck", "ended"}]
  BY <1>1, <1>2, <1>3 DEF PoolShape
<1>6. QED
  BY <1>1, <1>4, <1>5, CountsAreNext DEF PoolInv, PoolShape

\* Shutdown queues a word for each worker, and no session.
LEMMA TellsKeeps ==
  ASSUME PoolInv, ShutdownTells PROVE PoolInv'
<1>1. /\ PoolShape /\ UNCHANGED <<count, running, thread, spawner>>
      /\ queue' = [queue EXCEPT ![closer.w] = Append(@, "stop")]
  BY DEF ShutdownTells, PoolInv
<1>2. ASSUME NEW w \in Workers PROVE CountHolds(w)'
  <2>0. CountHolds(w) /\ Sending(w)' = Sending(w) /\ queue[w] \in Seq({"session", "stop"})
    BY <1>1, CountsAre DEF PoolInv, Sending, PoolShape
  <2>1. queue'[w] = queue[w] \/ queue'[w] = Append(queue[w], "stop")
    BY <1>1 DEF PoolShape
  <2>2. Cardinality(Positions(Append(queue[w], "stop"), "session")) =
           Cardinality(Positions(queue[w], "session"))
    BY <2>0, PositionsAppend, PartsAreNat, <1>1
  <2>3. QED
    BY <1>1, <2>0, <2>1, <2>2 DEF CountHolds
<1>3. queue' \in [Workers -> Seq({"session", "stop"})]
  <2>1. \A w \in Workers : Append(queue[w], "stop") \in Seq({"session", "stop"})
    BY <1>1 DEF PoolShape
  <2>2. QED
    BY <1>1, <2>1 DEF PoolShape
<1>4. QED
  BY <1>1, <1>2, <1>3, CountsAreNext DEF PoolInv, PoolShape

\* Steps that move no session.
LEMMA PoolQuiet ==
  ASSUME PoolInv, UNCHANGED <<count, running, queue, spawner>>,
         thread' \in [Workers -> {"up", "stuck", "ended"}],
         \A w \in Workers : thread[w] = "ended" => thread'[w] = "ended"
  PROVE  PoolInv'
<1>1. ASSUME NEW w \in Workers PROVE CountHolds(w)'
  <2>1. CountHolds(w)
    BY CountsAre DEF PoolInv
  <2>2. QED
    BY <2>1 DEF CountHolds, Sending
<1>2. QED
  BY <1>1, CountsAreNext DEF PoolInv, PoolShape

\* Every step of the pool keeps PoolInv.
LEMMA PoolStep == ASSUME PoolInv, [PoolNext]_poolVars PROVE PoolInv'
<1>1. ASSUME NEW w \in Workers, WorkerSticks(w) \/ WorkerGoesOn(w) PROVE PoolInv'
  BY <1>1, PoolQuiet DEF WorkerSticks, WorkerGoesOn, PoolInv, PoolShape
<1>2. CASE ShutdownBegins \/ ShutdownJoins \/ ShutdownDeadline \/ UNCHANGED poolVars
  BY <1>2, PoolQuiet DEF ShutdownBegins, ShutdownJoins, ShutdownDeadline, poolVars, PoolInv, PoolShape
<1>3. QED
  BY <1>1, <1>2, SpawnChoosesKeeps, SpawnCountsKeeps, SpawnSendsKeeps, WorkerSpawnsKeeps,
     WorkerEndsKeeps, SessionEndsKeeps, TellsKeeps DEF PoolNext

\* The empty pool satisfies PoolInv.
LEMMA PoolStarts == PoolInit => PoolInv
<1>1. SUFFICES ASSUME PoolInit PROVE PoolInv
  OBVIOUS
<1>2. PoolShape
  BY <1>1, PoolAssumption DEF PoolInit, PoolShape, SpawnerStates, IdleSpawner, Workers, PoolAssumption
<1>3. ASSUME NEW w \in Workers PROVE CountHolds(w)
  <2>1. Positions(queue[w], "session") = {}
    BY <1>1 DEF PoolInit, Positions
  <2>2. Sending(w) = {}
    BY <1>1 DEF PoolInit, Sending, IdleSpawner
  <2>3. QED
    BY <1>1, <2>1, <2>2, FS_EmptySet, SMTT(20) DEF PoolInit, CountHolds
<1>4. QED
  BY <1>2, <1>3, CountsAre DEF PoolInv

\* What a worker is chosen by is what it has: sessions that run, wait in its
\* queue or are about to be queued, for any number of workers and of tasks
\* that spawn, over panics and through the shutdown.
THEOREM LeastPeersIsTrue == PoolSpec => []CountsAreTrue
<1>1. PoolInv => CountsAreTrue
  BY DEF PoolInv
<1>2. QED
  BY <1>1, PoolStarts, PoolStep, PTL DEF PoolSpec

-----------------------------------------------------------------------------
(* WireRead: where frames begin in the stream.                             *)

\* A frame has at least its prefix.
LEMMA FrameLenIs ==
  ASSUME WireAssumption, NEW kind \in Kinds
  PROVE  FrameLen(kind) \in Nat /\ FrameLen(kind) >= Prefix /\ Prefix \in Nat /\ Prefix >= 1
BY DEF WireAssumption, FrameLen

UnitsOf(fs, m, f) == f = [i \in 0..m |-> IF i = 0 THEN 0 ELSE f[i - 1] + FrameLen(fs[i])]

\* The function that Before asks for exists: up to each place, by least counterexample.
LEMMA UnitsExist ==
  ASSUME NEW fs, NEW m \in Nat
  PROVE  \E f : UnitsOf(fs, m, f)
<1> DEFINE T == {n \in 0..m : \E f : UnitsOf(fs, n, f)}
<1>1. 0 \in T
  <2> DEFINE f == [n \in 0..0 |-> 0]
  <2>1. f = [n \in 0..0 |-> IF n = 0 THEN 0 ELSE f[n - 1] + FrameLen(fs[n])]
    OBVIOUS
  <2>2. UnitsOf(fs, 0, f)
    BY <2>1 DEF UnitsOf
  <2> HIDE DEF f
  <2>3. QED
    BY <2>2
<1>2. ASSUME NEW n \in 0..m, n \in T, n < m PROVE n + 1 \in T
  <2>1. PICK f : UnitsOf(fs, n, f)
    BY <1>2
  <2>2. \A k \in 0..n : f[k] = IF k = 0 THEN 0 ELSE f[k - 1] + FrameLen(fs[k])
    BY <2>1 DEF UnitsOf
  <2> DEFINE g == [k \in 0..(n + 1) |-> IF k <= n THEN f[k] ELSE f[n] + FrameLen(fs[k])]
  <2>3. ASSUME NEW k \in 0..(n + 1)
        PROVE  g[k] = IF k = 0 THEN 0 ELSE g[k - 1] + FrameLen(fs[k])
    <3>1. CASE k <= n
      <4>1. g[k] = f[k] /\ k \in 0..n
        BY <3>1
      <4>2. k # 0 => k - 1 \in 0..(n + 1) /\ g[k - 1] = f[k - 1]
        BY <3>1
      <4> HIDE DEF g
      <4>3. QED
        BY <2>2, <4>1, <4>2
    <3>2. CASE k = n + 1
      <4>1. g[k] = f[n] + FrameLen(fs[k]) /\ k # 0
        BY <3>2
      <4>2. k - 1 = n /\ g[k - 1] = f[n]
        BY <3>2
      <4> HIDE DEF g
      <4>3. QED
        BY <4>1, <4>2
    <3>3. QED
      BY <3>1, <3>2
  <2>4. g = [k \in 0..(n + 1) |-> IF k = 0 THEN 0 ELSE g[k - 1] + FrameLen(fs[k])]
    <3>1. g = [k \in 0..(n + 1) |-> g[k]]
      OBVIOUS
    <3> HIDE DEF g
    <3>2. QED
      BY <2>3, <3>1
  <2>5. UnitsOf(fs, n + 1, g)
    BY <2>4 DEF UnitsOf
  <2> HIDE DEF g
  <2>6. n + 1 \in 0..m
    BY <1>2
  <2>7. QED
    BY <2>5, <2>6
<1>3. \A n \in 0..m : n \in T
  <2> HIDE DEF T
  <2>1. QED
    BY <1>1, <1>2, HoldsUpTo
<1>4. QED
  BY <1>3

\* Before adds a frame up at a time.
LEMMA BeforeStep ==
  ASSUME NEW fs, Len(fs) \in Nat, NEW n \in 0..Len(fs)
  PROVE  Before(fs, n) = IF n = 0 THEN 0 ELSE Before(fs, n - 1) + FrameLen(fs[n])
<1> DEFINE f == CHOOSE f : UnitsOf(fs, Len(fs), f)
<1>1. UnitsOf(fs, Len(fs), f)
  BY UnitsExist
<1>2. \A k : Before(fs, k) = f[k]
  BY DEF Before, UnitsOf
<1> HIDE DEF f
<1>3. f[n] = IF n = 0 THEN 0 ELSE f[n - 1] + FrameLen(fs[n])
  BY <1>1 DEF UnitsOf
<1>4. QED
  BY <1>2, <1>3

\* A frame begins where the one before it ends.
LEMMA BeforeNext ==
  ASSUME WireAssumption, NEW fs \in Seq(Kinds), NEW n \in 0..Len(fs), n < Len(fs)
  PROVE  /\ fs[n + 1] \in Kinds
         /\ Before(fs, n + 1) = Before(fs, n) + FrameLen(fs[n + 1])
<1>1. Len(fs) \in Nat /\ n + 1 \in 1..Len(fs) /\ (n + 1) - 1 = n /\ n + 1 \in 0..Len(fs) /\ n + 1 # 0
  OBVIOUS
<1>2. PICK k \in 0..Len(fs) : k = n + 1
  BY <1>1
<1>3. Before(fs, k) = IF k = 0 THEN 0 ELSE Before(fs, k - 1) + FrameLen(fs[k])
  BY <1>1, BeforeStep
<1>4. QED
  BY <1>1, <1>2, <1>3

\* The number after n, up to l.
LEMMA Successor ==
  ASSUME NEW l \in Nat, NEW n \in 0..l, n < l
  PROVE  n + 1 \in 0..l /\ n + 1 \in 1..l
OBVIOUS

\* A frame begins at a natural number of units.
LEMMA BeforeNatural ==
  ASSUME WireAssumption, NEW fs \in Seq(Kinds)
  PROVE  \A n \in 0..Len(fs) : Before(fs, n) \in Nat
<1> DEFINE T == {n \in 0..Len(fs) : Before(fs, n) \in Nat}
<1>1. Len(fs) \in Nat
  OBVIOUS
<1>2. 0 \in T
  BY <1>1, BeforeStep
<1>3. ASSUME NEW n \in 0..Len(fs), n \in T, n < Len(fs) PROVE n + 1 \in T
  <2>1. fs[n + 1] \in Kinds /\ Before(fs, n + 1) = Before(fs, n) + FrameLen(fs[n + 1])
    BY <1>3, BeforeNext
  <2>2. FrameLen(fs[n + 1]) \in Nat
    BY <2>1, FrameLenIs
  <2>3. n + 1 \in 0..Len(fs)
    BY <1>1, <1>3, Successor
  <2>4. Before(fs, n) \in Nat
    BY <1>3
  <2>5. Before(fs, n + 1) \in Nat
    <3> HIDE DEF T
    <3>1. QED
      BY <2>1, <2>2, <2>4
  <2>6. QED
    BY <2>3, <2>5
<1>4. \A n \in 0..Len(fs) : n \in T
  <2> HIDE DEF T
  <2>1. QED
    BY <1>1, <1>2, <1>3, HoldsUpTo
<1>5. QED
  BY <1>4

\* Later frames begin later.
LEMMA BeforeGrows ==
  ASSUME WireAssumption, NEW fs \in Seq(Kinds), NEW a \in 0..Len(fs), NEW b \in 0..Len(fs), a <= b
  PROVE  Before(fs, a) <= Before(fs, b)
<1> DEFINE T == {n \in 0..Len(fs) : a <= n => Before(fs, a) <= Before(fs, n)}
<1>1. Len(fs) \in Nat /\ \A n \in 0..Len(fs) : Before(fs, n) \in Nat
  BY BeforeNatural
<1>2. 0 \in T
  <2>1. a <= 0 => a = 0
    OBVIOUS
  <2>2. QED
    BY <1>1, <2>1
<1>3. ASSUME NEW n \in 0..Len(fs), n \in T, n < Len(fs) PROVE n + 1 \in T
  <2>1. fs[n + 1] \in Kinds /\ Before(fs, n + 1) = Before(fs, n) + FrameLen(fs[n + 1])
    BY <1>3, BeforeNext
  <2>2. FrameLen(fs[n + 1]) \in Nat
    BY <2>1, FrameLenIs
  <2>3. Before(fs, n) \in Nat /\ Before(fs, a) \in Nat /\ n + 1 \in 0..Len(fs)
    <3>1. n + 1 \in 0..Len(fs)
      BY <1>1, <1>3, Successor
    <3>2. Before(fs, n) \in Nat /\ Before(fs, a) \in Nat
      BY <1>1
    <3>3. QED
      BY <3>1, <3>2
  <2>4. a <= n \/ a = n + 1 \/ a > n + 1
    OBVIOUS
  <2>5. a <= n => Before(fs, a) <= Before(fs, n)
    BY <1>3
  <2>6. a <= n + 1 => Before(fs, a) <= Before(fs, n + 1)
    <3>1. CASE a <= n
      BY <2>1, <2>2, <2>3, <2>5, <3>1
    <3>2. CASE a = n + 1
      BY <2>3, <3>2, <1>1
    <3>3. QED
      BY <3>1, <3>2
  <2>7. QED
    BY <2>3, <2>6
<1>4. \A n \in 0..Len(fs) : n \in T
  <2> HIDE DEF T
  <2>1. QED
    BY <1>1, <1>2, <1>3, HoldsUpTo
<1>5. b \in T
  BY <1>4
<1>6. QED
  BY <1>5

\* A frame more leaves those before it where they are.
LEMMA BeforeAppended ==
  ASSUME WireAssumption, NEW fs \in Seq(Kinds), NEW kind \in Kinds
  PROVE  \A n \in 0..Len(fs) : Before(Append(fs, kind), n) = Before(fs, n)
<1> DEFINE gs == Append(fs, kind)
<1> DEFINE T == {n \in 0..Len(fs) : Before(gs, n) = Before(fs, n)}
<1>1. /\ gs \in Seq(Kinds) /\ Len(fs) \in Nat /\ Len(gs) = Len(fs) + 1
      /\ \A n \in 1..Len(fs) : gs[n] = fs[n]
  OBVIOUS
<1> HIDE DEF gs
<1>2. 0 \in T
  <2>1. Before(gs, 0) = 0
    BY <1>1, BeforeStep
  <2>2. Before(fs, 0) = 0
    BY <1>1, BeforeStep
  <2>3. QED
    BY <1>1, <2>1, <2>2
<1>3. ASSUME NEW n \in 0..Len(fs), n \in T, n < Len(fs) PROVE n + 1 \in T
  <2>1. Before(fs, n + 1) = Before(fs, n) + FrameLen(fs[n + 1])
    BY <1>3, BeforeNext
  <2>2. n \in 0..Len(gs) /\ n < Len(gs) /\ n + 1 \in 1..Len(fs)
    <3>1. PICK l \in Nat : l = Len(fs)
      BY <1>1
    <3>2. n \in 0..l /\ n < l
      BY <1>3, <3>1
    <3>3. n \in 0..(l + 1) /\ n < l + 1 /\ n + 1 \in 1..l
      BY <3>2
    <3>4. QED
      BY <1>1, <3>1, <3>3
  <2>3. Before(gs, n + 1) = Before(gs, n) + FrameLen(gs[n + 1])
    BY <1>1, <2>2, BeforeNext
  <2>4. gs[n + 1] = fs[n + 1]
    BY <1>1, <2>2
  <2>5. QED
    BY <1>3, <2>1, <2>2, <2>3, <2>4
<1>4. \A n \in 0..Len(fs) : n \in T
  <2> HIDE DEF T
  <2>1. QED
    BY <1>1, <1>2, <1>3, HoldsUpTo
<1>5. QED
  BY <1>4 DEF gs

\* The number before f, with a name of its own.
LEMMA Predecessor ==
  ASSUME NEW m \in Nat, NEW f \in 1..m
  PROVE  \E e \in 0..m : e = f - 1 /\ e < m /\ e + 1 = f /\ f \in 0..m
OBVIOUS

\* A place in the stream is a place in one frame.
LEMMA OneFrameHasIt ==
  ASSUME WireAssumption, NEW fs \in Seq(Kinds), NEW h \in 0..Len(fs), h < Len(fs),
         NEW f \in 1..Len(fs), NEW o \in 1..FrameLen(fs[f]), NEW i \in 1..FrameLen(fs[h + 1]),
         o + Before(fs, f - 1) = Before(fs, h) + i
  PROVE  f = h + 1 /\ o = i
<1>1. Len(fs) \in Nat
  OBVIOUS
<1>2. PICK e \in 0..Len(fs) : e = f - 1 /\ e < Len(fs) /\ e + 1 = f /\ f \in 0..Len(fs)
  BY <1>1, Predecessor
<1>3. PICK g \in 0..Len(fs) : g = h + 1
  BY <1>1
<1>4. /\ fs[f] \in Kinds /\ Before(fs, f) = Before(fs, e) + FrameLen(fs[f])
      /\ fs[g] \in Kinds /\ Before(fs, g) = Before(fs, h) + FrameLen(fs[g])
  <2>1. fs[e + 1] \in Kinds /\ Before(fs, e + 1) = Before(fs, e) + FrameLen(fs[e + 1])
    BY <1>2, BeforeNext
  <2>2. fs[h + 1] \in Kinds /\ Before(fs, h + 1) = Before(fs, h) + FrameLen(fs[h + 1])
    BY BeforeNext
  <2>3. QED
    BY <1>2, <1>3, <2>1, <2>2
<1>5. PICK p \in Nat, q \in Nat : p = FrameLen(fs[f]) /\ q = FrameLen(fs[g])
  BY <1>4, FrameLenIs
<1>6. /\ Before(fs, e) \in Nat /\ Before(fs, h) \in Nat
      /\ f \in 0..Len(fs)
  BY <1>2, BeforeNatural
<1>7. PICK u \in Nat, v \in Nat : u = Before(fs, e) /\ v = Before(fs, h)
  BY <1>6
<1>8. Before(fs, f) = u + p /\ Before(fs, g) = v + q
  BY <1>4, <1>5, <1>7
<1>9. o + u = v + i /\ i \in 1..q /\ o \in 1..p
  BY <1>2, <1>3, <1>5, <1>7
<1>10. f <= h => u + p <= v
  <2>1. f <= h => Before(fs, f) <= Before(fs, h)
    BY <1>6, BeforeGrows
  <2>2. QED
    BY <1>7, <1>8, <2>1
<1>11. g <= e => v + q <= u
  <2>1. g <= e => Before(fs, g) <= Before(fs, e)
    BY BeforeGrows
  <2>2. QED
    BY <1>7, <1>8, <2>1
<1>12. ~ (f <= h) /\ ~ (g <= e)
  <2>1. o \in Int /\ i \in Int /\ 1 <= i /\ i <= q /\ 1 <= o /\ o <= p
    BY <1>9
  <2>2. ~ (u + p <= v)
    BY <1>9, <2>1
  <2>3. ~ (v + q <= u)
    BY <1>9, <2>1
  <2>4. QED
    BY <1>10, <1>11, <2>2, <2>3
<1>13. f = h + 1 /\ e = h
  BY <1>2, <1>3, <1>12
<1>14. u = v
  BY <1>7, <1>13
<1>15. o = i
  BY <1>9, <1>14
<1>16. QED
  BY <1>13, <1>15

-----------------------------------------------------------------------------
(* WireRead: the stream.                                                   *)

WireBytes == [f : Nat, o : Nat, clear : BOOLEAN]

\* A byte of the frames fs that stands at place q of the stream.
Placed(fs, b, q) ==
    /\ b.f \in 1..Len(fs) /\ b.o \in 1..FrameLen(fs[b.f])
    /\ b.o + Before(fs, b.f - 1) = q

StreamShape ==
    /\ frames \in Seq(Kinds) /\ keyed \in Nat
    /\ coming \in Seq(WireBytes) /\ queued \in Seq(WireBytes) /\ buf \in Seq(WireBytes)
    /\ cur \in 0..Len(buf)
    /\ heard \in Seq(Kinds) /\ Len(heard) <= Len(frames)
    /\ \A j \in 1..Len(heard) : heard[j] = frames[j]

\* The cursor is where the next message begins, what is behind it is in the
\* clear, and the bytes in the buffer, the socket and the network follow one
\* another, the cipher between buffer and socket.
HeardUnits == Before(frames, Len(heard))
BufferInPlace == \A i \in 1..Len(buf) :
    cur < i => buf[i].clear = TRUE /\ Placed(frames, buf[i], HeardUnits + (i - cur))
QueueInPlace == \A i \in 1..Len(queued) : Placed(frames, queued[i], keyed + i)
ComingInPlace == \A i \in 1..Len(coming) : Placed(frames, coming[i], keyed + Len(queued) + i)
UnitsAddUp ==
    /\ keyed + cur = HeardUnits + Len(buf)
    /\ keyed + Len(queued) + Len(coming) = Before(frames, Len(frames))
StreamInv == StreamShape /\ UnitsAddUp /\ BufferInPlace /\ QueueInPlace /\ ComingInPlace

\* The rest of a sequence, its front, and two of them joined.
LEMMA RestOfSeq ==
  ASSUME NEW S, NEW s \in Seq(S), NEW n \in 0..Len(s)
  PROVE  /\ SubSeq(s, n + 1, Len(s)) \in Seq(S)
         /\ Len(SubSeq(s, n + 1, Len(s))) = Len(s) - n
         /\ \A i \in 1..(Len(s) - n) : SubSeq(s, n + 1, Len(s))[i] = s[n + i]
OBVIOUS

LEMMA FrontOfSeq ==
  ASSUME NEW S, NEW s \in Seq(S), NEW n \in 0..Len(s)
  PROVE  /\ SubSeq(s, 1, n) \in Seq(S) /\ Len(SubSeq(s, 1, n)) = n
         /\ \A i \in 1..n : SubSeq(s, 1, n)[i] = s[i]
OBVIOUS

LEMMA JoinedSeqs ==
  ASSUME NEW S, NEW s \in Seq(S), NEW t \in Seq(S)
  PROVE  /\ s \o t \in Seq(S) /\ Len(s \o t) = Len(s) + Len(t)
         /\ \A i \in 1..Len(s \o t) : (s \o t)[i] = IF i <= Len(s) THEN s[i] ELSE t[i - Len(s)]
OBVIOUS

\* The numbers of the stream.
LEMMA WireNumbers ==
  ASSUME StreamInv
  PROVE  /\ keyed \in Nat /\ cur \in Nat /\ Len(buf) \in Nat
         /\ Len(queued) \in Nat /\ Len(coming) \in Nat
<1>1. keyed \in Nat /\ cur \in 0..Len(buf)
  BY DEF StreamInv, StreamShape
<1>2. buf \in Seq(WireBytes) /\ queued \in Seq(WireBytes) /\ coming \in Seq(WireBytes)
  BY DEF StreamInv, StreamShape
<1>3. Len(buf) \in Nat /\ Len(queued) \in Nat /\ Len(coming) \in Nat
  BY <1>2
<1>4. cur \in Nat
  BY <1>1, <1>3
<1>5. QED
  BY <1>1, <1>3, <1>4

\* The first bytes that are not parsed.
LEMMA UnparsedIs ==
  ASSUME StreamShape
  PROVE  /\ Len(Unparsed) = Len(buf) - cur
         /\ \A i \in 1..(Len(buf) - cur) : Unparsed[i] = buf[cur + i]
BY RestOfSeq DEF StreamShape, Unparsed

\* When the parser has a length, it is that of the next frame, in the clear.
LEMMA ParserIsAligned ==
  ASSUME WireAssumption, StreamInv, HasLength
  PROVE  /\ Len(heard) < Len(frames)
         /\ MsgLen = FrameLen(frames[Len(heard) + 1])
         /\ Parsed = frames[Len(heard) + 1]
<1>1. /\ frames \in Seq(Kinds) /\ heard \in Seq(Kinds) /\ Len(heard) <= Len(frames)
      /\ buf \in Seq(WireBytes) /\ cur \in 0..Len(buf) /\ keyed \in Nat
      /\ Len(queued) \in Nat /\ Len(coming) \in Nat
  BY DEF StreamInv, StreamShape
<1>2. PICK h \in 0..Len(frames) : h = Len(heard)
  BY <1>1
<1>3. PICK u \in Nat : u = Len(buf) - cur
  <2>1. Len(buf) \in Nat /\ cur \in 0..Len(buf)
    BY <1>1
  <2>2. Len(buf) - cur \in Nat
    BY <2>1
  <2>3. QED
    BY <2>2
<1>4. Prefix \in Nat /\ Prefix >= 1 /\ u >= Prefix
  <2>1. Len(Unparsed) = Len(buf) - cur
    BY UnparsedIs DEF StreamInv
  <2>2. Len(Unparsed) >= Prefix
    BY DEF HasLength
  <2>3. Prefix \in Nat /\ Prefix >= 1
    BY DEF WireAssumption
  <2>4. QED
    BY <1>3, <2>1, <2>2, <2>3
<1>5. Before(frames, h) \in Nat /\ Before(frames, Len(frames)) \in Nat
  BY <1>1, BeforeNatural
<1>6. h < Len(frames)
  <2>1. keyed + cur = Before(frames, h) + Len(buf)
    BY <1>2 DEF StreamInv, UnitsAddUp, HeardUnits
  <2>2. keyed + Len(queued) + Len(coming) = Before(frames, Len(frames))
    BY DEF StreamInv, UnitsAddUp
  <2>3. Before(frames, h) # Before(frames, Len(frames))
    <3>1. PICK k \in Nat, c \in Nat, l \in Nat : k = keyed /\ c = cur /\ l = Len(buf)
      BY WireNumbers
    <3>2. PICK q \in Nat, r \in Nat : q = Len(queued) /\ r = Len(coming)
      BY WireNumbers
    <3>3. PICK a \in Nat, b \in Nat : a = Before(frames, h) /\ b = Before(frames, Len(frames))
      BY <1>5
    <3>4. k + c = a + l /\ k + q + r = b /\ l - c >= 1
      <4>1. l - c >= 1
        BY <1>3, <1>4, <3>1
      <4>2. QED
        BY <2>1, <2>2, <3>1, <3>2, <3>3, <4>1
    <3>5. a # b
      BY <3>4
    <3>6. QED
      BY <3>3, <3>5
  <2>4. QED
    BY <1>1, <2>3
<1>7. frames[h + 1] \in Kinds
  BY <1>1, <1>6, BeforeNext
<1>8. FrameLen(frames[h + 1]) \in Nat /\ FrameLen(frames[h + 1]) >= Prefix
  BY <1>7, FrameLenIs
<1>9. ASSUME NEW i \in 1..Prefix
      PROVE  Unparsed[i].clear = TRUE /\ Unparsed[i].f = h + 1 /\ Unparsed[i].o = i
  <2>1. PICK p \in 1..Len(buf) : p = cur + i /\ cur < p /\ p - cur = i
    BY <1>1, <1>3, <1>4
  <2>2. Unparsed[i] = buf[p]
    <3>1. \A k \in 1..(Len(buf) - cur) : Unparsed[k] = buf[cur + k]
      BY UnparsedIs DEF StreamInv
    <3>2. i \in 1..(Len(buf) - cur)
      BY <1>3, <1>4
    <3>3. QED
      BY <2>1, <3>1, <3>2
  <2>3. buf[p].clear = TRUE /\ Placed(frames, buf[p], Before(frames, h) + i)
    BY <1>2, <2>1 DEF StreamInv, BufferInPlace, HeardUnits
  <2>4. PICK f \in 1..Len(frames) : f = buf[p].f
    BY <2>3 DEF Placed
  <2>4a. PICK o \in 1..FrameLen(frames[f]) : o = buf[p].o /\ o + Before(frames, f - 1) = Before(frames, h) + i
    BY <2>3, <2>4 DEF Placed
  <2>5. i \in 1..FrameLen(frames[h + 1])
    BY <1>4, <1>8
  <2>6. f = h + 1 /\ o = i
    BY <1>1, <1>6, <2>4a, <2>5, OneFrameHasIt
  <2>7. QED
    BY <2>2, <2>3, <2>4, <2>4a, <2>6
<1>10. 1 \in 1..Prefix
  BY <1>4
<1>11. Unparsed[1].f = h + 1
  BY <1>9, <1>10
<1>12. Aligned
  BY <1>9, <1>11 DEF Aligned
<1>13. QED
  BY <1>2, <1>6, <1>11, <1>12 DEF MsgLen, Parsed

\* Max and Min, which the modules define by CHOOSE.
LEMMA MaxWithZero == ASSUME NEW n \in Int, Max({n, 0}) = 0 PROVE n <= 0
<1>1. \E m \in {n, 0} : \A k \in {n, 0} : m >= k
  <2>1. n >= 0 \/ n < 0
    OBVIOUS
  <2>2. QED
    BY <2>1
<1>2. \A k \in {n, 0} : Max({n, 0}) >= k
  BY <1>1 DEF Max
<1>3. QED
  BY <1>2

LEMMA MinOfTwo ==
  ASSUME NEW a \in Int, NEW b \in Int
  PROVE  Min({a, b}) = IF a <= b THEN a ELSE b
<1>1. \E m \in {a, b} : \A k \in {a, b} : m <= k
  <2>1. a <= b \/ b <= a
    OBVIOUS
  <2>2. QED
    BY <2>1
<1>2. Min({a, b}) \in {a, b} /\ \A k \in {a, b} : Min({a, b}) <= k
  BY <1>1 DEF Min
<1>3. QED
  BY <1>2

\* The k units of frame f behind the first a, on their way.
BytesRun(s, f, a, k) ==
    /\ s \in Seq(WireBytes) /\ Len(s) = k
    /\ \A i \in 1..k : s[i].f = f /\ s[i].o = a + i

\* The bytes of a frame.
LEMMA BytesAre ==
  ASSUME NEW f \in Nat, NEW kind, NEW a \in Nat, NEW b \in Nat, NEW k \in Nat, k = b - a,
         NEW s, s = Bytes(f, kind, a, b)
  PROVE  BytesRun(s, f, a, k)
<1> DEFINE t == [i \in 1..k |-> [f |-> f, o |-> a + i, clear |-> FALSE]]
<1>1. Bytes(f, kind, a, b) = t
  BY DEF Bytes
<1>2. \A i \in 1..k : t[i] \in WireBytes
  BY DEF WireBytes
<1>3. DOMAIN t = 1..k /\ \A i \in 1..k : t[i].f = f /\ t[i].o = a + i
  OBVIOUS
<1>4. t = [i \in 1..k |-> t[i]]
  OBVIOUS
<1> HIDE DEF t
<1>5. t \in Seq(WireBytes) /\ Len(t) = k
  BY <1>2, <1>4
<1>6. s = t
  BY <1>1
<1>7. QED
  BY <1>3, <1>5, <1>6 DEF BytesRun

\* The established loop starts with what the handshake read beyond itself, decrypted.
LEMMA StreamStarts == WireAssumption /\ WireInit => StreamInv
<1> SUFFICES ASSUME WireAssumption, WireInit PROVE StreamInv
  OBVIOUS
<1>1. "small" \in Kinds
  BY DEF Kinds
<1>2. PICK m \in Nat : m = FrameLen("small")
  BY <1>1, FrameLenIs
<1>3. PICK n \in 0..m :
        /\ frames = (IF n = 0 THEN <<>> ELSE <<"small">>)
        /\ coming = (IF n = 0 THEN <<>> ELSE Bytes(1, "small", n, m))
        /\ queued = <<>> /\ buf = [i \in 1..n |-> [f |-> 1, o |-> i, clear |-> TRUE]]
        /\ cur = 0 /\ keyed = n /\ heard = <<>>
  BY <1>2 DEF WireInit
<1>4. frames \in Seq(Kinds)
  BY <1>1, <1>3
<1>5. buf \in Seq(WireBytes) /\ Len(buf) = n
  BY <1>3 DEF WireBytes
<1>6. Before(frames, 0) = 0
  <2>1. PICK fs : fs = frames
    OBVIOUS
  <2>2. Len(fs) \in Nat /\ 0 \in 0..Len(fs)
    BY <1>4, <2>1
  <2>3. Before(fs, 0) = 0
    BY <2>2, BeforeStep
  <2>4. QED
    BY <2>1, <2>3
<1>7. CASE n = 0
  <2>1. frames = <<>> /\ coming = <<>> /\ buf \in Seq(WireBytes) /\ Len(buf) = 0
    BY <1>3, <1>5, <1>7
  <2>2. StreamShape
    BY <1>3, <1>4, <2>1 DEF StreamShape
  <2>3. QED
    BY <1>3, <1>6, <1>7, <2>1, <2>2
      DEF StreamInv, UnitsAddUp, HeardUnits, BufferInPlace, QueueInPlace, ComingInPlace
<1>8. CASE n # 0
  <2>1. frames = <<"small">> /\ Len(frames) = 1 /\ frames[1] = "small"
    BY <1>3, <1>8
  <2>2. PICK k \in Nat : k = m - n
    <3>1. m - n \in Nat
      OBVIOUS
    <3>2. QED
      BY <3>1
  <2>3. /\ coming \in Seq(WireBytes) /\ Len(coming) = k
        /\ \A i \in 1..k : coming[i].f = 1 /\ coming[i].o = n + i
    <3>1. PICK one \in Nat, lo \in Nat, hi \in Nat, w \in Nat : one = 1 /\ lo = n /\ hi = m /\ w = k
      BY <2>2
    <3>2. w = hi - lo
      BY <2>2, <3>1
    <3>3. PICK kd : kd = "small"
      OBVIOUS
    <3>4. coming = Bytes(one, kd, lo, hi)
      BY <1>3, <1>8, <3>1, <3>3
    <3>5. BytesRun(coming, one, lo, w)
      BY <3>2, <3>4, BytesAre
    <3>6. QED
      BY <3>1, <3>5 DEF BytesRun
  <2>4. StreamShape
    BY <1>3, <1>4, <1>5, <2>3 DEF StreamShape
  <2>5. Before(frames, 1) = m
    <3>1. PICK z \in 0..Len(frames) : z = 1
      BY <2>1
    <3>2. Before(frames, z) = IF z = 0 THEN 0 ELSE Before(frames, z - 1) + FrameLen(frames[z])
      BY <2>1, BeforeStep
    <3>3. z - 1 = 0
      BY <3>1
    <3>4. QED
      BY <1>2, <1>6, <2>1, <3>1, <3>2, <3>3
  <2>6. UnitsAddUp
    BY <1>3, <1>5, <1>6, <2>1, <2>2, <2>3, <2>5 DEF UnitsAddUp, HeardUnits
  <2>7. \A b, q : b.f = 1 /\ b.o = q /\ q \in 1..m => Placed(frames, b, q)
    <3> SUFFICES ASSUME NEW b, NEW q \in 1..m, b.f = 1, b.o = q PROVE Placed(frames, b, q)
      OBVIOUS
    <3>1. b.f - 1 = 0 /\ Before(frames, b.f - 1) = 0
      BY <1>6
    <3>2. FrameLen(frames[b.f]) = m
      BY <1>2, <2>1
    <3>3. QED
      BY <2>1, <3>1, <3>2 DEF Placed
  <2>8. BufferInPlace
    <3> SUFFICES ASSUME NEW i \in 1..Len(buf)
                 PROVE  buf[i].clear = TRUE /\ Placed(frames, buf[i], HeardUnits + (i - cur))
      BY DEF BufferInPlace
    <3>1. buf[i].f = 1 /\ buf[i].o = i /\ buf[i].clear = TRUE /\ i \in 1..m
      BY <1>3, <1>5
    <3>2. HeardUnits + (i - cur) = i
      BY <1>3, <1>6 DEF HeardUnits
    <3>3. Placed(frames, buf[i], i)
      BY <2>7, <3>1
    <3>4. QED
      BY <3>1, <3>2, <3>3
  <2>9. QueueInPlace
    BY <1>3 DEF QueueInPlace
  <2>10. ComingInPlace
    <3> SUFFICES ASSUME NEW i \in 1..Len(coming)
                 PROVE  Placed(frames, coming[i], keyed + Len(queued) + i)
      BY DEF ComingInPlace
    <3>1. coming[i].f = 1 /\ coming[i].o = n + i /\ n + i \in 1..m
      BY <1>8, <2>2, <2>3
    <3>2. keyed + Len(queued) + i = n + i
      BY <1>3
    <3>3. Placed(frames, coming[i], n + i)
      BY <2>7, <3>1
    <3>4. QED
      BY <3>2, <3>3
  <2>11. QED
    BY <2>4, <2>6, <2>8, <2>9, <2>10 DEF StreamInv
<1>9. QED
  BY <1>7, <1>8

\* The remote writes a frame behind all others.
LEMMA SendKeepsStream ==
  ASSUME WireAssumption, StreamInv, NEW kind \in Kinds, RemoteSends(kind)
  PROVE  StreamInv'
<1>1. /\ frames \in Seq(Kinds) /\ coming \in Seq(WireBytes) /\ Len(frames) \in Nat
      /\ Len(coming) \in Nat /\ Len(queued) \in Nat /\ keyed \in Nat /\ Len(heard) \in 0..Len(frames)
  BY DEF StreamInv, StreamShape
<1> DEFINE fs == frames
<1> DEFINE gs == Append(fs, kind)
<1>2. /\ frames' = gs /\ coming' = coming \o Bytes(Len(fs) + 1, kind, 0, FrameLen(kind))
      /\ UNCHANGED <<queued, buf, cur, keyed, heard>>
  BY DEF RemoteSends
<1>3. /\ gs \in Seq(Kinds) /\ Len(gs) = Len(fs) + 1 /\ gs[Len(fs) + 1] = kind
      /\ \A i \in 1..Len(fs) : gs[i] = fs[i]
  BY <1>1
<1>4. \A n \in 0..Len(fs) : Before(gs, n) = Before(fs, n)
  BY <1>1, BeforeAppended
<1>5. PICK m \in Nat : m = FrameLen(kind)
  BY FrameLenIs
<1> DEFINE t == Bytes(Len(fs) + 1, kind, 0, m)
<1>6. PICK new \in Nat : new = Len(fs) + 1
  BY <1>1
<1>7. /\ t \in Seq(WireBytes) /\ Len(t) = m
      /\ \A i \in 1..m : t[i].f = Len(fs) + 1 /\ t[i].o = i
  <2>1. m = m - 0 /\ 0 \in Nat
    OBVIOUS
  <2>2. t = Bytes(new, kind, 0, m)
    BY <1>6
  <2> HIDE DEF t
  <2>3. BytesRun(t, new, 0, m)
    BY <2>1, <2>2, BytesAre
  <2>4. \A i \in 1..m : 0 + i = i
    OBVIOUS
  <2>5. QED
    BY <1>6, <2>3, <2>4 DEF BytesRun
<1>8. Before(gs, Len(fs) + 1) = Before(fs, Len(fs)) + m
  <2>1. Len(fs) \in 0..Len(gs) /\ Len(fs) < Len(gs)
    BY <1>1, <1>3
  <2>2. Before(gs, Len(fs) + 1) = Before(gs, Len(fs)) + FrameLen(gs[Len(fs) + 1])
    BY <1>3, <2>1, BeforeNext
  <2>3. Len(fs) \in 0..Len(fs)
    BY <1>1
  <2>4. QED
    BY <1>3, <1>4, <1>5, <2>2, <2>3
<1>9. \A b, q : Placed(fs, b, q) => Placed(gs, b, q)
  <2> SUFFICES ASSUME NEW b, NEW q, Placed(fs, b, q) PROVE Placed(gs, b, q)
    OBVIOUS
  <2>1. b.f \in 1..Len(fs) /\ b.o \in 1..FrameLen(fs[b.f]) /\ b.o + Before(fs, b.f - 1) = q
    BY DEF Placed
  <2>2. b.f - 1 \in 0..Len(fs) /\ b.f \in 1..Len(gs)
    <3>1. PICK f \in 1..Len(fs) : f = b.f
      BY <2>1
    <3>2. PICK e \in 0..Len(fs) : e = f - 1
      BY <1>1, Predecessor
    <3>3. f \in 1..(Len(fs) + 1)
      BY <1>1
    <3> HIDE DEF gs, fs
    <3>4. QED
      BY <1>3, <3>1, <3>2, <3>3
  <2>3. gs[b.f] = fs[b.f] /\ Before(gs, b.f - 1) = Before(fs, b.f - 1)
    BY <1>3, <1>4, <2>1, <2>2
  <2> HIDE DEF gs, fs
  <2>4. QED
    BY <2>1, <2>2, <2>3 DEF Placed
<1>10. \A i \in 1..m : Placed(gs, t[i], Before(fs, Len(fs)) + i)
  <2> SUFFICES ASSUME NEW i \in 1..m PROVE Placed(gs, t[i], Before(fs, Len(fs)) + i)
    OBVIOUS
  <2>1. t[i].f = Len(fs) + 1 /\ t[i].o = i
    BY <1>7
  <2>2. Len(fs) \in 0..Len(fs) /\ Len(fs) + 1 \in 1..Len(gs) /\ (Len(fs) + 1) - 1 = Len(fs)
    BY <1>1, <1>3
  <2>3. Before(gs, Len(fs)) = Before(fs, Len(fs)) /\ Before(fs, Len(fs)) \in Nat
    BY <1>1, <1>4, <2>2, BeforeNatural
  <2>4. FrameLen(gs[Len(fs) + 1]) = m
    BY <1>3, <1>5
  <2> HIDE DEF gs, t, fs
  <2>5. QED
    BY <2>1, <2>2, <2>3, <2>4 DEF Placed
<1>11. /\ coming' \in Seq(WireBytes) /\ Len(coming') = Len(coming) + m
       /\ \A i \in 1..Len(coming') : coming'[i] = IF i <= Len(coming) THEN coming[i] ELSE t[i - Len(coming)]
  <2>1. coming' = coming \o t
    BY <1>2, <1>5
  <2>2. t \in Seq(WireBytes) /\ Len(t) = m
    BY <1>7
  <2> HIDE DEF t
  <2>3. PICK c \in Seq(WireBytes), r \in Seq(WireBytes) : c = coming /\ r = t
    BY <1>1, <2>2
  <2>4. /\ c \o r \in Seq(WireBytes) /\ Len(c \o r) = Len(c) + Len(r)
        /\ \A i \in 1..Len(c \o r) : (c \o r)[i] = IF i <= Len(c) THEN c[i] ELSE r[i - Len(c)]
    BY JoinedSeqs
  <2>5. QED
    BY <2>1, <2>2, <2>3, <2>4
<1>12. StreamShape'
  <2>1. \A j \in 1..Len(heard) : gs[j] = heard[j]
    <3> SUFFICES ASSUME NEW j \in 1..Len(heard) PROVE gs[j] = heard[j]
      OBVIOUS
    <3>1. heard[j] = frames[j]
      BY DEF StreamInv, StreamShape
    <3>1a. j \in 1..Len(fs)
      BY <1>1
    <3>2. QED
      BY <1>3, <3>1, <3>1a
  <2>2. Len(heard) <= Len(gs)
    BY <1>1, <1>3
  <2> HIDE DEF gs
  <2>3. QED
    BY <1>2, <1>3, <1>11, <2>1, <2>2 DEF StreamInv, StreamShape
<1>13. HeardUnits' = HeardUnits
  <2> HIDE DEF gs
  <2>1. Before(gs, Len(heard)) = Before(fs, Len(heard))
    BY <1>1, <1>4
  <2>2. QED
    BY <1>2, <2>1 DEF HeardUnits
<1>14. UnitsAddUp'
  <2>1. keyed + Len(queued) + Len(coming) = Before(fs, Len(fs))
    BY DEF StreamInv, UnitsAddUp
  <2>2. (keyed + Len(queued) + Len(coming))' = Before(gs, Len(fs) + 1)
    <3>1. PICK x \in Nat, y \in Nat, z \in Nat : x = keyed /\ y = Len(queued) /\ z = Len(coming)
      BY <1>1
    <3>2. x + y + (z + m) = (x + y + z) + m
      OBVIOUS
    <3>3. keyed' = x /\ Len(queued') = y /\ Len(coming') = z + m
      BY <1>2, <1>11, <3>1
    <3> HIDE DEF gs, fs
    <3>4. QED
      BY <1>8, <2>1, <3>1, <3>2, <3>3
  <2>3. keyed' + cur' = HeardUnits' + Len(buf')
    BY <1>2, <1>13 DEF StreamInv, UnitsAddUp
  <2> HIDE DEF gs
  <2>4. QED
    BY <1>2, <1>3, <2>2, <2>3 DEF UnitsAddUp
<1>15. BufferInPlace' /\ QueueInPlace'
  <2> HIDE DEF gs
  <2>1. QED
    BY <1>2, <1>9, <1>13 DEF StreamInv, BufferInPlace, QueueInPlace
<1>16. ComingInPlace'
  <2> SUFFICES ASSUME NEW i \in 1..Len(coming') PROVE Placed(gs, coming'[i], keyed + Len(queued) + i)
    BY <1>2 DEF ComingInPlace
  <2>1. CASE i <= Len(coming)
    <3>1. i \in 1..Len(coming) /\ coming'[i] = coming[i]
      BY <1>1, <1>11, <2>1
    <3>2. Placed(fs, coming[i], keyed + Len(queued) + i)
      BY <3>1 DEF StreamInv, ComingInPlace
    <3> HIDE DEF gs
    <3>3. QED
      BY <1>9, <3>1, <3>2
  <2>2. CASE ~ (i <= Len(coming))
    <3>0. Len(coming') = Len(coming) + m /\ Len(coming) \in Nat
      BY <1>1, <1>11
    <3>1. PICK k \in 1..m : k = i - Len(coming)
      <4>1. i - Len(coming) \in 1..m
        BY <2>2, <3>0
      <4>2. QED
        BY <4>1
    <3>2. coming'[i] = t[k]
      BY <1>11, <2>2, <3>1
    <3>3. Placed(gs, t[k], Before(fs, Len(fs)) + k)
      BY <1>10
    <3>4. keyed + Len(queued) + Len(coming) = Before(fs, Len(fs))
      BY DEF StreamInv, UnitsAddUp
    <3>5. Before(fs, Len(fs)) + k = keyed + Len(queued) + i
      <4>1. PICK a \in Nat, q \in Nat, c \in Nat : a = keyed /\ q = Len(queued) /\ c = Len(coming)
        BY WireNumbers
      <4>2. (a + q + c) + k = a + q + i
        BY <3>1, <4>1
      <4>3. QED
        BY <3>4, <4>1, <4>2
    <3> HIDE DEF gs, t
    <3>6. QED
      BY <3>2, <3>3, <3>5
  <2>3. QED
    BY <2>1, <2>2
<1>17. QED
  BY <1>12, <1>14, <1>15, <1>16 DEF StreamInv

\* The network delivers what stands first.
LEMMA ArriveKeepsStream ==
  ASSUME WireAssumption, StreamInv, NEW n \in 1..Len(coming), Arrive(n)
  PROVE  StreamInv'
<1>1. /\ coming \in Seq(WireBytes) /\ queued \in Seq(WireBytes) /\ keyed \in Nat
      /\ Len(coming) \in Nat /\ Len(queued) \in Nat
  BY DEF StreamInv, StreamShape
<1>2. /\ queued' = queued \o SubSeq(coming, 1, n) /\ coming' = SubSeq(coming, n + 1, Len(coming))
      /\ UNCHANGED <<frames, buf, cur, keyed, heard>>
  BY DEF Arrive, remoteVars
<1>3. n \in 0..Len(coming) /\ n \in Nat
  BY <1>1
<1>4. /\ coming' \in Seq(WireBytes) /\ Len(coming') = Len(coming) - n
      /\ \A i \in 1..(Len(coming) - n) : coming'[i] = coming[n + i]
  BY <1>1, <1>2, <1>3, RestOfSeq
<1> DEFINE t == SubSeq(coming, 1, n)
<1>5. t \in Seq(WireBytes) /\ Len(t) = n /\ \A i \in 1..n : t[i] = coming[i]
  BY <1>1, <1>3, FrontOfSeq
<1>6. queued' = queued \o t
  BY <1>2
<1> HIDE DEF t
<1>7. /\ queued' \in Seq(WireBytes) /\ Len(queued') = Len(queued) + n
      /\ \A i \in 1..Len(queued') : queued'[i] = IF i <= Len(queued) THEN queued[i] ELSE t[i - Len(queued)]
  BY <1>1, <1>5, <1>6, JoinedSeqs
<1>8. StreamShape'
  BY <1>2, <1>4, <1>7 DEF StreamInv, StreamShape
<1>9. HeardUnits' = HeardUnits
  BY <1>2 DEF HeardUnits
<1>10. UnitsAddUp'
  <2>1. keyed' + Len(queued') + Len(coming') = keyed + Len(queued) + Len(coming)
    <3>1. PICK k \in Int, q \in Int, c \in Int : k = keyed /\ q = Len(queued) /\ c = Len(coming)
      BY <1>1
    <3>2. keyed' = k /\ Len(queued') = q + n /\ Len(coming') = c - n
      BY <1>2, <1>4, <1>7, <3>1
    <3>3. k + (q + n) + (c - n) = k + q + c
      BY <1>3
    <3>4. QED
      BY <3>1, <3>2, <3>3
  <2>2. keyed + Len(queued) + Len(coming) = Before(frames, Len(frames))
    BY DEF StreamInv, UnitsAddUp
  <2>3. keyed + cur = HeardUnits + Len(buf)
    BY DEF StreamInv, UnitsAddUp
  <2>4. QED
    BY <1>2, <1>9, <2>1, <2>2, <2>3 DEF UnitsAddUp
<1>11. BufferInPlace'
  BY <1>2, <1>9 DEF StreamInv, BufferInPlace
<1>12. QueueInPlace'
  <2> SUFFICES ASSUME NEW i \in 1..Len(queued') PROVE Placed(frames, queued'[i], keyed + i)
    BY <1>2 DEF QueueInPlace
  <2>1. CASE i <= Len(queued)
    <3>1. i \in 1..Len(queued) /\ queued'[i] = queued[i]
      BY <1>1, <1>7, <2>1
    <3>2. QED
      BY <3>1 DEF StreamInv, QueueInPlace
  <2>2. CASE ~ (i <= Len(queued))
    <3>1. PICK k \in 1..n : k = i - Len(queued)
      <4>1. i - Len(queued) \in 1..n
        BY <1>1, <1>3, <1>7, <2>2
      <4>2. QED
        BY <4>1
    <3>2. queued'[i] = coming[k] /\ k \in 1..Len(coming)
      BY <1>1, <1>3, <1>5, <1>7, <2>2, <3>1
    <3>3. Placed(frames, coming[k], keyed + Len(queued) + k)
      BY <3>2 DEF StreamInv, ComingInPlace
    <3>4. keyed + Len(queued) + k = keyed + i
      BY <1>1, <1>7, <3>1
    <3>5. QED
      BY <3>2, <3>3, <3>4
  <2>3. QED
    BY <2>1, <2>2
<1>13. ComingInPlace'
  <2> SUFFICES ASSUME NEW i \in 1..Len(coming')
               PROVE  Placed(frames, coming'[i], keyed + Len(queued') + i)
    BY <1>2 DEF ComingInPlace
  <2>1. PICK k \in 1..Len(coming) : k = n + i
    <3>1. n + i \in 1..Len(coming)
      BY <1>1, <1>3, <1>4
    <3>2. QED
      BY <3>1
  <2>2. coming'[i] = coming[k]
    BY <1>4, <2>1
  <2>3. Placed(frames, coming[k], keyed + Len(queued) + k)
    BY DEF StreamInv, ComingInPlace
  <2>4. keyed + Len(queued) + k = keyed + Len(queued') + i
    <3>1. PICK a \in Int, q \in Int : a = keyed /\ q = Len(queued)
      BY <1>1
    <3>2. Len(queued') = q + n
      BY <1>7, <3>1
    <3>3. a + q + k = a + (q + n) + i
      BY <1>3, <2>1
    <3>4. QED
      BY <3>1, <3>2, <3>3
  <2>5. QED
    BY <2>2, <2>3, <2>4
<1>14. QED
  BY <1>8, <1>10, <1>11, <1>12, <1>13 DEF StreamInv

\* Adding one amount to both sides of an equality of sums.
LEMMA BothSidesGrow ==
  ASSUME NEW q \in Int, NEW c \in Int, NEW a \in Int, NEW l \in Int, NEW m \in Int,
         q + c = a + l
  PROVE  q + (c + m) = (a + m) + l
OBVIOUS

\* The reader takes the frame that begins at its cursor.
LEMMA ParseKeepsStream ==
  ASSUME WireAssumption, StreamInv, ReaderParses
  PROVE  StreamInv'
<1>1. /\ frames \in Seq(Kinds) /\ heard \in Seq(Kinds) /\ Len(heard) \in 0..Len(frames)
      /\ buf \in Seq(WireBytes) /\ cur \in 0..Len(buf) /\ Len(buf) \in Nat /\ keyed \in Nat
  BY DEF StreamInv, StreamShape
<1>2. /\ HasLength /\ FrameRemaining = 0
      /\ heard' = Append(heard, Parsed) /\ cur' = Min({cur + MsgLen, Len(buf)})
      /\ UNCHANGED <<frames, coming, queued, buf, keyed>>
  BY DEF ReaderParses, HasCompleteFrame
<1>3. PICK h \in 0..Len(frames) : h = Len(heard)
  BY <1>1
<1>4. h < Len(frames) /\ MsgLen = FrameLen(frames[h + 1]) /\ Parsed = frames[h + 1]
  BY <1>2, <1>3, ParserIsAligned
<1>5. frames[h + 1] \in Kinds /\ Before(frames, h + 1) = Before(frames, h) + FrameLen(frames[h + 1])
  BY <1>1, <1>4, BeforeNext
<1>6. PICK m \in Nat : m = FrameLen(frames[h + 1]) /\ m = MsgLen
  BY <1>4, <1>5, FrameLenIs
<1>7. m <= Len(buf) - cur
  <2>1. Len(Unparsed) = Len(buf) - cur
    BY UnparsedIs DEF StreamInv
  <2>2. PICK d \in Int : d = m - (Len(buf) - cur)
    <3>1. PICK c \in Nat, l \in Nat : c = cur /\ l = Len(buf)
      BY WireNumbers
    <3>2. m - (l - c) \in Int
      OBVIOUS
    <3>3. QED
      BY <3>1, <3>2
  <2>3. Max({d, 0}) = 0
    BY <1>2, <1>6, <2>1, <2>2 DEF FrameRemaining
  <2>4. d <= 0
    BY <2>3, MaxWithZero
  <2>5. QED
    BY <1>1, <2>2, <2>4
<1>8. cur' = cur + m /\ cur' \in 0..Len(buf)
  <2>1. PICK c \in Int, l \in Int : c = cur + m /\ l = Len(buf)
    BY <1>1
  <2>2. c <= l /\ c \in 0..Len(buf)
    BY <1>1, <1>7, <2>1
  <2>3. Min({c, l}) = c
    BY <2>2, MinOfTwo
  <2>4. QED
    BY <1>2, <1>6, <2>1, <2>2, <2>3
<1>9. Len(heard') = h + 1 /\ heard' \in Seq(Kinds) /\ h + 1 <= Len(frames)
  BY <1>1, <1>2, <1>3, <1>4, <1>5
<1>10. \A j \in 1..Len(heard') : heard'[j] = frames[j]
  <2> SUFFICES ASSUME NEW j \in 1..(h + 1) PROVE heard'[j] = frames[j]
    BY <1>9
  <2>1. CASE j = h + 1
    BY <1>1, <1>2, <1>3, <1>4, <2>1
  <2>2. CASE j # h + 1
    <3>1. j \in 1..Len(heard)
      <4>1. j \in 1..h
        BY <2>2
      <4>2. QED
        BY <1>3, <4>1
    <3>2. heard'[j] = heard[j]
      BY <1>1, <1>2, <3>1
    <3>3. QED
      BY <3>1, <3>2 DEF StreamInv, StreamShape
  <2>3. QED
    BY <2>1, <2>2
<1>11. StreamShape'
  BY <1>2, <1>8, <1>9, <1>10 DEF StreamInv, StreamShape
<1>12. PICK a \in Nat : a = HeardUnits
  BY <1>1, BeforeNatural DEF HeardUnits
<1>13. HeardUnits' = a + m
  BY <1>2, <1>3, <1>5, <1>6, <1>9, <1>12 DEF HeardUnits
<1>14. UnitsAddUp'
  <2>1. keyed + cur = a + Len(buf) /\ keyed + Len(queued) + Len(coming) = Before(frames, Len(frames))
    BY <1>12 DEF StreamInv, UnitsAddUp
  <2>2. PICK q \in Int, c \in Int, l \in Int : q = keyed /\ c = cur /\ l = Len(buf)
    BY <1>1
  <2>3. q + c = a + l
    BY <2>1, <2>2
  <2>4. q + (c + m) = (a + m) + l
    BY <2>3, BothSidesGrow
  <2>5. keyed + (cur + m) = (a + m) + Len(buf)
    BY <2>2, <2>4
  <2>6. QED
    BY <1>2, <1>8, <1>13, <2>1, <2>5 DEF UnitsAddUp
<1>15. BufferInPlace'
  <2> SUFFICES ASSUME NEW i \in 1..Len(buf), cur' < i
               PROVE  buf[i].clear = TRUE /\ Placed(frames, buf[i], HeardUnits' + (i - cur'))
    BY <1>2 DEF BufferInPlace
  <2>1. cur < i /\ a + (i - cur) = HeardUnits' + (i - cur')
    <3>1. PICK c \in Int : c = cur
      BY <1>1
    <3>2. cur' = c + m /\ c + m < i
      BY <1>8, <3>1
    <3>3. c < i /\ a + (i - c) = (a + m) + (i - (c + m))
      BY <3>2
    <3>4. QED
      BY <1>13, <3>1, <3>2, <3>3
  <2>2. buf[i].clear = TRUE /\ Placed(frames, buf[i], a + (i - cur))
    BY <1>12, <2>1 DEF StreamInv, BufferInPlace
  <2>3. QED
    BY <2>1, <2>2
<1>16. QueueInPlace' /\ ComingInPlace'
  BY <1>2 DEF StreamInv, QueueInPlace, ComingInPlace
<1>17. QED
  BY <1>11, <1>14, <1>15, <1>16 DEF StreamInv

\* The reader compacts its buffer and waits.
LEMMA ParkKeepsStream ==
  ASSUME WireAssumption, StreamInv, ReaderParks
  PROVE  StreamInv'
<1>1. /\ buf \in Seq(WireBytes) /\ cur \in 0..Len(buf) /\ Len(buf) \in Nat /\ keyed \in Nat
      /\ frames \in Seq(Kinds) /\ Len(heard) \in 0..Len(frames)
  BY DEF StreamInv, StreamShape
<1>2. UNCHANGED <<frames, coming, queued, keyed, heard>>
  BY DEF ReaderParks
<1>3. \/ buf' = buf /\ cur' = cur
      \/ buf' = SubSeq(buf, cur + 1, Len(buf)) /\ cur' = 0
  BY DEF ReaderParks, Compacted
<1>4. CASE buf' = buf /\ cur' = cur
  BY <1>2, <1>4
    DEF StreamInv, StreamShape, UnitsAddUp, HeardUnits, BufferInPlace, QueueInPlace, ComingInPlace
<1>5. CASE buf' = SubSeq(buf, cur + 1, Len(buf)) /\ cur' = 0
  <2>1. /\ buf' \in Seq(WireBytes) /\ Len(buf') = Len(buf) - cur
        /\ \A i \in 1..(Len(buf) - cur) : buf'[i] = buf[cur + i]
    BY <1>1, <1>5, RestOfSeq
  <2>2. cur' \in 0..Len(buf')
    BY <1>1, <1>5, <2>1
  <2>3. StreamShape'
    BY <1>2, <2>1, <2>2 DEF StreamInv, StreamShape
  <2>4. PICK a \in Nat : a = HeardUnits /\ a = HeardUnits'
    BY <1>1, <1>2, BeforeNatural DEF HeardUnits
  <2>5. UnitsAddUp'
    <3>1. keyed + cur = a + Len(buf) /\ keyed + Len(queued) + Len(coming) = Before(frames, Len(frames))
      BY <2>4 DEF StreamInv, UnitsAddUp
    <3>2. keyed + 0 = a + (Len(buf) - cur)
      BY <1>1, <3>1
    <3>3. QED
      BY <1>2, <1>5, <2>1, <2>4, <3>1, <3>2 DEF UnitsAddUp
  <2>6. BufferInPlace'
    <3> SUFFICES ASSUME NEW i \in 1..Len(buf')
                 PROVE  buf'[i].clear = TRUE /\ Placed(frames, buf'[i], a + (i - 0))
      BY <1>2, <1>5, <2>4 DEF BufferInPlace
    <3>1. PICK k \in 1..Len(buf) : k = cur + i /\ cur < k /\ k - cur = i - 0
      BY <1>1, <2>1
    <3>2. buf'[i] = buf[k]
      BY <2>1, <3>1
    <3>3. buf[k].clear = TRUE /\ Placed(frames, buf[k], a + (k - cur))
      BY <2>4, <3>1 DEF StreamInv, BufferInPlace
    <3>4. QED
      BY <3>1, <3>2, <3>3
  <2>7. QueueInPlace' /\ ComingInPlace'
    BY <1>2 DEF StreamInv, QueueInPlace, ComingInPlace
  <2>8. QED
    BY <2>3, <2>5, <2>6, <2>7 DEF StreamInv
<1>6. QED
  BY <1>3, <1>4, <1>5

\* The reader appends what it read and decrypts it in place.
LEMMA ReadKeepsStream ==
  ASSUME WireAssumption, StreamInv, ReaderReads
  PROVE  StreamInv'
<1>1. /\ buf \in Seq(WireBytes) /\ cur \in 0..Len(buf) /\ Len(buf) \in Nat /\ keyed \in Nat
      /\ queued \in Seq(WireBytes) /\ Len(queued) \in Nat
      /\ frames \in Seq(Kinds) /\ Len(heard) \in 0..Len(frames)
      /\ LowatCap \in Nat
  BY DEF StreamInv, StreamShape, WireAssumption
<1>2. PICK n \in 0..Len(queued) : n = Min({Len(queued), LowatCap})
  <2>1. PICK l \in Int, c \in Int : l = Len(queued) /\ c = LowatCap /\ 0 <= l /\ 0 <= c
    BY <1>1
  <2>2. Min({l, c}) = IF l <= c THEN l ELSE c
    BY MinOfTwo
  <2>3. (IF l <= c THEN l ELSE c) \in 0..l
    BY <2>1
  <2>4. QED
    BY <2>1, <2>2, <2>3
<1> DEFINE s == SubSeq(queued, 1, n)
<1> DEFINE t == Decrypted(s)
<1>3. /\ buf' = buf \o t /\ keyed' = keyed + n /\ queued' = SubSeq(queued, n + 1, Len(queued))
      /\ UNCHANGED <<frames, coming, cur, heard>>
  BY <1>2 DEF ReaderReads, remoteVars
<1>4. s \in Seq(WireBytes) /\ Len(s) = n /\ \A i \in 1..n : s[i] = queued[i]
  BY <1>1, FrontOfSeq
<1>5. /\ queued' \in Seq(WireBytes) /\ Len(queued') = Len(queued) - n
      /\ \A i \in 1..(Len(queued) - n) : queued'[i] = queued[n + i]
  BY <1>1, <1>3, RestOfSeq
<1>6. ASSUME NEW i \in 1..n
      PROVE  /\ t[i] = [queued[i] EXCEPT !.clear = TRUE] /\ queued[i] \in WireBytes
             /\ Placed(frames, queued[i], keyed + i)
  <2>1. i \in 1..Len(queued) /\ i \in DOMAIN s
    BY <1>1, <1>4
  <2>2. Placed(frames, queued[i], keyed + i)
    BY <2>1 DEF StreamInv, QueueInPlace
  <2>3. keyed + i = Position(queued[i])
    BY <2>2 DEF Placed, Position
  <2>4. t[i] = [s[i] EXCEPT !.clear = (keyed + i = Position(s[i]))]
    <3> HIDE DEF s
    <3>1. QED
      BY <2>1 DEF Decrypted
  <2>5. (keyed + i = Position(s[i])) = TRUE
    BY <1>4, <2>3
  <2>6. queued[i] \in WireBytes
    BY <1>1, <2>1
  <2> HIDE DEF s, t
  <2>7. QED
    BY <1>4, <2>2, <2>4, <2>5, <2>6
<1>7. t \in Seq(WireBytes) /\ Len(t) = n
  <2>1. DOMAIN t = 1..n
    <3> HIDE DEF s
    <3>1. QED
      BY <1>4 DEF Decrypted
  <2>2. \A i \in 1..n : t[i] \in WireBytes
    <3> HIDE DEF t
    <3>1. QED
      BY <1>6 DEF WireBytes
  <2>3. t = [i \in 1..n |-> t[i]]
    <3> HIDE DEF s
    <3>1. QED
      BY <1>4 DEF Decrypted
  <2> HIDE DEF t
  <2>4. QED
    BY <2>2, <2>3
<1> HIDE DEF s, t
<1>8. /\ buf' \in Seq(WireBytes) /\ Len(buf') = Len(buf) + n
      /\ \A i \in 1..Len(buf') : buf'[i] = IF i <= Len(buf) THEN buf[i] ELSE t[i - Len(buf)]
  BY <1>1, <1>3, <1>7, JoinedSeqs
<1>9. StreamShape'
  <2>1. keyed' \in Nat /\ cur' \in 0..Len(buf')
    BY <1>1, <1>3, <1>8
  <2>2. QED
    BY <1>3, <1>5, <1>8, <2>1 DEF StreamInv, StreamShape
<1>10. PICK a \in Nat : a = HeardUnits /\ a = HeardUnits'
  BY <1>1, <1>3, BeforeNatural DEF HeardUnits
<1>11. keyed + cur = a + Len(buf) /\ keyed + Len(queued) + Len(coming) = Before(frames, Len(frames))
  BY <1>10 DEF StreamInv, UnitsAddUp
<1>12. Len(coming) \in Nat /\ n \in Nat /\ n <= Len(queued)
  BY DEF StreamInv, StreamShape
<1>13. UnitsAddUp'
  <2>1. (keyed + n) + cur = a + (Len(buf) + n)
    <3>1. PICK q \in Int, c \in Int, l \in Int : q = keyed /\ c = cur /\ l = Len(buf)
      BY <1>1
    <3>2. q + c = a + l
      BY <1>11, <3>1
    <3>3. (q + n) + c = a + (l + n)
      BY <1>12, <3>2
    <3>4. QED
      BY <3>1, <3>3
  <2>2. (keyed + n) + (Len(queued) - n) + Len(coming) = keyed + Len(queued) + Len(coming)
    BY <1>1, <1>12
  <2>3. QED
    BY <1>3, <1>5, <1>8, <1>10, <1>11, <2>1, <2>2 DEF UnitsAddUp
<1>14. BufferInPlace'
  <2> SUFFICES ASSUME NEW i \in 1..Len(buf'), cur < i
               PROVE  buf'[i].clear = TRUE /\ Placed(frames, buf'[i], a + (i - cur))
    BY <1>3, <1>10 DEF BufferInPlace
  <2>1. CASE i <= Len(buf)
    <3>1. i \in 1..Len(buf) /\ buf'[i] = buf[i]
      BY <1>1, <1>8, <2>1
    <3>2. QED
      BY <1>10, <3>1 DEF StreamInv, BufferInPlace
  <2>2. CASE ~ (i <= Len(buf))
    <3>1. PICK k \in 1..n : k = i - Len(buf)
      <4>1. i - Len(buf) \in 1..n
        BY <1>1, <1>8, <1>12, <2>2
      <4>2. QED
        BY <4>1
    <3>2. buf'[i] = t[k]
      BY <1>8, <2>2, <3>1
    <3>3. /\ t[k] = [queued[k] EXCEPT !.clear = TRUE] /\ queued[k] \in WireBytes
          /\ Placed(frames, queued[k], keyed + k)
      BY <1>6
    <3>4. t[k].clear = TRUE /\ t[k].f = queued[k].f /\ t[k].o = queued[k].o
      BY <3>3 DEF WireBytes
    <3>5. Placed(frames, t[k], keyed + k)
      BY <3>3, <3>4 DEF Placed
    <3>6. a + (i - cur) = keyed + k
      <4>1. PICK q \in Int, c \in Int, l \in Int : q = keyed /\ c = cur /\ l = Len(buf)
        BY <1>1
      <4>2. q + c = a + l /\ k = i - l /\ i \in Int
        BY <1>1, <1>8, <1>11, <1>12, <3>1, <4>1
      <4>3. a + (i - c) = q + k
        BY <4>2
      <4>4. QED
        BY <4>1, <4>3
    <3>7. QED
      BY <3>2, <3>4, <3>5, <3>6
  <2>3. QED
    BY <2>1, <2>2
<1>15. QueueInPlace'
  <2> SUFFICES ASSUME NEW i \in 1..Len(queued') PROVE Placed(frames, queued'[i], (keyed + n) + i)
    BY <1>3 DEF QueueInPlace
  <2>1. PICK k \in 1..Len(queued) : k = n + i
    <3>1. n + i \in 1..Len(queued)
      BY <1>1, <1>5, <1>12
    <3>2. QED
      BY <3>1
  <2>2. queued'[i] = queued[k]
    BY <1>5, <2>1
  <2>3. Placed(frames, queued[k], keyed + k)
    BY DEF StreamInv, QueueInPlace
  <2>4. keyed + k = (keyed + n) + i
    BY <1>1, <1>12, <2>1
  <2>5. QED
    BY <2>2, <2>3, <2>4
<1>16. ComingInPlace'
  <2> SUFFICES ASSUME NEW i \in 1..Len(coming)
               PROVE  Placed(frames, coming[i], (keyed + n) + (Len(queued) - n) + i)
    BY <1>3, <1>5 DEF ComingInPlace
  <2>1. Placed(frames, coming[i], keyed + Len(queued) + i)
    BY DEF StreamInv, ComingInPlace
  <2>2. keyed + Len(queued) + i = (keyed + n) + (Len(queued) - n) + i
    BY <1>1, <1>12
  <2>3. QED
    BY <2>1, <2>2
<1>17. QED
  BY <1>9, <1>13, <1>14, <1>15, <1>16 DEF StreamInv

\* Every step keeps the stream, but a read that had completed and is dropped.
LEMMA StreamStays ==
  ASSUME WireAssumption, StreamInv, [WireNext]_wireVars
  PROVE  lost' = TRUE \/ StreamInv'
<1>1. CASE UNCHANGED <<frames, coming, queued, buf, cur, keyed, heard>>
  BY <1>1
    DEF StreamInv, StreamShape, UnitsAddUp, HeardUnits, BufferInPlace, QueueInPlace, ComingInPlace
<1>2. CASE UNCHANGED wireVars
  BY <1>1, <1>2 DEF wireVars
<1>3. CASE TorrentCompletes
  BY <1>1, <1>3 DEF TorrentCompletes, remoteVars
<1>4. CASE ReaderTimesOut
  BY <1>1, <1>4 DEF ReaderTimesOut, StallEnds
<1>5. ASSUME NEW late \in BOOLEAN, ReaderStalls(late) PROVE lost' = TRUE \/ StreamInv'
  <2>1. CASE late = TRUE
    BY <1>5, <2>1 DEF ReaderStalls, StallEnds
  <2>2. CASE late = FALSE
    BY <1>1, <1>5, <2>2 DEF ReaderStalls, StallEnds
  <2>3. QED
    BY <2>1, <2>2
<1>6. QED
  BY <1>2, <1>3, <1>4, <1>5, SendKeepsStream, ArriveKeepsStream, ParseKeepsStream, ParkKeepsStream,
     ReadKeepsStream DEF WireNext

\* What is lost stays lost.
LEMMA LostStays == lost = TRUE /\ [WireNext]_wireVars => lost' = TRUE
  BY DEF WireNext, wireVars, remoteVars, RemoteSends, Arrive, ReaderParses, ReaderParks, ReaderReads,
         TorrentCompletes, ReaderTimesOut, ReaderStalls, StallEnds

\* Of all messages, buffers, marks and lengths, and whatever becomes of a read
\* that is dropped: what the reader handles is what the remote sent, in order,
\* through a handshake that has read ahead, frames cut anywhere, decryption in
\* place, compaction and reads given up at a deadline, until such a read had
\* taken bytes (read_some_until drops them with it).
THEOREM ReaderHearsTheStream == WireSpec => []HearsUntilLost
<1> DEFINE Inv == lost = TRUE \/ StreamInv
<1>1. WireInit => Inv
  BY WireAssumption, StreamStarts
<1>2. Inv /\ [WireNext]_wireVars => Inv'
  <2> SUFFICES ASSUME Inv, [WireNext]_wireVars PROVE Inv'
    OBVIOUS
  <2>1. CASE lost = TRUE
    BY <2>1, LostStays
  <2>2. CASE StreamInv
    BY <2>2, WireAssumption, StreamStays
  <2>3. QED
    BY <2>1, <2>2
<1>3. StreamInv => HearsTheStream
  <2> SUFFICES ASSUME StreamInv PROVE HearsTheStream
    OBVIOUS
  <2>1. /\ frames \in Seq(Kinds) /\ heard \in Seq(Kinds) /\ Len(heard) \in 0..Len(frames)
        /\ Len(heard) \in 0..Len(heard) /\ \A j \in 1..Len(heard) : heard[j] = frames[j]
    BY DEF StreamInv, StreamShape
  <2> DEFINE s == SubSeq(heard, 1, Len(heard))
  <2> DEFINE t == SubSeq(frames, 1, Len(heard))
  <2>2. s \in Seq(Kinds) /\ Len(s) = Len(heard) /\ \A i \in 1..Len(heard) : s[i] = heard[i]
    BY <2>1, FrontOfSeq
  <2>3. t \in Seq(Kinds) /\ Len(t) = Len(heard) /\ \A i \in 1..Len(heard) : t[i] = frames[i]
    BY <2>1, FrontOfSeq
  <2> HIDE DEF s, t
  <2>4. s = t
    BY <2>1, <2>2, <2>3
  <2>5. QED
    BY <2>1, <2>4 DEF HearsTheStream, IsPrefix, s, t
<1>4. Inv => HearsUntilLost
  BY <1>3 DEF HearsUntilLost
<1> HIDE DEF Inv
<1>5. QED
  BY <1>1, <1>2, <1>4, PTL DEF WireSpec
=============================================================================
