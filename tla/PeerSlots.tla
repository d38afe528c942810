------------------------------ MODULE PeerSlots ------------------------------
(***************************************************************************)
(* Which connections one torrent has (session/accept.rs,                   *)
(* session/peer_policy.rs, session/dial.rs, session/dial_policy.rs,        *)
(* session/limits.rs, and what start_torrent and stop_torrent do to them). *)
(*                                                                         *)
(* Dialers (the tick, an announce task, the mutation worker) choose        *)
(* endpoints and reserve a slot for each; the accept thread takes what     *)
(* comes in; every connection is a task of a peer worker, known to the     *)
(* others by its entry in `peers'.  connected_out, torrent_cancel, peers,  *)
(* the registry and the cooldown table have a lock each.  A start gives    *)
(* the torrent a new cancel flag and, when it was cold, a new HotTorrent;  *)
(* both are named here by the number of the start.                         *)
(*                                                                         *)
(* Peers stay choked (useful_peer_count is below min_peers), the torrent   *)
(* is incomplete, and one that connects to us does so from a port nobody   *)
(* dials.                                                                  *)
(***************************************************************************)
EXTENDS Integers, FiniteSets

CONSTANTS
    Endpoints,          \* listen endpoints
    Manual,             \* those the user named
    NoEndpoint,         \* none of them
    Conns,              \* connections that can exist at once (a bound), numbers
    Dialers,            \* threads that dial
    Limits,             \* values of max_peers
    MaxConnections,     \* max_connections
    Quotas              \* bounds on starts, inbound connections and changes of
                        \* the limit, and the endpoints that the peer cache or
                        \* a tracker named; a behaviour has one of them

ASSUME PeersAssumption ==
    /\ Manual \subseteq Endpoints /\ NoEndpoint \notin Endpoints
    /\ Conns \subseteq Nat /\ IsFiniteSet(Conns) /\ Conns \cap Dialers = {}
    /\ Limits \subseteq Nat \ {0} /\ MaxConnections \in Nat \ {0}
    /\ Quotas \subseteq [starts : Nat, visits : Nat, changes : Nat,
                   known : SUBSET Endpoints]

VARIABLES
    flag,           \* torrent_cancel: the start whose flag is in the map, 0 for none
    hotObj,         \* registry: the start that loaded the HotTorrent, 0 when cold
    starts,         \* starts so far
    ctl,            \* where the mutation worker is in a start or a stop
    connected_out,  \* endpoints an outbound connection is reserved for
    cooling,        \* endpoints of dial_cooldown whose time has not come
    conn,           \* the peer tasks
    dialer,         \* the dialers
    max_peers,      \* the limit in effect
    quota,          \* starts, inbound connections and changes of the limit left, and
                    \* the endpoints that are known
    peak,           \* highest limit so far (for a property)
    keyLost         \* endpoints whose key another connection's end removed

peerVars == <<flag, hotObj, starts, ctl, connected_out, cooling, conn, dialer,
              max_peers, quota, peak, keyLost>>

NoConn == [dir |-> "none", pc |-> "none", at |-> NoEndpoint, obj |-> 0, run |-> 0,
           live |-> FALSE, bound |-> FALSE, stop |-> FALSE, max |-> 0]
NoDial == [pc |-> "idle", at |-> NoEndpoint, left |-> {}, obj |-> 0, run |-> 0, max |-> 0]

\* A free place, the lowest.
FreeConn(c) == conn[c] = NoConn /\ \A o \in Conns : conn[o] = NoConn => c <= o

\* LivePeer entries of the torrent, and all entries.
Bound == {c \in Conns : conn[c].live /\ conn[c].bound}
Live == {c \in Conns : conn[c].live}
\* An outbound connection shares the torrent's flag, an inbound one has its own.
Cancelled(c) == conn[c].stop \/ (conn[c].dir = "out" /\ conn[c].run # flag)

\* Dialers and outbound tasks that will take the key of e away.
KeyHolders(e) ==
    {d \in Dialers : dialer[d].at = e /\ dialer[d].pc \in {"flag", "slot", "unclaim"}}
    \cup {c \in Conns : conn[c].dir = "out" /\ conn[c].at = e}

PeersInit ==
    /\ flag = 1 /\ hotObj = 1 /\ starts = 1 /\ ctl = "idle"
    /\ connected_out = {} /\ cooling = {} /\ keyLost = {}
    /\ conn = [c \in Conns |-> NoConn]
    /\ dialer = [d \in Dialers |-> NoDial]
    /\ max_peers \in Limits /\ peak = max_peers
    /\ quota \in Quotas

-----------------------------------------------------------------------------
(* The mutation worker.                                                    *)

FreshFlag == starts + 1

\* start_torrent: a fresh flag invalidates what an earlier run left.
StartFlag ==
    /\ ctl = "idle" /\ quota.starts > 0
    /\ quota' = [quota EXCEPT !.starts = @ - 1]
    /\ starts' = starts + 1 /\ flag' = FreshFlag
    /\ ctl' = IF hotObj = 0 THEN "publish" ELSE "idle"
    /\ UNCHANGED <<hotObj, connected_out, cooling, conn, dialer, max_peers, peak, keyLost>>

\* after the load and ensure_storage
StartPublish ==
    /\ ctl = "publish"
    /\ ctl' = "idle" /\ hotObj' = starts
    /\ UNCHANGED <<flag, starts, connected_out, cooling, conn, dialer, max_peers, quota, peak, keyLost>>

StopFlag ==
    /\ ctl = "idle" /\ hotObj # 0
    /\ flag' = 0 /\ ctl' = "unhot"
    /\ UNCHANGED <<hotObj, starts, connected_out, cooling, conn, dialer, max_peers, quota, peak, keyLost>>

StopRegistry ==
    /\ ctl = "unhot"
    /\ hotObj' = 0 /\ ctl' = "keys"
    /\ UNCHANGED <<flag, starts, connected_out, cooling, conn, dialer, max_peers, quota, peak, keyLost>>

\* connected_out.retain: also the keys of tasks that have not ended, and of
\* dialers that have not read their flag yet.
StopKeys ==
    /\ ctl = "keys"
    /\ connected_out' = {} /\ ctl' = "peers"
    /\ keyLost' = keyLost \cup {e \in connected_out : KeyHolders(e) \cap Dialers # {}}
    /\ UNCHANGED <<flag, hotObj, starts, cooling, conn, dialer, max_peers, quota, peak>>

StopPeers ==
    /\ ctl = "peers"
    /\ conn' = [c \in Conns |-> IF c \in Bound
                                THEN [conn[c] EXCEPT !.live = FALSE, !.stop = TRUE] ELSE conn[c]]
    /\ ctl' = "idle"
    /\ UNCHANGED <<flag, hotObj, starts, connected_out, cooling, dialer, max_peers, quota, peak, keyLost>>

\* apply_session_limits: nobody is disconnected.
ApplyLimits ==
    /\ ctl = "idle" /\ quota.changes > 0
    /\ quota' = [quota EXCEPT !.changes = @ - 1]
    /\ \E m \in Limits \ {max_peers} : max_peers' = m
    /\ peak' = IF max_peers' > peak THEN max_peers' ELSE peak
    /\ UNCHANGED <<flag, hotObj, starts, ctl, connected_out, cooling, conn, dialer, keyLost>>

-----------------------------------------------------------------------------
(* Dialling: refill_peers_with_cache and spawn_outbound.                   *)

Slots == IF max_peers > Cardinality(Bound) THEN max_peers - Cardinality(Bound) ELSE 0
\* already_have_peer: a key, or an entry of `peers' with that address.
AlreadyHave(e) == e \in connected_out \/ \E c \in Bound : conn[c].at = e

\* merge_outbound_peers: the named ones first, then the others in any order,
\* cut off at `max' BEFORE what is connected or cools down is taken out.
MergeOutbound(merged, max) ==
    /\ LET n == Cardinality(Manual \cup quota.known)
       IN Cardinality(merged) = IF n < max THEN n ELSE max
    /\ merged \subseteq Manual \/ Manual \subseteq merged

Retained(merged) == {e \in merged : ~AlreadyHave(e) /\ e \notin cooling}

Plan(d) ==
    /\ dialer[d].pc = "idle" /\ hotObj # 0 /\ Slots > 0
    /\ \E merged \in SUBSET (Manual \cup quota.known) :
          /\ MergeOutbound(merged, Slots)
          /\ Retained(merged) # {}
          /\ dialer' = [dialer EXCEPT ![d] = [NoDial EXCEPT !.pc = "have", !.obj = hotObj,
                                                            !.left = Retained(merged)]]
    /\ UNCHANGED <<flag, hotObj, starts, ctl, connected_out, cooling, conn, max_peers, quota, peak, keyLost>>

\* On to the next of the list.
Onward(d) == IF d.left = {} THEN NoDial
             ELSE [NoDial EXCEPT !.pc = "have", !.obj = d.obj, !.left = d.left]

SpawnHave(d, e) ==
    /\ dialer[d].pc = "have" /\ e \in dialer[d].left
    /\ LET rest == [dialer[d] EXCEPT !.left = @ \ {e}]
       IN dialer' = [dialer EXCEPT ![d] = IF AlreadyHave(e) \/ e \in cooling THEN Onward(rest)
                                          ELSE [rest EXCEPT !.pc = "claim", !.at = e]]
    /\ UNCHANGED <<flag, hotObj, starts, ctl, connected_out, cooling, conn, max_peers, quota, peak, keyLost>>

\* Seeded fault: dials although the key was there.
SpawnClaimAnyway(d) ==
    /\ dialer[d].pc = "claim"
    /\ connected_out' = connected_out \cup {dialer[d].at}
    /\ dialer' = [dialer EXCEPT ![d].pc = "flag"]
    /\ UNCHANGED <<flag, hotObj, starts, ctl, cooling, conn, max_peers, quota, peak, keyLost>>

SpawnClaim(d) ==
    /\ dialer[d].pc = "claim"
    /\ connected_out' = connected_out \cup {dialer[d].at}
    /\ dialer' = [dialer EXCEPT ![d] = IF @.at \in connected_out THEN Onward(@)
                                       ELSE [@ EXCEPT !.pc = "flag"]]
    /\ UNCHANGED <<flag, hotObj, starts, ctl, cooling, conn, max_peers, quota, peak, keyLost>>

\* No flag means stopped; the limit is read before the lock on `peers'.
SpawnFlag(d) ==
    /\ dialer[d].pc = "flag"
    /\ dialer' = [dialer EXCEPT ![d] = IF flag = 0 THEN [@ EXCEPT !.pc = "unclaim"]
                                       ELSE [@ EXCEPT !.pc = "slot", !.run = flag, !.max = max_peers]]
    /\ UNCHANGED <<flag, hotObj, starts, ctl, connected_out, cooling, conn, max_peers, quota, peak, keyLost>>

\* Seeded fault: the slots were counted before, outside the lock.
SlotFreeUnlocked(d) == TRUE
\* Counted and taken under one lock on `peers'.
SlotFree(d) == Cardinality(Bound) < dialer[d].max

SpawnSlot(d) ==
    /\ dialer[d].pc = "slot"
    /\ \/ /\ ~SlotFree(d)
          /\ dialer' = [dialer EXCEPT ![d].pc = "unclaim"] /\ conn' = conn
       \/ /\ SlotFree(d)
          /\ dialer' = [dialer EXCEPT ![d] = Onward(@)]
          /\ \E c \in Conns :
                /\ FreeConn(c)
                /\ conn' = [conn EXCEPT ![c] = [NoConn EXCEPT !.dir = "out", !.pc = "spawned",
                               !.at = dialer[d].at, !.obj = dialer[d].obj, !.run = dialer[d].run,
                               !.live = TRUE, !.bound = TRUE]]
    /\ UNCHANGED <<flag, hotObj, starts, ctl, connected_out, cooling, max_peers, quota, peak, keyLost>>

SpawnUnclaim(d) ==
    /\ dialer[d].pc = "unclaim"
    /\ connected_out' = connected_out \ {dialer[d].at}
    /\ dialer' = [dialer EXCEPT ![d] = Onward(@)]
    /\ keyLost' = IF KeyHolders(dialer[d].at) # {d} THEN keyLost \cup {dialer[d].at} ELSE keyLost
    /\ UNCHANGED <<flag, hotObj, starts, ctl, cooling, conn, max_peers, quota, peak>>

-----------------------------------------------------------------------------
(* An outbound connection.                                                 *)

OutBegin(c) ==
    /\ conn[c].pc = "spawned"
    /\ conn' = [conn EXCEPT ![c].pc = IF Cancelled(c) THEN "remove" ELSE "up"]
    /\ UNCHANGED <<flag, hotObj, starts, ctl, connected_out, cooling, dialer, max_peers, quota, peak, keyLost>>

\* Whatever ends it but a clean session of half a minute holds the endpoint
\* back: an error, a short session, an idle close, any other end.
OutEnd(c) ==
    /\ conn[c].dir = "out" /\ conn[c].pc = "up"
    /\ conn' = [conn EXCEPT ![c].pc = "remove"]
    /\ \/ cooling' = cooling \cup {conn[c].at}
       \/ cooling' = cooling \ {conn[c].at}
    /\ UNCHANGED <<flag, hotObj, starts, ctl, connected_out, dialer, max_peers, quota, peak, keyLost>>

PeerRemove(c) ==
    /\ conn[c].pc = "remove"
    /\ conn' = [conn EXCEPT ![c] = IF @.dir = "in" THEN NoConn
                                   ELSE [@ EXCEPT !.pc = "key", !.live = FALSE]]
    /\ UNCHANGED <<flag, hotObj, starts, ctl, connected_out, cooling, dialer, max_peers, quota, peak, keyLost>>

\* Seeded fault: the key stays.
OutKeyKept(c) ==
    /\ conn[c].pc = "key"
    /\ conn' = [conn EXCEPT ![c] = NoConn]
    /\ UNCHANGED <<flag, hotObj, starts, ctl, connected_out, cooling, dialer, max_peers, quota, peak, keyLost>>

\* The key goes whoever put it there last.
OutKey(c) ==
    /\ conn[c].pc = "key"
    /\ connected_out' = connected_out \ {conn[c].at}
    /\ conn' = [conn EXCEPT ![c] = NoConn]
    /\ keyLost' = IF KeyHolders(conn[c].at) # {c} THEN keyLost \cup {conn[c].at} ELSE keyLost
    /\ UNCHANGED <<flag, hotObj, starts, ctl, cooling, dialer, max_peers, quota, peak>>

\* The cooldown of an endpoint ends.
CooledDown(e) ==
    /\ e \in cooling
    /\ cooling' = cooling \ {e}
    /\ UNCHANGED <<flag, hotObj, starts, ctl, connected_out, conn, dialer, max_peers, quota, peak, keyLost>>

-----------------------------------------------------------------------------
(* An inbound connection.                                                  *)

\* spawn_inbound counts `peers' on the accept thread ...
Accept ==
    /\ quota.visits > 0 /\ Cardinality(Live) < MaxConnections
    /\ quota' = [quota EXCEPT !.visits = @ - 1]
    /\ \E c \in Conns : /\ FreeConn(c)
                        /\ conn' = [conn EXCEPT ![c] = [NoConn EXCEPT !.dir = "in", !.pc = "accepted"]]
    /\ UNCHANGED <<flag, hotObj, starts, ctl, connected_out, cooling, dialer, max_peers, peak, keyLost>>

\* ... and the task enters itself there later, with torrent_id 0.
InEnter(c) ==
    /\ conn[c].pc = "accepted"
    /\ conn' = [conn EXCEPT ![c].pc = "match", ![c].live = TRUE]
    /\ UNCHANGED <<flag, hotObj, starts, ctl, connected_out, cooling, dialer, max_peers, quota, peak, keyLost>>

\* The info-hash of the handshake, or the SKEY of an encrypted one, is looked
\* up in the registry; an encrypted handshake goes on from there.
InMatch(c) ==
    /\ conn[c].pc = "match"
    /\ conn' = [conn EXCEPT ![c] = IF hotObj = 0 THEN [@ EXCEPT !.pc = "remove"]
                                   ELSE [@ EXCEPT !.pc = "handshake", !.obj = hotObj]]
    /\ UNCHANGED <<flag, hotObj, starts, ctl, connected_out, cooling, dialer, max_peers, quota, peak, keyLost>>

\* on_bound reads the limit, ...
InLimit(c) ==
    /\ conn[c].pc = "handshake"
    /\ conn' = [conn EXCEPT ![c].pc = "bind", ![c].max = max_peers]
    /\ UNCHANGED <<flag, hotObj, starts, ctl, connected_out, cooling, dialer, max_peers, quota, peak, keyLost>>

\* ... then counts and takes the slot under the lock.
InBind(c) ==
    /\ conn[c].pc = "bind"
    /\ conn' = [conn EXCEPT ![c] = IF Cardinality(Bound) >= @.max THEN [@ EXCEPT !.pc = "remove"]
                                   ELSE [@ EXCEPT !.pc = "up", !.bound = TRUE, !.max = 0]]
    /\ UNCHANGED <<flag, hotObj, starts, ctl, connected_out, cooling, dialer, max_peers, quota, peak, keyLost>>

\* The remote leaves, is idle, or the handshake took too long.  The cooldown
\* of an idle one is for the port it came from, which nobody dials.
InEnd(c) ==
    /\ conn[c].dir = "in" /\ conn[c].pc \in {"match", "handshake", "up"}
    /\ conn' = [conn EXCEPT ![c].pc = "remove"]
    /\ UNCHANGED <<flag, hotObj, starts, ctl, connected_out, cooling, dialer, max_peers, quota, peak, keyLost>>

ControlStep == StartPublish \/ StopRegistry \/ StopKeys \/ StopPeers
DialStep(d) == \/ \E e \in Endpoints : SpawnHave(d, e)
               \/ SpawnClaim(d) \/ SpawnFlag(d) \/ SpawnSlot(d) \/ SpawnUnclaim(d)
ConnStep(c) == \/ OutBegin(c) \/ PeerRemove(c) \/ OutKey(c)
               \/ InEnter(c) \/ InMatch(c) \/ InLimit(c) \/ InBind(c)

PeersNext ==
    \/ StartFlag \/ StopFlag \/ ApplyLimits \/ ControlStep
    \/ \E d \in Dialers : Plan(d) \/ DialStep(d)
    \/ \E e \in Endpoints : CooledDown(e)
    \/ Accept
    \/ \E c \in Conns : ConnStep(c) \/ OutEnd(c) \/ InEnd(c)

PeersSpec == PeersInit /\ [][PeersNext]_peerVars

-----------------------------------------------------------------------------
PeersTypeOK ==
    /\ flag \in {0, starts} /\ hotObj \in 0..starts
    /\ ctl \in {"idle", "publish", "unhot", "keys", "peers"}
    /\ connected_out \subseteq Endpoints /\ cooling \subseteq Endpoints
    /\ max_peers \in Limits /\ peak \in Limits
    /\ \A c \in Conns :
          /\ conn[c].at \in Endpoints <=> conn[c].dir = "out"
          /\ conn[c].pc = "none" <=> conn[c].dir = "none"
          /\ conn[c].obj \in 0..starts /\ conn[c].run \in 0..starts
    /\ \A d \in Dialers : dialer[d].pc = "idle" => dialer[d].left = {}

\* peer_policy.rs: "Reserve a peer slot synchronously so concurrent dials honor
\* max_peers": dialers and inbound tasks together never fill more slots than
\* the highest limit that was in effect.
SlotsHold == Cardinality(Bound) <= peak

\* peer_policy.rs: one run has at most one outbound connection to an endpoint,
\* unless the end of an earlier run's connection took the key of a later one.
OneConnPerEndpoint == \A e \in Endpoints \ keyLost :
    Cardinality({c \in Conns : /\ conn[c].dir = "out" /\ conn[c].at = e
                               /\ conn[c].pc # "key" /\ ~Cancelled(c)}) <= 1

\* lifecycle.rs: whoever exchanges pieces does so for the HotTorrent of the
\* registry; a stop leaves nobody behind.
WorksOnTheHotTorrent == \A c \in Conns :
    conn[c].pc = "up" /\ ~Cancelled(c) /\ ctl = "idle" => conn[c].obj = hotObj

\* peer_policy.rs: while the torrent has room and the program runs, every
\* endpoint it knows is dialled again and again.
DialsGoOn == \A e \in Endpoints :
    e \in quota.known => []<>(\/ hotObj = 0 \/ Slots = 0 \/ ctl # "idle"
                              \/ \E c \in Conns : conn[c].at = e)

\* Threads run, cooldowns end; the shuffle picks every endpoint in the end.
PeersFairness ==
    /\ WF_peerVars(ControlStep)
    /\ \A d \in Dialers : WF_peerVars(DialStep(d))
    /\ \A d \in Dialers, e \in Endpoints : SF_peerVars(Plan(d) /\ e \in dialer'[d].left)
    /\ \A c \in Conns : WF_peerVars(ConnStep(c))
    /\ \A c \in Conns : WF_peerVars(OutEnd(c) /\ Cancelled(c))
    /\ \A e \in Endpoints : WF_peerVars(CooledDown(e))

PeersFairSpec == PeersSpec /\ PeersFairness
=============================================================================
