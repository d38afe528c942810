--------------------------- MODULE StagingMemory ----------------------------
(***************************************************************************)
(* The piece-buffer freelists of one torrent (staging/piece_pool.rs) and   *)
(* the slot of the hot torrent that names the shared one (hot/have.rs).    *)
(* A freelist lives as long as the slot or a session refers to it, so      *)
(* several can be alive at once.  Each operator is one critical section of *)
(* the freelist's lock or of the slot's.                                   *)
(***************************************************************************)
EXTENDS Integers, FiniteSets

CONSTANTS
    Sessions,   \* connection slots of the torrent
    NoPool,     \* staging_pool = None, or StagingPool without a freelist
    Capacity    \* buffer_count_for_limit(piece_length, staging_mem_limit)

ASSUME StagingAssumption ==
    /\ IsFiniteSet(Sessions)
    /\ NoPool \notin Nat
    /\ Capacity \in Nat /\ Capacity >= 2   \* MIN_PIECE_BUFFERS

VARIABLES
    pools,    \* free buffers and outstanding ones of each freelist
    shared,   \* HotTorrent.staging_pool
    pool      \* the freelist each session's StagingPool was made from

poolVars == <<pools, shared, pool>>

\* At most one freelist for the slot and one for each session.
PoolIds == 0..Cardinality(Sessions)
EmptyPool == [free |-> 0, out |-> 0]

StagingTypeOK ==
    /\ pools \in [PoolIds -> [free : Nat, out : Nat]]
    /\ shared \in PoolIds \cup {NoPool}
    /\ pool \in [Sessions -> PoolIds \cup {NoPool}]

StagingInit ==
    /\ pools = [g \in PoolIds |-> EmptyPool]
    /\ shared \in {0, NoPool}
    /\ pool = [p \in Sessions |-> NoPool]

\* The Arc of a freelist is dropped, with its free buffers, by the last owner.
Owned(g, sh, own) == g = sh \/ \E p \in Sessions : own[p] = g
Dropped(sh, own) == [g \in PoolIds |-> IF Owned(g, sh, own) THEN pools[g] ELSE EmptyPool]

-----------------------------------------------------------------------------
(* ensure_staging_pool and release_staging_pool, under the slot's lock.    *)

EnsurePool ==
    /\ shared' = IF shared # NoPool THEN shared
                 ELSE CHOOSE g \in PoolIds : ~Owned(g, NoPool, pool)
    /\ UNCHANGED <<pools, pool>>

ReleasePool ==
    /\ shared' = NoPool
    /\ pools' = Dropped(NoPool, pool)
    /\ UNCHANGED pool

\* StagingPool::from_pool with the Arc read from the slot, or empty.
TakePool(p) ==
    /\ pool' = [pool EXCEPT ![p] = shared]
    /\ UNCHANGED <<pools, shared>>

LeavePool(p) ==
    /\ pool' = [pool EXCEPT ![p] = NoPool]
    /\ pools' = Dropped(shared, pool')
    /\ UNCHANGED shared

-----------------------------------------------------------------------------
(* The freelist, under its own lock.                                       *)

\* A recycled buffer first, a new one while the budget lasts.
CanAcquire(g) == pools[g].free > 0 \/ pools[g].out < Capacity
Acquire(g) ==
    pools' = [pools EXCEPT ![g] = [free |-> IF @.free > 0 THEN @.free - 1 ELSE 0,
                                   out |-> @.out + 1]]

Detached(b) == [b EXCEPT !.out = IF @ > 0 THEN @ - 1 ELSE 0]
Recycled(b) == IF b.free + b.out < Capacity THEN [b EXCEPT !.free = @ + 1] ELSE b

Release(g) ==
    pools' = [pools EXCEPT ![g] = Recycled(Detached(@))]

\* take_for_hash: the hash and disk stages do not keep the budget slot.
Detach(g) == pools' = [pools EXCEPT ![g] = Detached(@)]

\* Seeded fault: a detached buffer always joins the freelist.
DonateAlways(g) ==
    IF g = NoPool THEN UNCHANGED pools
    ELSE pools' = [pools EXCEPT ![g].free = @ + 1]

\* reclaim: a detached buffer joins the freelist of its session if it fits.
Donate(g) ==
    IF g = NoPool THEN UNCHANGED pools
    ELSE pools' = [pools EXCEPT ![g] = Recycled(@)]
=============================================================================
