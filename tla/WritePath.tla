----------------------------- MODULE WritePath ------------------------------
(***************************************************************************)
(* A piece buffer's way: from the torrent's staging memory to a session    *)
(* that assembles a piece in it, through the hash threads and the disk     *)
(* worker, and back (staging/pool.rs, peer/duplex.rs, peer/download.rs,    *)
(* hot/have.rs).  Composes StagingMemory and DiskWorker.                   *)
(*                                                                         *)
(* Sessions, hash threads, backend threads and the mutation worker that    *)
(* changes file priorities interleave at every lock and channel.           *)
(*                                                                         *)
(* Abstracted: which piece a slot is about, claims and possession          *)
(* (LeechPath has them); here the download is complete or it is not.       *)
(***************************************************************************)
EXTENDS StagingMemory, DiskWorker

CONSTANTS
    Slots,          \* pieces one session may have in its StagingPool
    Mutator,        \* the mutation worker
    MaxAssembling,  \* max_assembling_pieces
    MaxPrio         \* bound: priority changes

ASSUME WritePathAssumption ==
    /\ Jobs = Sessions \X Slots
    /\ Mutator \notin Sessions
    /\ MaxAssembling \in Nat \ {0}
    /\ MaxPrio \in Nat

VARIABLES
    pc,        \* the sessions' tasks and the mutation worker
    leech,     \* am_interested
    slot,      \* Slot in the session's StagingPool
    done,      \* is_download_complete
    prioLeft   \* remaining priority changes

sessionVars == <<pc, leech, slot, done, prioLeft>>
vars == <<poolVars, diskVars, sessionVars>>

Actors == Sessions \cup {Mutator}
Pcs == {"off", "idle", "ensure", "create", "take", "clear", "end", "marked", "release", "decide"}
SlotStates == {"none", "assembling", "hashing"}

TypeOK ==
    /\ StagingTypeOK /\ DiskTypeOK
    /\ pc \in [Actors -> Pcs]
    /\ leech \in [Sessions -> BOOLEAN]
    /\ slot \in [Sessions -> [Slots -> SlotStates]]
    /\ done \in BOOLEAN /\ prioLeft \in 0..MaxPrio
    /\ \A p \in Sessions : (\E k \in Slots : slot[p][k] = "assembling") => pool[p] # NoPool

Init ==
    /\ StagingInit /\ DiskInit
    /\ pc = [a \in Actors |-> IF a = Mutator THEN "idle" ELSE "off"]
    /\ leech = [p \in Sessions |-> FALSE]
    /\ slot = [p \in Sessions |-> [k \in Slots |-> "none"]]
    /\ done = (shared = NoPool)
    /\ prioLeft \in 0..MaxPrio

At(a, l) == pc[a] = l
Go(a, l) == pc' = [pc EXCEPT ![a] = l]
SetSlot(p, k, s) == slot' = [slot EXCEPT ![p][k] = s]
Assembling(p) == {k \in Slots : slot[p][k] = "assembling"}

-----------------------------------------------------------------------------
(* ensure_staging_pool and release_staging_pool, by sessions and by        *)
(* set_file_priority: is_download_complete first, then the slot's lock.    *)

EnsureCheck(a) ==
    /\ At(a, "ensure")
    /\ Go(a, IF ~done THEN "create" ELSE IF a = Mutator THEN "idle" ELSE "take")
    /\ UNCHANGED <<poolVars, diskVars, leech, slot, done, prioLeft>>

EnsureCreate(a) ==
    /\ At(a, "create")
    /\ EnsurePool
    /\ Go(a, IF a = Mutator THEN "idle" ELSE "take")
    /\ UNCHANGED <<diskVars, leech, slot, done, prioLeft>>

ReleaseShared(a) ==
    /\ At(a, "release")
    /\ ReleasePool
    /\ Go(a, "idle")
    /\ UNCHANGED <<diskVars, leech, slot, done, prioLeft>>

\* rebuild_wanted_and_missing, then release or ensure.
SetFilePriority ==
    /\ At(Mutator, "idle") /\ prioLeft > 0
    /\ prioLeft' = prioLeft - 1
    /\ done' \in BOOLEAN
    /\ Go(Mutator, "decide")
    /\ UNCHANGED <<poolVars, diskVars, leech, slot>>

Decide ==
    /\ At(Mutator, "decide")
    /\ Go(Mutator, IF done THEN "release" ELSE "ensure")
    /\ UNCHANGED <<poolVars, diskVars, leech, slot, done, prioLeft>>

-----------------------------------------------------------------------------
(* A session (reader_loop).                                                *)

\* Bound: a slot's next session begins when the jobs of the last are gone.
InPipeline(j) ==
    \/ j \in Queued \/ outcome[j] # "none"
    \/ \E h \in Hashers : hasher[h].job = j
    \/ \E g \in Gens : j \in In(g) \cup backend[g].fly

Connect(p) ==
    /\ At(p, "off")
    /\ \A k \in Slots : ~InPipeline(<<p, k>>)
    /\ leech' = [leech EXCEPT ![p] = ~done]
    /\ Go(p, IF done THEN "idle" ELSE "ensure")
    /\ UNCHANGED <<poolVars, diskVars, slot, done, prioLeft>>

TakeShared(p) ==
    /\ At(p, "take")
    /\ TakePool(p)
    /\ Go(p, "idle")
    /\ UNCHANGED <<diskVars, leech, slot, done, prioLeft>>

ReInterest(p) ==
    /\ At(p, "idle") /\ ~leech[p] /\ ~done
    /\ leech' = [leech EXCEPT ![p] = TRUE]
    /\ UNCHANGED <<poolVars, diskVars, pc, slot, done, prioLeft>>

LeechDone(p) ==
    /\ At(p, "idle") /\ leech[p] /\ done
    /\ leech' = [leech EXCEPT ![p] = FALSE]
    /\ Go(p, "clear")
    /\ UNCHANGED <<poolVars, diskVars, slot, done, prioLeft>>

Disconnect(p) ==
    /\ At(p, "idle")
    /\ leech' = [leech EXCEPT ![p] = FALSE]
    /\ Go(p, "end")
    /\ UNCHANGED <<poolVars, diskVars, slot, done, prioLeft>>

\* StagingPool::clear, one buffer after the other, also by Drop.
ClearOne(p) ==
    /\ pc[p] \in {"clear", "end"}
    /\ \E k \in Assembling(p) : SetSlot(p, k, "none")
    /\ Release(pool[p])
    /\ UNCHANGED <<shared, pool, diskVars, pc, leech, done, prioLeft>>

Cleared(p) ==
    /\ At(p, "clear") /\ Assembling(p) = {}
    /\ Go(p, "idle")
    /\ UNCHANGED <<poolVars, diskVars, leech, slot, done, prioLeft>>

\* The session's freelist Arc and its end of the reply channel go.
Ended(p) ==
    /\ At(p, "end") /\ Assembling(p) = {}
    /\ LeavePool(p)
    /\ slot' = [slot EXCEPT ![p] = [k \in Slots |-> "none"]]
    /\ Go(p, "off")
    /\ UNCHANGED <<diskVars, leech, done, prioLeft>>

\* take_requests: start a piece while the budget lasts (try_start).
StartPiece(p, k) ==
    /\ At(p, "idle") /\ leech[p] /\ pool[p] # NoPool
    /\ slot[p][k] = "none" /\ Cardinality(Assembling(p)) < MaxAssembling
    /\ CanAcquire(pool[p])
    /\ Acquire(pool[p])
    /\ SetSlot(p, k, "assembling")
    /\ UNCHANGED <<shared, pool, diskVars, pc, leech, done, prioLeft>>

\* Last block: take_for_hash, HashPool::submit.
PieceComplete(p, k) ==
    /\ At(p, "idle") /\ leech[p]
    /\ slot[p][k] = "assembling"
    /\ Detach(pool[p])
    /\ SetSlot(p, k, "hashing")
    /\ SubmitLeech(<<p, k>>)
    /\ UNCHANGED <<shared, pool, pc, leech, done, prioLeft>>

\* The hash table is gone: the buffer is reclaimed and the session ends.
HashTableGone(p, k) ==
    /\ At(p, "idle") /\ leech[p] /\ done
    /\ slot[p][k] = "assembling"
    /\ Release(pool[p])   \* take_for_hash, then reclaim
    /\ SetSlot(p, k, "none")
    /\ leech' = [leech EXCEPT ![p] = FALSE]
    /\ Go(p, "end")
    /\ UNCHANGED <<shared, pool, diskVars, done, prioLeft>>

\* apply_hash_outcome: reclaim; a new piece may be the last one wanted.
ApplyOutcome(p, k) ==
    LET j == <<p, k>> IN
    /\ At(p, "idle")
    /\ outcome[j] \in Outcomes
    /\ Reply(j, "none")
    /\ Donate(pool[p])
    /\ SetSlot(p, k, IF slot[p][k] = "hashing" THEN "none" ELSE slot[p][k])
    /\ \/ outcome[j] = "ok" /\ done' \in {done, TRUE} /\ Go(p, "marked")
       \/ UNCHANGED <<done, pc>>
    /\ UNCHANGED <<shared, pool, queueVars, hasher, backend, stateVars, failLeft, leech, prioLeft>>

\* The end of mark_have: is the download complete now?
Marked(p) ==
    /\ At(p, "marked")
    /\ Go(p, IF done THEN "release" ELSE "idle")
    /\ UNCHANGED <<poolVars, diskVars, leech, slot, done, prioLeft>>

\* A reply to a session that has gone, and its buffer, are dropped.
Discard(p, k) ==
    /\ At(p, "off") /\ outcome[<<p, k>>] # "none"
    /\ Reply(<<p, k>>, "none")
    /\ UNCHANGED <<poolVars, queueVars, hasher, backend, stateVars, failLeft, sessionVars>>

EnsureStep(a) == EnsureCheck(a) \/ EnsureCreate(a) \/ ReleaseShared(a)

SessionStep(p) ==
    \/ Connect(p) \/ TakeShared(p) \/ ReInterest(p) \/ LeechDone(p) \/ Disconnect(p)
    \/ ClearOne(p) \/ Cleared(p) \/ Ended(p) \/ Marked(p)
    \/ \E k \in Slots : StartPiece(p, k) \/ PieceComplete(p, k) \/ HashTableGone(p, k)
                           \/ ApplyOutcome(p, k) \/ Discard(p, k)

Next ==
    \/ \E a \in Actors : EnsureStep(a)
    \/ SetFilePriority \/ Decide
    \/ \E p \in Sessions : SessionStep(p)
    \/ DiskNext /\ UNCHANGED <<poolVars, sessionVars>>

Spec == Init /\ [][Next]_vars

\* Hash and backend threads run, and a sender that waits for room in a channel
\* is woken in its turn; a session's task runs, and comes round to the
\* outcomes that wait for it.  Nobody owes a failure, a disconnect, a piece.
DiskOwn(A) == A /\ UNCHANGED <<poolVars, sessionVars>>
Fairness ==
    /\ \A h \in Hashers : WF_vars(DiskOwn(HashStep(h))) /\ SF_vars(DiskOwn(Send(h)))
    /\ \A g \in Gens :
         WF_vars(DiskOwn(Setup(g) \/ TakeWrite(g) \/ CompleteWrite(g)
                          \/ DrainFlying(g) \/ DrainChannel(g) \/ CloseChannel(g)))
    /\ \A p \in Sessions :
         /\ WF_vars(EnsureStep(p) \/ TakeShared(p) \/ ClearOne(p) \/ Cleared(p)
                     \/ Ended(p) \/ Marked(p))
         /\ \A k \in Slots : SF_vars(ApplyOutcome(p, k)) /\ WF_vars(Discard(p, k))

FairSpec == Spec /\ Fairness

-----------------------------------------------------------------------------
(* Properties.                                                             *)

\* Each freelist stays in its budget and counts exactly the buffers that
\* sessions assemble in (PieceBufferPool): through detach and donate, sessions
\* that end, and a freelist that is replaced while sessions keep the old one.
Budgeted ==
    \A g \in PoolIds :
        /\ pools[g].free + pools[g].out <= Capacity
        /\ pools[g].out = Cardinality({j \in Jobs : pool[j[1]] = g /\ slot[j[1]][j[2]] = "assembling"})

\* The places a submitted piece, and the one buffer it has, can be in.
Places(j) ==
    [queue   |-> Cardinality({k \in DOMAIN leechQ : leechQ[k] = j}),
     threads |-> Cardinality({h \in Hashers : hasher[h].job = j}),
     chans   |-> Cardinality({e \in Gens \X (1..Depth) :
                    e[2] \in DOMAIN backend[e[1]].chan /\ backend[e[1]].chan[e[2]] = j}),
     fly     |-> Cardinality({g \in Gens : j \in backend[g].fly}),
     reply   |-> IF outcome[j] = "none" THEN 0 ELSE 1]
Copies(j) ==
    LET c == Places(j) IN c.queue + c.threads + c.chans + c.fly + c.reply

\* A piece in the hash state is in exactly one place, also across the retry
\* after a restart: it is neither answered twice nor forgotten
\* (submit_write, handle_verify, fatal_drain_and_exit).
OnePlace ==
    \A p \in Sessions, k \in Slots :
        /\ Copies(<<p, k>>) <= 1
        /\ pc[p] # "off" => (slot[p][k] = "hashing" <=> Copies(<<p, k>>) = 1)

\* "Workers always drain leech work before recheck": while a piece waits, each
\* hash thread begins at most the one recheck job it was about to take.
LeechFirst == \A j \in Jobs, h \in Hashers : j \in Queued => passed[j][h] <= 1

\* A piece that was handed over is answered, unless the end of its backend lost
\* it: full channels, restarts and joins never leave everyone waiting.
Answers ==
    \A p \in Sessions, k \in Slots :
        slot[p][k] = "hashing" ~> (slot[p][k] # "hashing" \/ outcome[<<p, k>>] = "lost")

\* disk_worker.rs:48, :246: the disk thread may be respawned MAX_DISK_RESTARTS times,
\* and the slot reserved before the spawn keeps the other threads out; the worker is
\* given up when the last respawn has died, not while it starts or works.
LastRestartCounts == deadPermanent => backend[cur].st \notin {"starting", "up"}

\* design.md:201: staging memory is budgeted per torrent.
TorrentBudget ==
    \A g1, g2 \in PoolIds :
        g1 # g2 => pools[g1].free + pools[g1].out + pools[g2].free + pools[g2].out <= Capacity

\* design.md:201: a torrent that only seeds is kept without staging RAM.
SeedsWithoutStaging ==
    (done /\ \A a \in Actors : pc[a] \in {"idle", "off"}
          /\ \A p \in Sessions : ~leech[p])
        => \A g \in PoolIds : pools[g].free = 0
=============================================================================
