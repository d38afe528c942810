----------------------------- MODULE LeechPath ------------------------------
(***************************************************************************)
(* The leech path of one torrent (peer/download.rs, peer/duplex.rs,        *)
(* staging/pool.rs, runtime/hash_worker.rs): peer sessions on their worker *)
(* threads claim pieces, assemble them, hand them to the hash pool and the *)
(* disk worker, and apply the outcomes to the shared HotTorrent, while the *)
(* mutation worker changes file priorities.  A peer session is one task;   *)
(* the steps of two sessions, of the hash and disk threads and of the      *)
(* mutation worker interleave at every lock.                               *)
(*                                                                         *)
(* Abstracted: blocks (a staged piece completes in one step), choking and  *)
(* the remote's bitfield (RemoteHas), the request pipeline, and staging    *)
(* memory, which here only ever refuses a start (StagingPool has it).      *)
(***************************************************************************)
EXTENDS HotTorrent

CONSTANTS
    NoPiece,        \* not a piece index
    Peers,          \* connection slots, each holding one session at a time
    RemoteHas,      \* RemoteHas[p]: the pieces the remote of p offers
    MaxAssembling,  \* max_assembling_pieces
    MaxFaults,      \* bound: corrupt pieces, disk errors, disconnects, refusals
    IdleClosing,    \* useless_peer_idle_secs # 0
    BackendMayDie   \* the disk backend may die with jobs in its queue

ASSUME LeechAssumption ==
    /\ NoPiece \notin Pieces
    /\ RemoteHas \in [Peers -> SUBSET Pieces]
    /\ MaxAssembling \in Nat \ {0}
    /\ MaxFaults \in Nat
    /\ IdleClosing \in BOOLEAN
    /\ BackendMayDie \in BOOLEAN

VARIABLES
    pc,          \* where each session's task stands between two locks
    cur,         \* the piece that step is about
    sawWanted,   \* the wanted bit mark_have read before its write lock
    interested,  \* am_interested: the session leeches
    endgame,     \* PeerDownload.endgame, latched
    hasPool,     \* the session's StagingPool has a freelist
    slot,        \* Slot of each piece in the session's StagingPool
    job,         \* the piece's HashJob / DiskWriteJob / HashOutcome
    held,        \* PeerPieceClaims.held
    written,     \* pieces whose bytes on disk are verified bytes
    orphans,     \* verified jobs whose session has gone
    faults       \* faults so far

peerVars == <<pc, cur, sawWanted, interested, endgame, hasPool, slot, job, held>>
vars == <<hotVars, peerVars, written, orphans, faults>>

PcStates == {"off", "idle", "claim", "abort", "abortRelease", "lookup",
             "release", "wants", "mark", "closing", "closeRelease"}
Resting == {"off", "idle", "closing"}
SlotStates == {"none", "assembling", "hashing"}
JobStages == {"none", "verify", "write", "ok", "hashFail", "writeFail", "lost"}
Job == [st : JobStages, good : BOOLEAN]
NoJob == [st |-> "none", good |-> FALSE]

TypeOK ==
    /\ HotTypeOK
    /\ pc \in [Peers -> PcStates]
    /\ cur \in [Peers -> Pieces \cup {NoPiece}]
    /\ \A p \in Peers : pc[p] \notin Resting => cur[p] \in Pieces
    /\ sawWanted \in [Peers -> BOOLEAN]
    /\ interested \in [Peers -> BOOLEAN]
    /\ endgame \in [Peers -> BOOLEAN]
    /\ hasPool \in [Peers -> BOOLEAN]
    /\ slot \in [Peers -> [Pieces -> SlotStates]]
    /\ job \in [Peers -> [Pieces -> Job]]
    /\ held \in [Peers -> SUBSET Pieces]
    /\ written \subseteq Pieces
    /\ orphans \subseteq Pieces
    /\ faults \in 0..MaxFaults

Init ==
    /\ HotInit
    /\ pc = [p \in Peers |-> "off"]
    /\ cur = [p \in Peers |-> NoPiece]
    /\ sawWanted = [p \in Peers |-> FALSE]
    /\ interested = [p \in Peers |-> FALSE]
    /\ endgame = [p \in Peers |-> FALSE]
    /\ hasPool = [p \in Peers |-> FALSE]
    /\ slot = [p \in Peers |-> [i \in Pieces |-> "none"]]
    /\ job = [p \in Peers |-> [i \in Pieces |-> NoJob]]
    /\ held = [p \in Peers |-> {}]
    /\ written = have
    /\ orphans = {}
    /\ faults = 0

-----------------------------------------------------------------------------
Assembling(p) == {i \in Pieces : slot[p][i] = "assembling"}
Hashing(p) == {i \in Pieces : slot[p][i] = "hashing"}
Working(p) == {i \in Pieces : slot[p][i] # "none"}

\* The task of p stands before step l about piece i; between pieces it is
\* idle, or closing.
At(p, l, i) == pc' = [pc EXCEPT ![p] = l] /\ cur' = [cur EXCEPT ![p] = i]
Goto(p, l) == At(p, l, NoPiece)
SetSlot(p, i, s) == slot' = [slot EXCEPT ![p][i] = s]
SetJob(p, i, st, good) == job' = [job EXCEPT ![p][i] = [st |-> st, good |-> good]]
Fault == faults < MaxFaults /\ faults' = faults + 1

\* dl dropped at the end of reader_loop: the StagingPool first (assembling
\* buffers go back), the claims last; jobs already verified stay queued.
Teardown(p) ==
    /\ slot' = [slot EXCEPT ![p] = [i \in Pieces |-> "none"]]
    /\ job' = [job EXCEPT ![p] = [i \in Pieces |-> NoJob]]
    /\ orphans' = orphans \cup
         {i \in Pieces : job[p][i].good /\ job[p][i].st \in {"verify", "write"}}
    /\ interested' = [interested EXCEPT ![p] = FALSE]
    /\ endgame' = [endgame EXCEPT ![p] = FALSE]
    /\ hasPool' = [hasPool EXCEPT ![p] = FALSE]
    /\ Goto(p, "closing")
    /\ UNCHANGED <<sawWanted, held, written>>

-----------------------------------------------------------------------------
(* Session start, interest and end (run_duplex, reader_loop).              *)

\* A session leeches, and gets the torrent's freelist, when the download is
\* incomplete as it starts.
Connect(p) ==
    /\ pc[p] = "off"
    /\ Goto(p, "idle")
    /\ interested' = [interested EXCEPT ![p] = ~is_download_complete]
    /\ hasPool' = [hasPool EXCEPT ![p] = ~is_download_complete]
    /\ UNCHANGED <<hotVars, sawWanted, endgame, slot, job, held,
                   written, orphans, faults>>

\* Top of the read loop, files enabled again: Interested, endgame unlatched.
\* The StagingPool stays the one the session started with.
ReInterest(p) ==
    /\ pc[p] = "idle"
    /\ ~interested[p] /\ ~is_download_complete
    /\ interested' = [interested EXCEPT ![p] = TRUE]
    /\ endgame' = [endgame EXCEPT ![p] = FALSE]
    /\ UNCHANGED <<hotVars, pc, cur, sawWanted, hasPool, slot, job, held,
                   written, orphans, faults>>

\* Top of the read loop, nothing wanted is missing: Cancel, staging.clear,
\* NotInterested.  Hashing slots and the claims stay.
LeechDone(p) ==
    /\ pc[p] = "idle"
    /\ interested[p] /\ is_download_complete
    /\ interested' = [interested EXCEPT ![p] = FALSE]
    /\ slot' = [slot EXCEPT ![p] = [i \in Pieces |->
                    IF @[i] = "assembling" THEN "none" ELSE @[i]]]
    /\ UNCHANGED <<hotVars, pc, cur, sawWanted, endgame, hasPool, job, held,
                   written, orphans, faults>>

\* reader_inter_socket: latch endgame once.
LatchEndgame(p) ==
    /\ pc[p] = "idle"
    /\ interested[p] /\ ~endgame[p] /\ should_endgame
    /\ endgame' = [endgame EXCEPT ![p] = TRUE]
    /\ UNCHANGED <<hotVars, pc, cur, sawWanted, interested, hasPool, slot, job,
                   held, written, orphans, faults>>

\* EOF, socket or protocol error, stop.
Disconnect(p) ==
    /\ pc[p] = "idle"
    /\ Fault
    /\ Teardown(p)
    /\ UNCHANGED hotVars

\* What the session could still do for the download.
CanStart(p) ==
    /\ interested[p] /\ hasPool[p]
    /\ Cardinality(Assembling(p)) < MaxAssembling
    /\ \E i \in RemoteHas[p] \ Working(p) : Eligible(i, endgame[p])
Useful(p) == CanStart(p) \/ (interested[p] /\ \E i \in Assembling(p) : i \notin have)

\* Seeded fault: any staged piece keeps a useless peer, also a stale one.
IdleCloseUnstaged(p) ==
    /\ IdleClosing
    /\ pc[p] = "idle"
    /\ Working(p) = {} /\ ~Useful(p)
    /\ Teardown(p)
    /\ UNCHANGED <<hotVars, faults>>

\* The useless-peer timer fires only without a transfer for its whole length:
\* nothing hashing, and no block that could have been ingested.
IdleClose(p) ==
    /\ IdleClosing
    /\ pc[p] = "idle"
    /\ Hashing(p) = {} /\ ~Useful(p)
    /\ Teardown(p)
    /\ UNCHANGED <<hotVars, faults>>

\* PeerPieceClaims::drop, one held piece: has_piece, then release_piece_claim.
DropClaim(p) ==
    /\ pc[p] = "closing"
    /\ \E i \in held[p] :
         /\ held' = [held EXCEPT ![p] = @ \ {i}]
         /\ IF i \in have
              THEN UNCHANGED <<pc, cur>>
              ELSE At(p, "closeRelease", i)
    /\ UNCHANGED <<hotVars, sawWanted, interested, endgame, hasPool, slot, job,
                   written, orphans, faults>>

DropClaimRelease(p) ==
    /\ pc[p] = "closeRelease"
    /\ release_piece_claim(cur[p])
    /\ Goto(p, "closing")
    /\ UNCHANGED <<sawWanted, interested, endgame, hasPool, slot, job,
                   held, written, orphans, faults>>

Closed(p) ==
    /\ pc[p] = "closing" /\ held[p] = {}
    /\ Goto(p, "off")
    /\ UNCHANGED <<hotVars, sawWanted, interested, endgame, hasPool, slot, job,
                   held, written, orphans, faults>>

-----------------------------------------------------------------------------
(* Starting a piece (take_requests, start_piece, try_claim).               *)

\* The pick, up to try_claim_piece's has_piece test.
StartPiece(p) ==
    /\ pc[p] = "idle"
    /\ CanStart(p)
    /\ \E i \in RemoteHas[p] \ Working(p) :
         /\ Eligible(i, endgame[p])
         /\ At(p, "claim", i)
    /\ UNCHANGED <<hotVars, sawWanted, interested, endgame, hasPool, slot, job,
                   held, written, orphans, faults>>

\* try_claim_piece under the in_flight lock; outside endgame it refuses a
\* piece that is already reserved.
ClaimRefused(p) ==
    /\ pc[p] = "claim"
    /\ ~ClaimGranted(cur[p], endgame[p])
    /\ Goto(p, "idle")
    /\ UNCHANGED <<hotVars, sawWanted, interested, endgame, hasPool, slot,
                   job, held, written, orphans, faults>>

\* Granted and staged, or granted and then out of staging memory.
ClaimAndStage(p) ==
    /\ pc[p] = "claim"
    /\ ClaimGranted(cur[p], endgame[p])
    /\ AddClaim(cur[p])
    /\ held' = [held EXCEPT ![p] = @ \cup {cur[p]}]
    /\ \/ SetSlot(p, cur[p], "assembling") /\ Goto(p, "idle") /\ UNCHANGED faults
       \/ Fault /\ At(p, "abort", cur[p]) /\ UNCHANGED slot
    /\ UNCHANGED <<sawWanted, interested, endgame, hasPool, job,
                   written, orphans>>

\* Seeded fault: the session forgets the claim and leaves it in in_flight.
AbortStartLeaking(p) ==
    /\ pc[p] = "abort"
    /\ held' = [held EXCEPT ![p] = @ \ {cur[p]}]
    /\ Goto(p, "idle")
    /\ UNCHANGED <<hotVars, sawWanted, interested, endgame, hasPool, slot,
                   job, written, orphans, faults>>

\* abort_start -> PeerPieceClaims::release: forget it, has_piece, then release.
AbortStart(p) ==
    /\ pc[p] = "abort"
    /\ held' = [held EXCEPT ![p] = @ \ {cur[p]}]
    /\ IF cur[p] \in have THEN Goto(p, "idle")
                            ELSE At(p, "abortRelease", cur[p])
    /\ UNCHANGED <<hotVars, sawWanted, interested, endgame, hasPool, slot,
                   job, written, orphans, faults>>

AbortRelease(p) ==
    /\ pc[p] = "abortRelease"
    /\ release_piece_claim(cur[p])
    /\ Goto(p, "idle")
    /\ UNCHANGED <<sawWanted, interested, endgame, hasPool, slot, job, held,
                   written, orphans, faults>>

-----------------------------------------------------------------------------
(* Ingest, hash, write (handle_piece, hash_worker_main, disk worker).      *)

\* The last block of a staged piece: has_piece, ingest, take_for_hash.
PieceComplete(p, i) ==
    /\ pc[p] = "idle" /\ interested[p]
    /\ slot[p][i] = "assembling" /\ i \notin have
    /\ SetSlot(p, i, "hashing")
    /\ At(p, "lookup", i)
    /\ UNCHANGED <<hotVars, sawWanted, interested, endgame, hasPool, job, held,
                   written, orphans, faults>>

\* piece_hash then HashPool::submit; the bytes may be corrupt.
SubmitHash(p) ==
    /\ pc[p] = "lookup" /\ hashes
    /\ \E good \in BOOLEAN :
         /\ SetJob(p, cur[p], "verify", good)
         /\ IF good THEN UNCHANGED faults ELSE Fault
    /\ Goto(p, "idle")
    /\ UNCHANGED <<hotVars, sawWanted, interested, endgame, hasPool, slot,
                   held, written, orphans>>

\* The hash table was dropped since has_piece was tested: the session ends.
HashTableGone(p) ==
    /\ pc[p] = "lookup" /\ ~hashes
    /\ Teardown(p)
    /\ UNCHANGED <<hotVars, faults>>

\* Seeded fault: the piece goes to the disk worker unverified.
HashVerifyTrusting(p, i) ==
    /\ job[p][i].st = "verify"
    /\ SetJob(p, i, "write", job[p][i].good)
    /\ UNCHANGED <<hotVars, pc, cur, sawWanted, interested, endgame, hasPool,
                   slot, held, written, orphans, faults>>

\* handle_verify: SHA-1 decides between the disk worker and a HashFail reply.
HashVerify(p, i) ==
    /\ job[p][i].st = "verify"
    /\ \/ job[p][i].good /\ SetJob(p, i, "write", TRUE)
       \/ ~job[p][i].good /\ SetJob(p, i, "hashFail", FALSE)
    /\ UNCHANGED <<hotVars, pc, cur, sawWanted, interested, endgame, hasPool,
                   slot, held, written, orphans, faults>>

WriteDone(p, i) ==
    /\ job[p][i].st = "write"
    /\ SetJob(p, i, "ok", job[p][i].good)
    /\ written' = IF job[p][i].good THEN written \cup {i} ELSE written \ {i}
    /\ UNCHANGED <<hotVars, pc, cur, sawWanted, interested, endgame, hasPool,
                   slot, held, orphans, faults>>

\* A failed submit or pwrite replies WriteFail; a backend that dies drops its
\* queue, and with it the reply.
WriteFailed(p, i) ==
    /\ job[p][i].st = "write"
    /\ Fault
    /\ \/ SetJob(p, i, "writeFail", job[p][i].good)
       \/ BackendMayDie /\ SetJob(p, i, "lost", job[p][i].good)
    /\ UNCHANGED <<hotVars, pc, cur, sawWanted, interested, endgame, hasPool,
                   slot, held, written, orphans>>

OrphanWrite(i) ==
    /\ i \in orphans
    /\ orphans' = orphans \ {i}
    /\ written' = written \cup {i}
    /\ UNCHANGED <<hotVars, peerVars, faults>>

-----------------------------------------------------------------------------
(* Outcomes (apply_hash_outcome, mark_have).                               *)

Reclaim(p, i) ==
    /\ SetSlot(p, i, "none")
    /\ SetJob(p, i, "none", FALSE)

\* Ok: reclaim the buffer, has_piece, and on into mark_have if it is new.
ApplyOk(p, i) ==
    /\ pc[p] = "idle" /\ job[p][i].st = "ok"
    /\ Reclaim(p, i)
    /\ IF i \in have
         THEN UNCHANGED <<pc, cur>>
         ELSE At(p, "release", i)
    /\ UNCHANGED <<hotVars, sawWanted, interested, endgame, hasPool, held,
                   written, orphans, faults>>

\* HashFail, WriteFail: reclaim and release the torrent's claim.
ApplyFail(p, i) ==
    /\ pc[p] = "idle" /\ job[p][i].st \in {"hashFail", "writeFail"}
    /\ Reclaim(p, i)
    /\ release_piece_claim(i)
    /\ UNCHANGED <<pc, cur, sawWanted, interested, endgame, hasPool, held,
                   written, orphans, faults>>

\* mark_have takes three locks in turn: in_flight, wanted_bf, pieces.
MarkRelease(p) ==
    /\ pc[p] = "release"
    /\ release_piece_claim(cur[p])
    /\ At(p, "wants", cur[p])
    /\ UNCHANGED <<sawWanted, interested, endgame, hasPool, slot, job, held,
                   written, orphans, faults>>

MarkWants(p) ==
    /\ pc[p] = "wants"
    /\ sawWanted' = [sawWanted EXCEPT ![p] = cur[p] \in wanted]
    /\ At(p, "mark", cur[p])
    /\ UNCHANGED <<hotVars, interested, endgame, hasPool, slot, job, held,
                   written, orphans, faults>>

MarkPieces(p) ==
    /\ pc[p] = "mark"
    /\ MarkHave(cur[p], sawWanted[p])
    /\ sawWanted' = [sawWanted EXCEPT ![p] = FALSE]
    /\ Goto(p, "idle")
    /\ UNCHANGED <<interested, endgame, hasPool, slot, job, held,
                   written, orphans, faults>>

-----------------------------------------------------------------------------
PeerStep(p) ==
    \/ Connect(p) \/ ReInterest(p) \/ LeechDone(p) \/ LatchEndgame(p)
    \/ Disconnect(p) \/ IdleClose(p)
    \/ DropClaim(p) \/ DropClaimRelease(p) \/ Closed(p)
    \/ StartPiece(p) \/ ClaimRefused(p) \/ ClaimAndStage(p)
    \/ AbortStart(p) \/ AbortRelease(p)
    \/ \E i \in Pieces : PieceComplete(p, i)
    \/ SubmitHash(p) \/ HashTableGone(p)
    \/ \E i \in Pieces : ApplyOk(p, i) \/ ApplyFail(p, i)
    \/ MarkRelease(p) \/ MarkWants(p) \/ MarkPieces(p)

WorkerStep(p) ==
    \E i \in Pieces : HashVerify(p, i) \/ WriteDone(p, i) \/ WriteFailed(p, i)

Next ==
    \/ \E p \in Peers : PeerStep(p) \/ WorkerStep(p)
    \/ \E i \in Pieces : OrphanWrite(i)
    \/ RebuildNext /\ UNCHANGED <<peerVars, written, orphans, faults>>

Spec == Init /\ [][Next]_vars

(***************************************************************************)
(* Fairness.  A session's task, the hash threads, the disk backend and the *)
(* mutation worker each take the step they stand before; a remote that     *)
(* offers a piece eventually delivers it; the dial loop reopens a free     *)
(* connection slot.  Nothing makes a disconnect, a corrupt piece, a        *)
(* refusal of staging memory or a disk error happen.                       *)
(***************************************************************************)
Fairness ==
    /\ \A p \in Peers :
         /\ WF_vars(Connect(p)) /\ WF_vars(ReInterest(p)) /\ WF_vars(LeechDone(p))
         /\ WF_vars(LatchEndgame(p)) /\ WF_vars(IdleClose(p))
         /\ WF_vars(DropClaim(p) \/ DropClaimRelease(p) \/ Closed(p))
         /\ WF_vars(StartPiece(p))
         /\ WF_vars(ClaimRefused(p) \/ ClaimAndStage(p))
         /\ WF_vars(AbortStart(p) \/ AbortRelease(p))
         /\ WF_vars(SubmitHash(p) \/ HashTableGone(p))
         /\ WF_vars(MarkRelease(p) \/ MarkWants(p) \/ MarkPieces(p))
         /\ \A i \in Pieces :
              /\ WF_vars(PieceComplete(p, i))
              /\ WF_vars(ApplyOk(p, i)) /\ WF_vars(ApplyFail(p, i))
              /\ WF_vars(HashVerify(p, i)) /\ WF_vars(WriteDone(p, i))
    /\ WF_vars(StoreWanted /\ UNCHANGED <<peerVars, written, orphans, faults>>)
    /\ WF_vars(StoreMissing /\ UNCHANGED <<peerVars, written, orphans, faults>>)

FairSpec == Spec /\ Fairness

-----------------------------------------------------------------------------
(* Properties.                                                             *)

\* Verify, then write, then have: a piece is announced and served only when
\* its verified bytes are on disk (handle_verify, apply_hash_outcome), whatever
\* fails and whoever else downloads the same piece.
HaveIsOnDisk == have \subseteq written

\* p will give its reservation of i back when it ends (PeerPieceClaims::drop).
Owns(p, i) == i \in held[p] \/ (cur[p] = i /\ pc[p] \in {"abortRelease", "closeRelease"})

\* A reservation of a piece we lack always has a session that will give it
\* back (PeerPieceClaims): a leaked one would keep every session off the piece
\* until endgame.
NoOrphanClaim == \A i \in inFlight \ have : \E p \in Peers : Owns(p, i)

\* A session that ends because the hash table went between its has_piece test
\* and its lookup (handle_piece, drop_piece_hashes_if_complete) loses nothing:
\* each piece it has staged or in hash is on disk already, by another session.
NothingLostToTheDrop ==
    \A p \in Peers : pc[p] = "lookup" /\ ~hashes => Working(p) \subseteq written

\* have.rs:62: "Free multi-MB hash blob once we no longer need to verify
\* downloads"; no session stands before a lookup then.
DropsUnneededHashes == ~hashes => \A p \in Peers : pc[p] # "lookup"

\* Until priorities change, the O(1) counter that stops the leech is exact
\* under any interleaving of mark_have calls.
MissingExactUntilReprioritised ==
    prioLeft = MaxPrio => missing = Cardinality(wanted \ have)

\* No thread is inside an operation on the shared aggregate.
Quiet == rebuild.pc = "idle" /\ \A p \in Peers : pc[p] \in {"off", "idle"}

\* hot.rs:6: in_flight claims keep two sessions off one piece until endgame,
\* that is while the torrent is not in endgame and neither session has latched it.
ExclusiveOutsideEndgame ==
    ~should_endgame =>
        \A p, q \in Peers :
            p # q /\ ~endgame[p] /\ ~endgame[q]
                => Working(p) \cap Working(q) \subseteq have

\* hot.rs:90: a reserved piece is one we do not have yet.
ReservedIsMissing == Quiet => inFlight \cap have = {}

\* have.rs:173: a fully complete torrent has stored 0 in download_missing.
CompleteStoresZero == Quiet /\ complete => missing = 0

\* pieces.rs:122: is_download_complete means that all wanted pieces are present.
DownloadCompleteMeansAllWanted == Quiet /\ is_download_complete => wanted \subseteq have

\* With a source for every piece and finitely many faults the wanted set
\* arrives and every session leaves leech mode: endgame must break exclusive
\* claims that wait, idle close must free sessions whose slots hold pieces that
\* another session finished.
DownloadEnds == <>[](wanted \subseteq have /\ \A p \in Peers : ~interested[p])
=============================================================================
