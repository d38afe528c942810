--------------------------- MODULE LeechPathProofs ---------------------------
(***************************************************************************)
(* TLAPS proofs about LeechPath, for every value of its constants: any     *)
(* number of sessions and pieces, any file priorities, any fault budget.   *)
(*                                                                         *)
(* Each invariant has a step lemma (one step per action of Next) and a     *)
(* theorem that closes it over Spec.  Two invariants are not inductive by  *)
(* themselves: DiskInv follows a piece through hash, write and mark_have,  *)
(* CountInv remembers what mark_have read before its write lock.           *)
(***************************************************************************)
EXTENDS LeechPath, FiniteSetTheorems, TLAPS

\* The part of TypeOK about where each session's task stands.
AtOK ==
    /\ pc \in [Peers -> PcStates]
    /\ cur \in [Peers -> Pieces \cup {NoPiece}]
    /\ \A p \in Peers : pc[p] \notin Resting => cur[p] \in Pieces

\* Moving a session's task from one lock of the source to the next keeps its
\* position well formed.
LEMMA AtType ==
  ASSUME TypeOK, NEW p \in Peers, NEW l \in PcStates,
         NEW i \in Pieces \cup {NoPiece}, l \in Resting \/ i \in Pieces, At(p, l, i)
  PROVE  AtOK'
BY DEF TypeOK, At, AtOK

\* A stage change by a hash or disk thread keeps the job well formed.
LEMMA SetJobType ==
  ASSUME TypeOK, NEW p \in Peers, NEW i \in Pieces, NEW st \in JobStages,
         NEW g \in BOOLEAN, SetJob(p, i, st, g)
  PROVE  job' \in [Peers -> [Pieces -> Job]]
BY DEF TypeOK, SetJob, Job

\* What a hash or disk thread does to one job, it does to that job only
\* (handle_verify, complete_write_job).
LEMMA SetJobEffect ==
  ASSUME TypeOK, NEW p \in Peers, NEW i \in Pieces, NEW st \in JobStages,
         NEW g \in BOOLEAN, SetJob(p, i, st, g)
  PROVE  /\ job'[p][i].st = st /\ (job'[p][i].good = TRUE <=> g = TRUE)
         /\ \A q \in Peers, j \in Pieces : (q = p /\ j = i) \/ job'[q][j] = job[q][j]
<1>1. job'[p][i] = [st |-> st, good |-> g]
  BY DEF TypeOK, SetJob
<1>2. \A q \in Peers, j \in Pieces : (q = p /\ j = i) \/ job'[q][j] = job[q][j]
  BY DEF TypeOK, SetJob
<1>3. QED
  BY <1>1, <1>2

\* Taking or emptying a staging slot (try_start, take_for_hash, reclaim) keeps
\* the slots well formed.
LEMMA SetSlotType ==
  ASSUME TypeOK, NEW p \in Peers, NEW i \in Pieces, NEW s \in SlotStates, SetSlot(p, i, s)
  PROVE  slot' \in [Peers -> [Pieces -> SlotStates]]
BY DEF TypeOK, SetSlot

\* Taking one member off a finite set lowers its cardinality by one (the decrement of
\* mark_have against the set it counts).
LEMMA RemoveOne ==
  ASSUME NEW S, NEW x, IsFiniteSet(S), x \in S
  PROVE  IsFiniteSet(S \ {x}) /\ Cardinality(S \ {x}) = Cardinality(S) - 1
BY FS_RemoveElement

\* Every field keeps its shape under every step of every thread.
THEOREM TypeCorrect == Spec => []TypeOK
<1>1. Init => TypeOK
  <2>1. SUFFICES ASSUME Init PROVE TypeOK
    OBVIOUS
  <2>2. IsFiniteSet(wanted \ have) /\ Cardinality(wanted \ have) \in Nat
    BY <2>1, HotAssumption, FS_Subset, FS_CardinalityType DEF Init, HotInit
  <2>3. QED
    <3>1. HotTypeOK
      BY <2>1, <2>2, HotAssumption DEF Init, HotInit, HotTypeOK, complete, RebuildIdle
    <3>2. job \in [Peers -> [Pieces -> Job]]
      BY <2>1 DEF Init, NoJob, Job, JobStages
    <3>3. QED
      BY <2>1, <3>1, <3>2, HotAssumption, LeechAssumption
      DEF Init, HotInit, TypeOK, PcStates, Resting, SlotStates
<1>2. TypeOK /\ [Next]_vars => TypeOK'
  <2> SUFFICES ASSUME TypeOK, [Next]_vars PROVE TypeOK'
    OBVIOUS
  <2> USE HotAssumption, LeechAssumption
  <2>1. ASSUME NEW p \in Peers, Connect(p) PROVE TypeOK'
    BY <2>1 DEF Connect, Goto, At, is_download_complete, TypeOK, HotTypeOK, PcStates, Resting, SlotStates, JobStages, Job, NoJob, vars, hotVars, peerVars
  <2>2. ASSUME NEW p \in Peers, ReInterest(p) PROVE TypeOK'
    BY <2>2 DEF ReInterest, TypeOK, HotTypeOK, PcStates, Resting, SlotStates, JobStages, Job, NoJob, vars, hotVars, peerVars
  <2>3. ASSUME NEW p \in Peers, LeechDone(p) PROVE TypeOK'
    BY <2>3 DEF LeechDone, TypeOK, HotTypeOK, PcStates, Resting, SlotStates, JobStages, Job, NoJob, vars, hotVars, peerVars
  <2>4. ASSUME NEW p \in Peers, LatchEndgame(p) PROVE TypeOK'
    BY <2>4 DEF LatchEndgame, TypeOK, HotTypeOK, PcStates, Resting, SlotStates, JobStages, Job, NoJob, vars, hotVars, peerVars
  <2>5. ASSUME NEW p \in Peers, Disconnect(p) PROVE TypeOK'
    BY <2>5 DEF Disconnect, Teardown, Goto, At, Fault, TypeOK, HotTypeOK, PcStates, Resting, SlotStates, JobStages, Job, NoJob, vars, hotVars, peerVars
  <2>6. ASSUME NEW p \in Peers, IdleClose(p) PROVE TypeOK'
    BY <2>6 DEF IdleClose, Teardown, Goto, At, TypeOK, HotTypeOK, PcStates, Resting, SlotStates, JobStages, Job, NoJob, vars, hotVars, peerVars
  <2>7. ASSUME NEW p \in Peers, DropClaim(p) PROVE TypeOK'
    <3>1. PICK i \in held[p] :
            /\ held' = [held EXCEPT ![p] = @ \ {i}]
            /\ IF i \in have THEN UNCHANGED <<pc, cur>> ELSE At(p, "closeRelease", i)
      BY <2>7 DEF DropClaim
    <3>2. i \in Pieces /\ held' \in [Peers -> SUBSET Pieces]
      BY <3>1 DEF TypeOK
    <3>3. AtOK'
      BY <3>1, <3>2, AtType DEF TypeOK, PcStates, AtOK
    <3>4. QED
      BY <2>7, <3>2, <3>3 DEF DropClaim, TypeOK, AtOK, HotTypeOK, SlotStates, vars, hotVars, peerVars
  <2>8. ASSUME NEW p \in Peers, DropClaimRelease(p) PROVE TypeOK'
    BY <2>8 DEF DropClaimRelease, release_piece_claim, Goto, At, TypeOK, HotTypeOK, PcStates, Resting, SlotStates, JobStages, Job, NoJob, vars, hotVars, peerVars
  <2>9. ASSUME NEW p \in Peers, Closed(p) PROVE TypeOK'
    BY <2>9 DEF Closed, Goto, At, TypeOK, HotTypeOK, PcStates, Resting, SlotStates, JobStages, Job, NoJob, vars, hotVars, peerVars
  <2>10. ASSUME NEW p \in Peers, StartPiece(p) PROVE TypeOK'
    BY <2>10 DEF StartPiece, At, TypeOK, HotTypeOK, PcStates, Resting, SlotStates, JobStages, Job, NoJob, vars, hotVars, peerVars
  <2>11. ASSUME NEW p \in Peers, ClaimRefused(p) PROVE TypeOK'
    BY <2>11 DEF ClaimRefused, Goto, At, TypeOK, HotTypeOK, PcStates, Resting, SlotStates, JobStages, Job, NoJob, vars, hotVars, peerVars
  <2>12. ASSUME NEW p \in Peers, ClaimAndStage(p) PROVE TypeOK'
    <3>1. cur[p] \in Pieces
      BY <2>12 DEF TypeOK, ClaimAndStage, Resting
    <3>2. AtOK'
      BY <2>12, <3>1, AtType DEF ClaimAndStage, Goto, PcStates, Resting
    <3>3. held' \in [Peers -> SUBSET Pieces] /\ inFlight' \subseteq Pieces
      BY <2>12, <3>1 DEF ClaimAndStage, AddClaim, TypeOK, HotTypeOK
    <3>4. slot' \in [Peers -> [Pieces -> SlotStates]]
      BY <2>12, <3>1, SetSlotType DEF ClaimAndStage, SlotStates, TypeOK
    <3>5. faults' \in 0..MaxFaults
      BY <2>12 DEF ClaimAndStage, Fault, TypeOK
    <3>6. QED
      BY <2>12, <3>2, <3>3, <3>4, <3>5 DEF ClaimAndStage, AddClaim, TypeOK, AtOK, HotTypeOK, SlotStates, vars, hotVars, peerVars
  <2>13. ASSUME NEW p \in Peers, AbortStart(p) PROVE TypeOK'
    <3>1. cur[p] \in Pieces
      BY <2>13 DEF TypeOK, AbortStart, Resting
    <3>2. AtOK'
      BY <2>13, <3>1, AtType DEF AbortStart, Goto, PcStates, Resting
    <3>3. held' \in [Peers -> SUBSET Pieces]
      BY <2>13 DEF AbortStart, TypeOK
    <3>4. QED
      BY <2>13, <3>2, <3>3 DEF AbortStart, TypeOK, AtOK, HotTypeOK, SlotStates, vars, hotVars, peerVars
  <2>14. ASSUME NEW p \in Peers, AbortRelease(p) PROVE TypeOK'
    BY <2>14 DEF AbortRelease, release_piece_claim, Goto, At, TypeOK, HotTypeOK, PcStates, Resting, SlotStates, JobStages, Job, NoJob, vars, hotVars, peerVars
  <2>15. ASSUME NEW p \in Peers, SubmitHash(p) PROVE TypeOK'
    <3>1. cur[p] \in Pieces
      BY <2>15 DEF TypeOK, SubmitHash, Resting
    <3>2. PICK good \in BOOLEAN : /\ SetJob(p, cur[p], "verify", good)
                                  /\ IF good THEN UNCHANGED faults ELSE Fault
      BY <2>15 DEF SubmitHash
    <3>3. job' \in [Peers -> [Pieces -> Job]]
      BY <3>1, <3>2, SetJobType DEF JobStages
    <3>4. AtOK'
      BY <2>15, AtType DEF SubmitHash, Goto, PcStates, Resting
    <3>5. faults' \in 0..MaxFaults
      BY <3>2 DEF Fault, TypeOK
    <3>6. QED
      BY <2>15, <3>3, <3>4, <3>5 DEF SubmitHash, TypeOK, AtOK, HotTypeOK, SlotStates, vars, hotVars, peerVars
  <2>16. ASSUME NEW p \in Peers, HashTableGone(p) PROVE TypeOK'
    BY <2>16 DEF HashTableGone, Teardown, Goto, At, TypeOK, HotTypeOK, PcStates, Resting, SlotStates, JobStages, Job, NoJob, vars, hotVars, peerVars
  <2>17. ASSUME NEW p \in Peers, MarkRelease(p) PROVE TypeOK'
    BY <2>17 DEF MarkRelease, release_piece_claim, At, TypeOK, HotTypeOK, PcStates, Resting, SlotStates, JobStages, Job, NoJob, vars, hotVars, peerVars
  <2>18. ASSUME NEW p \in Peers, MarkWants(p) PROVE TypeOK'
    BY <2>18 DEF MarkWants, At, TypeOK, HotTypeOK, PcStates, Resting, SlotStates, JobStages, Job, NoJob, vars, hotVars, peerVars
  <2>19. ASSUME NEW p \in Peers, MarkPieces(p) PROVE TypeOK'
    <3>1. cur[p] \in Pieces
      BY <2>19 DEF TypeOK, MarkPieces, Resting
    <3>2. AtOK'
      BY <2>19, AtType DEF MarkPieces, Goto, PcStates, Resting
    <3>3. have' \subseteq Pieces /\ missing' \in Nat
      BY <2>19, <3>1 DEF MarkPieces, MarkHave, TypeOK, HotTypeOK
    <3>4. hashes' \in BOOLEAN
      BY <2>19 DEF MarkPieces, MarkHave, TypeOK, HotTypeOK
    <3>5. sawWanted' \in [Peers -> BOOLEAN]
      BY <2>19 DEF MarkPieces, TypeOK
    <3>6. QED
      BY <2>19, <3>2, <3>3, <3>4, <3>5 DEF MarkPieces, MarkHave, TypeOK, AtOK, HotTypeOK, SlotStates, vars, hotVars, peerVars
  <2>20. ASSUME NEW p \in Peers, NEW i \in Pieces, PieceComplete(p, i) PROVE TypeOK'
    BY <2>20 DEF PieceComplete, SetSlot, At, TypeOK, HotTypeOK, PcStates, Resting, SlotStates, JobStages, Job, NoJob, vars, hotVars, peerVars
  <2>21. ASSUME NEW p \in Peers, NEW i \in Pieces, ApplyOk(p, i) PROVE TypeOK'
    <3>1. slot' \in [Peers -> [Pieces -> SlotStates]]
      BY <2>21, SetSlotType DEF ApplyOk, Reclaim, SlotStates
    <3>2. job' \in [Peers -> [Pieces -> Job]]
      BY <2>21, SetJobType DEF ApplyOk, Reclaim, JobStages
    <3>3. AtOK'
      BY <2>21, AtType DEF ApplyOk, PcStates, TypeOK, AtOK
    <3>4. QED
      BY <2>21, <3>1, <3>2, <3>3 DEF ApplyOk, TypeOK, AtOK, HotTypeOK, SlotStates, vars, hotVars, peerVars
  <2>22. ASSUME NEW p \in Peers, NEW i \in Pieces, ApplyFail(p, i) PROVE TypeOK'
    BY <2>22 DEF ApplyFail, Reclaim, SetSlot, SetJob, release_piece_claim, TypeOK, HotTypeOK, PcStates, Resting, SlotStates, JobStages, Job, NoJob, vars, hotVars, peerVars
  <2>23. ASSUME NEW p \in Peers, NEW i \in Pieces, HashVerify(p, i) PROVE TypeOK'
    <3>1. job[p][i].good \in BOOLEAN
      BY DEF TypeOK, Job
    <3>2. job' \in [Peers -> [Pieces -> Job]]
      BY <2>23, <3>1, SetJobType DEF HashVerify, JobStages
    <3>3. QED
      BY <2>23, <3>2 DEF HashVerify, TypeOK, AtOK, HotTypeOK, SlotStates, vars, hotVars, peerVars
  <2>24. ASSUME NEW p \in Peers, NEW i \in Pieces, WriteDone(p, i) PROVE TypeOK'
    <3>1. job[p][i].good \in BOOLEAN
      BY DEF TypeOK, Job
    <3>2. job' \in [Peers -> [Pieces -> Job]]
      BY <2>24, <3>1, SetJobType DEF WriteDone, JobStages
    <3>3. QED
      BY <2>24, <3>2 DEF WriteDone, TypeOK, AtOK, HotTypeOK, SlotStates, vars, hotVars, peerVars
  <2>25. ASSUME NEW p \in Peers, NEW i \in Pieces, WriteFailed(p, i) PROVE TypeOK'
    <3>1. job[p][i].good \in BOOLEAN
      BY DEF TypeOK, Job
    <3>2. job' \in [Peers -> [Pieces -> Job]]
      BY <2>25, <3>1, SetJobType DEF WriteFailed, JobStages
    <3>3. QED
      BY <2>25, <3>2 DEF WriteFailed, Fault, TypeOK, AtOK, HotTypeOK, SlotStates, vars, hotVars, peerVars
  <2>26. ASSUME NEW i \in Pieces, OrphanWrite(i) PROVE TypeOK'
    BY <2>26 DEF OrphanWrite, TypeOK, HotTypeOK, PcStates, Resting, SlotStates, JobStages, Job, NoJob, vars, hotVars, peerVars
  <2>27. ASSUME NEW W \in WantedSets, SetFilePriority(W), UNCHANGED <<peerVars, written, orphans, faults>> PROVE TypeOK'
    <3>1. IsFiniteSet(W \ have) /\ Cardinality(W \ have) \in Nat
      BY FS_Subset, FS_CardinalityType DEF TypeOK, HotTypeOK
    <3>2. QED
      BY <3>1, <2>27 DEF SetFilePriority, complete, TypeOK, HotTypeOK, PcStates, Resting, SlotStates, JobStages, Job, NoJob, vars, hotVars, peerVars
  <2>28. ASSUME StoreWanted, UNCHANGED <<peerVars, written, orphans, faults>> PROVE TypeOK'
    BY <2>28 DEF StoreWanted, TypeOK, HotTypeOK, PcStates, Resting, SlotStates, JobStages, Job, NoJob, vars, hotVars, peerVars
  <2>29. ASSUME StoreMissing, UNCHANGED <<peerVars, written, orphans, faults>> PROVE TypeOK'
    BY <2>29 DEF StoreMissing, RebuildIdle, TypeOK, HotTypeOK, PcStates, Resting, SlotStates, JobStages, Job, NoJob, vars, hotVars, peerVars
  <2>30. CASE UNCHANGED vars
    BY <2>30 DEF TypeOK, HotTypeOK, PcStates, Resting, SlotStates, JobStages, Job, NoJob, vars, hotVars, peerVars
  <2>31. QED
    BY <2>1, <2>2, <2>3, <2>4, <2>5, <2>6, <2>7, <2>8, <2>9, <2>10, <2>11, <2>12, <2>13, <2>14, <2>15, <2>16, <2>17, <2>18, <2>19, <2>20, <2>21, <2>22, <2>23, <2>24, <2>25, <2>26, <2>27, <2>28, <2>29, <2>30 DEF Next, PeerStep, WorkerStep, RebuildNext
<1>3. QED
  BY <1>1, <1>2, PTL DEF Spec

-----------------------------------------------------------------------------
\* HaveIsOnDisk strengthened along the way of a piece: good bytes reach the disk
\* worker, a written job and a session inside mark_have are about written pieces.
DiskInv ==
    /\ HaveIsOnDisk
    /\ \A p \in Peers : pc[p] \in {"release", "wants", "mark"} => cur[p] \in written
    /\ \A p \in Peers, i \in Pieces : job[p][i].st = "ok" => i \in written
    /\ \A p \in Peers, i \in Pieces : job[p][i].st = "write" => job[p][i].good = TRUE

-----------------------------------------------------------------------------
\* Only verified bytes are written (handle_verify), only written pieces are
\* marked (apply_hash_outcome): DiskInv is inductive.
LEMMA DiskInvStep == TypeOK /\ DiskInv /\ [Next]_vars => DiskInv'
  <2> SUFFICES ASSUME TypeOK, DiskInv, [Next]_vars PROVE DiskInv'
    OBVIOUS
  <2>1. ASSUME NEW p \in Peers, Connect(p) PROVE DiskInv'
    BY <2>1 DEF Connect, Goto, At, is_download_complete, DiskInv, HaveIsOnDisk, TypeOK, HotTypeOK, Job, vars, hotVars, peerVars
  <2>2. ASSUME NEW p \in Peers, ReInterest(p) PROVE DiskInv'
    BY <2>2 DEF ReInterest, DiskInv, HaveIsOnDisk, TypeOK, HotTypeOK, Job, vars, hotVars, peerVars
  <2>3. ASSUME NEW p \in Peers, LeechDone(p) PROVE DiskInv'
    BY <2>3 DEF LeechDone, DiskInv, HaveIsOnDisk, TypeOK, HotTypeOK, Job, vars, hotVars, peerVars
  <2>4. ASSUME NEW p \in Peers, LatchEndgame(p) PROVE DiskInv'
    BY <2>4 DEF LatchEndgame, DiskInv, HaveIsOnDisk, TypeOK, HotTypeOK, Job, vars, hotVars, peerVars
  <2>5. ASSUME NEW p \in Peers, Disconnect(p) PROVE DiskInv'
    <3>1. \A q \in Peers, j \in Pieces : job'[q][j] = IF q = p THEN NoJob ELSE job[q][j]
      BY <2>5 DEF Disconnect, Teardown, TypeOK
    <3>2. pc' = [pc EXCEPT ![p] = "closing"] /\ cur' = [cur EXCEPT ![p] = NoPiece]
      BY <2>5 DEF Disconnect, Teardown, Goto, At
    <3>3. UNCHANGED <<have, written>>
      BY <2>5 DEF Disconnect, Teardown, hotVars
    <3>4. \A q \in Peers : pc'[q] \in {"release", "wants", "mark"} => cur'[q] \in written'
      BY <3>2, <3>3 DEF DiskInv, TypeOK
    <3>5. QED
      BY <3>1, <3>3, <3>4 DEF DiskInv, HaveIsOnDisk, NoJob
  <2>6. ASSUME NEW p \in Peers, IdleClose(p) PROVE DiskInv'
    <3>1. \A q \in Peers, j \in Pieces : job'[q][j] = IF q = p THEN NoJob ELSE job[q][j]
      BY <2>6 DEF IdleClose, Teardown, TypeOK
    <3>2. pc' = [pc EXCEPT ![p] = "closing"] /\ cur' = [cur EXCEPT ![p] = NoPiece]
      BY <2>6 DEF IdleClose, Teardown, Goto, At
    <3>3. UNCHANGED <<have, written>>
      BY <2>6 DEF IdleClose, Teardown, hotVars
    <3>4. \A q \in Peers : pc'[q] \in {"release", "wants", "mark"} => cur'[q] \in written'
      BY <3>2, <3>3 DEF DiskInv, TypeOK
    <3>5. QED
      BY <3>1, <3>3, <3>4 DEF DiskInv, HaveIsOnDisk, NoJob
  <2>7. ASSUME NEW p \in Peers, DropClaim(p) PROVE DiskInv'
    BY ZenonT(60), <2>7 DEF DropClaim, At, DiskInv, HaveIsOnDisk, TypeOK, HotTypeOK, Job, vars, hotVars, peerVars
  <2>8. ASSUME NEW p \in Peers, DropClaimRelease(p) PROVE DiskInv'
    BY <2>8 DEF DropClaimRelease, release_piece_claim, Goto, At, DiskInv, HaveIsOnDisk, TypeOK, HotTypeOK, Job, vars, hotVars, peerVars
  <2>9. ASSUME NEW p \in Peers, Closed(p) PROVE DiskInv'
    BY <2>9 DEF Closed, Goto, At, DiskInv, HaveIsOnDisk, TypeOK, HotTypeOK, Job, vars, hotVars, peerVars
  <2>10. ASSUME NEW p \in Peers, StartPiece(p) PROVE DiskInv'
    BY <2>10 DEF StartPiece, At, DiskInv, HaveIsOnDisk, TypeOK, HotTypeOK, Job, vars, hotVars, peerVars
  <2>11. ASSUME NEW p \in Peers, ClaimRefused(p) PROVE DiskInv'
    BY <2>11 DEF ClaimRefused, Goto, At, DiskInv, HaveIsOnDisk, TypeOK, HotTypeOK, Job, vars, hotVars, peerVars
  <2>12. ASSUME NEW p \in Peers, ClaimAndStage(p) PROVE DiskInv'
    BY <2>12 DEF ClaimAndStage, AddClaim, SetSlot, Goto, At, Fault, DiskInv, HaveIsOnDisk, TypeOK, HotTypeOK, Job, vars, hotVars, peerVars
  <2>13. ASSUME NEW p \in Peers, AbortStart(p) PROVE DiskInv'
    <3>1. UNCHANGED <<have, written, job>>
      BY <2>13 DEF AbortStart, hotVars
    <3>2. \A q \in Peers : (pc'[q] = pc[q] /\ cur'[q] = cur[q]) \/ pc'[q] \in {"idle", "abortRelease"}
      BY <2>13 DEF AbortStart, Goto, At, TypeOK
    <3>3. QED
      BY <3>1, <3>2 DEF DiskInv, HaveIsOnDisk
  <2>14. ASSUME NEW p \in Peers, AbortRelease(p) PROVE DiskInv'
    BY <2>14 DEF AbortRelease, release_piece_claim, Goto, At, DiskInv, HaveIsOnDisk, TypeOK, HotTypeOK, Job, vars, hotVars, peerVars
  <2>15. ASSUME NEW p \in Peers, SubmitHash(p) PROVE DiskInv'
    BY <2>15 DEF SubmitHash, SetJob, Goto, At, Fault, DiskInv, HaveIsOnDisk, TypeOK, HotTypeOK, Job, vars, hotVars, peerVars
  <2>16. ASSUME NEW p \in Peers, HashTableGone(p) PROVE DiskInv'
    <3>1. \A q \in Peers, j \in Pieces : job'[q][j] = IF q = p THEN NoJob ELSE job[q][j]
      BY <2>16 DEF HashTableGone, Teardown, TypeOK
    <3>2. pc' = [pc EXCEPT ![p] = "closing"] /\ cur' = [cur EXCEPT ![p] = NoPiece]
      BY <2>16 DEF HashTableGone, Teardown, Goto, At
    <3>3. UNCHANGED <<have, written>>
      BY <2>16 DEF HashTableGone, Teardown, hotVars
    <3>4. \A q \in Peers : pc'[q] \in {"release", "wants", "mark"} => cur'[q] \in written'
      BY <3>2, <3>3 DEF DiskInv, TypeOK
    <3>5. QED
      BY <3>1, <3>3, <3>4 DEF DiskInv, HaveIsOnDisk, NoJob
  <2>17. ASSUME NEW p \in Peers, MarkRelease(p) PROVE DiskInv'
    BY <2>17 DEF MarkRelease, release_piece_claim, At, DiskInv, HaveIsOnDisk, TypeOK, HotTypeOK, Job, vars, hotVars, peerVars
  <2>18. ASSUME NEW p \in Peers, MarkWants(p) PROVE DiskInv'
    BY <2>18 DEF MarkWants, At, DiskInv, HaveIsOnDisk, TypeOK, HotTypeOK, Job, vars, hotVars, peerVars
  <2>19. ASSUME NEW p \in Peers, MarkPieces(p) PROVE DiskInv'
    BY <2>19 DEF MarkPieces, MarkHave, Goto, At, DiskInv, HaveIsOnDisk, TypeOK, HotTypeOK, Job, vars, hotVars, peerVars
  <2>20. ASSUME NEW p \in Peers, NEW i \in Pieces, PieceComplete(p, i) PROVE DiskInv'
    BY <2>20 DEF PieceComplete, SetSlot, At, DiskInv, HaveIsOnDisk, TypeOK, HotTypeOK, Job, vars, hotVars, peerVars
  <2>21. ASSUME NEW p \in Peers, NEW i \in Pieces, ApplyOk(p, i) PROVE DiskInv'
    BY <2>21 DEF ApplyOk, Reclaim, SetSlot, SetJob, Goto, At, DiskInv, HaveIsOnDisk, TypeOK, HotTypeOK, Job, vars, hotVars, peerVars
  <2>22. ASSUME NEW p \in Peers, NEW i \in Pieces, ApplyFail(p, i) PROVE DiskInv'
    BY <2>22 DEF ApplyFail, Reclaim, SetSlot, SetJob, release_piece_claim, DiskInv, HaveIsOnDisk, TypeOK, HotTypeOK, Job, vars, hotVars, peerVars
  <2>23. ASSUME NEW p \in Peers, NEW i \in Pieces, HashVerify(p, i) PROVE DiskInv'
    <3>1. CASE job[p][i].good /\ SetJob(p, i, "write", TRUE)
      <4>1. job[p][i].good \in BOOLEAN /\ "write" \in JobStages
        BY DEF TypeOK, Job, JobStages
      <4>2. /\ job'[p][i].st = "write" /\ (job'[p][i].good = TRUE <=> TRUE = TRUE)
            /\ \A q \in Peers, j \in Pieces : (q = p /\ j = i) \/ job'[q][j] = job[q][j]
        BY <3>1, <4>1, SetJobEffect
      <4>3. QED
        BY <2>23, <3>1, <4>1, <4>2 DEF HashVerify, DiskInv, HaveIsOnDisk, vars, hotVars, peerVars
    <3>2. CASE ~job[p][i].good /\ SetJob(p, i, "hashFail", FALSE)
      <4>1. job[p][i].good \in BOOLEAN /\ "hashFail" \in JobStages
        BY DEF TypeOK, Job, JobStages
      <4>2. /\ job'[p][i].st = "hashFail" /\ (job'[p][i].good = TRUE <=> FALSE = TRUE)
            /\ \A q \in Peers, j \in Pieces : (q = p /\ j = i) \/ job'[q][j] = job[q][j]
        BY <3>2, <4>1, SetJobEffect
      <4>3. QED
        BY <2>23, <3>2, <4>1, <4>2 DEF HashVerify, DiskInv, HaveIsOnDisk, vars, hotVars, peerVars
    <3>3. QED
      BY <2>23, <3>1, <3>2 DEF HashVerify
  <2>24. ASSUME NEW p \in Peers, NEW i \in Pieces, WriteDone(p, i) PROVE DiskInv'
    BY <2>24 DEF WriteDone, SetJob, DiskInv, HaveIsOnDisk, TypeOK, HotTypeOK, Job, vars, hotVars, peerVars
  <2>25. ASSUME NEW p \in Peers, NEW i \in Pieces, WriteFailed(p, i) PROVE DiskInv'
    <3>1. /\ job'[p][i].st \in {"writeFail", "lost"}
          /\ \A q \in Peers, j \in Pieces : (q = p /\ j = i) \/ job'[q][j] = job[q][j]
      BY <2>25 DEF WriteFailed, SetJob, TypeOK
    <3>2. QED
      BY <2>25, <3>1 DEF WriteFailed, DiskInv, HaveIsOnDisk, vars, hotVars, peerVars
  <2>26. ASSUME NEW i \in Pieces, OrphanWrite(i) PROVE DiskInv'
    BY <2>26 DEF OrphanWrite, DiskInv, HaveIsOnDisk, TypeOK, HotTypeOK, Job, vars, hotVars, peerVars
  <2>27. ASSUME NEW W \in WantedSets, SetFilePriority(W), UNCHANGED <<peerVars, written, orphans, faults>> PROVE DiskInv'
    BY <2>27 DEF SetFilePriority, complete, DiskInv, HaveIsOnDisk, TypeOK, HotTypeOK, Job, vars, hotVars, peerVars
  <2>28. ASSUME StoreWanted, UNCHANGED <<peerVars, written, orphans, faults>> PROVE DiskInv'
    BY <2>28 DEF StoreWanted, DiskInv, HaveIsOnDisk, TypeOK, HotTypeOK, Job, vars, hotVars, peerVars
  <2>29. ASSUME StoreMissing, UNCHANGED <<peerVars, written, orphans, faults>> PROVE DiskInv'
    BY <2>29 DEF StoreMissing, RebuildIdle, DiskInv, HaveIsOnDisk, TypeOK, HotTypeOK, Job, vars, hotVars, peerVars
  <2>30. CASE UNCHANGED vars
    BY <2>30 DEF DiskInv, HaveIsOnDisk, TypeOK, HotTypeOK, Job, vars, hotVars, peerVars
  <2>31. QED
    BY <2>1, <2>2, <2>3, <2>4, <2>5, <2>6, <2>7, <2>8, <2>9, <2>10, <2>11, <2>12, <2>13, <2>14, <2>15, <2>16, <2>17, <2>18, <2>19, <2>20, <2>21, <2>22, <2>23, <2>24, <2>25, <2>26, <2>27, <2>28, <2>29, <2>30 DEF Next, PeerStep, WorkerStep, RebuildNext

\* A piece the torrent advertises and serves is on disk, verified, whatever
\* faults, disconnects and rival sessions come in between.
THEOREM HaveIsAlwaysOnDisk == Spec => []HaveIsOnDisk
<1>1. Init => DiskInv
  BY DEF Init, DiskInv, HaveIsOnDisk, NoJob
<1>2. DiskInv => HaveIsOnDisk
  BY DEF DiskInv, HaveIsOnDisk
<1>3. QED
  BY <1>1, <1>2, DiskInvStep, TypeCorrect, PTL DEF Spec

-----------------------------------------------------------------------------
\* No step drops the last owner of a reservation without releasing it
\* (PeerPieceClaims::release and drop, try_claim).
LEMMA NoOrphanClaimStep == TypeOK /\ NoOrphanClaim /\ [Next]_vars => NoOrphanClaim'
  <2> SUFFICES ASSUME TypeOK, NoOrphanClaim, [Next]_vars PROVE NoOrphanClaim'
    OBVIOUS
  <2>1. ASSUME NEW p \in Peers, Connect(p) PROVE NoOrphanClaim'
    BY <2>1 DEF Connect, Goto, At, is_download_complete, NoOrphanClaim, Owns, TypeOK, Resting, vars, hotVars, peerVars
  <2>2. ASSUME NEW p \in Peers, ReInterest(p) PROVE NoOrphanClaim'
    BY <2>2 DEF ReInterest, NoOrphanClaim, Owns, TypeOK, Resting, vars, hotVars, peerVars
  <2>3. ASSUME NEW p \in Peers, LeechDone(p) PROVE NoOrphanClaim'
    BY <2>3 DEF LeechDone, NoOrphanClaim, Owns, TypeOK, Resting, vars, hotVars, peerVars
  <2>4. ASSUME NEW p \in Peers, LatchEndgame(p) PROVE NoOrphanClaim'
    BY <2>4 DEF LatchEndgame, NoOrphanClaim, Owns, TypeOK, Resting, vars, hotVars, peerVars
  <2>5. ASSUME NEW p \in Peers, Disconnect(p) PROVE NoOrphanClaim'
    BY <2>5 DEF Disconnect, Teardown, Goto, At, Fault, NoOrphanClaim, Owns, TypeOK, Resting, vars, hotVars, peerVars
  <2>6. ASSUME NEW p \in Peers, IdleClose(p) PROVE NoOrphanClaim'
    BY <2>6 DEF IdleClose, Teardown, Goto, At, NoOrphanClaim, Owns, TypeOK, Resting, vars, hotVars, peerVars
  <2>7. ASSUME NEW p \in Peers, DropClaim(p) PROVE NoOrphanClaim'
    BY <2>7 DEF DropClaim, At, NoOrphanClaim, Owns, TypeOK, Resting, vars, hotVars, peerVars
  <2>8. ASSUME NEW p \in Peers, DropClaimRelease(p) PROVE NoOrphanClaim'
    BY <2>8 DEF DropClaimRelease, release_piece_claim, Goto, At, NoOrphanClaim, Owns, TypeOK, Resting, vars, hotVars, peerVars
  <2>9. ASSUME NEW p \in Peers, Closed(p) PROVE NoOrphanClaim'
    BY <2>9 DEF Closed, Goto, At, NoOrphanClaim, Owns, TypeOK, Resting, vars, hotVars, peerVars
  <2>10. ASSUME NEW p \in Peers, StartPiece(p) PROVE NoOrphanClaim'
    <3>1. UNCHANGED <<held, inFlight, have>> /\ pc[p] = "idle"
      BY <2>10 DEF StartPiece, hotVars
    <3>2. \A q \in Peers : q = p \/ (pc'[q] = pc[q] /\ cur'[q] = cur[q])
      BY <2>10 DEF StartPiece, At, TypeOK
    <3>3. \A q \in Peers, i \in Pieces : Owns(q, i) => Owns(q, i)'
      BY <3>1, <3>2 DEF Owns
    <3>4. QED
      BY <3>1, <3>3 DEF NoOrphanClaim, TypeOK, HotTypeOK
  <2>11. ASSUME NEW p \in Peers, ClaimRefused(p) PROVE NoOrphanClaim'
    BY <2>11 DEF ClaimRefused, Goto, At, NoOrphanClaim, Owns, TypeOK, Resting, vars, hotVars, peerVars
  <2>12. ASSUME NEW p \in Peers, ClaimAndStage(p) PROVE NoOrphanClaim'
    <3> SUFFICES ASSUME NEW i \in inFlight' \ have'
                 PROVE  \E q \in Peers : Owns(q, i)'
      BY DEF NoOrphanClaim
    <3>1. /\ held' = [held EXCEPT ![p] = @ \cup {cur[p]}]
          /\ inFlight' = inFlight \cup {cur[p]} /\ have' = have /\ pc[p] = "claim"
      BY <2>12 DEF ClaimAndStage, AddClaim
    <3>2. CASE i = cur[p]
      <4>1. i \in held'[p]
        BY <3>1, <3>2 DEF TypeOK
      <4>2. QED
        BY <4>1 DEF Owns
    <3>3. CASE i # cur[p]
      <4>1. PICK q \in Peers : Owns(q, i)
        BY <3>1, <3>3 DEF NoOrphanClaim
      <4>2. CASE q = p
        <5>1. i \in held'[p]
          BY <3>1, <4>1, <4>2 DEF Owns, TypeOK
        <5>2. QED
          BY <5>1 DEF Owns
      <4>3. CASE q # p
        <5>1. held'[q] = held[q]
          BY <3>1, <4>3 DEF TypeOK
        <5>2. cur'[q] = cur[q] /\ pc'[q] = pc[q]
          BY <2>12, <4>3 DEF ClaimAndStage, Goto, At, TypeOK
        <5>3. QED
          BY <4>1, <5>1, <5>2 DEF Owns
      <4>4. QED
        BY <4>2, <4>3
    <3>4. QED
      BY <3>2, <3>3
  <2>13. ASSUME NEW p \in Peers, AbortStart(p) PROVE NoOrphanClaim'
    <3> SUFFICES ASSUME NEW i \in inFlight' \ have'
                 PROVE  \E q \in Peers : Owns(q, i)'
      BY DEF NoOrphanClaim
    <3>1. i \in inFlight \ have /\ pc[p] = "abort"
      BY <2>13 DEF AbortStart, hotVars
    <3>2. PICK q \in Peers : Owns(q, i)
      BY <3>1 DEF NoOrphanClaim
    <3>3. CASE q # p
      <4>1. held'[q] = held[q] /\ cur'[q] = cur[q] /\ pc'[q] = pc[q]
        BY <2>13, <3>3 DEF AbortStart, Goto, At, TypeOK
      <4>2. QED
        BY <3>2, <4>1 DEF Owns
    <3>4. CASE q = p /\ i = cur[p]
      <4>1. pc'[p] = "abortRelease" /\ cur'[p] = i
        BY <2>13, <3>1, <3>4 DEF AbortStart, At, TypeOK
      <4>2. QED
        BY <4>1 DEF Owns
    <3>5. CASE q = p /\ i # cur[p]
      <4>1. i \in held'[p]
        BY <2>13, <3>1, <3>2, <3>5 DEF AbortStart, Owns, TypeOK
      <4>2. QED
        BY <4>1 DEF Owns
    <3>6. QED
      BY <3>3, <3>4, <3>5
  <2>14. ASSUME NEW p \in Peers, AbortRelease(p) PROVE NoOrphanClaim'
    BY <2>14 DEF AbortRelease, release_piece_claim, Goto, At, NoOrphanClaim, Owns, TypeOK, Resting, vars, hotVars, peerVars
  <2>15. ASSUME NEW p \in Peers, SubmitHash(p) PROVE NoOrphanClaim'
    BY <2>15 DEF SubmitHash, SetJob, Goto, At, Fault, NoOrphanClaim, Owns, TypeOK, Resting, vars, hotVars, peerVars
  <2>16. ASSUME NEW p \in Peers, HashTableGone(p) PROVE NoOrphanClaim'
    BY <2>16 DEF HashTableGone, Teardown, Goto, At, NoOrphanClaim, Owns, TypeOK, Resting, vars, hotVars, peerVars
  <2>17. ASSUME NEW p \in Peers, MarkRelease(p) PROVE NoOrphanClaim'
    BY <2>17 DEF MarkRelease, release_piece_claim, At, NoOrphanClaim, Owns, TypeOK, Resting, vars, hotVars, peerVars
  <2>18. ASSUME NEW p \in Peers, MarkWants(p) PROVE NoOrphanClaim'
    BY <2>18 DEF MarkWants, At, NoOrphanClaim, Owns, TypeOK, Resting, vars, hotVars, peerVars
  <2>19. ASSUME NEW p \in Peers, MarkPieces(p) PROVE NoOrphanClaim'
    BY <2>19 DEF MarkPieces, MarkHave, Goto, At, NoOrphanClaim, Owns, TypeOK, Resting, vars, hotVars, peerVars
  <2>20. ASSUME NEW p \in Peers, NEW i \in Pieces, PieceComplete(p, i) PROVE NoOrphanClaim'
    BY <2>20 DEF PieceComplete, SetSlot, At, NoOrphanClaim, Owns, TypeOK, Resting, vars, hotVars, peerVars
  <2>21. ASSUME NEW p \in Peers, NEW i \in Pieces, ApplyOk(p, i) PROVE NoOrphanClaim'
    BY <2>21 DEF ApplyOk, Reclaim, SetSlot, SetJob, Goto, At, NoOrphanClaim, Owns, TypeOK, Resting, vars, hotVars, peerVars
  <2>22. ASSUME NEW p \in Peers, NEW i \in Pieces, ApplyFail(p, i) PROVE NoOrphanClaim'
    BY <2>22 DEF ApplyFail, Reclaim, SetSlot, SetJob, release_piece_claim, NoOrphanClaim, Owns, TypeOK, Resting, vars, hotVars, peerVars
  <2>23. ASSUME NEW p \in Peers, NEW i \in Pieces, HashVerify(p, i) PROVE NoOrphanClaim'
    BY <2>23 DEF HashVerify, SetJob, NoOrphanClaim, Owns, TypeOK, Resting, vars, hotVars, peerVars
  <2>24. ASSUME NEW p \in Peers, NEW i \in Pieces, WriteDone(p, i) PROVE NoOrphanClaim'
    BY <2>24 DEF WriteDone, SetJob, NoOrphanClaim, Owns, TypeOK, Resting, vars, hotVars, peerVars
  <2>25. ASSUME NEW p \in Peers, NEW i \in Pieces, WriteFailed(p, i) PROVE NoOrphanClaim'
    BY <2>25 DEF WriteFailed, SetJob, Fault, NoOrphanClaim, Owns, TypeOK, Resting, vars, hotVars, peerVars
  <2>26. ASSUME NEW i \in Pieces, OrphanWrite(i) PROVE NoOrphanClaim'
    BY <2>26 DEF OrphanWrite, NoOrphanClaim, Owns, TypeOK, Resting, vars, hotVars, peerVars
  <2>27. ASSUME NEW W \in WantedSets, SetFilePriority(W), UNCHANGED <<peerVars, written, orphans, faults>> PROVE NoOrphanClaim'
    BY <2>27 DEF SetFilePriority, complete, NoOrphanClaim, Owns, TypeOK, Resting, vars, hotVars, peerVars
  <2>28. ASSUME StoreWanted, UNCHANGED <<peerVars, written, orphans, faults>> PROVE NoOrphanClaim'
    BY <2>28 DEF StoreWanted, NoOrphanClaim, Owns, TypeOK, Resting, vars, hotVars, peerVars
  <2>29. ASSUME StoreMissing, UNCHANGED <<peerVars, written, orphans, faults>> PROVE NoOrphanClaim'
    BY <2>29 DEF StoreMissing, RebuildIdle, NoOrphanClaim, Owns, TypeOK, Resting, vars, hotVars, peerVars
  <2>30. CASE UNCHANGED vars
    BY <2>30 DEF NoOrphanClaim, Owns, TypeOK, Resting, vars, hotVars, peerVars
  <2>31. QED
    BY <2>1, <2>2, <2>3, <2>4, <2>5, <2>6, <2>7, <2>8, <2>9, <2>10, <2>11, <2>12, <2>13, <2>14, <2>15, <2>16, <2>17, <2>18, <2>19, <2>20, <2>21, <2>22, <2>23, <2>24, <2>25, <2>26, <2>27, <2>28, <2>29, <2>30 DEF Next, PeerStep, WorkerStep, RebuildNext

\* No reservation of a missing piece outlives the session that made it.
THEOREM ClaimsAreOwned == Spec => []NoOrphanClaim
<1>1. Init => NoOrphanClaim
  BY DEF Init, HotInit, NoOrphanClaim
<1>2. QED
  BY <1>1, NoOrphanClaimStep, TypeCorrect, PTL DEF Spec

-----------------------------------------------------------------------------
\* The hash table is dropped with the last piece (drop_piece_hashes_if_complete).
HashesUntilComplete == ~hashes => complete

\* Only the mark_have that completes the torrent drops the hash table.
LEMMA HashesUntilCompleteStep == TypeOK /\ HashesUntilComplete /\ [Next]_vars => HashesUntilComplete'
  <2> SUFFICES ASSUME TypeOK, HashesUntilComplete, [Next]_vars PROVE HashesUntilComplete'
    OBVIOUS
  <2>1. ASSUME NEW p \in Peers, Connect(p) PROVE HashesUntilComplete'
    BY <2>1 DEF Connect, Goto, At, is_download_complete, HashesUntilComplete, complete, vars, hotVars, peerVars
  <2>2. ASSUME NEW p \in Peers, ReInterest(p) PROVE HashesUntilComplete'
    BY <2>2 DEF ReInterest, HashesUntilComplete, complete, vars, hotVars, peerVars
  <2>3. ASSUME NEW p \in Peers, LeechDone(p) PROVE HashesUntilComplete'
    BY <2>3 DEF LeechDone, HashesUntilComplete, complete, vars, hotVars, peerVars
  <2>4. ASSUME NEW p \in Peers, LatchEndgame(p) PROVE HashesUntilComplete'
    BY <2>4 DEF LatchEndgame, HashesUntilComplete, complete, vars, hotVars, peerVars
  <2>5. ASSUME NEW p \in Peers, Disconnect(p) PROVE HashesUntilComplete'
    BY <2>5 DEF Disconnect, Teardown, Goto, At, Fault, HashesUntilComplete, complete, vars, hotVars, peerVars
  <2>6. ASSUME NEW p \in Peers, IdleClose(p) PROVE HashesUntilComplete'
    BY <2>6 DEF IdleClose, Teardown, Goto, At, HashesUntilComplete, complete, vars, hotVars, peerVars
  <2>7. ASSUME NEW p \in Peers, DropClaim(p) PROVE HashesUntilComplete'
    BY <2>7 DEF DropClaim, At, HashesUntilComplete, complete, vars, hotVars, peerVars
  <2>8. ASSUME NEW p \in Peers, DropClaimRelease(p) PROVE HashesUntilComplete'
    BY <2>8 DEF DropClaimRelease, release_piece_claim, Goto, At, HashesUntilComplete, complete, vars, hotVars, peerVars
  <2>9. ASSUME NEW p \in Peers, Closed(p) PROVE HashesUntilComplete'
    BY <2>9 DEF Closed, Goto, At, HashesUntilComplete, complete, vars, hotVars, peerVars
  <2>10. ASSUME NEW p \in Peers, StartPiece(p) PROVE HashesUntilComplete'
    BY <2>10 DEF StartPiece, At, HashesUntilComplete, complete, vars, hotVars, peerVars
  <2>11. ASSUME NEW p \in Peers, ClaimRefused(p) PROVE HashesUntilComplete'
    BY <2>11 DEF ClaimRefused, Goto, At, HashesUntilComplete, complete, vars, hotVars, peerVars
  <2>12. ASSUME NEW p \in Peers, ClaimAndStage(p) PROVE HashesUntilComplete'
    BY <2>12 DEF ClaimAndStage, AddClaim, SetSlot, Goto, At, Fault, HashesUntilComplete, complete, vars, hotVars, peerVars
  <2>13. ASSUME NEW p \in Peers, AbortStart(p) PROVE HashesUntilComplete'
    BY <2>13 DEF AbortStart, Goto, At, HashesUntilComplete, complete, vars, hotVars, peerVars
  <2>14. ASSUME NEW p \in Peers, AbortRelease(p) PROVE HashesUntilComplete'
    BY <2>14 DEF AbortRelease, release_piece_claim, Goto, At, HashesUntilComplete, complete, vars, hotVars, peerVars
  <2>15. ASSUME NEW p \in Peers, SubmitHash(p) PROVE HashesUntilComplete'
    BY <2>15 DEF SubmitHash, SetJob, Goto, At, Fault, HashesUntilComplete, complete, vars, hotVars, peerVars
  <2>16. ASSUME NEW p \in Peers, HashTableGone(p) PROVE HashesUntilComplete'
    BY <2>16 DEF HashTableGone, Teardown, Goto, At, HashesUntilComplete, complete, vars, hotVars, peerVars
  <2>17. ASSUME NEW p \in Peers, MarkRelease(p) PROVE HashesUntilComplete'
    BY <2>17 DEF MarkRelease, release_piece_claim, At, HashesUntilComplete, complete, vars, hotVars, peerVars
  <2>18. ASSUME NEW p \in Peers, MarkWants(p) PROVE HashesUntilComplete'
    BY <2>18 DEF MarkWants, At, HashesUntilComplete, complete, vars, hotVars, peerVars
  <2>19. ASSUME NEW p \in Peers, MarkPieces(p) PROVE HashesUntilComplete'
    <3>1. CASE cur[p] \in have
      BY <2>19, <3>1 DEF MarkPieces, MarkHave, HashesUntilComplete, complete
    <3>2. CASE cur[p] \notin have
      <4>1. /\ have' = have \cup {cur[p]}
            /\ hashes' = (hashes /\ ~(have \cup {cur[p]} = Pieces))
        BY <2>19, <3>2 DEF MarkPieces, MarkHave
      <4>2. cur[p] \in Pieces
        BY <2>19 DEF MarkPieces, TypeOK, Resting
      <4>3. ~hashes => have = Pieces
        BY DEF HashesUntilComplete, complete
      <4>4. ~hashes' => have' = Pieces
        <5>1. CASE have \cup {cur[p]} = Pieces
          BY <4>1, <5>1
        <5>2. CASE have \cup {cur[p]} # Pieces
          BY <4>1, <4>2, <4>3, <5>2
        <5>3. QED
          BY <5>1, <5>2
      <4>5. QED
        BY <4>4 DEF HashesUntilComplete, complete
    <3>3. QED
      BY <3>1, <3>2
  <2>20. ASSUME NEW p \in Peers, NEW i \in Pieces, PieceComplete(p, i) PROVE HashesUntilComplete'
    BY <2>20 DEF PieceComplete, SetSlot, At, HashesUntilComplete, complete, vars, hotVars, peerVars
  <2>21. ASSUME NEW p \in Peers, NEW i \in Pieces, ApplyOk(p, i) PROVE HashesUntilComplete'
    BY <2>21 DEF ApplyOk, Reclaim, SetSlot, SetJob, Goto, At, HashesUntilComplete, complete, vars, hotVars, peerVars
  <2>22. ASSUME NEW p \in Peers, NEW i \in Pieces, ApplyFail(p, i) PROVE HashesUntilComplete'
    BY <2>22 DEF ApplyFail, Reclaim, SetSlot, SetJob, release_piece_claim, HashesUntilComplete, complete, vars, hotVars, peerVars
  <2>23. ASSUME NEW p \in Peers, NEW i \in Pieces, HashVerify(p, i) PROVE HashesUntilComplete'
    BY <2>23 DEF HashVerify, SetJob, HashesUntilComplete, complete, vars, hotVars, peerVars
  <2>24. ASSUME NEW p \in Peers, NEW i \in Pieces, WriteDone(p, i) PROVE HashesUntilComplete'
    BY <2>24 DEF WriteDone, SetJob, HashesUntilComplete, complete, vars, hotVars, peerVars
  <2>25. ASSUME NEW p \in Peers, NEW i \in Pieces, WriteFailed(p, i) PROVE HashesUntilComplete'
    BY <2>25 DEF WriteFailed, SetJob, Fault, HashesUntilComplete, complete, vars, hotVars, peerVars
  <2>26. ASSUME NEW i \in Pieces, OrphanWrite(i) PROVE HashesUntilComplete'
    BY <2>26 DEF OrphanWrite, HashesUntilComplete, complete, vars, hotVars, peerVars
  <2>27. ASSUME NEW W \in WantedSets, SetFilePriority(W), UNCHANGED <<peerVars, written, orphans, faults>> PROVE HashesUntilComplete'
    BY <2>27 DEF SetFilePriority, complete, HashesUntilComplete, complete, vars, hotVars, peerVars
  <2>28. ASSUME StoreWanted, UNCHANGED <<peerVars, written, orphans, faults>> PROVE HashesUntilComplete'
    BY <2>28 DEF StoreWanted, HashesUntilComplete, complete, vars, hotVars, peerVars
  <2>29. ASSUME StoreMissing, UNCHANGED <<peerVars, written, orphans, faults>> PROVE HashesUntilComplete'
    BY <2>29 DEF StoreMissing, RebuildIdle, HashesUntilComplete, complete, vars, hotVars, peerVars
  <2>30. CASE UNCHANGED vars
    BY <2>30 DEF HashesUntilComplete, complete, vars, hotVars, peerVars
  <2>31. QED
    BY <2>1, <2>2, <2>3, <2>4, <2>5, <2>6, <2>7, <2>8, <2>9, <2>10, <2>11, <2>12, <2>13, <2>14, <2>15, <2>16, <2>17, <2>18, <2>19, <2>20, <2>21, <2>22, <2>23, <2>24, <2>25, <2>26, <2>27, <2>28, <2>29, <2>30 DEF Next, PeerStep, WorkerStep, RebuildNext

\* A session that finds the hash table gone (handle_piece, after its has_piece
\* test) ends without losing a piece: the table goes with the last piece of the
\* torrent, and what is marked is on disk, so each piece the session still held
\* has been written through another one.
THEOREM DroppedSessionsLoseNothing == Spec => []NothingLostToTheDrop
<1>1. Init => DiskInv
  BY DEF Init, DiskInv, HaveIsOnDisk, NoJob
<1>2. Init => HashesUntilComplete
  BY DEF Init, HotInit, HashesUntilComplete
<1>3. DiskInv /\ HashesUntilComplete => NothingLostToTheDrop
  BY DEF DiskInv, HaveIsOnDisk, HashesUntilComplete, complete, NothingLostToTheDrop, Working
<1>4. QED
  BY <1>1, <1>2, <1>3, DiskInvStep, HashesUntilCompleteStep, TypeCorrect, PTL DEF Spec

-----------------------------------------------------------------------------
\* MissingExactUntilReprioritised strengthened: no rebuild is under way and the
\* wanted bit a mark_have has read is still the current one.
CountInv ==
    prioLeft = MaxPrio =>
        /\ missing = Cardinality(wanted \ have)
        /\ rebuild.pc = "idle"
        /\ \A p \in Peers : pc[p] = "mark" => (sawWanted[p] = TRUE <=> cur[p] \in wanted)

-----------------------------------------------------------------------------
\* Concurrent mark_have calls alone never make the counter drift: each piece is
\* counted down once, by the call that sets its bit.
LEMMA CountInvStep == TypeOK /\ CountInv /\ [Next]_vars => CountInv'
  <2> SUFFICES ASSUME TypeOK, CountInv, [Next]_vars PROVE CountInv'
    OBVIOUS
  <2>1. ASSUME NEW p \in Peers, Connect(p) PROVE CountInv'
    BY <2>1 DEF Connect, Goto, At, is_download_complete, CountInv, TypeOK, HotTypeOK, vars, hotVars, peerVars
  <2>2. ASSUME NEW p \in Peers, ReInterest(p) PROVE CountInv'
    BY <2>2 DEF ReInterest, CountInv, TypeOK, HotTypeOK, vars, hotVars, peerVars
  <2>3. ASSUME NEW p \in Peers, LeechDone(p) PROVE CountInv'
    BY <2>3 DEF LeechDone, CountInv, TypeOK, HotTypeOK, vars, hotVars, peerVars
  <2>4. ASSUME NEW p \in Peers, LatchEndgame(p) PROVE CountInv'
    BY <2>4 DEF LatchEndgame, CountInv, TypeOK, HotTypeOK, vars, hotVars, peerVars
  <2>5. ASSUME NEW p \in Peers, Disconnect(p) PROVE CountInv'
    BY <2>5 DEF Disconnect, Teardown, Goto, At, Fault, CountInv, TypeOK, HotTypeOK, vars, hotVars, peerVars
  <2>6. ASSUME NEW p \in Peers, IdleClose(p) PROVE CountInv'
    BY <2>6 DEF IdleClose, Teardown, Goto, At, CountInv, TypeOK, HotTypeOK, vars, hotVars, peerVars
  <2>7. ASSUME NEW p \in Peers, DropClaim(p) PROVE CountInv'
    BY <2>7 DEF DropClaim, At, CountInv, TypeOK, HotTypeOK, vars, hotVars, peerVars
  <2>8. ASSUME NEW p \in Peers, DropClaimRelease(p) PROVE CountInv'
    BY <2>8 DEF DropClaimRelease, release_piece_claim, Goto, At, CountInv, TypeOK, HotTypeOK, vars, hotVars, peerVars
  <2>9. ASSUME NEW p \in Peers, Closed(p) PROVE CountInv'
    BY <2>9 DEF Closed, Goto, At, CountInv, TypeOK, HotTypeOK, vars, hotVars, peerVars
  <2>10. ASSUME NEW p \in Peers, StartPiece(p) PROVE CountInv'
    BY <2>10 DEF StartPiece, At, CountInv, TypeOK, HotTypeOK, vars, hotVars, peerVars
  <2>11. ASSUME NEW p \in Peers, ClaimRefused(p) PROVE CountInv'
    BY <2>11 DEF ClaimRefused, Goto, At, CountInv, TypeOK, HotTypeOK, vars, hotVars, peerVars
  <2>12. ASSUME NEW p \in Peers, ClaimAndStage(p) PROVE CountInv'
    BY <2>12 DEF ClaimAndStage, AddClaim, SetSlot, Goto, At, Fault, CountInv, TypeOK, HotTypeOK, vars, hotVars, peerVars
  <2>13. ASSUME NEW p \in Peers, AbortStart(p) PROVE CountInv'
    BY <2>13 DEF AbortStart, Goto, At, CountInv, TypeOK, HotTypeOK, vars, hotVars, peerVars
  <2>14. ASSUME NEW p \in Peers, AbortRelease(p) PROVE CountInv'
    BY <2>14 DEF AbortRelease, release_piece_claim, Goto, At, CountInv, TypeOK, HotTypeOK, vars, hotVars, peerVars
  <2>15. ASSUME NEW p \in Peers, SubmitHash(p) PROVE CountInv'
    BY <2>15 DEF SubmitHash, SetJob, Goto, At, Fault, CountInv, TypeOK, HotTypeOK, vars, hotVars, peerVars
  <2>16. ASSUME NEW p \in Peers, HashTableGone(p) PROVE CountInv'
    BY <2>16 DEF HashTableGone, Teardown, Goto, At, CountInv, TypeOK, HotTypeOK, vars, hotVars, peerVars
  <2>17. ASSUME NEW p \in Peers, MarkRelease(p) PROVE CountInv'
    BY <2>17 DEF MarkRelease, release_piece_claim, At, CountInv, TypeOK, HotTypeOK, vars, hotVars, peerVars
  <2>18. ASSUME NEW p \in Peers, MarkWants(p) PROVE CountInv'
    <3>1. UNCHANGED <<have, wanted, missing, rebuild, prioLeft>>
      BY <2>18 DEF MarkWants, hotVars
    <3>2. \A q \in Peers : pc'[q] = "mark" =>
            \/ q = p /\ cur'[q] = cur[p] /\ sawWanted'[q] = (cur[p] \in wanted)
            \/ pc[q] = "mark" /\ cur'[q] = cur[q] /\ sawWanted'[q] = sawWanted[q]
      BY <2>18 DEF MarkWants, At, TypeOK
    <3>3. QED
      BY <3>1, <3>2 DEF CountInv
  <2>19. ASSUME NEW p \in Peers, MarkPieces(p) PROVE CountInv'
    <3> SUFFICES ASSUME prioLeft = MaxPrio PROVE CountInv'
      BY <2>19 DEF CountInv, MarkPieces, MarkHave
    <3> DEFINE i == cur[p]
    <3>1. i \in Pieces /\ (sawWanted[p] = TRUE <=> i \in wanted)
      BY <2>19 DEF MarkPieces, CountInv, TypeOK, Resting
    <3>2. /\ IsFiniteSet(wanted \ have) /\ Cardinality(wanted \ have) \in Nat
          /\ missing = Cardinality(wanted \ have)
      BY HotAssumption, FS_Subset, FS_CardinalityType DEF TypeOK, HotTypeOK, CountInv
    <3>3. UNCHANGED <<wanted, rebuild, prioLeft>>
      BY <2>19 DEF MarkPieces, MarkHave
    <3>4. missing' = Cardinality(wanted \ have')
      <4>1. CASE i \in have
        BY <2>19, <3>2, <4>1 DEF MarkPieces, MarkHave
      <4>2. CASE i \notin have /\ have \cup {i} = Pieces
        <5>1. wanted \ have' = {} /\ missing' = 0
          BY <2>19, <4>2 DEF MarkPieces, MarkHave, TypeOK, HotTypeOK
        <5>2. QED
          BY <5>1, FS_EmptySet
      <4>3. CASE i \notin have /\ have \cup {i} # Pieces /\ i \in wanted
        <5>1. wanted \ have' = (wanted \ have) \ {i} /\ i \in wanted \ have
          BY <2>19, <4>3 DEF MarkPieces, MarkHave
        <5>2. /\ IsFiniteSet((wanted \ have) \ {i})
              /\ Cardinality((wanted \ have) \ {i}) = Cardinality(wanted \ have) - 1
          BY <5>1, <3>2, RemoveOne
        <5>3. Cardinality((wanted \ have) \ {i}) \in Nat
          BY <5>2, FS_CardinalityType
        <5>4. sawWanted[p] /\ missing > 0
          BY <3>1, <4>3, <5>2, <5>3, <3>2 DEF TypeOK
        <5>5. missing' = missing - 1
          BY <2>19, <4>3, <5>4 DEF MarkPieces, MarkHave
        <5>6. QED
          BY <5>1, <5>2, <5>5, <3>2
      <4>4. CASE i \notin have /\ have \cup {i} # Pieces /\ i \notin wanted
        <5>1. wanted \ have' = wanted \ have
          BY <2>19, <4>4 DEF MarkPieces, MarkHave
        <5>2. ~sawWanted[p]
          BY <3>1, <4>4 DEF TypeOK
        <5>3. missing' = missing
          BY <2>19, <4>4, <5>2 DEF MarkPieces, MarkHave
        <5>4. QED
          BY <5>1, <5>3, <3>2
      <4>5. QED
        BY <4>1, <4>2, <4>3, <4>4
    <3>5. \A q \in Peers : pc'[q] = "mark" => (q # p /\ pc[q] = "mark" /\ cur'[q] = cur[q] /\ sawWanted'[q] = sawWanted[q])
      BY <2>19 DEF MarkPieces, Goto, At, TypeOK
    <3>6. QED
      BY <3>3, <3>4, <3>5 DEF CountInv
  <2>20. ASSUME NEW p \in Peers, NEW i \in Pieces, PieceComplete(p, i) PROVE CountInv'
    BY <2>20 DEF PieceComplete, SetSlot, At, CountInv, TypeOK, HotTypeOK, vars, hotVars, peerVars
  <2>21. ASSUME NEW p \in Peers, NEW i \in Pieces, ApplyOk(p, i) PROVE CountInv'
    BY <2>21 DEF ApplyOk, Reclaim, SetSlot, SetJob, Goto, At, CountInv, TypeOK, HotTypeOK, vars, hotVars, peerVars
  <2>22. ASSUME NEW p \in Peers, NEW i \in Pieces, ApplyFail(p, i) PROVE CountInv'
    BY <2>22 DEF ApplyFail, Reclaim, SetSlot, SetJob, release_piece_claim, CountInv, TypeOK, HotTypeOK, vars, hotVars, peerVars
  <2>23. ASSUME NEW p \in Peers, NEW i \in Pieces, HashVerify(p, i) PROVE CountInv'
    BY <2>23 DEF HashVerify, SetJob, CountInv, TypeOK, HotTypeOK, vars, hotVars, peerVars
  <2>24. ASSUME NEW p \in Peers, NEW i \in Pieces, WriteDone(p, i) PROVE CountInv'
    BY <2>24 DEF WriteDone, SetJob, CountInv, TypeOK, HotTypeOK, vars, hotVars, peerVars
  <2>25. ASSUME NEW p \in Peers, NEW i \in Pieces, WriteFailed(p, i) PROVE CountInv'
    BY <2>25 DEF WriteFailed, SetJob, Fault, CountInv, TypeOK, HotTypeOK, vars, hotVars, peerVars
  <2>26. ASSUME NEW i \in Pieces, OrphanWrite(i) PROVE CountInv'
    BY <2>26 DEF OrphanWrite, CountInv, TypeOK, HotTypeOK, vars, hotVars, peerVars
  <2>27. ASSUME NEW W \in WantedSets, SetFilePriority(W), UNCHANGED <<peerVars, written, orphans, faults>> PROVE CountInv'
    BY <2>27 DEF SetFilePriority, complete, CountInv, TypeOK, HotTypeOK, vars, hotVars, peerVars
  <2>28. ASSUME StoreWanted, UNCHANGED <<peerVars, written, orphans, faults>> PROVE CountInv'
    BY <2>28 DEF StoreWanted, CountInv, TypeOK, HotTypeOK, vars, hotVars, peerVars
  <2>29. ASSUME StoreMissing, UNCHANGED <<peerVars, written, orphans, faults>> PROVE CountInv'
    BY <2>29 DEF StoreMissing, RebuildIdle, CountInv, TypeOK, HotTypeOK, vars, hotVars, peerVars
  <2>30. CASE UNCHANGED vars
    BY <2>30 DEF CountInv, TypeOK, HotTypeOK, vars, hotVars, peerVars
  <2>31. QED
    BY <2>1, <2>2, <2>3, <2>4, <2>5, <2>6, <2>7, <2>8, <2>9, <2>10, <2>11, <2>12, <2>13, <2>14, <2>15, <2>16, <2>17, <2>18, <2>19, <2>20, <2>21, <2>22, <2>23, <2>24, <2>25, <2>26, <2>27, <2>28, <2>29, <2>30 DEF Next, PeerStep, WorkerStep, RebuildNext

\* Until the user changes file priorities, download_missing is the number of
\* wanted pieces that are missing.
THEOREM CountsUntilReprioritised == Spec => []MissingExactUntilReprioritised
<1>1. Init => CountInv
  BY DEF Init, HotInit, CountInv, RebuildIdle
<1>2. CountInv => MissingExactUntilReprioritised
  BY DEF CountInv, MissingExactUntilReprioritised
<1>3. QED
  BY <1>1, <1>2, CountInvStep, TypeCorrect, PTL DEF Spec
=============================================================================
