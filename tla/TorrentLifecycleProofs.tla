---------------------- MODULE TorrentLifecycleProofs ----------------------
(***************************************************************************)
(* TLAPS proofs about TorrentLifecycle, for every value of its constants:  *)
(* any torrents and pieces, any command repertoire, any set of syncing     *)
(* tasks and any number of commands, faults, crashes and damaged pieces.   *)
(*                                                                         *)
(* CatalogBehindDisk is not inductive: the catalog's bits come from        *)
(* batches, batches from the buffer, the buffer from sessions, and a       *)
(* recheck's verdicts from the disk.  VerifiedInv follows a piece all      *)
(* that way.                                                               *)
(*                                                                         *)
(* PossessionCovered is the other direction: what is hot is in the catalog *)
(* or held by somebody who will tell it.  CoverInv adds what was loaded    *)
(* and is about to be published (AllKnown), who may hold a batch           *)
(* (BatchesFlush), and why a reload that is due is not lost (Calm).        *)
(***************************************************************************)
EXTENDS TorrentLifecycle, SequenceTheorems, TLAPS

\* A worker or task that has nothing to do is well formed.
LEMMA IdleType == MutIdle \in WorkerState /\ TaskIdle \in TaskState
<1>1. (CHOOSE t \in Torrents : TRUE) \in Torrents
  BY LifecycleAssumption
<1>2. QED
  BY <1>1 DEF MutIdle, TaskIdle, WorkerState, TaskState, MutPcs, TaskPcs

\* So are the tasks of a process that has just been started.
LEMMA BootedType == Booted \in [Tasks -> TaskState]
BY IdleType DEF Booted, TaskState, TaskPcs

\* The mutation worker takes up a job.
LEMMA MutAtType ==
  ASSUME NEW pc \in MutPcs, NEW t \in Torrents, NEW restart \in BOOLEAN, MutAt(pc, t, restart)
  PROVE  mut' \in WorkerState
BY IdleType DEF MutAt, WorkerState

\* It begins stop_torrent: a part of the buffer becomes its batch.
LEMMA BeginStopType ==
  ASSUME TypeOK, NEW t \in Torrents, NEW restart \in BOOLEAN, BeginStop(t, restart)
  PROVE  mut' \in WorkerState /\ pending' \subseteq Haves
BY IdleType DEF BeginStop, TypeOK, WorkerState, MutPcs

\* Spending a bounded resource stays within its bound.
LEMMA SpendType ==
  ASSUME TypeOK, NEW r \in Resources, Spend(r)
  PROVE  WithinBounds'
BY LifecycleAssumption DEF TypeOK, WithinBounds, Spend, Bound, Resources

\* set_want_start keeps the rows well formed.
LEMMA WantingType ==
  ASSUME TypeOK, NEW t \in Torrents, NEW w \in BOOLEAN
  PROVE  Wanting(t, w) \in [Torrents -> Row]
BY DEF TypeOK, Wanting, Row

\* mark_deleted and remove_torrent keep the rows well formed.
LEMMA ErasedType ==
  ASSUME TypeOK, NEW t \in Torrents, NEW op
  PROVE  Erased(t, op) \in [Torrents -> Row]
BY DEF TypeOK, Erased, Gone, Row

\* A recheck thread that moves on keeps the threads well formed.
LEMMA RckSetType ==
  ASSUME TypeOK, NEW t \in Torrents, NEW r \in RecheckState, RckSet(t, r)
  PROVE  rck' \in [Torrents -> RecheckState]
BY DEF TypeOK, RckSet

\* So does a task (tick_loop, the bootstrap of session.rs) that moves on.
LEMMA TaskSetType ==
  ASSUME TypeOK, NEW x \in Tasks, NEW r \in TaskState, TaskSet(x, r)
  PROVE  task' \in [Tasks -> TaskState]
BY DEF TypeOK, TaskSet

\* A flush, written or put back, keeps rows, buffer and bounds well formed.
LEMMA MarkBatchType ==
  ASSUME TypeOK, NEW b \in SUBSET Haves, MarkBatch(b)
  PROVE  row' \in [Torrents -> Row] /\ pending' \subseteq Haves /\ WithinBounds'
<1>1. row' \in [Torrents -> Row]
  <2>1. \A t \in Torrents : [row[t] EXCEPT !.bits = @ \cup BatchPieces(b, t)] \in Row
    BY DEF BatchPieces, TypeOK, Row
  <2>2. QED
    BY <2>1 DEF MarkBatch, TypeOK
<1>2. pending' \subseteq Haves
  BY DEF MarkBatch, TypeOK
<1>3. WithinBounds'
  BY SpendType DEF MarkBatch, TypeOK, WithinBounds, Resources
<1>4. QED
  BY <1>1, <1>2, <1>3

\* Taking the first job off the mutation worker's channel (mutation_worker).
LEMMA HeadTailType ==
  ASSUME TypeOK, queue # <<>>
  PROVE  Head(queue) \in Command /\ Tail(queue) \in Seq(Command)
BY DEF TypeOK

\* Sending a job on the channel (mutation_tx) keeps it a sequence of commands.
LEMMA AppendType ==
  ASSUME TypeOK, NEW c \in Command
  PROVE  Append(queue, c) \in Seq(Command)
BY DEF TypeOK

\* Every variable keeps its shape under every step of every thread.
THEOREM TypeCorrect == Spec => []TypeOK
<1>1. Init => TypeOK
  BY LifecycleAssumption, IdleType, BootedType
  DEF Init, TypeOK, Row, RckOff, RecheckState, RckPcs, Resources, Bound,
      WithinBounds, LiveIsHot
<1>2. TypeOK /\ [Next]_vars => TypeOK'
  <2> SUFFICES ASSUME TypeOK, [Next]_vars PROVE TypeOK'
    OBVIOUS
  <2> USE LifecycleAssumption
  <2>1. ASSUME NEW op \in Ops, NEW t \in Torrents, Issue(op, t) PROVE TypeOK'
    <3>1. queue' \in Seq(Command)
      BY <2>1, AppendType DEF Issue, Command, Commands, TypeOK
    <3>2. asked' \in [Torrents -> BOOLEAN]
      BY <2>1 DEF Issue, TypeOK
    <3>3. WithinBounds'
      BY <2>1, SpendType DEF Issue, Resources, TypeOK
    <3>4. QED
      BY <2>1, <3>1, <3>2, <3>3 DEF Issue, TypeOK, WithinBounds, LiveIsHot, IsHot
  <2>2. ASSUME TakeStart PROVE TypeOK'
    <3>1. Head(queue) \in Command /\ Tail(queue) \in Seq(Command)
      BY <2>2, HeadTailType DEF TakeStart, Taking, TypeOK
    <3>2. queue' \in Seq(Command)
      BY <2>2, <3>1 DEF TakeStart, Taking, TypeOK
    <3>3. mut' \in WorkerState
      BY <2>2, <3>1, MutAtType DEF TakeStart, Command, MutPcs, TypeOK
    <3>4. QED
      BY <2>2, <3>2, <3>3 DEF TakeStart, TypeOK, WithinBounds, LiveIsHot, IsHot
  <2>3. ASSUME StartCheck PROVE TypeOK'
    <3>1. mut' \in WorkerState
      BY <2>3 DEF StartCheck, MutGoto, WorkerState, MutPcs, TypeOK
    <3>2. QED
      BY <2>3, <3>1 DEF StartCheck, TypeOK, WithinBounds, LiveIsHot, IsHot
  <2>4. ASSUME StartHot PROVE TypeOK'
    <3>1. mut.t \in Torrents
      BY <2>4 DEF StartHot, WorkerState, TypeOK
    <3>2. row' = Wanting(mut.t, TRUE) \/ row' = row
      BY <2>4 DEF StartHot, Commit, CommitFails, TypeOK
    <3>3. row' \in [Torrents -> Row]
      BY <2>4, <3>1, <3>2, WantingType DEF StartHot, TypeOK
    <3>4. mut' \in WorkerState
      BY <2>4, IdleType DEF StartHot, MutDone, TypeOK
    <3>5. WithinBounds'
      BY <2>4, SpendType
      DEF StartHot, Commit, CommitFails, Resources, WithinBounds, TypeOK
    <3>6. QED
      BY <2>4, <3>3, <3>4, <3>5 DEF StartHot, TypeOK, WithinBounds, LiveIsHot, IsHot
  <2>5. ASSUME StartLoad PROVE TypeOK'
    <3>1. mut.t \in Torrents
      BY <2>5 DEF StartLoad, WorkerState, TypeOK
    <3>2. row' = Wanting(mut.t, TRUE) \/ row' = row
      BY <2>5 DEF StartLoad, Commit, CommitFails, TypeOK
    <3>3. row' \in [Torrents -> Row]
      BY <2>5, <3>1, <3>2, WantingType DEF StartLoad, TypeOK
    <3>4. mut' \in WorkerState
      BY <2>5, IdleType DEF StartLoad, MutDone, WorkerState, MutPcs, Row, TypeOK
    <3>5. WithinBounds'
      BY <2>5, SpendType
      DEF StartLoad, Commit, CommitFails, Resources, WithinBounds, TypeOK
    <3>6. QED
      BY <2>5, <3>3, <3>4, <3>5 DEF StartLoad, TypeOK, WithinBounds, LiveIsHot, IsHot
  <2>6. ASSUME StartPublish PROVE TypeOK'
    <3>1. ram' \in [Torrents -> {Cold} \cup SUBSET Pieces]
      BY <2>6 DEF StartPublish, PublishHot, WorkerState, TypeOK
    <3>2. LiveIsHot'
      BY <2>6 DEF StartPublish, PublishHot, LiveIsHot, IsHot, Leech, TypeOK
    <3>3. mut' \in WorkerState
      BY <2>6, IdleType DEF StartPublish, MutDone, TypeOK
    <3>4. WithinBounds'
      BY <2>6, SpendType DEF StartPublish, Resources, WithinBounds, TypeOK
    <3>5. QED
      BY <2>6, <3>1, <3>2, <3>3, <3>4
      DEF StartPublish, TypeOK, WithinBounds, LiveIsHot, IsHot
  <2>7. ASSUME TakeStop PROVE TypeOK'
    <3>1. Head(queue) \in Command /\ Tail(queue) \in Seq(Command)
      BY <2>7, HeadTailType DEF TakeStop, Taking, TypeOK
    <3>2. queue' \in Seq(Command)
      BY <2>7, <3>1 DEF TakeStop, Taking, TypeOK
    <3>3. mut' \in WorkerState
      BY <2>7, <3>1, BeginStopType DEF TakeStop, Command, TypeOK
    <3>4. pending' \subseteq Haves
      BY <2>7, <3>1, BeginStopType DEF TakeStop, Command, TypeOK
    <3>5. QED
      BY <2>7, <3>2, <3>3, <3>4 DEF TakeStop, TypeOK, WithinBounds, LiveIsHot, IsHot
  <2>8. ASSUME TakeSync PROVE TypeOK'
    <3>1. Head(queue) \in Command /\ Tail(queue) \in Seq(Command)
      BY <2>8, HeadTailType DEF TakeSync, Taking, TypeOK
    <3>2. queue' \in Seq(Command)
      BY <2>8, <3>1 DEF TakeSync, Taking, TypeOK
    <3>3. mut' \in WorkerState
      BY <2>8, <3>1, BeginStopType, MutAtType DEF TakeSync, Command, MutPcs, TypeOK
    <3>4. pending' \subseteq Haves
      BY <2>8, <3>1, BeginStopType DEF TakeSync, Command, TypeOK
    <3>5. QED
      BY <2>8, <3>2, <3>3, <3>4 DEF TakeSync, TypeOK, WithinBounds, LiveIsHot, IsHot
  <2>9. ASSUME StopFlush PROVE TypeOK'
    <3>1. row' \in [Torrents -> Row]
      BY <2>9, MarkBatchType DEF StopFlush, WorkerState, TypeOK
    <3>2. pending' \subseteq Haves
      BY <2>9, MarkBatchType DEF StopFlush, WorkerState, TypeOK
    <3>3. WithinBounds'
      BY <2>9, MarkBatchType DEF StopFlush, WorkerState, TypeOK
    <3>4. mut' \in WorkerState
      BY <2>9 DEF StopFlush, WorkerState, MutPcs, TypeOK
    <3>5. QED
      BY <2>9, <3>1, <3>2, <3>3, <3>4
      DEF StopFlush, TypeOK, WithinBounds, LiveIsHot, IsHot
  <2>10. ASSUME StopUnhot PROVE TypeOK'
    <3>1. \A j \in jobs : [j EXCEPT !.live = @ /\ j.t # mut.t] \in Leech
      BY <2>10 DEF StopUnhot, Leech, TypeOK
    <3>2. ram' \in [Torrents -> {Cold} \cup SUBSET Pieces]
      BY <2>10 DEF StopUnhot, TypeOK
    <3>3. LiveIsHot'
      BY <2>10, <3>1 DEF StopUnhot, LiveIsHot, IsHot, Leech, TypeOK
    <3>4. jobs' \subseteq Leech
      BY <2>10, <3>1 DEF StopUnhot, TypeOK
    <3>5. mut' \in WorkerState
      BY <2>10 DEF StopUnhot, MutGoto, WorkerState, MutPcs, TypeOK
    <3>6. QED
      BY <2>10, <3>2, <3>3, <3>4, <3>5
      DEF StopUnhot, TypeOK, WithinBounds, LiveIsHot, IsHot
  <2>11. ASSUME StopUnwant PROVE TypeOK'
    <3>1. mut.t \in Torrents
      BY <2>11 DEF StopUnwant, WorkerState, TypeOK
    <3>2. row' = Wanting(mut.t, FALSE) \/ row' = row
      BY <2>11 DEF StopUnwant, Commit, CommitFails, TypeOK
    <3>3. row' \in [Torrents -> Row]
      BY <2>11, <3>1, <3>2, WantingType DEF StopUnwant, TypeOK
    <3>4. mut' \in WorkerState
      BY <2>11, IdleType, MutAtType DEF StopUnwant, MutDone, WorkerState, MutPcs, TypeOK
    <3>5. WithinBounds'
      BY <2>11, SpendType
      DEF StopUnwant, Commit, CommitFails, Resources, WithinBounds, TypeOK
    <3>6. QED
      BY <2>11, <3>3, <3>4, <3>5 DEF StopUnwant, TypeOK, WithinBounds, LiveIsHot, IsHot
  <2>12. ASSUME NEW op \in {"delete", "remove"}, TakeErase(op) PROVE TypeOK'
    <3>1. Head(queue) \in Command /\ Tail(queue) \in Seq(Command)
      BY <2>12, HeadTailType DEF TakeErase, Taking, TypeOK
    <3>2. queue' \in Seq(Command)
      BY <2>12, <3>1 DEF TakeErase, Taking, TypeOK
    <3>3. mut' \in WorkerState
      BY <2>12, <3>1, MutAtType DEF TakeErase, Command, MutPcs, TypeOK
    <3>4. QED
      BY <2>12, <3>2, <3>3 DEF TakeErase, TypeOK, WithinBounds, LiveIsHot, IsHot
  <2>13. ASSUME EraseRow PROVE TypeOK'
    <3>1. row' \in [Torrents -> Row]
      BY <2>13, ErasedType DEF EraseRow, Commit, CommitFails, WorkerState, TypeOK
    <3>2. mut' \in WorkerState
      BY <2>13, IdleType DEF EraseRow, MutDone, TypeOK
    <3>3. WithinBounds'
      BY <2>13, SpendType
      DEF EraseRow, Commit, CommitFails, Resources, WithinBounds, TypeOK
    <3>4. QED
      BY <2>13, <3>1, <3>2, <3>3 DEF EraseRow, TypeOK, WithinBounds, LiveIsHot, IsHot
  <2>14. ASSUME TakeRecheck PROVE TypeOK'
    <3>1. Head(queue) \in Command /\ Tail(queue) \in Seq(Command)
      BY <2>14, HeadTailType DEF TakeRecheck, Taking, TypeOK
    <3>2. [pc |-> "check", left |-> Pieces, good |-> {},
            wasHot |-> IsHot(Head(queue).t)] \in RecheckState
      BY <2>14 DEF TakeRecheck, RecheckState, RckPcs, IsHot, TypeOK
    <3>3. Head(queue).t \in Torrents
      BY <2>14, HeadTailType DEF TakeRecheck, Taking, Command, TypeOK
    <3>4. queue' \in Seq(Command)
      BY <2>14, <3>1, <3>2, <3>3 DEF TakeRecheck, Taking, TypeOK
    <3>5. rck' \in [Torrents -> RecheckState]
      BY <2>14, <3>1, <3>2, <3>3 DEF TakeRecheck, TypeOK
    <3>6. QED
      BY <2>14, <3>4, <3>5 DEF TakeRecheck, TypeOK, WithinBounds, LiveIsHot, IsHot
  <2>15. ASSUME TickFlush PROVE TypeOK'
    <3>1. pending' \subseteq Haves
      BY <2>15 DEF TickFlush, TypeOK
    <3>2. task' \in [Tasks -> TaskState]
      BY <2>15, IdleType DEF TickFlush, TaskSet, TaskState, TaskPcs, Tasks, TypeOK
    <3>3. QED
      BY <2>15, <3>1, <3>2 DEF TickFlush, TypeOK, WithinBounds, LiveIsHot, IsHot
  <2>16. ASSUME TickFlushWrite PROVE TypeOK'
    <3>1. task["tick"].batch \subseteq Haves
      BY <2>16 DEF TickFlushWrite, Tasks, TaskState, TypeOK
    <3>2. row' \in [Torrents -> Row]
      BY <2>16, <3>1, MarkBatchType DEF TickFlushWrite, TypeOK
    <3>3. pending' \subseteq Haves
      BY <2>16, <3>1, MarkBatchType DEF TickFlushWrite, TypeOK
    <3>4. WithinBounds'
      BY <2>16, <3>1, MarkBatchType DEF TickFlushWrite, TypeOK
    <3>5. task' \in [Tasks -> TaskState]
      BY <2>16, IdleType DEF TickFlushWrite, TaskSet, TypeOK
    <3>6. QED
      BY <2>16, <3>2, <3>3, <3>4, <3>5
      DEF TickFlushWrite, TypeOK, WithinBounds, LiveIsHot, IsHot
  <2>17. ASSUME NEW x \in Tasks, SyncList(x) PROVE TypeOK'
    <3>1. task' \in [Tasks -> TaskState]
      BY <2>17, IdleType DEF SyncList, TaskSet, TaskState, TaskPcs, TypeOK
    <3>2. QED
      BY <2>17, <3>1 DEF SyncList, TypeOK, WithinBounds, LiveIsHot, IsHot
  <2>18. ASSUME NEW x \in Tasks, SyncNext(x) PROVE TypeOK'
    <3>1. \A t \in task[x].todo :
             [task[x] EXCEPT !.t = t, !.todo = @ \ {t},
                !.pc = IF IsHot(t) THEN "next" ELSE "load"] \in TaskState
      BY <2>18 DEF SyncNext, TaskState, TaskPcs, TypeOK
    <3>2. task' \in [Tasks -> TaskState]
      BY <2>18, <3>1, IdleType, TaskSetType DEF SyncNext, TypeOK
    <3>3. QED
      BY <2>18, <3>2 DEF SyncNext, TypeOK, WithinBounds, LiveIsHot, IsHot
  <2>19. ASSUME NEW x \in Tasks, SyncLoad(x) PROVE TypeOK'
    <3>1. task[x].t \in Torrents
      BY <2>19 DEF SyncLoad, TaskState, TypeOK
    <3>2. [task[x] EXCEPT !.pc = "publish", !.bits = row[task[x].t].bits] \in TaskState
      BY <2>19 DEF SyncLoad, TaskState, TaskPcs, Row, TypeOK
    <3>3. [task[x] EXCEPT !.pc = "next"] \in TaskState
      BY <2>19 DEF SyncLoad, TaskState, TaskPcs, TypeOK
    <3>4. row' \in [Torrents -> Row]
      BY <2>19, <3>1, <3>2, <3>3, WantingType DEF SyncLoad, Commit, CommitFails, TypeOK
    <3>5. task' \in [Tasks -> TaskState]
      BY <2>19, <3>1, <3>2, <3>3, TaskSetType DEF SyncLoad, TypeOK
    <3>6. WithinBounds'
      BY <2>19, SpendType
      DEF SyncLoad, Commit, CommitFails, Resources, WithinBounds, TypeOK
    <3>7. QED
      BY <2>19, <3>4, <3>5, <3>6 DEF SyncLoad, TypeOK, WithinBounds, LiveIsHot, IsHot
  <2>20. ASSUME NEW x \in Tasks, SyncPublish(x) PROVE TypeOK'
    <3>1. task[x].t \in Torrents /\ task[x].bits \subseteq Pieces
      BY <2>20 DEF SyncPublish, TaskState, TypeOK
    <3>2. ram' \in [Torrents -> {Cold} \cup SUBSET Pieces]
      BY <2>20, <3>1 DEF SyncPublish, PublishHot, TypeOK
    <3>3. LiveIsHot'
      BY <2>20 DEF SyncPublish, PublishHot, LiveIsHot, IsHot, Leech, TypeOK
    <3>4. task' \in [Tasks -> TaskState]
      BY ZenonT(60), <2>20 DEF SyncPublish, TaskSet, TaskState, TaskPcs, TypeOK
    <3>5. WithinBounds'
      BY <2>20, SpendType DEF SyncPublish, Resources, WithinBounds, TypeOK
    <3>6. QED
      BY <2>20, <3>2, <3>3, <3>4, <3>5
      DEF SyncPublish, TypeOK, WithinBounds, LiveIsHot, IsHot
  <2>21. ASSUME NEW t \in Torrents, CheckPiece(t) PROVE TypeOK'
    <3>1. rck' \in [Torrents -> RecheckState]
      BY ZenonT(60), <2>21, RckSetType DEF CheckPiece, RecheckState, TypeOK
    <3>2. QED
      BY <2>21, <3>1 DEF CheckPiece, TypeOK, WithinBounds, LiveIsHot, IsHot
  <2>22. ASSUME NEW t \in Torrents, FinishRecheck(t) PROVE TypeOK'
    <3>1. [row[t] EXCEPT !.bits = rck[t].good] \in Row
      BY DEF Row, RecheckState, TypeOK
    <3>2. row' \in [Torrents -> Row]
      BY <2>22, <3>1 DEF FinishRecheck, TypeOK
    <3>3. [rck[t] EXCEPT !.pc = "done"] \in RecheckState
      BY DEF RecheckState, RckPcs, TypeOK
    <3>4. rck' \in [Torrents -> RecheckState]
      BY <2>22, <3>3, RckSetType DEF FinishRecheck
    <3>5. QED
      BY <2>22, <3>2, <3>4 DEF FinishRecheck, TypeOK, WithinBounds, LiveIsHot, IsHot
  <2>23. ASSUME NEW t \in Torrents, RecheckFails(t) PROVE TypeOK'
    <3>1. rck' \in [Torrents -> RecheckState]
      BY <2>23 DEF RecheckFails, RckSet, RecheckState, RckPcs, TypeOK
    <3>2. WithinBounds'
      BY <2>23, SpendType DEF RecheckFails, Resources, WithinBounds, TypeOK
    <3>3. QED
      BY <2>23, <3>1, <3>2 DEF RecheckFails, TypeOK, WithinBounds, LiveIsHot, IsHot
  <2>24. ASSUME NEW t \in Torrents, EndRecheck(t) PROVE TypeOK'
    <3>1. rck' \in [Torrents -> RecheckState]
      BY <2>24 DEF EndRecheck, RckSet, RckOff, RecheckState, RckPcs, TypeOK
    <3>2. QED
      BY <2>24, <3>1 DEF EndRecheck, TypeOK, WithinBounds, LiveIsHot, IsHot
  <2>25. ASSUME NEW t \in Torrents, QueryWant(t) PROVE TypeOK'
    <3>1. rck' \in [Torrents -> RecheckState]
      BY SMTT(20), <2>25 DEF QueryWant, RckSet, RckOff, RecheckState, RckPcs, TypeOK
    <3>2. QED
      BY <2>25, <3>1 DEF QueryWant, TypeOK, WithinBounds, LiveIsHot, IsHot
  <2>26. ASSUME NEW t \in Torrents, SendSync(t) PROVE TypeOK'
    <3>1. queue' \in Seq(Command)
      BY <2>26, AppendType DEF SendSync, Command, TypeOK
    <3>2. rck' \in [Torrents -> RecheckState]
      BY <2>26 DEF SendSync, RckSet, RckOff, RecheckState, RckPcs, TypeOK
    <3>3. QED
      BY <2>26, <3>1, <3>2 DEF SendSync, TypeOK, WithinBounds, LiveIsHot, IsHot
  <2>27. ASSUME NEW t \in Torrents, NEW i \in Pieces, FetchPiece(t, i) PROVE TypeOK'
    <3>1. JobAt(t, i, TRUE, "fetch") \in Leech
      BY <2>27 DEF FetchPiece, JobAt, Leech, TypeOK
    <3>2. jobs' \subseteq Leech
      BY <2>27, <3>1 DEF FetchPiece, TypeOK
    <3>3. LiveIsHot'
      BY <2>27 DEF FetchPiece, JobAt, LiveIsHot, IsHot, TypeOK
    <3>4. QED
      BY <2>27, <3>2, <3>3 DEF FetchPiece, TypeOK, WithinBounds, LiveIsHot, IsHot
  <2>28. ASSUME NEW j \in jobs, WritePiece(j) PROVE TypeOK'
    <3>1. disk' \in [Torrents -> SUBSET Pieces]
      BY <2>28 DEF WritePiece, Leech, TypeOK
    <3>2. jobs' \subseteq Leech
      BY <2>28 DEF WritePiece, Move, Leech, TypeOK
    <3>3. LiveIsHot'
      BY <2>28 DEF WritePiece, Move, LiveIsHot, IsHot, Leech, TypeOK
    <3>4. QED
      BY <2>28, <3>1, <3>2, <3>3 DEF WritePiece, TypeOK, WithinBounds, LiveIsHot, IsHot
  <2>29. ASSUME NEW j \in jobs, MarkPiece(j) PROVE TypeOK'
    <3>1. j.t \in Torrents /\ j.i \in Pieces
      BY <2>29 DEF MarkPiece, Leech, TypeOK
    <3>2. j.live => ram' = [ram EXCEPT ![j.t] = @ \cup {j.i}]
      BY <2>29, <3>1 DEF MarkPiece, TypeOK
    <3>3. j.live => ram[j.t] \cup {j.i} \in SUBSET Pieces
      BY <2>29, <3>2, <3>1 DEF MarkPiece, LiveIsHot, IsHot, TypeOK
    <3>4. ram' \in [Torrents -> {Cold} \cup SUBSET Pieces]
      BY <2>29, <3>1, <3>2, <3>3 DEF MarkPiece, TypeOK
    <3>5. LiveIsHot'
      BY <2>29, <3>1, <3>2, <3>3 DEF MarkPiece, Move, LiveIsHot, IsHot, Leech, TypeOK
    <3>6. jobs' \subseteq Leech
      BY <2>29 DEF MarkPiece, Move, Leech, TypeOK
    <3>7. QED
      BY <2>29, <3>4, <3>5, <3>6 DEF MarkPiece, TypeOK, WithinBounds, LiveIsHot, IsHot
  <2>30. ASSUME NEW j \in jobs, QueueHave(j) PROVE TypeOK'
    <3>1. pending' \subseteq Haves
      BY <2>30 DEF QueueHave, Leech, Haves, TypeOK
    <3>2. jobs' \subseteq Leech
      BY <2>30 DEF QueueHave, TypeOK
    <3>3. LiveIsHot'
      BY <2>30 DEF QueueHave, LiveIsHot, IsHot, TypeOK
    <3>4. QED
      BY <2>30, <3>1, <3>2, <3>3 DEF QueueHave, TypeOK, WithinBounds, LiveIsHot, IsHot
  <2>31. ASSUME NEW j \in jobs, DropJob(j) PROVE TypeOK'
    <3>1. jobs' \subseteq Leech
      BY <2>31 DEF DropJob, TypeOK
    <3>2. LiveIsHot'
      BY <2>31 DEF DropJob, LiveIsHot, IsHot, TypeOK
    <3>3. QED
      BY <2>31, <3>1, <3>2 DEF DropJob, TypeOK, WithinBounds, LiveIsHot, IsHot
  <2>32. ASSUME NEW t \in Torrents, NEW i \in Pieces, Damage(t, i) PROVE TypeOK'
    <3>1. disk' \in [Torrents -> SUBSET Pieces]
      BY <2>32 DEF Damage, TypeOK
    <3>2. WithinBounds'
      BY <2>32, SpendType DEF Damage, Resources, TypeOK
    <3>3. QED
      BY <2>32, <3>1, <3>2 DEF Damage, TypeOK, WithinBounds, LiveIsHot, IsHot
  <2>33. ASSUME Crash PROVE TypeOK'
    <3>1. ram' \in [Torrents -> {Cold} \cup SUBSET Pieces]
      BY <2>33 DEF Crash, TypeOK
    <3>2. mut' \in WorkerState
      BY <2>33, IdleType DEF Crash, TypeOK
    <3>3. task' \in [Tasks -> TaskState]
      BY <2>33, BootedType DEF Crash, TypeOK
    <3>4. queue' \in Seq(Command)
      BY <2>33 DEF Crash, TypeOK
    <3>5. rck' \in [Torrents -> RecheckState]
      BY <2>33 DEF Crash, RckOff, RecheckState, RckPcs, TypeOK
    <3>6. asked' \in [Torrents -> BOOLEAN]
      BY <2>33 DEF Crash, Row, TypeOK
    <3>7. WithinBounds'
      BY <2>33, SpendType DEF Crash, Resources, TypeOK
    <3>8. jobs' \subseteq Leech
      BY <2>33 DEF Crash, TypeOK
    <3>9. LiveIsHot'
      BY <2>33 DEF Crash, LiveIsHot, TypeOK
    <3>10. pending' \subseteq Haves
      BY <2>33 DEF Crash, TypeOK
    <3>11. QED
      BY <2>33, <3>1, <3>2, <3>3, <3>4, <3>5, <3>6, <3>7, <3>8, <3>9, <3>10
      DEF Crash, TypeOK, WithinBounds, LiveIsHot, IsHot
  <2>34. CASE UNCHANGED vars
    BY <2>34 DEF vars, TypeOK, WithinBounds, LiveIsHot, IsHot
  <2>35. QED
    BY <2>1, <2>2, <2>3, <2>4, <2>5, <2>6, <2>7, <2>8, <2>9, <2>10, <2>11, <2>12,
       <2>13, <2>14, <2>15, <2>16, <2>17, <2>18, <2>19, <2>20, <2>21, <2>22,
       <2>23, <2>24, <2>25, <2>26, <2>27, <2>28, <2>29, <2>30, <2>31, <2>32,
       <2>33, <2>34
    DEF Next, MutationStep, SyncStep, RecheckStep, LeechStep
<1>3. QED
  BY <1>1, <1>2, PTL DEF Spec

\* The piece of a piece-have event has its bytes on disk.
Landed(e) == e[2] \in disk[e[1]]

RowsLanded == \A t \in Torrents : row[t].bits \subseteq disk[t]
PendingLanded == \A e \in pending : Landed(e)
WorkerLanded == \A e \in mut.batch : Landed(e)
TasksLanded == \A x \in Tasks : \A e \in task[x].batch : Landed(e)
JobsLanded == \A j \in jobs : j.st # "fetch" => j.i \in disk[j.t]
VerdictsLanded == \A t \in Torrents : rck[t].good \subseteq disk[t]

AllLanded ==
    /\ RowsLanded /\ PendingLanded /\ WorkerLanded
    /\ TasksLanded /\ JobsLanded /\ VerdictsLanded

\* The inductive invariant: wherever a piece's possession is on its way to the
\* catalog, its bytes are already on disk.
VerifiedInv == used.damage = 0 => AllLanded

\* Idle workers and tasks carry no batch.
LEMMA IdleLanded ==
  /\ MutIdle.batch = {} /\ TaskIdle.batch = {}
  /\ \A pc, t, restart : [MutIdle EXCEPT !.pc = pc, !.t = t, !.restart = restart].batch = {}
  /\ \A pc : [TaskIdle EXCEPT !.pc = pc].batch = {}
  /\ \A pc, b : [TaskIdle EXCEPT !.pc = pc, !.batch = b].batch = b
  /\ \A pc, s : [TaskIdle EXCEPT !.pc = pc, !.todo = s].batch = {}
BY DEF MutIdle, TaskIdle

\* No damage after a step, none before it.
LEMMA DamageStays ==
  ASSUME TypeOK, NEW r \in Resources, Spend(r), used'.damage = 0
  PROVE  used.damage = 0
BY DEF TypeOK, WithinBounds, Resources, Spend

\* set_want_start leaves the bitfields alone.
LEMMA WantingBits ==
  ASSUME TypeOK, NEW t \in Torrents, NEW w \in BOOLEAN, NEW u \in Torrents
  PROVE  Wanting(t, w)[u].bits = row[u].bits
BY DEF TypeOK, Wanting, Row

\* mark_deleted and remove_torrent at most empty a bitfield.
LEMMA ErasedBits ==
  ASSUME TypeOK, NEW t \in Torrents, NEW op, NEW u \in Torrents
  PROVE  Erased(t, op)[u].bits \subseteq row[u].bits
BY DEF TypeOK, Erased, Gone, Row

\* So neither use of the catalog can name a piece that is not on disk.
LEMMA WantingLands ==
  ASSUME TypeOK, RowsLanded, NEW t \in Torrents, NEW w \in BOOLEAN,
         row' = Wanting(t, w) \/ row' = row, UNCHANGED disk
  PROVE  RowsLanded'
<1>1. \A u \in Torrents : row'[u].bits = row[u].bits
  BY WantingBits
<1>2. QED
  BY <1>1 DEF RowsLanded

\* What a worker takes along when it takes up a job: nothing, or a part of the
\* buffer.
LEMMA WorkerBatch ==
  /\ \A pc, t, restart : MutAt(pc, t, restart) => mut'.batch = {}
  /\ \A t, restart : BeginStop(t, restart) => mut'.batch \subseteq pending
  /\ MutDone => mut'.batch = {}
<1>1. ASSUME NEW pc, NEW t, NEW restart, MutAt(pc, t, restart) PROVE mut'.batch = {}
  BY <1>1 DEF MutAt, MutIdle
<1>2. ASSUME NEW t, NEW restart, BeginStop(t, restart) PROVE mut'.batch \subseteq pending
  BY <1>2 DEF BeginStop, MutIdle
<1>3. MutDone => mut'.batch = {}
  BY DEF MutDone, MutIdle
<1>4. QED
  BY <1>1, <1>2, <1>3

\* A task that moves on with the batch it has, or with none, has landed pieces.
LEMMA TaskSetLands ==
  ASSUME TypeOK, TasksLanded, NEW x \in Tasks, NEW r \in TaskState,
         r.batch \subseteq task[x].batch, TaskSet(x, r), UNCHANGED disk
  PROVE  TasksLanded'
BY DEF TaskSet, TasksLanded, Landed, TypeOK

\* A flush adds to the bitfields what its batch names, or puts the batch back.
LEMMA MarkBatchLands ==
  ASSUME TypeOK, NEW b \in SUBSET Haves, \A e \in b : Landed(e),
         RowsLanded, PendingLanded, MarkBatch(b), UNCHANGED disk
  PROVE  RowsLanded' /\ PendingLanded'
<1>1. RowsLanded'
  <2>1. SUFFICES ASSUME NEW t \in Torrents PROVE row'[t].bits \subseteq disk[t]
    BY DEF RowsLanded
  <2>2. BatchPieces(b, t) \subseteq disk[t]
    BY DEF BatchPieces, Landed
  <2>3. row'[t].bits = row[t].bits \cup BatchPieces(b, t) \/ row' = row
    BY DEF MarkBatch, TypeOK, Row
  <2>4. QED
    BY <2>2, <2>3 DEF RowsLanded
<1>2. PendingLanded'
  BY DEF MarkBatch, PendingLanded, Landed
<1>3. QED
  BY <1>1, <1>2

\* The states sync_want_start moves a task to: same batch, or idle.
LEMMA NextState ==
  ASSUME TypeOK, NEW x \in Tasks, SyncNext(x)
  PROVE  \E r \in TaskState : TaskSet(x, r) /\ r.batch \subseteq task[x].batch
<1>1. CASE task[x].todo = {}
  BY <1>1, IdleType, IdleLanded DEF SyncNext
<1>2. CASE task[x].todo # {}
  <2>1. PICK t \in task[x].todo :
          TaskSet(x, [task[x] EXCEPT !.t = t, !.todo = @ \ {t},
                        !.pc = IF IsHot(t) THEN "next" ELSE "load"])
    BY <1>2 DEF SyncNext
  <2>2. LET r == [task[x] EXCEPT !.t = t, !.todo = @ \ {t},
                    !.pc = IF IsHot(t) THEN "next" ELSE "load"]
        IN  r \in TaskState /\ r.batch = task[x].batch
    BY DEF TypeOK, TaskState, TaskPcs
  <2>3. QED
    BY <2>1, <2>2
<1>3. QED
  BY <1>1, <1>2

\* The states load_from_catalog leaves a task in: same batch, or idle.
LEMMA LoadedState ==
  ASSUME TypeOK, NEW x \in Tasks, SyncLoad(x)
  PROVE  \E r \in TaskState : TaskSet(x, r) /\ r.batch \subseteq task[x].batch
<1>1. /\ task[x].t \in Torrents
      /\ [task[x] EXCEPT !.pc = "next"] \in TaskState
      /\ [task[x] EXCEPT !.pc = "next"].batch = task[x].batch
  BY DEF TypeOK, TaskState, TaskPcs
<1>2. LET r == [task[x] EXCEPT !.pc = "publish", !.bits = row[task[x].t].bits]
      IN  r \in TaskState /\ r.batch = task[x].batch
  BY <1>1 DEF TypeOK, TaskState, TaskPcs, Row
<1>3. QED
  BY <1>1, <1>2 DEF SyncLoad

\* Every step of every thread keeps VerifiedInv: one step per action, under it
\* the parts it touches.
LEMMA VerifiedStep == TypeOK /\ VerifiedInv /\ [Next]_vars => VerifiedInv'
<1> SUFFICES ASSUME TypeOK, VerifiedInv, [Next]_vars, used'.damage = 0 PROVE AllLanded'
  BY DEF VerifiedInv
<1>1. ASSUME NEW op \in Ops, NEW t \in Torrents, Issue(op, t) PROVE AllLanded'
  <2>1. AllLanded
    BY <1>1, DamageStays DEF Issue, VerifiedInv, Resources
  <2>2. QED
    BY <1>1, <2>1
    DEF Issue, AllLanded, RowsLanded, PendingLanded, Landed, WorkerLanded,
        TasksLanded, JobsLanded, VerdictsLanded
<1>2. ASSUME TakeStart PROVE AllLanded'
  <2>1. AllLanded
    BY <1>2 DEF TakeStart, VerifiedInv
  <2>2. WorkerLanded'
    BY <1>2, <2>1, IdleLanded
    DEF TakeStart, MutAt, WorkerLanded, Landed, AllLanded, TypeOK
  <2>3. QED
    BY <1>2, <2>1, <2>2
    DEF TakeStart, AllLanded, RowsLanded, PendingLanded, Landed, TasksLanded,
        JobsLanded, VerdictsLanded
<1>3. ASSUME StartCheck PROVE AllLanded'
  <2>1. AllLanded
    BY <1>3 DEF StartCheck, VerifiedInv
  <2>2. WorkerLanded'
    BY <1>3, <2>1
    DEF StartCheck, MutGoto, WorkerState, WorkerLanded, Landed, AllLanded, TypeOK
  <2>3. QED
    BY <1>3, <2>1, <2>2
    DEF StartCheck, AllLanded, RowsLanded, PendingLanded, Landed, TasksLanded,
        JobsLanded, VerdictsLanded
<1>4. ASSUME StartHot PROVE AllLanded'
  <2>1. AllLanded
    BY <1>4, DamageStays DEF StartHot, VerifiedInv, Resources, Commit, CommitFails
  <2>2. mut.t \in Torrents
    BY <1>4, <2>1 DEF StartHot, WorkerState, TypeOK, AllLanded
  <2>3. row' = Wanting(mut.t, TRUE) \/ row' = row
    BY <1>4, <2>1 DEF StartHot, Commit, CommitFails, TypeOK, AllLanded
  <2>4. RowsLanded'
    BY <1>4, <2>1, <2>2, <2>3, WantingLands DEF StartHot, RowsLanded, AllLanded, TypeOK
  <2>5. WorkerLanded'
    BY <1>4, <2>1, IdleLanded
    DEF StartHot, MutDone, WorkerLanded, Landed, AllLanded, TypeOK
  <2>6. QED
    BY <1>4, <2>1, <2>4, <2>5
    DEF StartHot, AllLanded, PendingLanded, Landed, TasksLanded, JobsLanded,
        VerdictsLanded
<1>5. ASSUME StartLoad PROVE AllLanded'
  <2>1. AllLanded
    BY <1>5, DamageStays DEF StartLoad, VerifiedInv, Resources, Commit, CommitFails
  <2>2. mut.t \in Torrents
    BY <1>5, <2>1 DEF StartLoad, WorkerState, TypeOK, AllLanded
  <2>3. row' = Wanting(mut.t, TRUE) \/ row' = row
    BY <1>5, <2>1 DEF StartLoad, Commit, CommitFails, TypeOK, AllLanded
  <2>4. RowsLanded'
    BY <1>5, <2>1, <2>2, <2>3, WantingLands DEF StartLoad, RowsLanded, AllLanded, TypeOK
  <2>5. WorkerLanded'
    BY <1>5, <2>1, IdleLanded
    DEF StartLoad, MutDone, WorkerState, WorkerLanded, Landed, AllLanded, TypeOK
  <2>6. QED
    BY <1>5, <2>1, <2>4, <2>5
    DEF StartLoad, AllLanded, PendingLanded, Landed, TasksLanded, JobsLanded,
        VerdictsLanded
<1>6. ASSUME StartPublish PROVE AllLanded'
  <2>1. AllLanded
    BY <1>6, DamageStays DEF StartPublish, VerifiedInv, Resources
  <2>2. WorkerLanded'
    BY <1>6, <2>1, IdleLanded
    DEF StartPublish, MutDone, WorkerLanded, Landed, AllLanded, TypeOK
  <2>3. QED
    BY <1>6, <2>1, <2>2
    DEF StartPublish, AllLanded, RowsLanded, PendingLanded, Landed, TasksLanded,
        JobsLanded, VerdictsLanded
<1>7. ASSUME TakeStop PROVE AllLanded'
  <2>1. AllLanded
    BY <1>7 DEF TakeStop, VerifiedInv
  <2>2. WorkerLanded'
    BY <1>7, <2>1, WorkerBatch
    DEF TakeStop, PendingLanded, WorkerLanded, Landed, AllLanded, TypeOK
  <2>3. PendingLanded'
    BY <1>7, <2>1 DEF TakeStop, BeginStop, PendingLanded, Landed, AllLanded, TypeOK
  <2>4. QED
    BY <1>7, <2>1, <2>2, <2>3
    DEF TakeStop, AllLanded, RowsLanded, TasksLanded, Landed, JobsLanded,
        VerdictsLanded
<1>8. ASSUME TakeSync PROVE AllLanded'
  <2>1. AllLanded
    BY <1>8 DEF TakeSync, VerifiedInv
  <2>2. WorkerLanded'
    BY <1>8, <2>1, WorkerBatch
    DEF TakeSync, PendingLanded, WorkerLanded, Landed, AllLanded, TypeOK
  <2>3. PendingLanded'
    BY <1>8, <2>1 DEF TakeSync, BeginStop, PendingLanded, Landed, AllLanded, TypeOK
  <2>4. QED
    BY <1>8, <2>1, <2>2, <2>3
    DEF TakeSync, AllLanded, RowsLanded, TasksLanded, Landed, JobsLanded,
        VerdictsLanded
<1>9. ASSUME StopFlush PROVE AllLanded'
  <2>1. AllLanded
    BY <1>9, DamageStays DEF StopFlush, VerifiedInv, Resources, MarkBatch
  <2>2. RowsLanded'
    BY <1>9, <2>1, MarkBatchLands
    DEF StopFlush, WorkerState, WorkerLanded, RowsLanded, AllLanded, TypeOK
  <2>3. PendingLanded'
    BY <1>9, <2>1, MarkBatchLands
    DEF StopFlush, WorkerState, WorkerLanded, PendingLanded, Landed, AllLanded,
        TypeOK
  <2>4. WorkerLanded'
    BY <1>9, <2>1 DEF StopFlush, WorkerState, WorkerLanded, Landed, AllLanded, TypeOK
  <2>5. QED
    BY <1>9, <2>1, <2>2, <2>3, <2>4
    DEF StopFlush, AllLanded, TasksLanded, Landed, JobsLanded, VerdictsLanded
<1>10. ASSUME StopUnhot PROVE AllLanded'
  <2>1. AllLanded
    BY <1>10 DEF StopUnhot, VerifiedInv
  <2>2. JobsLanded'
    BY <1>10, <2>1 DEF StopUnhot, Leech, JobsLanded, AllLanded, TypeOK
  <2>3. WorkerLanded'
    BY <1>10, <2>1
    DEF StopUnhot, MutGoto, WorkerState, WorkerLanded, Landed, AllLanded, TypeOK
  <2>4. QED
    BY <1>10, <2>1, <2>2, <2>3
    DEF StopUnhot, AllLanded, RowsLanded, PendingLanded, Landed, TasksLanded,
        VerdictsLanded
<1>11. ASSUME StopUnwant PROVE AllLanded'
  <2>1. AllLanded
    BY <1>11, DamageStays DEF StopUnwant, VerifiedInv, Resources, Commit, CommitFails
  <2>2. mut.t \in Torrents
    BY <1>11, <2>1 DEF StopUnwant, WorkerState, TypeOK, AllLanded
  <2>3. row' = Wanting(mut.t, FALSE) \/ row' = row
    BY <1>11, <2>1 DEF StopUnwant, Commit, CommitFails, TypeOK, AllLanded
  <2>4. RowsLanded'
    BY <1>11, <2>1, <2>2, <2>3, WantingLands DEF StopUnwant, RowsLanded, AllLanded, TypeOK
  <2>5. WorkerLanded'
    BY <1>11, <2>1, WorkerBatch DEF StopUnwant, WorkerLanded, Landed, AllLanded, TypeOK
  <2>6. QED
    BY <1>11, <2>1, <2>4, <2>5
    DEF StopUnwant, AllLanded, PendingLanded, Landed, TasksLanded, JobsLanded,
        VerdictsLanded
<1>12. ASSUME NEW op \in {"delete", "remove"}, TakeErase(op) PROVE AllLanded'
  <2>1. AllLanded
    BY <1>12 DEF TakeErase, VerifiedInv
  <2>2. WorkerLanded'
    BY <1>12, <2>1, WorkerBatch DEF TakeErase, WorkerLanded, Landed, AllLanded, TypeOK
  <2>3. QED
    BY <1>12, <2>1, <2>2
    DEF TakeErase, AllLanded, RowsLanded, PendingLanded, Landed, TasksLanded,
        JobsLanded, VerdictsLanded
<1>13. ASSUME EraseRow PROVE AllLanded'
  <2>1. AllLanded
    BY <1>13, DamageStays DEF EraseRow, VerifiedInv, Resources, Commit, CommitFails
  <2>2. RowsLanded'
    BY <1>13, <2>1, ErasedBits
    DEF EraseRow, Commit, CommitFails, WorkerState, RowsLanded, AllLanded, TypeOK
  <2>3. WorkerLanded'
    BY <1>13, <2>1, IdleLanded
    DEF EraseRow, MutDone, WorkerLanded, Landed, AllLanded, TypeOK
  <2>4. QED
    BY <1>13, <2>1, <2>2, <2>3
    DEF EraseRow, AllLanded, PendingLanded, Landed, TasksLanded, JobsLanded,
        VerdictsLanded
<1>14. ASSUME TakeRecheck PROVE AllLanded'
  <2>1. AllLanded
    BY <1>14 DEF TakeRecheck, VerifiedInv
  <2>2. \/ rck' = rck
        \/ \E t \in Torrents :
             RckSet(t, [pc |-> "check", left |-> Pieces, good |-> {}, wasHot |-> IsHot(t)])
    BY <1>14, <2>1, HeadTailType
    DEF TakeRecheck, Taking, Command, RckSet, TypeOK, AllLanded
  <2>3. \A t \in Torrents : rck'[t].good \subseteq rck[t].good
    BY <1>14, <2>1, <2>2 DEF TakeRecheck, RckSet, TypeOK, AllLanded
  <2>4. VerdictsLanded'
    BY <1>14, <2>1, <2>2, <2>3 DEF TakeRecheck, VerdictsLanded, AllLanded, TypeOK
  <2>5. QED
    BY <1>14, <2>1, <2>4
    DEF TakeRecheck, AllLanded, RowsLanded, PendingLanded, Landed, WorkerLanded,
        TasksLanded, JobsLanded
<1>15. ASSUME TickFlush PROVE AllLanded'
  <2>1. AllLanded
    BY <1>15 DEF TickFlush, VerifiedInv
  <2>2. PendingLanded'
    BY <1>15, <2>1 DEF TickFlush, PendingLanded, Landed, AllLanded, TypeOK
  <2>3. TasksLanded'
    BY <1>15, <2>1, IdleLanded
    DEF TickFlush, TaskSet, TaskState, Tasks, PendingLanded, TasksLanded, Landed,
        AllLanded, TypeOK
  <2>4. QED
    BY <1>15, <2>1, <2>2, <2>3
    DEF TickFlush, AllLanded, RowsLanded, WorkerLanded, Landed, JobsLanded,
        VerdictsLanded
<1>16. ASSUME TickFlushWrite PROVE AllLanded'
  <2>1. AllLanded
    BY <1>16, DamageStays DEF TickFlushWrite, VerifiedInv, Resources, MarkBatch
  <2>2. task["tick"].batch \subseteq Haves /\ \A e \in task["tick"].batch : Landed(e)
    BY <1>16, <2>1 DEF TickFlushWrite, TaskState, Tasks, TasksLanded, TypeOK, AllLanded
  <2>3. RowsLanded'
    BY <1>16, <2>1, <2>2, MarkBatchLands DEF TickFlushWrite, RowsLanded, AllLanded, TypeOK
  <2>4. PendingLanded'
    BY <1>16, <2>1, <2>2, MarkBatchLands
    DEF TickFlushWrite, PendingLanded, Landed, AllLanded, TypeOK
  <2>5. TasksLanded'
    BY <1>16, <2>1, IdleLanded
    DEF TickFlushWrite, TaskSet, TasksLanded, Landed, AllLanded, TypeOK
  <2>6. QED
    BY <1>16, <2>1, <2>3, <2>4, <2>5
    DEF TickFlushWrite, AllLanded, WorkerLanded, Landed, JobsLanded,
        VerdictsLanded
<1>17. ASSUME NEW x \in Tasks, SyncList(x) PROVE AllLanded'
  <2>1. AllLanded
    BY <1>17 DEF SyncList, VerifiedInv
  <2>2. TasksLanded'
    BY <1>17, <2>1, IdleLanded
    DEF SyncList, TaskSet, TasksLanded, Landed, AllLanded, TypeOK
  <2>3. QED
    BY <1>17, <2>1, <2>2
    DEF SyncList, AllLanded, RowsLanded, PendingLanded, Landed, WorkerLanded,
        JobsLanded, VerdictsLanded
<1>18. ASSUME NEW x \in Tasks, SyncNext(x) PROVE AllLanded'
  <2>1. AllLanded
    BY <1>18 DEF SyncNext, VerifiedInv
  <2>2. PICK r \in TaskState : TaskSet(x, r) /\ r.batch \subseteq task[x].batch
    BY <1>18, <2>1, NextState DEF SyncNext, TypeOK, AllLanded
  <2>3. TasksLanded'
    BY <1>18, <2>1, <2>2, TaskSetLands
    DEF SyncNext, TasksLanded, Landed, AllLanded, TypeOK
  <2>4. QED
    BY <1>18, <2>1, <2>3
    DEF SyncNext, AllLanded, RowsLanded, PendingLanded, Landed, WorkerLanded,
        JobsLanded, VerdictsLanded
<1>19. ASSUME NEW x \in Tasks, SyncLoad(x) PROVE AllLanded'
  <2>1. AllLanded
    BY <1>19, DamageStays DEF SyncLoad, VerifiedInv, Resources, Commit, CommitFails
  <2>2. task[x].t \in Torrents
    BY <1>19, <2>1 DEF SyncLoad, TaskState, TypeOK, AllLanded
  <2>3. row' = Wanting(task[x].t, TRUE) \/ row' = row
    BY <1>19, <2>1 DEF SyncLoad, Commit, CommitFails, TypeOK, AllLanded
  <2>4. PICK r \in TaskState : TaskSet(x, r) /\ r.batch \subseteq task[x].batch
    BY <1>19, <2>1, LoadedState DEF SyncLoad, TypeOK, AllLanded
  <2>5. RowsLanded'
    BY <1>19, <2>1, <2>2, <2>3, <2>4, WantingLands
    DEF SyncLoad, RowsLanded, AllLanded, TypeOK
  <2>6. TasksLanded'
    BY <1>19, <2>1, <2>2, <2>3, <2>4, TaskSetLands
    DEF SyncLoad, TasksLanded, Landed, AllLanded, TypeOK
  <2>7. QED
    BY <1>19, <2>1, <2>5, <2>6
    DEF SyncLoad, AllLanded, PendingLanded, Landed, WorkerLanded, JobsLanded,
        VerdictsLanded
<1>20. ASSUME NEW x \in Tasks, SyncPublish(x) PROVE AllLanded'
  <2>1. AllLanded
    BY <1>20, DamageStays DEF SyncPublish, VerifiedInv, Resources
  <2>2. TasksLanded'
    BY <1>20, <2>1
    DEF SyncPublish, TaskSet, TaskState, TasksLanded, Landed, AllLanded, TypeOK
  <2>3. QED
    BY <1>20, <2>1, <2>2
    DEF SyncPublish, AllLanded, RowsLanded, PendingLanded, Landed, WorkerLanded,
        JobsLanded, VerdictsLanded
<1>21. ASSUME NEW t \in Torrents, CheckPiece(t) PROVE AllLanded'
  <2>1. AllLanded
    BY <1>21 DEF CheckPiece, VerifiedInv
  <2>2. VerdictsLanded'
    BY <1>21, <2>1 DEF CheckPiece, RckSet, RecheckState, VerdictsLanded, AllLanded, TypeOK
  <2>3. QED
    BY <1>21, <2>1, <2>2
    DEF CheckPiece, AllLanded, RowsLanded, PendingLanded, Landed, WorkerLanded,
        TasksLanded, JobsLanded
<1>22. ASSUME NEW t \in Torrents, FinishRecheck(t) PROVE AllLanded'
  <2>1. AllLanded
    BY <1>22 DEF FinishRecheck, VerifiedInv
  <2>2. RowsLanded'
    BY <1>22, <2>1 DEF FinishRecheck, VerdictsLanded, Row, RowsLanded, AllLanded, TypeOK
  <2>3. VerdictsLanded'
    BY <1>22, <2>1
    DEF FinishRecheck, RckSet, RecheckState, VerdictsLanded, AllLanded, TypeOK
  <2>4. QED
    BY <1>22, <2>1, <2>2, <2>3
    DEF FinishRecheck, AllLanded, PendingLanded, Landed, WorkerLanded,
        TasksLanded, JobsLanded
<1>23. ASSUME NEW t \in Torrents, RecheckFails(t) PROVE AllLanded'
  <2>1. AllLanded
    BY <1>23, DamageStays DEF RecheckFails, VerifiedInv, Resources
  <2>2. VerdictsLanded'
    BY <1>23, <2>1
    DEF RecheckFails, RckSet, RecheckState, VerdictsLanded, AllLanded, TypeOK
  <2>3. QED
    BY <1>23, <2>1, <2>2
    DEF RecheckFails, AllLanded, RowsLanded, PendingLanded, Landed, WorkerLanded,
        TasksLanded, JobsLanded
<1>24. ASSUME NEW t \in Torrents, EndRecheck(t) PROVE AllLanded'
  <2>1. AllLanded
    BY <1>24 DEF EndRecheck, VerifiedInv
  <2>2. VerdictsLanded'
    BY <1>24, <2>1
    DEF EndRecheck, RckSet, RckOff, RecheckState, VerdictsLanded, AllLanded,
        TypeOK
  <2>3. QED
    BY <1>24, <2>1, <2>2
    DEF EndRecheck, AllLanded, RowsLanded, PendingLanded, Landed, WorkerLanded,
        TasksLanded, JobsLanded
<1>25. ASSUME NEW t \in Torrents, QueryWant(t) PROVE AllLanded'
  <2>1. AllLanded
    BY <1>25 DEF QueryWant, VerifiedInv
  <2>2. VerdictsLanded'
    BY <1>25, <2>1
    DEF QueryWant, RckSet, RckOff, RecheckState, VerdictsLanded, AllLanded, TypeOK
  <2>3. QED
    BY <1>25, <2>1, <2>2
    DEF QueryWant, AllLanded, RowsLanded, PendingLanded, Landed, WorkerLanded,
        TasksLanded, JobsLanded
<1>26. ASSUME NEW t \in Torrents, SendSync(t) PROVE AllLanded'
  <2>1. AllLanded
    BY <1>26 DEF SendSync, VerifiedInv
  <2>2. VerdictsLanded'
    BY <1>26, <2>1
    DEF SendSync, RckSet, RckOff, RecheckState, VerdictsLanded, AllLanded, TypeOK
  <2>3. QED
    BY <1>26, <2>1, <2>2
    DEF SendSync, AllLanded, RowsLanded, PendingLanded, Landed, WorkerLanded,
        TasksLanded, JobsLanded
<1>27. ASSUME NEW t \in Torrents, NEW i \in Pieces, FetchPiece(t, i) PROVE AllLanded'
  <2>1. AllLanded
    BY <1>27 DEF FetchPiece, VerifiedInv
  <2>2. JobsLanded'
    BY <1>27, <2>1 DEF FetchPiece, JobAt, JobsLanded, AllLanded, TypeOK
  <2>3. QED
    BY <1>27, <2>1, <2>2
    DEF FetchPiece, AllLanded, RowsLanded, PendingLanded, Landed, WorkerLanded,
        TasksLanded, VerdictsLanded
<1>28. ASSUME NEW j \in jobs, WritePiece(j) PROVE AllLanded'
  <2>1. AllLanded
    BY <1>28 DEF WritePiece, VerifiedInv
  <2>2. \A t \in Torrents : disk[t] \subseteq disk'[t]
    BY <1>28, <2>1 DEF WritePiece, Leech, TypeOK, AllLanded
  <2>3. j.t \in Torrents /\ j.i \in disk'[j.t]
    BY <1>28, <2>1 DEF WritePiece, Leech, TypeOK, AllLanded
  <2>4. RowsLanded'
    BY <1>28, <2>1, <2>2, <2>3 DEF WritePiece, RowsLanded, AllLanded, TypeOK
  <2>5. PendingLanded'
    BY <1>28, <2>1, <2>2, <2>3
    DEF WritePiece, Haves, PendingLanded, Landed, AllLanded, TypeOK
  <2>6. WorkerLanded'
    BY <1>28, <2>1, <2>2, <2>3
    DEF WritePiece, WorkerState, Haves, WorkerLanded, Landed, AllLanded, TypeOK
  <2>7. TasksLanded'
    BY <1>28, <2>1, <2>2, <2>3
    DEF WritePiece, TaskState, Haves, TasksLanded, Landed, AllLanded, TypeOK
  <2>8. JobsLanded'
    BY <1>28, <2>1, <2>2, <2>3 DEF WritePiece, Move, Leech, JobsLanded, AllLanded, TypeOK
  <2>9. VerdictsLanded'
    BY <1>28, <2>1, <2>2, <2>3 DEF WritePiece, VerdictsLanded, AllLanded, TypeOK
  <2>10. QED
    BY <1>28, <2>1, <2>4, <2>5, <2>6, <2>7, <2>8, <2>9 DEF WritePiece, AllLanded
<1>29. ASSUME NEW j \in jobs, MarkPiece(j) PROVE AllLanded'
  <2>1. AllLanded
    BY <1>29 DEF MarkPiece, VerifiedInv
  <2>2. JobsLanded'
    BY <1>29, <2>1 DEF MarkPiece, Move, Leech, JobsLanded, AllLanded, TypeOK
  <2>3. QED
    BY <1>29, <2>1, <2>2
    DEF MarkPiece, AllLanded, RowsLanded, PendingLanded, Landed, WorkerLanded,
        TasksLanded, VerdictsLanded
<1>30. ASSUME NEW j \in jobs, QueueHave(j) PROVE AllLanded'
  <2>1. AllLanded
    BY <1>30 DEF QueueHave, VerifiedInv
  <2>2. JobsLanded'
    BY <1>30, <2>1 DEF QueueHave, JobsLanded, AllLanded, TypeOK
  <2>3. PendingLanded'
    BY <1>30, <2>1 DEF QueueHave, JobsLanded, PendingLanded, Landed, AllLanded, TypeOK
  <2>4. QED
    BY <1>30, <2>1, <2>2, <2>3
    DEF QueueHave, AllLanded, RowsLanded, WorkerLanded, Landed, TasksLanded,
        VerdictsLanded
<1>31. ASSUME NEW j \in jobs, DropJob(j) PROVE AllLanded'
  <2>1. AllLanded
    BY <1>31 DEF DropJob, VerifiedInv
  <2>2. JobsLanded'
    BY <1>31, <2>1 DEF DropJob, JobsLanded, AllLanded, TypeOK
  <2>3. QED
    BY <1>31, <2>1, <2>2
    DEF DropJob, AllLanded, RowsLanded, PendingLanded, Landed, WorkerLanded,
        TasksLanded, VerdictsLanded
<1>32. ASSUME NEW t \in Torrents, NEW i \in Pieces, Damage(t, i) PROVE AllLanded'
  <2>1. used'.damage = used.damage + 1 /\ used.damage \in Nat
    BY <1>32 DEF Damage, Spend, TypeOK, WithinBounds, Resources
  <2>2. QED
    BY <2>1
<1>33. ASSUME Crash PROVE AllLanded'
  <2>1. AllLanded
    BY <1>33, DamageStays DEF Crash, VerifiedInv, Resources
  <2>2. PendingLanded'
    BY <1>33, <2>1 DEF Crash, PendingLanded, Landed, AllLanded, TypeOK
  <2>3. WorkerLanded'
    BY <1>33, <2>1, IdleLanded DEF Crash, WorkerLanded, Landed, AllLanded, TypeOK
  <2>4. TasksLanded'
    BY <1>33, <2>1, IdleLanded DEF Crash, Booted, TasksLanded, Landed, AllLanded, TypeOK
  <2>5. JobsLanded'
    BY <1>33, <2>1 DEF Crash, JobsLanded, AllLanded, TypeOK
  <2>6. VerdictsLanded'
    BY <1>33, <2>1 DEF Crash, RckOff, VerdictsLanded, AllLanded, TypeOK
  <2>7. QED
    BY <1>33, <2>1, <2>2, <2>3, <2>4, <2>5, <2>6 DEF Crash, AllLanded, RowsLanded
<1>34. CASE UNCHANGED vars
  BY <1>34
  DEF vars, VerifiedInv, AllLanded, RowsLanded, PendingLanded, WorkerLanded,
      TasksLanded, JobsLanded, VerdictsLanded, Landed
<1>35. QED
  BY <1>1, <1>2, <1>3, <1>4, <1>5, <1>6, <1>7, <1>8, <1>9, <1>10, <1>11, <1>12,
     <1>13, <1>14, <1>15, <1>16, <1>17, <1>18, <1>19, <1>20, <1>21, <1>22, <1>23,
     <1>24, <1>25, <1>26, <1>27, <1>28, <1>29, <1>30, <1>31, <1>32, <1>33, <1>34
  DEF Next, MutationStep, SyncStep, RecheckStep, LeechStep

\* CatalogBehindDisk, whatever the commands, tasks, crashes and faults: while
\* nobody outside touches the payload, the catalog never names a piece whose
\* bytes are not there (mark_pieces_have_batch, finish_recheck).
THEOREM CatalogNeverAhead == Spec => []CatalogBehindDisk
<1>1. Init => VerifiedInv
  BY IdleLanded
  DEF Init, VerifiedInv, AllLanded, RowsLanded, PendingLanded, WorkerLanded,
      TasksLanded, JobsLanded, VerdictsLanded, Row, RckOff, Booted
<1>2. VerifiedInv => CatalogBehindDisk
  BY DEF VerifiedInv, AllLanded, RowsLanded, CatalogBehindDisk
<1>3. QED
  BY <1>1, <1>2, VerifiedStep, TypeCorrect, PTL DEF Spec

-----------------------------------------------------------------------------
(* Possession is covered.                                                  *)

\* Where the possession of a piece is known, one place for each conjunct of
\* Underway and the catalog itself.
Held(e) == e \in pending \/ e \in mut.batch \/ \E x \in Tasks : e \in task[x].batch
Marked(t, i) == \E j \in jobs : j.t = t /\ j.i = i /\ j.st = "marked"
Told(t, i) == i \in row[t].bits \/ Held(<<t, i>>) \/ Marked(t, i)
Known(t) == {i \in Pieces : Told(t, i)}

\* What is known of a torrent is its row and what is under way to it.
LEMMA KnownIs ==
  ASSUME TypeOK, NEW t \in Torrents PROVE Known(t) = row[t].bits \cup Underway(t)
<1>1. row[t].bits \subseteq Pieces
  BY DEF TypeOK, Row
<1>2. \A i : Marked(t, i) <=> i \in {j.i : j \in {k \in jobs : k.t = t /\ k.st = "marked"}}
  BY DEF Marked
<1>3. \A i : Marked(t, i) => i \in Pieces
  BY DEF Marked, TypeOK, Leech
<1>4. ASSUME NEW i \in Pieces
      PROVE  Held(<<t, i>>) <=> \/ i \in BatchPieces(pending, t)
                                \/ i \in BatchPieces(mut.batch \cup UNION {task[x].batch : x \in Tasks}, t)
  BY DEF Held, BatchPieces
<1>5. \A b : BatchPieces(b, t) \subseteq Pieces
  BY DEF BatchPieces
<1>6. QED
  BY <1>1, <1>2, <1>3, <1>4, <1>5 DEF Known, Told, Underway

\* Only a flush that is under way has a batch.
BatchesFlush ==
    /\ mut.batch # {} => mut.pc = "flush"
    /\ \A x \in Tasks : task[x].batch # {} => task[x].pc = "flush"

\* What is hot, and what was loaded and is about to be published, is known.
HotKnown(t) == IsHot(t) => ram[t] \subseteq Known(t)
WorkerKnown(t) == mut.pc = "publish" /\ mut.t = t => mut.bits \subseteq Known(t)
TasksKnown(t) ==
    \A x \in Tasks : task[x].pc = "publish" /\ task[x].t = t => task[x].bits \subseteq Known(t)
Unsettled(t) == row[t].there /\ ~ReloadDue(t)
AllKnown == \A t \in Torrents : Unsettled(t) => HotKnown(t) /\ WorkerKnown(t) /\ TasksKnown(t)

\* No recheck is under way or on its way, ...
NoRecheck == /\ \A t \in Torrents : rck[t].pc = "off"
             /\ \A k \in DOMAIN queue : queue[k].op \notin {"recheck", "sync"}
             /\ ~mut.restart

\* ... or nobody but the mutation worker starts and stops torrents: what is
\* hot wants to run, and so it is reloaded.
WorkerAlone ==
    /\ \A x \in Tasks : task[x].pc \in {"idle", "flush"}
    /\ \A t \in Torrents : IsHot(t) => CanLoad(t) /\ row[t].want
    /\ mut.pc = "publish" => CanLoad(mut.t) /\ row[mut.t].want
    /\ mut.pc \in {"startLoad", "publish", "unwant", "delete", "remove"} => ~IsHot(mut.t)

\* Either way whatever reloads is done before the hot set is used again.
Calm == ("recheck" \notin Ops /\ NoRecheck) \/ (Syncing = {} /\ WorkerAlone)
CoverInv == BatchesFlush /\ AllKnown /\ Calm

-----------------------------------------------------------------------------
(* What the workers and tasks become.                                      *)

\* The worker at a new step has no batch.
LEMMA MutAtFields ==
  ASSUME NEW pc, NEW t, NEW restart, MutAt(pc, t, restart)
  PROVE  /\ mut'.pc = pc /\ mut'.t = t /\ mut'.restart = restart /\ mut'.batch = {}
BY DEF MutAt, MutIdle

\* The worker that is done has nothing left.
LEMMA MutDoneFields ==
  MutDone => mut'.pc = "idle" /\ mut'.restart = FALSE /\ mut'.batch = {}
BY DEF MutDone, MutIdle

\* The worker moves on with what it has.
LEMMA MutGotoFields ==
  ASSUME TypeOK, NEW pc, MutGoto(pc)
  PROVE  /\ mut'.pc = pc /\ mut'.t = mut.t /\ mut'.restart = mut.restart
         /\ mut'.batch = mut.batch /\ mut'.bits = mut.bits
BY DEF MutGoto, TypeOK, WorkerState

\* A stop takes the torrent's entries out of the buffer into its batch.
LEMMA BeginStopFields ==
  ASSUME NEW t, NEW restart, BeginStop(t, restart)
  PROVE  /\ mut'.pc = "flush" /\ mut'.t = t /\ mut'.restart = restart
         /\ \A e \in pending : e \in pending' \/ e \in mut'.batch
BY DEF BeginStop, MutIdle

\* A command is taken from the worker's queue.
LEMMA TakingQueue ==
  ASSUME TypeOK, NEW op, Taking(op)
  PROVE  /\ mut.pc = "idle" /\ Head(queue) \in Command /\ Head(queue).op = op
         /\ \E k \in DOMAIN queue : queue[k] = Head(queue)
         /\ \A k \in DOMAIN queue' : k + 1 \in DOMAIN queue /\ queue'[k] = queue[k + 1]
         /\ \A k \in DOMAIN queue : k = 1 \/ (k - 1 \in DOMAIN queue' /\ queue'[k - 1] = queue[k])
         /\ 1 \in DOMAIN queue /\ queue[1] = Head(queue)
<1>1. queue \in Seq(Command) /\ queue # <<>> /\ queue' = Tail(queue)
  BY DEF TypeOK, Taking
<1>2. QED
  BY <1>1 DEF Taking

\* A command is put into the worker's queue.
LEMMA AppendQueue ==
  ASSUME TypeOK, NEW c, queue' = Append(queue, c)
  PROVE  /\ \A k \in DOMAIN queue : k \in DOMAIN queue' /\ queue'[k] = queue[k]
         /\ \A k \in DOMAIN queue' : (k \in DOMAIN queue /\ queue'[k] = queue[k]) \/ queue'[k] = c
         /\ \E k \in DOMAIN queue' : queue'[k] = c
<1>1. queue \in Seq(Command)
  BY DEF TypeOK
<1>2. /\ DOMAIN queue = 1..Len(queue) /\ Len(queue) \in Nat
      /\ DOMAIN queue' = 1..Len(queue) + 1 /\ queue'[Len(queue) + 1] = c
      /\ \A k \in 1..Len(queue) : queue'[k] = queue[k]
  BY <1>1
<1>3. QED
  BY <1>2

\* What sync_want_start leaves a task with.
LEMMA SyncFields ==
  ASSUME TypeOK, NEW x \in Tasks, SyncStep(x)
  PROVE  /\ \A y \in Tasks \ {x} : task'[y] = task[y]
         /\ task[x].pc # "flush"
         /\ task'[x].batch \subseteq task[x].batch
         /\ UNCHANGED <<disk, jobs, pending, queue, mut, rck, asked>>
<1>1. task[x] \in TaskState /\ TaskIdle.batch = {}
  BY DEF TypeOK, TaskIdle
<1>2. CASE SyncList(x)
  BY <1>1, <1>2, IdleLanded DEF SyncList, TaskSet, TypeOK
<1>3. CASE SyncNext(x)
  <2>1. PICK r \in TaskState : TaskSet(x, r) /\ r.batch \subseteq task[x].batch
    BY <1>3, NextState
  <2>2. QED
    BY <1>3, <2>1 DEF SyncNext, TaskSet, TypeOK
<1>4. CASE SyncLoad(x)
  <2>1. PICK r \in TaskState : TaskSet(x, r) /\ r.batch \subseteq task[x].batch
    BY <1>4, LoadedState
  <2>2. QED
    BY <1>4, <2>1 DEF SyncLoad, TaskSet, TypeOK
<1>5. CASE SyncPublish(x)
  BY <1>1, <1>5 DEF SyncPublish, TaskSet, TypeOK, TaskState
<1>6. QED
  BY <1>2, <1>3, <1>4, <1>5 DEF SyncStep

\* Tasks after a boot.
LEMMA BootedIs ==
  \A x \in Tasks : /\ Booted[x].pc \in {"idle", "list"} /\ Booted[x].batch = {}
                   /\ Booted[x].pc = "list" => Syncing # {}
BY DEF Booted, TaskIdle

\* The tick takes the whole buffer.
LEMMA TickFlushFields ==
  ASSUME TypeOK, TickFlush
  PROVE  /\ task'["tick"].pc = "flush" /\ task'["tick"].batch = pending
         /\ task["tick"].pc = "idle"
         /\ \A x \in Tasks \ {"tick"} : task'[x] = task[x]
<1>1. TaskIdle \in TaskState
  BY IdleType
<1>2. QED
  BY <1>1 DEF TickFlush, TaskSet, TypeOK, TaskState, Tasks

\* The tick ends its flush with an empty batch.
LEMMA TickWriteFields ==
  ASSUME TypeOK, TickFlushWrite
  PROVE  /\ task'["tick"].pc = "idle" /\ task'["tick"].batch = {}
         /\ task["tick"].pc = "flush"
         /\ \A x \in Tasks \ {"tick"} : task'[x] = task[x]
BY DEF TickFlushWrite, TaskSet, TypeOK, TaskState, Tasks, TaskIdle

\* Only a thread that flushes has a batch.
LEMMA BatchesStep == TypeOK /\ BatchesFlush /\ [Next]_vars => BatchesFlush'
<1> SUFFICES ASSUME TypeOK, BatchesFlush, [Next]_vars PROVE BatchesFlush'
  OBVIOUS
<1>1. ASSUME UNCHANGED <<mut, task>> PROVE BatchesFlush'
  BY <1>1 DEF BatchesFlush
<1>2. ASSUME NEW op \in Ops, NEW t \in Torrents, Issue(op, t) PROVE BatchesFlush'
  BY <1>1, <1>2 DEF Issue
<1>3. CASE MutationStep
  <2>1. task' = task
    BY <1>3 DEF MutationStep, TakeStart, StartCheck, StartHot, StartLoad, StartPublish, TakeStop,
                TakeSync, StopFlush, StopUnhot, StopUnwant, TakeErase, EraseRow, TakeRecheck
  <2>2. mut'.batch # {} => mut'.pc = "flush"
    <3>1. CASE TakeStart
      BY <3>1, MutAtFields DEF TakeStart
    <3>2. CASE StartCheck
      <4>1. PICK pc : MutGoto(pc) /\ mut.pc = "startCheck"
        BY <3>2 DEF StartCheck
      <4>2. QED
        BY <4>1, MutGotoFields DEF BatchesFlush
    <3>3. CASE StartHot \/ StartPublish \/ EraseRow
      BY <3>3, MutDoneFields DEF StartHot, StartPublish, EraseRow
    <3>4. CASE StartLoad
      BY <3>4, MutDoneFields DEF StartLoad, BatchesFlush, TypeOK, WorkerState
    <3>5. CASE TakeStop
      BY <3>5, BeginStopFields DEF TakeStop
    <3>6. CASE TakeSync
      BY <3>6, BeginStopFields, MutAtFields DEF TakeSync
    <3>7. CASE StopFlush
      BY <3>7 DEF StopFlush, TypeOK, WorkerState
    <3>8. CASE StopUnhot
      BY <3>8, MutGotoFields DEF StopUnhot, BatchesFlush
    <3>9. CASE StopUnwant
      BY <3>9, MutAtFields, MutDoneFields DEF StopUnwant
    <3>10. ASSUME NEW op \in {"delete", "remove"}, TakeErase(op)
           PROVE  mut'.batch # {} => mut'.pc = "flush"
      BY <3>10, MutAtFields DEF TakeErase, BatchesFlush
    <3>11. CASE TakeRecheck
      BY <3>11 DEF TakeRecheck, BatchesFlush
    <3>12. QED
      BY <1>3, <3>1, <3>2, <3>3, <3>4, <3>5, <3>6, <3>7, <3>8, <3>9, <3>10, <3>11 DEF MutationStep
  <2>3. QED
    BY <2>1, <2>2 DEF BatchesFlush
<1>4. CASE TickFlush
  BY <1>4, TickFlushFields DEF TickFlush, BatchesFlush
<1>5. CASE TickFlushWrite
  BY <1>5, TickWriteFields DEF TickFlushWrite, BatchesFlush
<1>6. ASSUME NEW x \in Tasks, SyncStep(x) PROVE BatchesFlush'
  BY <1>6, SyncFields DEF BatchesFlush
<1>7. ASSUME NEW t \in Torrents, RecheckStep(t) PROVE BatchesFlush'
  BY <1>1, <1>7 DEF RecheckStep, CheckPiece, FinishRecheck, RecheckFails, EndRecheck, QueryWant, SendSync
<1>8. ASSUME NEW t \in Torrents, NEW i \in Pieces, FetchPiece(t, i) \/ Damage(t, i) PROVE BatchesFlush'
  BY <1>1, <1>8 DEF FetchPiece, Damage
<1>9. CASE LeechStep
  BY <1>1, <1>9 DEF LeechStep, WritePiece, MarkPiece, QueueHave, DropJob
<1>10. CASE Crash
  BY <1>10, BootedIs, IdleLanded DEF Crash, BatchesFlush
<1>11. CASE UNCHANGED vars
  BY <1>1, <1>11 DEF vars
<1>12. QED
  BY <1>2, <1>3, <1>4, <1>5, <1>6, <1>7, <1>8, <1>9, <1>10, <1>11 DEF Next

\* Where nobody rechecks, no recheck and no reload comes up.
LEMMA NoRecheckStep == TypeOK /\ "recheck" \notin Ops /\ NoRecheck /\ [Next]_vars => NoRecheck'
<1> SUFFICES ASSUME TypeOK, "recheck" \notin Ops, NoRecheck, [Next]_vars PROVE NoRecheck'
  OBVIOUS
<1>1. ASSUME UNCHANGED <<rck, queue, mut>> PROVE NoRecheck'
  BY <1>1 DEF NoRecheck
<1>2. ASSUME NEW op \in Ops, NEW t \in Torrents, Issue(op, t) PROVE NoRecheck'
  <2>1. op \notin {"recheck", "sync"} /\ queue' = Append(queue, [op |-> op, t |-> t])
    BY <1>2, LifecycleAssumption DEF Issue, Commands
  <2>2. \A k \in DOMAIN queue' : queue'[k].op \notin {"recheck", "sync"}
    BY <2>1, AppendQueue DEF NoRecheck
  <2>3. QED
    BY <1>2, <2>2 DEF Issue, NoRecheck
<1>3. CASE MutationStep
  <2>1. ASSUME NEW op, Taking(op)
        PROVE  /\ \A k \in DOMAIN queue' : queue'[k].op \notin {"recheck", "sync"}
               /\ op \notin {"recheck", "sync"}
    BY <2>1, TakingQueue DEF NoRecheck
  <2>2. CASE TakeStart
    BY <2>1, <2>2, MutAtFields DEF TakeStart, NoRecheck
  <2>3. CASE StartCheck
    <3>1. PICK pc : MutGoto(pc)
      BY <2>3 DEF StartCheck
    <3>2. QED
      BY <2>3, <3>1, MutGotoFields DEF StartCheck, NoRecheck
  <2>4. CASE StartHot \/ StartPublish \/ EraseRow
    BY <2>4, MutDoneFields DEF StartHot, StartPublish, EraseRow, NoRecheck
  <2>5. CASE StartLoad
    BY <2>5, MutDoneFields DEF StartLoad, NoRecheck, TypeOK, WorkerState
  <2>6. CASE TakeStop
    BY <2>1, <2>6, BeginStopFields DEF TakeStop, NoRecheck
  <2>7. CASE TakeSync
    BY <2>1, <2>7 DEF TakeSync
  <2>8. CASE StopFlush
    BY <2>8 DEF StopFlush, TypeOK, WorkerState, NoRecheck
  <2>9. CASE StopUnhot
    BY <2>9, MutGotoFields DEF StopUnhot, NoRecheck
  <2>10. CASE StopUnwant
    BY <2>10, MutAtFields, MutDoneFields DEF StopUnwant, NoRecheck
  <2>11. ASSUME NEW op \in {"delete", "remove"}, TakeErase(op) PROVE NoRecheck'
    BY <2>1, <2>11, MutAtFields DEF TakeErase, NoRecheck
  <2>12. CASE TakeRecheck
    BY <2>1, <2>12 DEF TakeRecheck
  <2>13. QED
    BY <1>3, <2>2, <2>3, <2>4, <2>5, <2>6, <2>7, <2>8, <2>9, <2>10, <2>11, <2>12 DEF MutationStep
<1>4. CASE TickFlush \/ TickFlushWrite
  BY <1>1, <1>4 DEF TickFlush, TickFlushWrite
<1>5. ASSUME NEW x \in Tasks, SyncStep(x) PROVE NoRecheck'
  BY <1>1, <1>5, SyncFields
<1>6. ASSUME NEW t \in Torrents, RecheckStep(t) PROVE NoRecheck'
  BY <1>6 DEF RecheckStep, CheckPiece, FinishRecheck, RecheckFails, EndRecheck, QueryWant, SendSync, NoRecheck
<1>7. ASSUME NEW t \in Torrents, NEW i \in Pieces, FetchPiece(t, i) \/ Damage(t, i) PROVE NoRecheck'
  BY <1>1, <1>7 DEF FetchPiece, Damage
<1>8. CASE LeechStep
  BY <1>1, <1>8 DEF LeechStep, WritePiece, MarkPiece, QueueHave, DropJob
<1>9. CASE Crash
  BY <1>9 DEF Crash, NoRecheck, RckOff, MutIdle
<1>10. CASE UNCHANGED vars
  BY <1>1, <1>10 DEF vars
<1>11. QED
  BY <1>2, <1>3, <1>4, <1>5, <1>6, <1>7, <1>8, <1>9, <1>10 DEF Next

\* Writing bits changes nothing else of a row, ...
LEMMA MarkBatchKeeps ==
  ASSUME TypeOK, NEW b, MarkBatch(b), NEW t \in Torrents
  PROVE  /\ row'[t].there = row[t].there /\ row'[t].want = row[t].want
         /\ row'[t].deleted = row[t].deleted
BY DEF MarkBatch, TypeOK, Row

\* ... nor does set_want_start touch another torrent's.
LEMMA WantingKeeps ==
  ASSUME TypeOK, NEW t \in Torrents, NEW w \in BOOLEAN, NEW u \in Torrents,
         row' = Wanting(t, w) \/ row' = row
  PROVE  /\ row'[u].there = row[u].there /\ row'[u].deleted = row[u].deleted
         /\ (u # t \/ w = TRUE) /\ row[u].want => row'[u].want
         /\ row'[u].bits = row[u].bits
BY DEF Wanting, TypeOK, Row

\* A delete or removal touches no other row and no bits.
LEMMA ErasedKeeps ==
  ASSUME TypeOK, NEW t \in Torrents, NEW op, row' = Erased(t, op) \/ row' = row
  PROVE  /\ \A u \in Torrents \ {t} : row'[u] = row[u]
         /\ row'[t].there => row[t].there /\ row'[t].bits = row[t].bits
BY DEF Erased, Gone, TypeOK, Row

\* Where the mutation worker alone starts and stops torrents, what is hot wants
\* to run (start_torrent sets want_start before it publishes, stop_torrent
\* unsets it after it took the torrent out of the registry).
LEMMA WorkerAloneStep == TypeOK /\ Syncing = {} /\ WorkerAlone /\ [Next]_vars => WorkerAlone'
<1> SUFFICES ASSUME TypeOK, Syncing = {}, WorkerAlone, [Next]_vars PROVE WorkerAlone'
  OBVIOUS
<1> DEFINE TasksQuiet == \A x \in Tasks : task[x].pc \in {"idle", "flush"}
           HotWants == \A t \in Torrents : IsHot(t) => CanLoad(t) /\ row[t].want
           PublishWants == mut.pc = "publish" => CanLoad(mut.t) /\ row[mut.t].want
           StartsCold == mut.pc \in {"startLoad", "publish", "unwant", "delete", "remove"}
                             => ~IsHot(mut.t)
<1>a. TasksQuiet /\ HotWants /\ PublishWants /\ StartsCold
  BY DEF WorkerAlone
<1>b. TasksQuiet' /\ HotWants' /\ PublishWants' /\ StartsCold' => WorkerAlone'
  BY DEF WorkerAlone
<1>c. mut.t \in Torrents
  BY DEF TypeOK, WorkerState
<1>d. \A op : Taking(op) => Head(queue).t \in Torrents
  BY TakingQueue DEF Command
<1>1. ASSUME UNCHANGED <<row, ram, mut, task>> PROVE WorkerAlone'
  BY <1>1 DEF WorkerAlone, IsHot, CanLoad
<1>2. ASSUME NEW op \in Ops, NEW t \in Torrents, Issue(op, t) PROVE WorkerAlone'
  BY <1>1, <1>2 DEF Issue
<1>3. ASSUME UNCHANGED <<row, ram, task>>,
             mut'.pc \notin {"startLoad", "publish", "unwant", "delete", "remove"}
      PROVE  WorkerAlone'
  BY <1>3 DEF WorkerAlone, IsHot, CanLoad
<1>4. CASE TakeStart
  <2>1. mut'.pc = "startCheck"
    BY <1>4, MutAtFields DEF TakeStart
  <2>2. QED
    BY <1>3, <1>4, <2>1 DEF TakeStart
<1>5. CASE StartCheck
  <2>1. PICK pc : MutGoto(pc) /\ pc = IF IsHot(mut.t) THEN "startHot" ELSE "startLoad"
    BY <1>5 DEF StartCheck
  <2>2. mut'.pc = pc /\ mut'.t = mut.t
    BY <2>1, MutGotoFields
  <2>3. UNCHANGED <<row, ram, task>>
    BY <1>5 DEF StartCheck
  <2>4. QED
    BY <1>a, <1>b, <2>1, <2>2, <2>3 DEF IsHot, CanLoad
<1>6. CASE StartHot
  <2>1. (row' = Wanting(mut.t, TRUE) \/ row' = row) /\ UNCHANGED <<ram, task>> /\ mut'.pc = "idle"
    BY <1>6, MutDoneFields DEF StartHot, Commit, CommitFails
  <2>2. HotWants'
    BY <1>a, <1>c, <2>1, WantingKeeps DEF IsHot, CanLoad
  <2>3. QED
    BY <1>a, <1>b, <2>1, <2>2
<1>7. CASE StartLoad
  <2>1. (row' = Wanting(mut.t, TRUE) \/ row' = row) /\ UNCHANGED <<ram, task>>
    BY <1>7 DEF StartLoad, Commit, CommitFails
  <2>2. HotWants'
    BY <1>a, <1>c, <2>1, WantingKeeps DEF IsHot, CanLoad
  <2>3. \/ mut'.pc = "idle"
        \/ mut'.t = mut.t /\ CanLoad(mut.t) /\ row' = Wanting(mut.t, TRUE)
    BY <1>7, MutDoneFields DEF StartLoad, Commit, TypeOK, WorkerState
  <2>4. PublishWants'
    <3>1. CanLoad(mut.t) /\ row' = Wanting(mut.t, TRUE) => row'[mut.t].there /\ ~row'[mut.t].deleted /\ row'[mut.t].want
      BY <1>c DEF Wanting, CanLoad, TypeOK, Row
    <3>2. CASE mut'.pc = "idle"
      BY <3>2
    <3>3. CASE mut'.t = mut.t /\ CanLoad(mut.t) /\ row' = Wanting(mut.t, TRUE)
      BY <3>1, <3>3 DEF CanLoad
    <3>4. QED
      BY <2>3, <3>2, <3>3
  <2>5. StartsCold'
    BY <1>7, <1>a, <2>1, <2>3 DEF StartLoad, IsHot
  <2>6. QED
    BY <1>a, <1>b, <2>1, <2>2, <2>4, <2>5
<1>8. CASE StartPublish
  <2>1. UNCHANGED <<row, task>> /\ mut'.pc = "idle" /\ mut.pc = "publish"
    BY <1>8, MutDoneFields DEF StartPublish
  <2>2. \A t \in Torrents : IsHot(t)' => IsHot(t) \/ t = mut.t
    BY <1>8 DEF StartPublish, PublishHot, IsHot, TypeOK
  <2>3. HotWants'
    BY <1>a, <2>1, <2>2 DEF CanLoad
  <2>4. QED
    BY <1>a, <1>b, <2>1, <2>3
<1>9. CASE TakeStop
  BY <1>3, <1>9, BeginStopFields DEF TakeStop
<1>10. CASE TakeSync
  <2>1. mut'.pc \in {"flush", "startCheck"}
    BY <1>10, BeginStopFields, MutAtFields DEF TakeSync
  <2>2. QED
    BY <1>3, <1>10, <2>1 DEF TakeSync
<1>11. CASE StopFlush
  <2>1. MarkBatch(mut.batch) /\ UNCHANGED <<ram, task>> /\ mut'.pc = "unhot"
    BY <1>11 DEF StopFlush, TypeOK, WorkerState
  <2>2. HotWants'
    BY <1>a, <2>1, MarkBatchKeeps DEF IsHot, CanLoad
  <2>3. QED
    BY <1>a, <1>b, <2>1, <2>2
<1>12. CASE StopUnhot
  <2>1. UNCHANGED <<row, task>> /\ mut'.pc = "unwant" /\ mut'.t = mut.t
    BY <1>12, MutGotoFields DEF StopUnhot
  <2>2. \A t \in Torrents : IsHot(t)' => IsHot(t) /\ t # mut.t
    BY <1>12 DEF StopUnhot, IsHot, TypeOK
  <2>3. QED
    BY <1>a, <1>b, <1>c, <2>1, <2>2 DEF CanLoad
<1>13. CASE StopUnwant
  <2>1. (row' = Wanting(mut.t, FALSE) \/ row' = row) /\ UNCHANGED <<ram, task>>
    BY <1>13 DEF StopUnwant, Commit, CommitFails
  <2>2. ~IsHot(mut.t)
    BY <1>13, <1>a DEF StopUnwant
  <2>3. HotWants'
    BY <1>a, <1>c, <2>1, <2>2, WantingKeeps DEF IsHot, CanLoad
  <2>4. mut'.pc \in {"startCheck", "idle"}
    BY <1>13, MutAtFields, MutDoneFields DEF StopUnwant
  <2>5. QED
    BY <1>a, <1>b, <2>1, <2>3, <2>4
<1>14. ASSUME NEW op \in {"delete", "remove"}, TakeErase(op) PROVE WorkerAlone'
  <2>1. CASE UNCHANGED mut
    BY <1>1, <1>14, <2>1 DEF TakeErase
  <2>2. CASE MutAt(op, Head(queue).t, FALSE) /\ ~IsHot(Head(queue).t)
    <3>1. UNCHANGED <<row, ram, task>> /\ mut'.pc = op /\ mut'.t = Head(queue).t
      BY <1>14, <2>2, MutAtFields DEF TakeErase
    <3>2. QED
      BY <1>a, <1>b, <2>2, <3>1 DEF IsHot, CanLoad
  <2>3. QED
    BY <1>14, <2>1, <2>2 DEF TakeErase
<1>15. CASE EraseRow
  <2>1. (\E op : row' = Erased(mut.t, op) \/ row' = row) /\ UNCHANGED <<ram, task>> /\ mut'.pc = "idle"
    BY <1>15, MutDoneFields DEF EraseRow, Commit, CommitFails
  <2>2. ~IsHot(mut.t)
    BY <1>15, <1>a DEF EraseRow
  <2>3. \A t \in Torrents \ {mut.t} : row'[t] = row[t]
    BY <1>c, <2>1, ErasedKeeps
  <2>4. HotWants'
    BY <1>a, <2>1, <2>2, <2>3 DEF IsHot, CanLoad
  <2>5. QED
    BY <1>a, <1>b, <2>1, <2>4
<1>16. CASE TakeRecheck
  BY <1>1, <1>16 DEF TakeRecheck
<1>17. CASE TickFlush
  <2>1. TasksQuiet'
    BY <1>17, <1>a, TickFlushFields
  <2>2. QED
    BY <1>17, <1>a, <1>b, <2>1 DEF TickFlush, IsHot, CanLoad
<1>18. CASE TickFlushWrite
  <2>1. TasksQuiet'
    BY <1>18, <1>a, TickWriteFields
  <2>2. MarkBatch(task["tick"].batch) /\ UNCHANGED <<ram, mut>>
    BY <1>18 DEF TickFlushWrite
  <2>3. HotWants' /\ PublishWants'
    BY <1>a, <1>c, <2>2, MarkBatchKeeps DEF IsHot, CanLoad
  <2>4. StartsCold'
    BY <1>a, <2>2 DEF IsHot
  <2>5. QED
    BY <1>b, <2>1, <2>3, <2>4
<1>19. ASSUME NEW x \in Tasks, SyncStep(x) PROVE WorkerAlone'
  BY <1>19, <1>a DEF SyncStep, SyncList, SyncNext, SyncLoad, SyncPublish
<1>20. ASSUME NEW t \in Torrents, RecheckStep(t) PROVE WorkerAlone'
  <2>1. CASE FinishRecheck(t)
    <3>1. /\ UNCHANGED <<ram, mut, task>>
          /\ \A u \in Torrents : /\ row'[u].there = row[u].there /\ row'[u].want = row[u].want
                                 /\ row'[u].deleted = row[u].deleted
      BY <2>1 DEF FinishRecheck, TypeOK, Row
    <3>2. QED
      BY <1>a, <1>b, <1>c, <3>1 DEF IsHot, CanLoad
  <2>2. CASE ~FinishRecheck(t)
    BY <1>1, <1>20, <2>2 DEF RecheckStep, CheckPiece, RecheckFails, EndRecheck, QueryWant, SendSync
  <2>3. QED
    BY <2>1, <2>2
<1>21. ASSUME NEW t \in Torrents, NEW i \in Pieces, FetchPiece(t, i) \/ Damage(t, i) PROVE WorkerAlone'
  BY <1>1, <1>21 DEF FetchPiece, Damage
<1>22. ASSUME NEW j \in jobs, MarkPiece(j) PROVE WorkerAlone'
  <2>1. UNCHANGED <<row, mut, task>>
    BY <1>22 DEF MarkPiece
  <2>2. \A t \in Torrents : IsHot(t)' => IsHot(t)
    BY <1>22 DEF MarkPiece, IsHot, TypeOK, LiveIsHot, Leech
  <2>3. QED
    BY <1>a, <1>b, <1>c, <2>1, <2>2 DEF CanLoad
<1>23. CASE LeechStep
  <2>1. PICK j \in jobs : WritePiece(j) \/ MarkPiece(j) \/ QueueHave(j) \/ DropJob(j)
    BY <1>23 DEF LeechStep
  <2>2. QED
    BY <1>1, <1>22, <2>1 DEF WritePiece, QueueHave, DropJob
<1>24. CASE Crash
  BY <1>24, <1>b, BootedIs DEF Crash, IsHot, MutIdle
<1>25. CASE UNCHANGED vars
  BY <1>1, <1>25 DEF vars
<1>26. QED
  BY <1>2, <1>4, <1>5, <1>6, <1>7, <1>8, <1>9, <1>10, <1>11, <1>12, <1>13, <1>14, <1>15, <1>16,
     <1>17, <1>18, <1>19, <1>20, <1>21, <1>23, <1>24, <1>25 DEF Next, MutationStep

-----------------------------------------------------------------------------
(* One step of possession.                                                 *)

\* What is known of a torrent stays known: its bits stay or grow, what is held
\* is held or committed, what a session has marked is marked or held.
LEMMA KnownGrows ==
  ASSUME NEW t \in Torrents, row[t].bits \subseteq row'[t].bits,
         \A i \in Pieces : Held(<<t, i>>) => Held(<<t, i>>)' \/ i \in row'[t].bits,
         \A i \in Pieces : Marked(t, i) => Marked(t, i)' \/ Held(<<t, i>>)'
  PROVE  Known(t) \subseteq Known(t)'
BY DEF Known, Told

\* Nothing is held by a worker or a task that does not flush.
LEMMA HeldStays ==
  ASSUME BatchesFlush, pending \subseteq pending',
         mut.pc # "flush" \/ mut'.batch = mut.batch,
         \A x \in Tasks : task[x].pc # "flush" \/ task'[x].batch = task[x].batch,
         NEW e, Held(e)
  PROVE  Held(e)'
BY DEF Held, BatchesFlush

\* A commit that fails puts its batch back.
LEMMA MarkBatchHolds ==
  ASSUME TypeOK, NEW b \in SUBSET Haves, MarkBatch(b), NEW t \in Torrents
  PROVE  /\ pending \subseteq pending' /\ row[t].bits \subseteq row'[t].bits
         /\ \A i \in Pieces : <<t, i>> \in b => <<t, i>> \in pending' \/ i \in row'[t].bits
<1>1. CASE row' = [u \in Torrents |-> [row[u] EXCEPT !.bits = @ \cup BatchPieces(b, u)]]
           /\ pending' = pending
  <2>1. row'[t].bits = row[t].bits \cup BatchPieces(b, t)
    BY <1>1 DEF TypeOK, Row
  <2>2. QED
    BY <1>1, <2>1 DEF BatchPieces
<1>2. CASE pending' = pending \cup b /\ row' = row
  BY <1>2
<1>3. QED
  BY <1>1, <1>2 DEF MarkBatch

\* What is hot or loaded stays covered when it was before, or is known now.
LEMMA KnownCarries ==
  ASSUME AllKnown, NEW t \in Torrents, Known(t) \subseteq Known(t)',
         Unsettled(t)' => Unsettled(t),
         ~IsHot(t)' \/ ram'[t] = ram[t] \/ ram'[t] \subseteq Known(t)',
         mut'.pc # "publish" \/ mut'.t # t \/ mut' = mut \/ mut'.bits \subseteq Known(t)',
         \A x \in Tasks : \/ task'[x].pc # "publish" \/ task'[x].t # t
                         \/ task'[x] = task[x] \/ task'[x].bits \subseteq Known(t)'
  PROVE  Unsettled(t)' => HotKnown(t)' /\ WorkerKnown(t)' /\ TasksKnown(t)'
BY DEF AllKnown, HotKnown, WorkerKnown, TasksKnown, IsHot

\* A reload that is due stays due while its recheck thread and its command stay
\* and the worker is not at it.
LEMMA DueStays ==
  ASSUME NEW t \in Torrents, ReloadDue(t),
         rck[t].pc \in {"done", "query", "send"} => rck'[t].pc \in {"done", "query", "send"},
         \A k \in DOMAIN queue : queue[k] = [op |-> "sync", t |-> t]
             => \E n \in DOMAIN queue' : queue'[n] = [op |-> "sync", t |-> t],
         mut.pc \in {"flush", "unhot"} /\ mut.restart /\ mut.t = t =>
             mut'.pc \in {"flush", "unhot"} /\ mut'.restart = mut.restart /\ mut'.t = mut.t
  PROVE  ReloadDue(t)'
BY DEF ReloadDue

\* Taking another command leaves the reloads in the queue.
LEMMA TakingKeeps ==
  ASSUME TypeOK, NEW op, Taking(op), NEW t \in Torrents, NEW k \in DOMAIN queue,
         queue[k] = [op |-> "sync", t |-> t], op # "sync"
  PROVE  \E n \in DOMAIN queue' : queue'[n] = [op |-> "sync", t |-> t]
<1>1. k # 1
  BY TakingQueue
<1>2. k - 1 \in DOMAIN queue' /\ queue'[k - 1] = queue[k]
  BY <1>1, TakingQueue
<1>3. QED
  BY <1>2

\* So does every command of the worker that changes no row and is not a sync.
LEMMA TakeStep ==
  ASSUME TypeOK, CoverInv, NEW op, Taking(op), op # "sync",
         UNCHANGED <<row, ram, jobs, task>>,
         \A e : Held(e) => Held(e)',
         mut'.pc # "publish",
         \A t \in Torrents : rck[t].pc \in {"done", "query", "send"} => rck'[t].pc = rck[t].pc
  PROVE  AllKnown'
<1>1. SUFFICES ASSUME NEW t \in Torrents
               PROVE  Unsettled(t)' => HotKnown(t)' /\ WorkerKnown(t)' /\ TasksKnown(t)'
  BY DEF AllKnown
<1>2. mut.pc = "idle"
  BY TakingQueue
<1>3. ReloadDue(t) => ReloadDue(t)'
  BY <1>2, DueStays, TakingKeeps
<1>4. Known(t) \subseteq Known(t)'
  BY KnownGrows DEF Marked
<1>5. QED
  BY <1>3, <1>4, KnownCarries DEF Unsettled, CoverInv, IsHot

\* A step of the worker between two commands, a row's bits untouched.
LEMMA WorkStep ==
  ASSUME TypeOK, CoverInv, mut.pc \notin {"flush", "unhot", "idle"},
         UNCHANGED <<ram, jobs, task, rck, queue, pending>>,
         mut'.pc # "publish" \/ mut'.bits \subseteq row'[mut'.t].bits \cap Pieces,
         \A t \in Torrents : row'[t].there => row[t].there /\ row'[t].bits = row[t].bits
  PROVE  AllKnown'
<1>1. SUFFICES ASSUME NEW t \in Torrents, row'[t].there
               PROVE  Unsettled(t)' => HotKnown(t)' /\ WorkerKnown(t)' /\ TasksKnown(t)'
  BY DEF AllKnown, Unsettled
<1>2. ReloadDue(t) => ReloadDue(t)'
  BY DueStays
<1>3. \A e : Held(e) => Held(e)'
  BY HeldStays DEF CoverInv
<1>4. Known(t) \subseteq Known(t)'
  BY <1>1, <1>3, KnownGrows DEF Marked
<1>5. mut'.pc # "publish" \/ mut'.t # t \/ mut'.bits \subseteq Known(t)'
  BY DEF Known, Told
<1>6. QED
  BY <1>1, <1>2, <1>4, <1>5, KnownCarries DEF Unsettled, CoverInv, IsHot

\* A step of the recheck threads, sessions or tasks that leaves the registry,
\* the rows and the worker alone.
LEMMA AsideStep ==
  ASSUME TypeOK, CoverInv, UNCHANGED <<row, ram, mut>>,
         \A t \in Torrents, i \in Pieces :
             /\ Held(<<t, i>>) => Held(<<t, i>>)'
             /\ Marked(t, i) => Marked(t, i)' \/ Held(<<t, i>>)',
         \A x \in Tasks : task'[x].pc # "publish" \/ task'[x] = task[x],
         \A t \in Torrents : ReloadDue(t) => ReloadDue(t)'
  PROVE  AllKnown'
<1>1. SUFFICES ASSUME NEW t \in Torrents
               PROVE  Unsettled(t)' => HotKnown(t)' /\ WorkerKnown(t)' /\ TasksKnown(t)'
  BY DEF AllKnown
<1>2. Known(t) \subseteq Known(t)'
  BY KnownGrows
<1>3. QED
  BY <1>2, KnownCarries DEF Unsettled, CoverInv, IsHot

\* set_want_start and load_from_catalog, then the copy is published: covered as
\* long as the bits stay, which only a recheck changes.
LEMMA WorkerCovers == TypeOK /\ CoverInv /\ MutationStep => AllKnown'
<1> SUFFICES ASSUME TypeOK, CoverInv, MutationStep PROVE AllKnown'
  OBVIOUS
<1>a. mut.t \in Torrents
  BY DEF TypeOK, WorkerState
<1>b. BatchesFlush /\ AllKnown /\ Calm
  BY DEF CoverInv
<1>c. ASSUME UNCHANGED task, pending \subseteq pending', mut.pc # "flush" \/ mut'.batch = mut.batch
      PROVE  \A e : Held(e) => Held(e)'
  BY <1>b, <1>c, HeldStays
<1>1. CASE TakeStart
  <2>1. mut'.pc = "startCheck" /\ mut.pc = "idle"
    BY <1>1, MutAtFields DEF TakeStart, Taking
  <2>2. QED
    BY <1>1, <1>c, <2>1, TakeStep DEF TakeStart
<1>2. CASE StartCheck
  <2>1. PICK pc \in {"startHot", "startLoad"} : MutGoto(pc)
    BY <1>2 DEF StartCheck
  <2>2. mut'.pc = pc
    BY <2>1, MutGotoFields
  <2>3. QED
    BY <1>2, <2>2, WorkStep DEF StartCheck
<1>3. CASE StartHot
  <2>1. (row' = Wanting(mut.t, TRUE) \/ row' = row) /\ mut'.pc = "idle"
    BY <1>3, MutDoneFields DEF StartHot, Commit, CommitFails
  <2>2. \A t \in Torrents : row'[t].there = row[t].there /\ row'[t].bits = row[t].bits
    BY <1>a, <2>1, WantingKeeps
  <2>3. QED
    BY <1>3, <2>1, <2>2, WorkStep DEF StartHot
<1>4. CASE StartLoad
  <2>1. row' = Wanting(mut.t, TRUE) \/ row' = row
    BY <1>4 DEF StartLoad, Commit, CommitFails
  <2>2. \A t \in Torrents : row'[t].there = row[t].there /\ row'[t].bits = row[t].bits
    BY <1>a, <2>1, WantingKeeps
  <2>3. mut'.pc = "idle" \/ (mut'.t = mut.t /\ mut'.bits = row[mut.t].bits)
    BY <1>4, MutDoneFields DEF StartLoad, TypeOK, WorkerState
  <2>4. row[mut.t].bits \subseteq Pieces
    BY <1>a DEF TypeOK, Row
  <2>5. mut'.pc # "publish" \/ mut'.bits \subseteq row'[mut'.t].bits \cap Pieces
    BY <1>a, <2>2, <2>3, <2>4
  <2>6. QED
    BY <1>4, <2>2, <2>5, WorkStep DEF StartLoad
<1>5. CASE StartPublish
  <2>1. mut.pc = "publish" /\ mut'.pc = "idle" /\ UNCHANGED <<row, jobs, pending, queue, task, rck>>
    BY <1>5, MutDoneFields DEF StartPublish
  <2>2. SUFFICES ASSUME NEW t \in Torrents
                 PROVE  Unsettled(t)' => HotKnown(t)' /\ WorkerKnown(t)' /\ TasksKnown(t)'
    BY DEF AllKnown
  <2>3. Known(t) \subseteq Known(t)'
    BY <1>c, <2>1, KnownGrows DEF Marked
  <2>4. Unsettled(t)' => Unsettled(t)
    BY <2>1, DueStays DEF Unsettled
  <2>5. ram'[t] = ram[t] \/ (t = mut.t /\ ram'[t] = mut.bits)
    BY <1>5 DEF StartPublish, PublishHot, TypeOK
  <2>6. Unsettled(t) => ram'[t] = ram[t] \/ ram'[t] \subseteq Known(t)'
    BY <1>b, <2>1, <2>3, <2>5 DEF AllKnown, WorkerKnown
  <2>7. QED
    BY <1>b, <2>1, <2>3, <2>4, <2>6, KnownCarries
<1>6. ASSUME NEW u \in Torrents, NEW restart \in BOOLEAN, BeginStop(u, restart), mut.pc = "idle",
             UNCHANGED task
      PROVE  \A e : Held(e) => Held(e)'
  BY <1>b, <1>6, BeginStopFields DEF Held, BatchesFlush
<1>7. CASE TakeStop
  <2>1. Head(queue).t \in Torrents /\ mut.pc = "idle"
    BY <1>7, TakingQueue DEF TakeStop, Command
  <2>2. mut'.pc = "flush" /\ \A e : Held(e) => Held(e)'
    BY <1>6, <1>7, <2>1, BeginStopFields DEF TakeStop
  <2>3. QED
    BY <1>7, <2>2, TakeStep DEF TakeStop
<1>8. CASE TakeSync
  <2>1. PICK u \in Torrents : u = Head(queue).t
    BY <1>8, TakingQueue DEF TakeSync, Command
  <2>2. /\ mut.pc = "idle" /\ queue[1] = Head(queue) /\ 1 \in DOMAIN queue
        /\ queue[1].op = "sync" /\ queue[1].t = u
    BY <1>8, <2>1, TakingQueue DEF TakeSync
  <2>3. Syncing = {} /\ WorkerAlone
    BY <1>b, <2>2 DEF Calm, NoRecheck
  <2>4. ASSUME NEW t \in Torrents, NEW k \in DOMAIN queue, queue[k] = [op |-> "sync", t |-> t], t # u
        PROVE  \E n \in DOMAIN queue' : queue'[n] = [op |-> "sync", t |-> t]
    <3>1. k # 1
      BY <2>2, <2>4
    <3>2. k - 1 \in DOMAIN queue' /\ queue'[k - 1] = queue[k]
      BY <1>8, <3>1, TakingQueue DEF TakeSync
    <3>3. QED
      BY <2>4, <3>2
  <2>5. ASSUME NEW t \in Torrents, t # u, ReloadDue(t) PROVE ReloadDue(t)'
    BY <1>8, <2>2, <2>4, <2>5, DueStays DEF TakeSync
  <2>6. UNCHANGED <<row, ram, jobs, task, rck>>
    BY <1>8 DEF TakeSync
  <2>7. CASE IsHot(u)
    <3>1. BeginStop(u, TRUE)
      BY <1>8, <2>1, <2>7 DEF TakeSync
    <3>2. mut'.pc = "flush" /\ mut'.restart = TRUE /\ mut'.t = u /\ \A e : Held(e) => Held(e)'
      BY <1>6, <2>2, <2>6, <3>1, BeginStopFields
    <3>3. ReloadDue(u)'
      BY <3>2 DEF ReloadDue
    <3>4. SUFFICES ASSUME NEW t \in Torrents
                   PROVE  Unsettled(t)' => HotKnown(t)' /\ WorkerKnown(t)' /\ TasksKnown(t)'
      BY DEF AllKnown
    <3>5. Unsettled(t)' => Unsettled(t)
      BY <2>5, <2>6, <3>3 DEF Unsettled
    <3>6. Known(t) \subseteq Known(t)'
      BY <2>6, <3>2, KnownGrows DEF Marked
    <3>7. QED
      BY <1>b, <2>6, <3>2, <3>5, <3>6, KnownCarries
  <2>8. CASE ~IsHot(u)
    <3>1. MutAt("startCheck", u, FALSE) /\ UNCHANGED pending
      BY <1>8, <2>1, <2>8 DEF TakeSync
    <3>2. mut'.pc = "startCheck" /\ \A e : Held(e) => Held(e)'
      BY <1>c, <2>2, <2>6, <3>1, MutAtFields
    <3>3. HotKnown(u)' /\ WorkerKnown(u)' /\ TasksKnown(u)'
      BY <2>3, <2>6, <2>8, <3>2 DEF HotKnown, WorkerKnown, TasksKnown, IsHot, WorkerAlone
    <3>4. SUFFICES ASSUME NEW t \in Torrents, t # u
                   PROVE  Unsettled(t)' => HotKnown(t)' /\ WorkerKnown(t)' /\ TasksKnown(t)'
      BY <3>3 DEF AllKnown
    <3>5. Unsettled(t)' => Unsettled(t)
      BY <2>5, <2>6, <3>4 DEF Unsettled
    <3>6. Known(t) \subseteq Known(t)'
      BY <2>6, <3>2, KnownGrows DEF Marked
    <3>7. QED
      BY <1>b, <2>6, <3>2, <3>5, <3>6, KnownCarries
  <2>9. QED
    BY <2>7, <2>8
<1>9. CASE StopFlush
  <2>1. /\ mut.pc = "flush" /\ mut'.pc = "unhot" /\ mut'.t = mut.t /\ mut'.restart = mut.restart
        /\ UNCHANGED <<ram, jobs, queue, task, rck>> /\ MarkBatch(mut.batch)
        /\ mut.batch \in SUBSET Haves
    BY <1>9 DEF StopFlush, TypeOK, WorkerState
  <2>2. SUFFICES ASSUME NEW t \in Torrents
                 PROVE  Unsettled(t)' => HotKnown(t)' /\ WorkerKnown(t)' /\ TasksKnown(t)'
    BY DEF AllKnown
  <2>3. \A i \in Pieces : Held(<<t, i>>) => Held(<<t, i>>)' \/ i \in row'[t].bits
    BY <2>1, MarkBatchHolds DEF Held
  <2>4. Known(t) \subseteq Known(t)'
    BY <2>1, <2>3, MarkBatchHolds, KnownGrows DEF Marked
  <2>5. ReloadDue(t) => ReloadDue(t)'
    BY <2>1, DueStays
  <2>6. Unsettled(t)' => Unsettled(t)
    BY <2>1, <2>5, MarkBatchKeeps DEF Unsettled
  <2>7. QED
    BY <1>b, <2>1, <2>4, <2>6, KnownCarries
<1>10. CASE StopUnhot
  <2>1. /\ mut.pc = "unhot" /\ mut'.pc = "unwant" /\ mut'.batch = mut.batch
        /\ UNCHANGED <<row, pending, queue, task, rck>>
        /\ jobs' = {[j EXCEPT !.live = @ /\ j.t # mut.t] : j \in jobs}
    BY <1>10, MutGotoFields DEF StopUnhot
  <2>2. SUFFICES ASSUME NEW t \in Torrents
                 PROVE  Unsettled(t)' => HotKnown(t)' /\ WorkerKnown(t)' /\ TasksKnown(t)'
    BY DEF AllKnown
  <2>3. \A i : Marked(t, i) => Marked(t, i)'
    <3>1. ASSUME NEW j \in jobs PROVE \E n \in jobs' : n.t = j.t /\ n.i = j.i /\ n.st = j.st
      <4> DEFINE n == [j EXCEPT !.live = @ /\ j.t # mut.t]
      <4>1. n \in jobs'
        BY <2>1
      <4>2. n.t = j.t /\ n.i = j.i /\ n.st = j.st
        BY DEF TypeOK, Leech
      <4>3. QED
        BY <4>1, <4>2
    <3>2. QED
      BY <3>1 DEF Marked
  <2>4. Known(t) \subseteq Known(t)'
    BY <1>c, <2>1, <2>3, KnownGrows
  <2>5. ram'[t] = ram[t] \/ (t = mut.t /\ ~IsHot(t)')
    BY <1>10 DEF StopUnhot, IsHot, TypeOK
  <2>6. CASE ReloadDue(t) => ReloadDue(t)'
    BY <1>b, <2>1, <2>4, <2>5, <2>6, KnownCarries DEF Unsettled
  <2>7. CASE ~(ReloadDue(t) => ReloadDue(t)')
    <3>1. t = mut.t /\ mut.restart
      BY <2>1, <2>7, DueStays
    <3>2. WorkerAlone
      BY <1>b, <3>1 DEF Calm, NoRecheck
    <3>3. ~IsHot(t)'
      BY <1>10, <3>1 DEF StopUnhot, IsHot, TypeOK
    <3>4. QED
      BY <2>1, <3>2, <3>3 DEF HotKnown, WorkerKnown, TasksKnown, WorkerAlone
  <2>8. QED
    BY <2>6, <2>7
<1>11. CASE StopUnwant
  <2>1. (row' = Wanting(mut.t, FALSE) \/ row' = row) /\ mut'.pc \in {"startCheck", "idle"}
    BY <1>11, MutAtFields, MutDoneFields DEF StopUnwant, Commit, CommitFails
  <2>2. \A t \in Torrents : row'[t].there = row[t].there /\ row'[t].bits = row[t].bits
    BY <1>a, <2>1, WantingKeeps
  <2>3. QED
    BY <1>11, <2>1, <2>2, WorkStep DEF StopUnwant
<1>12. ASSUME NEW op \in {"delete", "remove"}, TakeErase(op) PROVE AllKnown'
  <2>1. mut.pc = "idle" /\ (mut' = mut \/ mut'.pc = op)
    BY <1>12, TakingQueue, MutAtFields DEF TakeErase
  <2>2. QED
    BY <1>12, <1>c, <2>1, TakeStep DEF TakeErase
<1>13. CASE EraseRow
  <2>1. (\E op : row' = Erased(mut.t, op) \/ row' = row) /\ mut'.pc = "idle"
    BY <1>13, MutDoneFields DEF EraseRow, Commit, CommitFails
  <2>2. \A t \in Torrents : row'[t].there => row[t].there /\ row'[t].bits = row[t].bits
    BY <1>a, <2>1, ErasedKeeps
  <2>3. QED
    BY <1>13, <2>1, <2>2, WorkStep DEF EraseRow
<1>14. CASE TakeRecheck
  <2>1. mut.pc = "idle" /\ Head(queue).t \in Torrents
    BY <1>14, TakingQueue DEF TakeRecheck, Command
  <2>2. \A t \in Torrents : rck[t].pc \in {"done", "query", "send"} => rck'[t].pc = rck[t].pc
    BY <1>14, <2>1 DEF TakeRecheck, TypeOK
  <2>3. QED
    BY <1>14, <1>c, <2>1, <2>2, TakeStep DEF TakeRecheck
<1>15. QED
  BY <1>1, <1>2, <1>3, <1>4, <1>5, <1>7, <1>8, <1>9, <1>10, <1>11, <1>12, <1>13, <1>14
  DEF MutationStep

\* The tasks that flush and sync.
LEMMA TasksCover ==
  ASSUME TypeOK, CoverInv, TickFlush \/ TickFlushWrite \/ \E x \in Tasks : SyncStep(x)
  PROVE  AllKnown'
<1>a. BatchesFlush /\ AllKnown /\ Calm /\ "tick" \in Tasks
  BY DEF CoverInv, Tasks
<1>b. ASSUME UNCHANGED <<rck, queue, mut>>, NEW t \in Torrents, ReloadDue(t) PROVE ReloadDue(t)'
  BY <1>b DEF ReloadDue
<1>1. CASE TickFlush
  <2>1. UNCHANGED <<row, ram, mut, jobs, rck, queue>>
    BY <1>1 DEF TickFlush
  <2>2. \A e : Held(e) => Held(e)'
    BY <1>1, <1>a, <2>1, TickFlushFields DEF Held, BatchesFlush
  <2>3. \A x \in Tasks : task'[x].pc # "publish" \/ task'[x] = task[x]
    BY <1>1, TickFlushFields
  <2>4. QED
    BY <1>b, <2>1, <2>2, <2>3, AsideStep DEF Marked
<1>2. CASE TickFlushWrite
  <2>1. /\ UNCHANGED <<ram, mut, jobs, rck, queue>> /\ MarkBatch(task["tick"].batch)
        /\ task["tick"].batch \in SUBSET Haves
    BY <1>2, <1>a DEF TickFlushWrite, TypeOK, TaskState
  <2>2. SUFFICES ASSUME NEW t \in Torrents
                 PROVE  Unsettled(t)' => HotKnown(t)' /\ WorkerKnown(t)' /\ TasksKnown(t)'
    BY DEF AllKnown
  <2>3. ASSUME NEW i \in Pieces, Held(<<t, i>>) PROVE Held(<<t, i>>)' \/ i \in row'[t].bits
    <3>1. CASE <<t, i>> \in task["tick"].batch \cup pending
      BY <2>1, <3>1, MarkBatchHolds DEF Held
    <3>2. CASE <<t, i>> \notin task["tick"].batch \cup pending
      BY <1>2, <2>1, <2>3, <3>2, TickWriteFields DEF Held
    <3>3. QED
      BY <3>1, <3>2
  <2>4. Known(t) \subseteq Known(t)'
    BY <2>1, <2>3, MarkBatchHolds, KnownGrows DEF Marked
  <2>5. Unsettled(t)' => Unsettled(t)
    BY <1>b, <2>1, MarkBatchKeeps DEF Unsettled
  <2>6. \A x \in Tasks : task'[x].pc # "publish" \/ task'[x] = task[x]
    BY <1>2, TickWriteFields
  <2>7. QED
    BY <1>a, <2>1, <2>4, <2>5, <2>6, KnownCarries
<1>3. ASSUME NEW x \in Tasks, SyncStep(x) PROVE AllKnown'
  <2>1. /\ UNCHANGED <<jobs, pending, queue, mut, rck>>
        /\ task[x].pc # "flush" /\ \A y \in Tasks \ {x} : task'[y] = task[y]
    BY <1>3, SyncFields
  <2>2. \A e : Held(e) => Held(e)'
    BY <1>a, <2>1, HeldStays
  <2>3. \A t \in Torrents : ReloadDue(t) => ReloadDue(t)'
    BY <1>b, <2>1
  <2>4. CASE SyncList(x) \/ SyncNext(x)
    <3>1. UNCHANGED <<row, ram>>
      BY <2>4 DEF SyncList, SyncNext
    <3>2. task'[x].pc # "publish"
      <4>1. CASE SyncList(x)
        BY <4>1, IdleType DEF SyncList, TaskSet, TypeOK, TaskState
      <4>2. CASE SyncNext(x) /\ task[x].todo = {}
        BY <4>2 DEF SyncNext, TaskSet, TypeOK, TaskIdle
      <4>3. CASE SyncNext(x) /\ task[x].todo # {}
        <5>1. PICK t \in task[x].todo :
                task' = [task EXCEPT ![x] = [task[x] EXCEPT !.t = t, !.todo = @ \ {t},
                                               !.pc = IF IsHot(t) THEN "next" ELSE "load"]]
          BY <4>3 DEF SyncNext, TaskSet
        <5>2. task'[x].pc = IF IsHot(t) THEN "next" ELSE "load"
          BY <5>1 DEF TypeOK, TaskState
        <5>3. QED
          BY <5>2
      <4>4. QED
        BY <2>4, <4>1, <4>2, <4>3
    <3>3. QED
      BY <2>1, <2>2, <2>3, <3>1, <3>2, AsideStep DEF Marked
  <2>5. CASE SyncLoad(x)
    <3>1. task[x].t \in Torrents /\ UNCHANGED ram
      BY <2>5 DEF SyncLoad, TypeOK, TaskState
    <3>2. row' = Wanting(task[x].t, TRUE) \/ row' = row
      BY <2>5 DEF SyncLoad, Commit, CommitFails
    <3>3. \A t \in Torrents : row'[t].there = row[t].there /\ row'[t].bits = row[t].bits
      BY <3>1, <3>2, WantingKeeps
    <3>4. \/ task'[x].pc = "next"
          \/ task'[x].t = task[x].t /\ task'[x].bits = row[task[x].t].bits
      <4>1. task[x] \in TaskState /\ task \in [Tasks -> TaskState]
        BY DEF TypeOK
      <4>2. CASE TaskSet(x, [task[x] EXCEPT !.pc = "next"])
        BY <4>1, <4>2 DEF TaskSet, TaskState
      <4>3. CASE TaskSet(x, [task[x] EXCEPT !.pc = "publish", !.bits = row[task[x].t].bits])
        BY <4>1, <4>3 DEF TaskSet, TaskState
      <4>4. QED
        BY <2>5, <4>2, <4>3 DEF SyncLoad
    <3>5. SUFFICES ASSUME NEW t \in Torrents
                   PROVE  Unsettled(t)' => HotKnown(t)' /\ WorkerKnown(t)' /\ TasksKnown(t)'
      BY DEF AllKnown
    <3>6. Known(t) \subseteq Known(t)'
      BY <2>1, <2>2, <3>3, KnownGrows DEF Marked
    <3>7. row[t].bits \subseteq Known(t)'
      BY <3>3 DEF Known, Told, TypeOK, Row
    <3>8. Unsettled(t)' => Unsettled(t)
      BY <2>3, <3>3 DEF Unsettled
    <3>9. task'[x].pc # "publish" \/ task'[x].t # t \/ task'[x].bits \subseteq Known(t)'
      BY <3>4, <3>7
    <3>10. QED
      BY <1>a, <2>1, <3>1, <3>6, <3>8, <3>9, KnownCarries
  <2>6. CASE SyncPublish(x)
    <3>1. task[x].pc = "publish" /\ task[x].t \in Torrents /\ UNCHANGED row
      BY <2>6 DEF SyncPublish, TypeOK, TaskState
    <3>2. task'[x].pc = "next"
      BY <2>6 DEF SyncPublish, TaskSet, TypeOK, TaskState
    <3>3. SUFFICES ASSUME NEW t \in Torrents
                   PROVE  Unsettled(t)' => HotKnown(t)' /\ WorkerKnown(t)' /\ TasksKnown(t)'
      BY DEF AllKnown
    <3>4. Known(t) \subseteq Known(t)'
      BY <2>1, <2>2, <3>1, KnownGrows DEF Marked
    <3>5. Unsettled(t)' => Unsettled(t)
      BY <2>3, <3>1 DEF Unsettled
    <3>6. ram'[t] = ram[t] \/ (t = task[x].t /\ ram'[t] = task[x].bits)
      BY <2>6 DEF SyncPublish, PublishHot, TypeOK
    <3>7. Unsettled(t) => ram'[t] = ram[t] \/ ram'[t] \subseteq Known(t)'
      BY <1>a, <3>1, <3>4, <3>6 DEF AllKnown, TasksKnown
    <3>8. QED
      BY <1>a, <2>1, <3>2, <3>4, <3>5, <3>7, KnownCarries
  <2>7. QED
    BY <1>3, <2>4, <2>5, <2>6 DEF SyncStep
<1>4. QED
  BY <1>1, <1>2, <1>3

\* A recheck thread: whoever is told of its verdicts is reloaded.
LEMMA RecheckCovers ==
  ASSUME TypeOK, CoverInv, NEW u \in Torrents, RecheckStep(u) PROVE AllKnown'
<1>a. BatchesFlush /\ AllKnown /\ Calm
  BY DEF CoverInv
<1>b. WorkerAlone
  BY <1>a DEF RecheckStep, CheckPiece, FinishRecheck, RecheckFails, EndRecheck, QueryWant,
              SendSync, Calm, NoRecheck
<1>c. UNCHANGED <<ram, jobs, pending, mut, task>>
  BY DEF RecheckStep, CheckPiece, FinishRecheck, RecheckFails, EndRecheck, QueryWant, SendSync
<1>d. \A e : Held(e) => Held(e)'
  BY <1>c DEF Held
<1>e. ASSUME UNCHANGED <<row, queue>>,
             \A t \in Torrents : rck[t].pc \in {"done", "query", "send"}
                                     => rck'[t].pc \in {"done", "query", "send"}
      PROVE  AllKnown'
  <2>1. \A t \in Torrents : ReloadDue(t) => ReloadDue(t)'
    BY <1>c, <1>e DEF ReloadDue
  <2>2. QED
    BY <1>c, <1>d, <1>e, <2>1, AsideStep DEF Marked
<1>1. CASE CheckPiece(u)
  BY <1>1, <1>e DEF CheckPiece, RckSet, TypeOK, RecheckState
<1>2. CASE FinishRecheck(u)
  <2>1. rck'[u].pc = "done" /\ \A t \in Torrents \ {u} : rck'[t] = rck[t] /\ row'[t] = row[t]
    BY <1>2 DEF FinishRecheck, RckSet, TypeOK, RecheckState
  <2>2. ReloadDue(u)'
    BY <2>1 DEF ReloadDue
  <2>3. SUFFICES ASSUME NEW t \in Torrents, t # u
                 PROVE  Unsettled(t)' => HotKnown(t)' /\ WorkerKnown(t)' /\ TasksKnown(t)'
    BY <2>2 DEF AllKnown, Unsettled
  <2>4. ReloadDue(t) => ReloadDue(t)'
    BY <1>2, <1>c, <2>1, <2>3 DEF ReloadDue, FinishRecheck
  <2>5. Known(t) \subseteq Known(t)'
    BY <1>c, <1>d, <2>1, <2>3, KnownGrows DEF Marked
  <2>6. QED
    BY <1>a, <1>c, <2>1, <2>3, <2>4, <2>5, KnownCarries DEF Unsettled
<1>3. CASE RecheckFails(u)
  BY <1>3, <1>e DEF RecheckFails, RckSet, TypeOK, RecheckState
<1>4. CASE EndRecheck(u)
  BY <1>4, <1>e DEF EndRecheck, RckSet, TypeOK, RecheckState
<1>5. CASE QueryWant(u)
  <2>1. CASE rck[u].wasHot \/ (CanLoad(u) /\ row[u].want)
    BY <1>5, <1>e, <2>1 DEF QueryWant, RckSet, TypeOK, RecheckState
  <2>2. CASE ~(CanLoad(u) /\ row[u].want)
    <3>1. UNCHANGED <<row, queue>> /\ \A t \in Torrents \ {u} : rck'[t] = rck[t]
      BY <1>5 DEF QueryWant, RckSet, TypeOK
    <3>2. HotKnown(u)' /\ WorkerKnown(u)' /\ TasksKnown(u)'
      BY <1>b, <1>c, <2>2 DEF HotKnown, WorkerKnown, TasksKnown, IsHot, WorkerAlone
    <3>3. SUFFICES ASSUME NEW t \in Torrents, t # u
                   PROVE  Unsettled(t)' => HotKnown(t)' /\ WorkerKnown(t)' /\ TasksKnown(t)'
      BY <3>2 DEF AllKnown
    <3>4. ReloadDue(t) => ReloadDue(t)'
      BY <1>c, <3>1, <3>3 DEF ReloadDue
    <3>5. Known(t) \subseteq Known(t)'
      BY <1>c, <1>d, <3>1, KnownGrows DEF Marked
    <3>6. QED
      BY <1>a, <1>c, <3>1, <3>4, <3>5, KnownCarries DEF Unsettled
  <2>3. QED
    BY <2>1, <2>2
<1>6. CASE SendSync(u)
  <2>1. UNCHANGED row /\ queue' = Append(queue, [op |-> "sync", t |-> u])
        /\ \A t \in Torrents \ {u} : rck'[t] = rck[t]
    BY <1>6 DEF SendSync, RckSet, TypeOK
  <2>2. \A t \in Torrents : ReloadDue(t) => ReloadDue(t)'
    BY <1>c, <2>1, AppendQueue DEF ReloadDue
  <2>3. QED
    BY <1>c, <1>d, <2>1, <2>2, AsideStep DEF Marked
<1>7. QED
  BY <1>1, <1>2, <1>3, <1>4, <1>5, <1>6 DEF RecheckStep

\* A leech session: what it marks is marked in the hot set at the same moment,
\* and stays marked until it is queued for the catalog.
LEMMA LeechCovers == TypeOK /\ CoverInv /\ LeechStep => AllKnown'
<1> SUFFICES ASSUME TypeOK, CoverInv, NEW j \in jobs,
                    WritePiece(j) \/ MarkPiece(j) \/ QueueHave(j) \/ DropJob(j)
             PROVE  AllKnown'
  BY DEF LeechStep
<1>a. /\ BatchesFlush /\ AllKnown /\ j \in Leech
      /\ UNCHANGED <<row, queue, mut, task, rck>> /\ pending \subseteq pending'
  BY DEF CoverInv, TypeOK, WritePiece, MarkPiece, QueueHave, DropJob
<1>b. \A e : Held(e) => Held(e)'
  BY <1>a, HeldStays
<1>c. \A t \in Torrents : ReloadDue(t) => ReloadDue(t)'
  BY <1>a DEF ReloadDue
<1>1. CASE WritePiece(j) \/ DropJob(j) \/ QueueHave(j)
  <2>1. \A k \in jobs : k.st = "marked" => k \in jobs' \/ (k = j /\ QueueHave(j))
    BY <1>1 DEF WritePiece, DropJob, QueueHave, Move
  <2>2. QueueHave(j) => Held(<<j.t, j.i>>)'
    BY DEF QueueHave, Held
  <2>3. \A t \in Torrents, i \in Pieces : Marked(t, i) => Marked(t, i)' \/ Held(<<t, i>>)'
    BY <2>1, <2>2 DEF Marked
  <2>4. UNCHANGED ram
    BY <1>1 DEF WritePiece, DropJob, QueueHave
  <2>5. QED
    BY <1>a, <1>b, <1>c, <2>3, <2>4, AsideStep
<1>2. CASE MarkPiece(j)
  <2>1. \A t, i : Marked(t, i) => Marked(t, i)'
    BY <1>2 DEF MarkPiece, Move, Marked
  <2>2. Marked(j.t, j.i)'
    <3> DEFINE n == [j EXCEPT !.st = "marked"]
    <3>1. n.t = j.t /\ n.i = j.i /\ n.st = "marked"
      BY <1>a DEF Leech
    <3>2. n \in jobs'
      BY <1>2 DEF MarkPiece, Move
    <3> HIDE DEF n
    <3>3. QED
      BY <3>1, <3>2 DEF Marked
  <2>3. SUFFICES ASSUME NEW t \in Torrents
                 PROVE  Unsettled(t)' => HotKnown(t)' /\ WorkerKnown(t)' /\ TasksKnown(t)'
    BY DEF AllKnown
  <2>4. Known(t) \subseteq Known(t)'
    BY <1>a, <1>b, <2>1, KnownGrows
  <2>5. j.t = t => j.i \in Known(t)'
    BY <1>a, <2>2 DEF Known, Told, Leech
  <2>6. ram'[t] = ram[t] \/ (j.live /\ j.t = t /\ ram'[t] = ram[t] \cup {j.i})
    BY <1>2 DEF MarkPiece, TypeOK
  <2>7. j.live /\ j.t = t => IsHot(t)
    BY DEF TypeOK, LiveIsHot
  <2>8. Unsettled(t) => ram'[t] = ram[t] \/ ram'[t] \subseteq Known(t)'
    BY <1>a, <2>4, <2>5, <2>6, <2>7 DEF AllKnown, HotKnown
  <2>9. QED
    BY <1>a, <1>c, <2>4, <2>8, KnownCarries DEF Unsettled
<1>3. QED
  BY <1>1, <1>2

\* Every step keeps CoverInv.
LEMMA CoverStep == TypeOK /\ CoverInv /\ [Next]_vars => CoverInv'
<1> SUFFICES ASSUME TypeOK, CoverInv, [Next]_vars PROVE CoverInv'
  OBVIOUS
<1>1. BatchesFlush'
  BY BatchesStep DEF CoverInv
<1>2. Calm'
  BY NoRecheckStep, WorkerAloneStep DEF CoverInv, Calm
<1>3. AllKnown'
  <2>1. ASSUME UNCHANGED <<row, ram, jobs, pending, mut, task>>,
               \A t \in Torrents : ReloadDue(t) => ReloadDue(t)'
        PROVE  AllKnown'
    BY <2>1, AsideStep DEF Held, Marked
  <2>2. ASSUME NEW op \in Ops, NEW t \in Torrents, Issue(op, t) PROVE AllKnown'
    <3>1. \A u \in Torrents : ReloadDue(u) => ReloadDue(u)'
      BY <2>2, AppendQueue DEF Issue, ReloadDue
    <3>2. QED
      BY <2>1, <2>2, <3>1 DEF Issue
  <2>3. CASE MutationStep
    BY <2>3, WorkerCovers
  <2>4. CASE TickFlush \/ TickFlushWrite \/ \E x \in Tasks : SyncStep(x)
    BY <2>4, TasksCover
  <2>5. ASSUME NEW t \in Torrents, RecheckStep(t) PROVE AllKnown'
    BY <2>5, RecheckCovers
  <2>6. ASSUME NEW t \in Torrents, NEW i \in Pieces, FetchPiece(t, i) PROVE AllKnown'
    <3>1. UNCHANGED <<row, ram, pending, queue, mut, task, rck>> /\ jobs \subseteq jobs'
      BY <2>6 DEF FetchPiece
    <3>2. \A u \in Torrents : ReloadDue(u) => ReloadDue(u)'
      BY <3>1 DEF ReloadDue
    <3>3. QED
      BY <3>1, <3>2, AsideStep DEF Held, Marked
  <2>7. ASSUME NEW t \in Torrents, NEW i \in Pieces, Damage(t, i) PROVE AllKnown'
    BY <2>1, <2>7 DEF Damage, ReloadDue
  <2>8. CASE LeechStep
    BY <2>8, LeechCovers
  <2>9. CASE Crash
    BY <2>9, BootedIs DEF Crash, AllKnown, HotKnown, WorkerKnown, TasksKnown, IsHot, MutIdle
  <2>10. CASE UNCHANGED vars
    BY <2>1, <2>10 DEF vars, ReloadDue
  <2>11. QED
    BY <2>2, <2>3, <2>4, <2>5, <2>6, <2>7, <2>8, <2>9, <2>10 DEF Next
<1>4. QED
  BY <1>1, <1>2, <1>3 DEF CoverInv

\* A started torrent offers only pieces that the catalog has or is about to be
\* told of, where nobody rechecks or where only the mutation worker starts
\* torrents: through failed flushes, stops and starts beside live sessions,
\* removals, reloads after a recheck and crashes (start_torrent, stop_torrent,
\* flush_piece_haves, finish_recheck).  With rechecks and a syncing task
\* together it does not hold: sync_want_start may publish what it loaded before
\* a stop or the verdicts, and no reload follows.
THEOREM PossessionIsCovered ==
  ASSUME "recheck" \notin Ops \/ Syncing = {}
  PROVE  Spec => []PossessionCovered
<1>1. Init => CoverInv
  <2> SUFFICES ASSUME Init PROVE CoverInv
    OBVIOUS
  <2>1. BatchesFlush
    BY BootedIs DEF Init, BatchesFlush, MutIdle
  <2>2. \A t \in Torrents : ~IsHot(t)
    BY DEF Init, IsHot
  <2>3. AllKnown
    BY <2>2, BootedIs DEF Init, AllKnown, HotKnown, WorkerKnown, TasksKnown, MutIdle
  <2>4. Calm
    BY <2>2, BootedIs DEF Init, Calm, NoRecheck, WorkerAlone, MutIdle, RckOff
  <2>5. QED
    BY <2>1, <2>3, <2>4 DEF CoverInv
<1>2. TypeOK /\ CoverInv => PossessionCovered
  BY KnownIs DEF CoverInv, AllKnown, Unsettled, HotKnown, PossessionCovered
<1>3. QED
  BY <1>1, <1>2, TypeCorrect, CoverStep, PTL DEF Spec
=============================================================================
