-------------------------- MODULE TorrentLifecycle --------------------------
(***************************************************************************)
(* Which torrents run, and what the catalog remembers of them              *)
(* (session/lifecycle.rs, session/catalog_io.rs, control/mutation.rs,      *)
(* runtime/recheck_pool.rs, catalog/torrent.rs, catalog/pieces.rs).        *)
(*                                                                         *)
(* The user's commands run one after the other on the mutation worker.     *)
(* Beside it run the tick task (piece-have flush, want_start sync), the    *)
(* bootstrap task (one sync), a detached thread per recheck and the leech  *)
(* sessions of started torrents, each on its own.  A step is one critical  *)
(* section: one lock of the session or one use of the catalog.  A crash    *)
(* keeps the catalog and the payload, and loses everything else.           *)
(*                                                                         *)
(* Abstracted: announce schedules, byte counters, the catalog's display    *)
(* column `state`, the time-based throttle of the flush (it may run at any *)
(* tick), and the inside of a leech session (LeechPath has it).            *)
(***************************************************************************)
EXTENDS Integers, Sequences, FiniteSets

CONSTANTS
    Torrents,    \* catalog ids
    Pieces,      \* piece indices of each torrent
    Cold,        \* not in the hot registry
    Ops,         \* the commands the user issues
    Syncing,     \* which of the tasks "tick" and "boot" run sync_want_start
    MaxCmds,     \* bound: commands
    MaxFaults,   \* bound: catalog and storage errors
    MaxCrashes,  \* bound: process crashes
    MaxDamage    \* bound: payload pieces damaged from outside

Commands == {"start", "stop", "recheck", "delete", "remove"}

ASSUME LifecycleAssumption ==
    /\ Torrents # {}
    /\ \A s \in SUBSET Pieces : Cold # s
    /\ Ops \subseteq Commands
    /\ Syncing \subseteq {"tick", "boot"}
    /\ MaxCmds \in Nat /\ MaxFaults \in Nat
    /\ MaxCrashes \in Nat /\ MaxDamage \in Nat

VARIABLES
    row,      \* the catalog: torrent and bitfield rows
    disk,     \* pieces whose verified bytes are in the payload
    ram,      \* the hot registry: possession of each started torrent, or Cold
    jobs,     \* pieces on their way through the leech sessions
    pending,  \* PieceHaveBuffer.pending
    queue,    \* the mutation worker's channel
    mut,      \* the mutation worker
    task,     \* the tick and bootstrap tasks
    rck,      \* the recheck threads
    asked,    \* ghost: what the user last asked of each torrent
    used      \* how much of each bound is spent

vars == <<row, disk, ram, jobs, pending, queue, mut, task, rck, asked, used>>

Tasks == {"tick", "boot"}
Haves == Torrents \X Pieces
MutPcs == {"idle", "startCheck", "startHot", "startLoad", "publish", "flush",
           "unhot", "unwant", "delete", "remove"}
TaskPcs == {"idle", "flush", "list", "next", "load", "publish"}
RckPcs == {"off", "check", "done", "failed", "query", "send"}
Resources == {"cmds", "faults", "crashes", "damage"}
Bound == [cmds |-> MaxCmds, faults |-> MaxFaults,
          crashes |-> MaxCrashes, damage |-> MaxDamage]

Row == [there : BOOLEAN, want : BOOLEAN, deleted : BOOLEAN, bits : SUBSET Pieces]
Leech == [t : Torrents, i : Pieces, live : BOOLEAN, st : {"fetch", "written", "marked"}]
Command == [op : Commands \cup {"sync"}, t : Torrents]
WorkerState == [pc : MutPcs, t : Torrents, batch : SUBSET Haves,
                bits : SUBSET Pieces, restart : BOOLEAN]
TaskState == [pc : TaskPcs, t : Torrents, batch : SUBSET Haves,
              bits : SUBSET Pieces, todo : SUBSET Torrents]
RecheckState == [pc : RckPcs, left : SUBSET Pieces, good : SUBSET Pieces, wasHot : BOOLEAN]

MutIdle == [pc |-> "idle", t |-> CHOOSE t \in Torrents : TRUE,
            batch |-> {}, bits |-> {}, restart |-> FALSE]
TaskIdle == [pc |-> "idle", t |-> CHOOSE t \in Torrents : TRUE,
             batch |-> {}, bits |-> {}, todo |-> {}]
RckOff == [pc |-> "off", left |-> {}, good |-> {}, wasHot |-> FALSE]

WithinBounds == used \in [Resources -> Nat] /\ \A r \in Resources : used[r] <= Bound[r]

\* The instance a live session holds is the registry's.
IsHot(t) == ram[t] # Cold
LiveIsHot == \A j \in jobs : j.live => IsHot(j.t)

TypeOK ==
    /\ row \in [Torrents -> Row]
    /\ disk \in [Torrents -> SUBSET Pieces]
    /\ ram \in [Torrents -> {Cold} \cup SUBSET Pieces]
    /\ jobs \subseteq Leech
    /\ pending \subseteq Haves
    /\ queue \in Seq(Command)
    /\ mut \in WorkerState
    /\ task \in [Tasks -> TaskState]
    /\ rck \in [Torrents -> RecheckState]
    /\ asked \in [Torrents -> BOOLEAN]
    /\ WithinBounds
    /\ LiveIsHot

Spend(r) == used[r] < Bound[r] /\ used' = [used EXCEPT ![r] = @ + 1]

\* The process as main starts it: the bootstrap task is about to sync.
Booted == [x \in Tasks |-> IF x = "boot" /\ x \in Syncing
                             THEN [TaskIdle EXCEPT !.pc = "list"] ELSE TaskIdle]

Init ==
    /\ row \in [Torrents -> {r \in Row : r.there /\ ~r.deleted /\ r.bits = {}}]
    /\ disk = [t \in Torrents |-> {}]
    /\ ram = [t \in Torrents |-> Cold]
    /\ jobs = {} /\ pending = {} /\ queue = <<>>
    /\ mut = MutIdle
    /\ task = Booted
    /\ rck = [t \in Torrents |-> RckOff]
    /\ asked = [t \in Torrents |-> row[t].want]
    /\ used = [r \in Resources |-> 0]

-----------------------------------------------------------------------------
(* The catalog, one connection's use of it at a time.                      *)

\* set_want_start(id, true) then load_from_catalog, under one catalog_mu.
CanLoad(t) == row[t].there /\ ~row[t].deleted
Wanting(t, w) == IF CanLoad(t) THEN [row EXCEPT ![t].want = w] ELSE row

\* One use of the catalog: it succeeds or leaves everything as it was.
Commit(r) == row' = r /\ UNCHANGED used
CommitFails == Spend("faults") /\ UNCHANGED row

BatchPieces(b, t) == {i \in Pieces : <<t, i>> \in b}

\* Seeded fault: a batch that cannot be written is dropped.
MarkBatchDropping(b) ==
    /\ \/ /\ \A e \in b : row[e[1]].there
          /\ row' = [t \in Torrents |-> [row[t] EXCEPT !.bits = @ \cup BatchPieces(b, t)]]
          /\ UNCHANGED used
       \/ (\E e \in b : ~row[e[1]].there) /\ UNCHANGED <<row, used>>
       \/ b # {} /\ CommitFails
    /\ UNCHANGED pending

\* mark_pieces_have_batch: one transaction, rolled back when any torrent of the
\* batch has no row; the caller then puts the whole batch back.
MarkBatch(b) ==
    \/ /\ \A e \in b : row[e[1]].there
       /\ row' = [t \in Torrents |-> [row[t] EXCEPT !.bits = @ \cup BatchPieces(b, t)]]
       /\ UNCHANGED <<pending, used>>
    \/ /\ \/ (\E e \in b : ~row[e[1]].there) /\ UNCHANGED used
          \/ b # {} /\ Spend("faults")
       /\ pending' = pending \cup b
       /\ UNCHANGED row

\* registry.insert unless another start won.
PublishHot(t, bits) == ram' = IF IsHot(t) THEN ram ELSE [ram EXCEPT ![t] = bits]

-----------------------------------------------------------------------------
(* The user and the mutation worker's queue.                               *)

Issue(op, t) ==
    /\ Spend("cmds")
    /\ queue' = Append(queue, [op |-> op, t |-> t])
    /\ asked' = CASE op = "start" -> [asked EXCEPT ![t] = TRUE]
                  [] op = "stop"  -> [asked EXCEPT ![t] = FALSE]
                  [] OTHER        -> asked
    /\ UNCHANGED <<row, disk, ram, jobs, pending, mut, task, rck>>

Taking(op) == mut.pc = "idle" /\ queue # <<>> /\ Head(queue).op = op /\ queue' = Tail(queue)
MutGoto(pc) == mut' = [mut EXCEPT !.pc = pc]
MutDone == mut' = MutIdle
MutAt(pc, t, restart) == mut' = [MutIdle EXCEPT !.pc = pc, !.t = t, !.restart = restart]

TakeStart ==
    /\ Taking("start")
    /\ MutAt("startCheck", Head(queue).t, FALSE)
    /\ UNCHANGED <<row, disk, ram, jobs, pending, task, rck, asked, used>>

\* start_torrent: is it hot already?
StartCheck ==
    /\ mut.pc = "startCheck"
    /\ MutGoto(IF IsHot(mut.t) THEN "startHot" ELSE "startLoad")
    /\ UNCHANGED <<row, disk, ram, jobs, pending, queue, task, rck, asked, used>>

StartHot ==
    /\ mut.pc = "startHot"
    /\ Commit(Wanting(mut.t, TRUE)) \/ CommitFails
    /\ MutDone
    /\ UNCHANGED <<disk, ram, jobs, pending, queue, task, rck, asked>>

StartLoad ==
    /\ mut.pc = "startLoad"
    /\ \/ /\ Commit(Wanting(mut.t, TRUE))
          /\ IF CanLoad(mut.t)
               THEN mut' = [mut EXCEPT !.pc = "publish", !.bits = row[mut.t].bits]
               ELSE MutDone
       \/ CommitFails /\ MutDone
    /\ UNCHANGED <<disk, ram, jobs, pending, queue, task, rck, asked>>

\* ensure_storage outside the catalog lock, it may fail; then publish.
StartPublish ==
    /\ mut.pc = "publish"
    /\ \/ PublishHot(mut.t, mut.bits) /\ UNCHANGED used
       \/ Spend("faults") /\ UNCHANGED ram
    /\ MutDone
    /\ UNCHANGED <<row, disk, jobs, pending, queue, task, rck, asked>>

\* stop_torrent begins with flush_piece_haves(Some(id), force): take the batch.
BeginStop(t, restart) ==
    LET b == {e \in pending : e[1] = t} IN
    /\ mut' = [MutIdle EXCEPT !.pc = "flush", !.t = t, !.batch = b, !.restart = restart]
    /\ pending' = pending \ b

TakeStop ==
    /\ Taking("stop")
    /\ BeginStop(Head(queue).t, FALSE)
    /\ UNCHANGED <<row, disk, ram, jobs, task, rck, asked, used>>

\* SyncAfterRecheck: stop it if it is hot, then start it.
TakeSync ==
    /\ Taking("sync")
    /\ IF IsHot(Head(queue).t)
         THEN BeginStop(Head(queue).t, TRUE)
         ELSE MutAt("startCheck", Head(queue).t, FALSE) /\ UNCHANGED pending
    /\ UNCHANGED <<row, disk, ram, jobs, task, rck, asked, used>>

StopFlush ==
    /\ mut.pc = "flush"
    /\ MarkBatch(mut.batch)
    /\ mut' = [mut EXCEPT !.pc = "unhot", !.batch = {}]
    /\ UNCHANGED <<disk, ram, jobs, queue, task, rck, asked>>

\* Out of the registry; the sessions are told to stop and keep the instance
\* they hold until they notice.
StopUnhot ==
    /\ mut.pc = "unhot"
    /\ ram' = [ram EXCEPT ![mut.t] = Cold]
    /\ jobs' = {[j EXCEPT !.live = @ /\ j.t # mut.t] : j \in jobs}
    /\ MutGoto("unwant")
    /\ UNCHANGED <<row, disk, pending, queue, task, rck, asked, used>>

StopUnwant ==
    /\ mut.pc = "unwant"
    /\ Commit(Wanting(mut.t, FALSE)) \/ CommitFails
    /\ IF mut.restart THEN MutAt("startCheck", mut.t, FALSE) ELSE MutDone
    /\ UNCHANGED <<disk, ram, jobs, pending, queue, task, rck, asked>>

\* soft_delete_torrent, remove_torrent_catalog: no recheck, not hot, ...
RecheckInFlight(t) == rck[t].pc \in {"check", "done", "failed"}
TakeErase(op) ==
    /\ Taking(op)
    /\ IF RecheckInFlight(Head(queue).t) \/ IsHot(Head(queue).t)
         THEN UNCHANGED mut
         ELSE MutAt(op, Head(queue).t, FALSE)
    /\ UNCHANGED <<row, disk, ram, jobs, pending, task, rck, asked, used>>

\* ... and in the catalog, not wanted.
Gone == [there |-> FALSE, want |-> FALSE, deleted |-> FALSE, bits |-> {}]
Erased(t, op) ==
    IF ~row[t].there \/ row[t].want THEN row
    ELSE IF op = "delete" THEN [row EXCEPT ![t].deleted = TRUE]
    ELSE [row EXCEPT ![t] = Gone]

EraseRow ==
    /\ mut.pc \in {"delete", "remove"}
    /\ Commit(Erased(mut.t, mut.pc)) \/ CommitFails
    /\ MutDone
    /\ UNCHANGED <<disk, ram, jobs, pending, queue, task, rck, asked>>

\* try_begin_recheck, or "already in progress".  Bound: one thread per torrent.
TakeRecheck ==
    /\ Taking("recheck")
    /\ LET t == Head(queue).t IN
         \/ RecheckInFlight(t) /\ UNCHANGED rck
         \/ /\ rck[t].pc = "off"
            /\ rck' = [rck EXCEPT ![t] = [pc |-> "check", left |-> Pieces,
                                          good |-> {}, wasHot |-> IsHot(t)]]
    /\ UNCHANGED <<row, disk, ram, jobs, pending, mut, task, asked, used>>

MutationStep ==
    \/ TakeStart \/ StartCheck \/ StartHot \/ StartLoad \/ StartPublish
    \/ TakeStop \/ TakeSync \/ StopFlush \/ StopUnhot \/ StopUnwant
    \/ \E op \in {"delete", "remove"} : TakeErase(op)
    \/ EraseRow \/ TakeRecheck

-----------------------------------------------------------------------------
(* The tick and bootstrap tasks.                                           *)

TaskSet(x, r) == task' = [task EXCEPT ![x] = r]

\* Seeded fault: the flush waits for a torrent that is complete in memory.
TickFlushOnComplete ==
    /\ task["tick"].pc = "idle" /\ pending # {}
    /\ \E e \in pending : ram[e[1]] = Pieces
    /\ TaskSet("tick", [TaskIdle EXCEPT !.pc = "flush", !.batch = pending])
    /\ pending' = {}
    /\ UNCHANGED <<row, disk, ram, jobs, queue, mut, rck, asked, used>>

TickFlush ==
    /\ task["tick"].pc = "idle" /\ pending # {}
    /\ TaskSet("tick", [TaskIdle EXCEPT !.pc = "flush", !.batch = pending])
    /\ pending' = {}
    /\ UNCHANGED <<row, disk, ram, jobs, queue, mut, rck, asked, used>>

TickFlushWrite ==
    /\ task["tick"].pc = "flush"
    /\ MarkBatch(task["tick"].batch)
    /\ TaskSet("tick", TaskIdle)
    /\ UNCHANGED <<disk, ram, jobs, queue, mut, rck, asked>>

\* Seeded fault: only the bootstrap syncs.
SyncListAtBoot(x) ==
    /\ x \in Syncing /\ x = "boot" /\ task[x].pc = "list"
    /\ TaskSet(x, [TaskIdle EXCEPT !.pc = "next",
                     !.todo = {t \in Torrents : CanLoad(t) /\ row[t].want}])
    /\ UNCHANGED <<row, disk, ram, jobs, pending, queue, mut, rck, asked, used>>

\* sync_want_start: the ids that want to run, then one after the other.
SyncList(x) ==
    /\ x \in Syncing
    /\ task[x].pc = (IF x = "boot" THEN "list" ELSE "idle")
    /\ TaskSet(x, [TaskIdle EXCEPT !.pc = "next",
                     !.todo = {t \in Torrents : CanLoad(t) /\ row[t].want}])
    /\ UNCHANGED <<row, disk, ram, jobs, pending, queue, mut, rck, asked, used>>

SyncNext(x) ==
    /\ task[x].pc = "next"
    /\ IF task[x].todo = {} THEN TaskSet(x, TaskIdle)
       ELSE \E t \in task[x].todo :
              TaskSet(x, [task[x] EXCEPT !.t = t, !.todo = @ \ {t},
                            !.pc = IF IsHot(t) THEN "next" ELSE "load"])
    /\ UNCHANGED <<row, disk, ram, jobs, pending, queue, mut, rck, asked, used>>

SyncLoad(x) ==
    /\ task[x].pc = "load"
    /\ \/ /\ Commit(Wanting(task[x].t, TRUE))
          /\ TaskSet(x, IF CanLoad(task[x].t)
                          THEN [task[x] EXCEPT !.pc = "publish", !.bits = row[task[x].t].bits]
                          ELSE [task[x] EXCEPT !.pc = "next"])
       \/ CommitFails /\ TaskSet(x, [task[x] EXCEPT !.pc = "next"])
    /\ UNCHANGED <<disk, ram, jobs, pending, queue, mut, rck, asked>>

SyncPublish(x) ==
    /\ task[x].pc = "publish"
    /\ \/ PublishHot(task[x].t, task[x].bits) /\ UNCHANGED used
       \/ Spend("faults") /\ UNCHANGED ram
    /\ TaskSet(x, [task[x] EXCEPT !.pc = "next", !.bits = {}])
    /\ UNCHANGED <<row, disk, jobs, pending, queue, mut, rck, asked>>

SyncStep(x) == SyncList(x) \/ SyncNext(x) \/ SyncLoad(x) \/ SyncPublish(x)

-----------------------------------------------------------------------------
(* A recheck thread, detached from the mutation worker.                    *)

RckSet(t, r) == rck' = [rck EXCEPT ![t] = r]

CheckPiece(t) ==
    /\ rck[t].pc = "check" /\ row[t].there
    /\ \E i \in rck[t].left :
         RckSet(t, [rck[t] EXCEPT !.left = @ \ {i},
                      !.good = IF i \in disk[t] THEN @ \cup {i} ELSE @])
    /\ UNCHANGED <<row, disk, ram, jobs, pending, queue, mut, task, asked, used>>

\* finish_recheck: the verdicts replace the whole bitfield.
FinishRecheck(t) ==
    /\ rck[t].pc = "check" /\ row[t].there /\ rck[t].left = {}
    /\ row' = [row EXCEPT ![t].bits = rck[t].good]
    /\ RckSet(t, [rck[t] EXCEPT !.pc = "done"])
    /\ UNCHANGED <<disk, ram, jobs, pending, queue, mut, task, asked, used>>

RecheckFails(t) ==
    /\ rck[t].pc = "check"
    /\ \/ ~row[t].there /\ UNCHANGED used
       \/ Spend("faults")
    /\ RckSet(t, [rck[t] EXCEPT !.pc = "failed"])
    /\ UNCHANGED <<row, disk, ram, jobs, pending, queue, mut, task, asked>>

EndRecheck(t) ==
    /\ rck[t].pc \in {"done", "failed"}
    /\ RckSet(t, IF rck[t].pc = "done" THEN [rck[t] EXCEPT !.pc = "query"] ELSE RckOff)
    /\ UNCHANGED <<row, disk, ram, jobs, pending, queue, mut, task, asked, used>>

\* Was it hot, or does it want to run?  Then have it reloaded.
QueryWant(t) ==
    /\ rck[t].pc = "query"
    /\ RckSet(t, IF rck[t].wasHot \/ (CanLoad(t) /\ row[t].want)
                   THEN [rck[t] EXCEPT !.pc = "send"] ELSE RckOff)
    /\ UNCHANGED <<row, disk, ram, jobs, pending, queue, mut, task, asked, used>>

SendSync(t) ==
    /\ rck[t].pc = "send"
    /\ queue' = Append(queue, [op |-> "sync", t |-> t])
    /\ RckSet(t, RckOff)
    /\ UNCHANGED <<row, disk, ram, jobs, pending, mut, task, asked, used>>

RecheckStep(t) ==
    CheckPiece(t) \/ FinishRecheck(t) \/ RecheckFails(t) \/ EndRecheck(t)
        \/ QueryWant(t) \/ SendSync(t)

-----------------------------------------------------------------------------
(* Leech sessions, one piece of theirs at a time (apply_hash_outcome).     *)

JobAt(t, i, live, st) == [t |-> t, i |-> i, live |-> live, st |-> st]
Move(j, st) == jobs' = (jobs \ {j}) \cup {[j EXCEPT !.st = st]}

FetchPiece(t, i) ==
    /\ IsHot(t) /\ i \notin ram[t]
    /\ \A j \in jobs : j.t = t /\ j.i = i => ~j.live
    /\ jobs' = jobs \cup {JobAt(t, i, TRUE, "fetch")}
    /\ UNCHANGED <<row, disk, ram, pending, queue, mut, task, rck, asked, used>>

\* Verified and written; the outcome is on its way to the session.
WritePiece(j) ==
    /\ j.st = "fetch"
    /\ disk' = [disk EXCEPT ![j.t] = @ \cup {j.i}]
    /\ Move(j, "written")
    /\ UNCHANGED <<row, ram, pending, queue, mut, task, rck, asked, used>>

\* Seeded fault: possession is marked before the write has been reported.
MarkPieceEarly(j) ==
    /\ j.st # "marked"
    /\ ram' = IF j.live THEN [ram EXCEPT ![j.t] = @ \cup {j.i}] ELSE ram
    /\ Move(j, "marked")
    /\ UNCHANGED <<row, disk, pending, queue, mut, task, rck, asked, used>>

\* mark_have on the instance the session holds, the registry's or a former one.
MarkPiece(j) ==
    /\ j.st = "written"
    /\ ram' = IF j.live THEN [ram EXCEPT ![j.t] = @ \cup {j.i}] ELSE ram
    /\ Move(j, "marked")
    /\ UNCHANGED <<row, disk, pending, queue, mut, task, rck, asked, used>>

\* on_piece -> queue_piece_have.
QueueHave(j) ==
    /\ j.st = "marked"
    /\ pending' = pending \cup {<<j.t, j.i>>}
    /\ jobs' = jobs \ {j}
    /\ UNCHANGED <<row, disk, ram, queue, mut, task, rck, asked, used>>

\* The session ends before it applies the outcome.
DropJob(j) ==
    /\ j.st # "marked"
    /\ jobs' = jobs \ {j}
    /\ UNCHANGED <<row, disk, ram, pending, queue, mut, task, rck, asked, used>>

LeechStep == \E j \in jobs : WritePiece(j) \/ MarkPiece(j) \/ QueueHave(j) \/ DropJob(j)

-----------------------------------------------------------------------------
(* The outside.                                                            *)

\* Somebody damages a piece of the payload: what a recheck is for.
Damage(t, i) ==
    /\ i \in disk[t]
    /\ Spend("damage")
    /\ disk' = [disk EXCEPT ![t] = @ \ {i}]
    /\ UNCHANGED <<row, ram, jobs, pending, queue, mut, task, rck, asked>>

\* The process dies at any point and is started again.
Crash ==
    /\ Spend("crashes")
    /\ ram' = [t \in Torrents |-> Cold]
    /\ jobs' = {} /\ pending' = {} /\ queue' = <<>>
    /\ mut' = MutIdle /\ task' = Booted
    /\ rck' = [t \in Torrents |-> RckOff]
    /\ asked' = [t \in Torrents |-> row[t].want]
    /\ UNCHANGED <<row, disk>>

Next ==
    \/ \E op \in Ops, t \in Torrents : Issue(op, t)
    \/ MutationStep
    \/ TickFlush \/ TickFlushWrite
    \/ \E x \in Tasks : SyncStep(x)
    \/ \E t \in Torrents : RecheckStep(t)
    \/ \E t \in Torrents, i \in Pieces : FetchPiece(t, i) \/ Damage(t, i)
    \/ LeechStep
    \/ Crash

Spec == Init /\ [][Next]_vars

-----------------------------------------------------------------------------
(* Properties.                                                             *)

\* Possession on its way to the catalog: applied by a session, waiting in the
\* buffer, or in the batch of a flush that is under way.
Underway(t) ==
    LET inBatches == BatchPieces(mut.batch \cup UNION {task[x].batch : x \in Tasks}, t)
        inSessions == {j.i : j \in {k \in jobs : k.t = t /\ k.st = "marked"}}
    IN  BatchPieces(pending, t) \cup inBatches \cup inSessions

\* A recheck of t has committed its verdicts and the reload is still to come.
ReloadDue(t) ==
    \/ rck[t].pc \in {"done", "query", "send"}
    \/ \E k \in DOMAIN queue : queue[k] = [op |-> "sync", t |-> t]
    \/ mut.t = t /\ mut.restart /\ mut.pc \in {"flush", "unhot"}

\* Nobody but the sessions has anything left to do.
Quiet ==
    /\ queue = <<>> /\ mut.pc = "idle"
    /\ \A x \in Tasks : task[x].pc = "idle"
    /\ \A t \in Torrents : rck[t].pc = "off"

\* While nobody outside touches the payload, the catalog names no piece whose
\* bytes are not there, whatever was flushed, rechecked, restarted or lost
\* (mark_pieces_have_batch and finish_recheck are the only writers of bits).
CatalogBehindDisk ==
    used.damage = 0 => \A t \in Torrents : row[t].bits \subseteq disk[t]

\* A started torrent offers only pieces that the catalog has or is about to be
\* told of: neither a failed flush nor a stop and start beside the sessions
\* loses one, and a recheck's verdict reaches the hot set by the reload.
PossessionCovered ==
    \A t \in Torrents :
        row[t].there /\ IsHot(t) /\ ~ReloadDue(t)
            => ram[t] \subseteq row[t].bits \cup Underway(t)

\* "Reload hot bitfield via ordered stop/start when needed": once a recheck is
\* over and reloaded, the hot set has nothing the catalog lacks.
ReloadedAfterRecheck ==
    Quiet => \A t \in Torrents :
                IsHot(t) => ram[t] \subseteq row[t].bits \cup Underway(t)

\* A stop always "takes": with no command left, no torrent runs that the user
\* last asked to stop (stop_torrent).
StopTakes == Quiet => \A t \in Torrents : IsHot(t) => asked[t]

\* A torrent is deleted or removed only when it is stopped, so none that is
\* gone from the catalog is hot (soft_delete_torrent, remove_torrent_catalog).
DeletedNotHot == \A t \in Torrents : IsHot(t) => CanLoad(t)

\* Every piece-have in the buffer after the last crash reaches the catalog while
\* its torrent has a row: a flush that fails is retried.
HavesLand ==
    \A t \in Torrents, i \in Pieces :
        <<t, i>> \in pending /\ used.crashes = MaxCrashes
            ~> (i \in row[t].bits \/ ~row[t].there)

\* A torrent that wants to run is started, also after crashes and errors, or
\* it is stopped (sync_want_start at bootstrap and on the tick).
WantedRuns ==
    \A t \in Torrents : row[t].want ~> (IsHot(t) \/ ~row[t].want)

\* The mutation worker, the tasks and the recheck threads run; the tick comes
\* round to a flush that is due and to a sync, whatever else it does; an
\* applied outcome is reported.  Commands, faults, crashes, damage and the
\* progress of downloads are owed by nobody.
Fairness ==
    /\ WF_vars(MutationStep)
    /\ SF_vars(TickFlush) /\ WF_vars(TickFlushWrite)
    /\ \A x \in Tasks :
          /\ SF_vars(SyncList(x))
          /\ WF_vars(SyncNext(x) \/ SyncLoad(x) \/ SyncPublish(x))
    /\ \A t \in Torrents : WF_vars(RecheckStep(t))
    /\ WF_vars(\E j \in jobs : QueueHave(j))

FairSpec == Spec /\ Fairness
=============================================================================
