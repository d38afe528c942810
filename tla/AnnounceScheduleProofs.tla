----------------------- MODULE AnnounceScheduleProofs -----------------------
(***************************************************************************)
(* TLAPS proofs about AnnounceSchedule, for any torrents, pieces, tasks,   *)
(* limits and budgets, and about the announce of one task to a UDP tracker *)
(* (UdpTracker), for any number of addresses.                              *)
(*                                                                         *)
(* SentInv follows the `completed' announce of an entry: it is held by one *)
(* task of that entry, or a tracker accepted it, and in both cases the     *)
(* entry is marked, so that no other task picks it.                        *)
(***************************************************************************)
EXTENDS AnnounceSchedule, UdpTracker, FiniteSetTheorems, TLAPS
USE AnnounceAssumption

-----------------------------------------------------------------------------
(* Types.                                                                  *)

Entries == [due : {"none", "now", "later", "far"}, flight : BOOLEAN, started : BOOLEAN,
            completed : BOOLEAN, pending : BOOLEAN]
TaskRecs == [t : Torrents, stale : BOOLEAN,
             pc : {"idle", "queued", "pick", "host", "wire", "ok", "failed", "kick"},
             event : {"none", "started", "completed", "stopped"}]
Wired == {k \in Tasks : tasks[k].pc = "wire"}

\* The threads stand somewhere, with a torrent in hand.
ThreadsOK ==
    /\ worker \in [op : {"none", "start", "stop"}, t : Torrents, done : 0..Pieces,
                   pc : {"idle", "done", "base", "sched", "kick", "unhot"}]
    /\ boot \in [left : SUBSET Torrents, t : Torrents, done : 0..Pieces,
                 pc : {"idle", "list", "next", "done", "base", "sched"}]
    /\ tick \in [pc : {"idle", "check", "kick", "kclaim", "claim"}, t : Torrents, ids : SUBSET Torrents]
    /\ crossed \subseteq Torrents /\ acks \in [Torrents -> Nat]

AnnounceShape ==
    /\ hot \subseteq Torrents /\ wanted \subseteq Torrents
    /\ have \in [Torrents -> 0..Pieces]
    /\ sched \in [Torrents -> Entries]
    /\ baseline \in [Torrents -> [done : 0..Pieces, incomplete : BOOLEAN]]
    /\ tasks \in [Tasks -> TaskRecs]
    /\ ThreadsOK

\* Some torrent is always at hand.
LEMMA IdleIs ==
  /\ Idle.t \in Torrents /\ NoTask \in TaskRecs /\ NoTask.pc = "idle" /\ NoTask.event = "none"
  /\ \A t \in Torrents : NewTask(t) \in TaskRecs /\ NewTask(t).pc = "queued" /\ NewTask(t).event = "none"
                         /\ NewTask(t).t = t /\ ~NewTask(t).stale
<1>1. Idle.t \in Torrents
  <2>1. \E t \in Torrents : TRUE
    BY AnnounceAssumption
  <2>2. (CHOOSE t \in Torrents : TRUE) \in Torrents
    BY <2>1
  <2>3. QED
    BY <2>2 DEF Idle
<1>2. QED
  BY <1>1 DEF NoTask, NewTask, TaskRecs

\* An entry that is absent counts as a fresh one.
LEMMA EntryIs ==
  ASSUME sched \in [Torrents -> Entries], NEW t \in Torrents, NEW due \in {"now", "later", "far"}
  PROVE  /\ Entry(t, due) \in Entries /\ [Entry(t, due) EXCEPT !.flight = TRUE] \in Entries
         /\ [Entry(t, due) EXCEPT !.due = due] \in Entries
         /\ NoEntry \in Entries /\ Fresh("now") \in Entries
BY DEF Entry, Entries, Fresh, NoEntry

\* Every announce that is spawned is a new task in a place that was free.
LEMMA SpawnIs ==
  ASSUME NEW claimed \in SUBSET Torrents, Spawn(claimed), tasks \in [Tasks -> TaskRecs]
  PROVE  /\ tasks' \in [Tasks -> TaskRecs]
         /\ \A k \in Tasks : \/ tasks'[k] = tasks[k]
                             \/ tasks[k].pc = "idle" /\ \E t \in claimed : tasks'[k] = NewTask(t)
<1>1. PICK at \in [claimed -> FreeTasks] :
          tasks' = [k \in Tasks |->
              IF \E t \in claimed : at[t] = k
              THEN NewTask(CHOOSE t \in claimed : at[t] = k) ELSE tasks[k]]
  BY DEF Spawn
<1>2. ASSUME NEW k \in Tasks
      PROVE  \/ tasks'[k] = tasks[k]
             \/ tasks[k].pc = "idle" /\ \E t \in claimed : tasks'[k] = NewTask(t)
  <2>1. CASE \E t \in claimed : at[t] = k
    <3>1. (CHOOSE t \in claimed : at[t] = k) \in claimed
      BY <2>1
    <3>2. k \in FreeTasks
      BY <2>1
    <3>3. QED
      BY <1>1, <2>1, <3>1, <3>2 DEF FreeTasks
  <2>2. CASE ~ \E t \in claimed : at[t] = k
    BY <1>1, <2>2
  <2>3. QED
    BY <2>1, <2>2
<1>3. ASSUME NEW k \in Tasks PROVE tasks'[k] \in TaskRecs
  BY <1>2, <1>3, IdleIs
<1>4. QED
  BY <1>1, <1>2, <1>3

\* A claim sets in_flight on the torrent's entry and spawns its task, or does nothing.
LEMMA ClaimIs ==
  ASSUME NEW t \in Torrents, Claim(t), sched \in [Torrents -> Entries], tasks \in [Tasks -> TaskRecs]
  PROVE  /\ tasks' \in [Tasks -> TaskRecs]
         /\ \/ sched' = sched
            \/ sched' = [sched EXCEPT ![t] = [Entry(t, "now") EXCEPT !.flight = TRUE]]
         /\ \A k \in Tasks : \/ tasks'[k] = tasks[k]
                             \/ tasks[k].pc = "idle" /\ tasks'[k] = NewTask(t)
<1>1. CASE UNCHANGED <<sched, tasks>>
  BY <1>1
<1>2. CASE /\ sched' = [sched EXCEPT ![t] = [Entry(t, "now") EXCEPT !.flight = TRUE]]
           /\ Spawn({t})
  BY <1>2, SpawnIs
<1>3. QED
  BY <1>1, <1>2 DEF Claim

\* Renew: the tasks of the torrent are stale, its entry has sent nothing.
LEMMA RenewIs ==
  ASSUME NEW t \in Torrents, Renew(t), tasks \in [Tasks -> TaskRecs], acks \in [Torrents -> Nat],
         crossed \subseteq Torrents
  PROVE  /\ tasks' \in [Tasks -> TaskRecs] /\ acks' \in [Torrents -> Nat] /\ crossed' = crossed \ {t}
         /\ acks'[t] = 0 /\ \A u \in Torrents \ {t} : acks'[u] = acks[u]
         /\ \A k \in Tasks : /\ tasks'[k].pc = tasks[k].pc /\ tasks'[k].t = tasks[k].t
                             /\ tasks'[k].event = tasks[k].event
                             /\ tasks[k].t # t => tasks'[k] = tasks[k]
                             /\ tasks[k].t = t /\ tasks[k].pc # "idle" => tasks'[k].stale
<1>1. /\ acks' = [acks EXCEPT ![t] = 0] /\ crossed' = crossed \ {t}
      /\ tasks' = [k \in Tasks |-> IF tasks[k].t = t /\ tasks[k].pc # "idle"
                                   THEN [tasks[k] EXCEPT !.stale = TRUE] ELSE tasks[k]]
  BY DEF Renew
<1>2. ASSUME NEW k \in Tasks
      PROVE  /\ tasks'[k] \in TaskRecs /\ tasks'[k].pc = tasks[k].pc /\ tasks'[k].t = tasks[k].t
             /\ tasks'[k].event = tasks[k].event
             /\ tasks[k].t # t => tasks'[k] = tasks[k]
             /\ tasks[k].t = t /\ tasks[k].pc # "idle" => tasks'[k].stale
  <2>1. PICK x \in TaskRecs : x = tasks[k]
    OBVIOUS
  <2>2. tasks'[k] = IF x.t = t /\ x.pc # "idle" THEN [x EXCEPT !.stale = TRUE] ELSE x
    BY <1>1, <2>1
  <2>3. QED
    BY <2>1, <2>2 DEF TaskRecs
<1>3. tasks' \in [Tasks -> TaskRecs]
  BY <1>1, <1>2
<1>4. QED
  BY <1>1, <1>2, <1>3

\* What an answer makes of an entry.
LEMMA AfterTypes ==
  ASSUME NEW e \in Entries, NEW event
  PROVE  /\ AfterOk(e, event) \in Entries /\ AfterFailure(e, event) \in Entries
         /\ AfterOk(e, event).completed = (e.completed \/ event = "completed")
         /\ AfterFailure(e, event).completed = (e.completed /\ event # "completed")
<1>1. PICK f : f = [e EXCEPT !.flight = FALSE,
                            !.started = @ \/ event = "started",
                            !.completed = @ \/ event = "completed",
                            !.pending = @ /\ event # "completed"]
  OBVIOUS
<1>2. f \in Entries /\ f.completed = (e.completed \/ event = "completed")
  <2>1. PICK a \in BOOLEAN, b \in BOOLEAN, c \in BOOLEAN :
            a = (e.started \/ event = "started") /\ b = (e.completed \/ event = "completed")
            /\ c = (e.pending /\ event # "completed")
    OBVIOUS
  <2>2. f = [e EXCEPT !.flight = FALSE, !.started = a, !.completed = b, !.pending = c]
    BY <1>1, <2>1
  <2>3. QED
    BY <2>1, <2>2 DEF Entries
<1>3. AfterOk(e, event) = [f EXCEPT !.due = IF f.pending /\ f.started /\ ~f.completed THEN "now" ELSE "later"]
  BY <1>1 DEF AfterOk
<1>4. AfterOk(e, event) \in Entries /\ AfterOk(e, event).completed = f.completed
  BY <1>2, <1>3 DEF Entries
<1>5. AfterFailure(e, event) \in Entries
      /\ AfterFailure(e, event).completed = (e.completed /\ event # "completed")
  <2>1. PICK b \in BOOLEAN, c \in BOOLEAN :
            b = (e.completed /\ event # "completed") /\ c = (e.pending \/ event = "completed")
    OBVIOUS
  <2>2. AfterFailure(e, event) = [e EXCEPT !.flight = FALSE, !.due = "later", !.completed = b, !.pending = c]
    BY <2>1 DEF AfterFailure
  <2>3. QED
    BY <2>1, <2>2 DEF Entries
<1>6. QED
  BY <1>2, <1>4, <1>5

\* After an answer the entry has a time.
LEMMA AfterDue ==
  ASSUME NEW e \in Entries, NEW event
  PROVE  AfterOk(e, event).due # "none" /\ AfterFailure(e, event).due # "none"
<1>1. PICK f : f = [e EXCEPT !.flight = FALSE,
                            !.started = @ \/ event = "started",
                            !.completed = @ \/ event = "completed",
                            !.pending = @ /\ event # "completed"]
  OBVIOUS
<1>2. AfterOk(e, event) = [f EXCEPT !.due = IF f.pending /\ f.started /\ ~f.completed THEN "now" ELSE "later"]
  BY <1>1 DEF AfterOk
<1>3. "due" \in DOMAIN f
  BY <1>1 DEF Entries
<1>4. AfterOk(e, event).due \in {"now", "later"}
  BY <1>2, <1>3
<1>5. AfterFailure(e, event).due = "later"
  BY DEF AfterFailure, Entries
<1>6. QED
  BY <1>4, <1>5

\* Everything keeps its type.
LEMMA ShapeStep ==
  ASSUME AnnounceShape, [AnnounceNext]_annVars
  PROVE  AnnounceShape'
<1>t. tasks \in [Tasks -> TaskRecs] /\ sched \in [Torrents -> Entries] /\ acks \in [Torrents -> Nat]
      /\ crossed \subseteq Torrents
  BY DEF AnnounceShape, ThreadsOK
<1>d. \A t \in Torrents : Done(t) \in 0..Pieces
  BY AnnounceAssumption DEF AnnounceShape, Done
<1>b. \A t \in Torrents, n \in 0..Pieces : BaseOf(t, n) \in [done : 0..Pieces, incomplete : BOOLEAN]
  BY DEF BaseOf
<1>z. NoBase \in [done : 0..Pieces, incomplete : BOOLEAN] /\ 0 \in 0..Pieces
  BY AnnounceAssumption DEF NoBase
<1>1. ASSUME NEW t \in Torrents, StartTorrent(t) PROVE AnnounceShape'
  BY <1>1 DEF StartTorrent, AnnounceShape, ThreadsOK, ghosts
<1>2. ASSUME NEW t \in Torrents, StopTorrent(t) PROVE AnnounceShape'
  <2>1. PICK k \in FreeTasks : tasks' = [tasks EXCEPT ![k] = [NewTask(t) EXCEPT !.event = "stopped", !.pc = "host"]]
    BY <1>2 DEF StopTorrent
  <2>2. [NewTask(t) EXCEPT !.event = "stopped", !.pc = "host"] \in TaskRecs
    <3>1. PICK x \in TaskRecs : x = NewTask(t)
      BY IdleIs
    <3>2. [x EXCEPT !.event = "stopped", !.pc = "host"] \in TaskRecs
      BY DEF TaskRecs
    <3>3. QED
      BY <3>1, <3>2
  <2>3. tasks' \in [Tasks -> TaskRecs]
    BY <1>t, <2>1, <2>2
  <2>4. QED
    BY <1>2, <2>3 DEF StopTorrent, AnnounceShape, ThreadsOK, ghosts
<1>3. CASE StartReadDone
  <2>1. Done(worker.t) \in 0..Pieces
    BY <1>d DEF AnnounceShape, ThreadsOK
  <2>2. QED
    BY <1>3, <2>1 DEF StartReadDone, AnnounceShape, ThreadsOK, ghosts
<1>4. CASE StartBaseline
  BY <1>4, <1>b, <1>z DEF StartBaseline, AnnounceShape, ThreadsOK, ghosts
<1>5. CASE StartSchedule
  <2>1. tasks' \in [Tasks -> TaskRecs] /\ acks' \in [Torrents -> Nat] /\ crossed' \subseteq Torrents
    BY <1>5, <1>t, RenewIs DEF StartSchedule, AnnounceShape, ThreadsOK
  <2>2. sched' \in [Torrents -> Entries]
    BY <1>5, <1>t, EntryIs, IdleIs DEF StartSchedule
  <2>3. QED
    BY <1>5, <2>1, <2>2 DEF StartSchedule, AnnounceShape, ThreadsOK
<1>6. CASE StartKick
  <2>1. worker.t \in Torrents
    BY DEF AnnounceShape, ThreadsOK
  <2>2. tasks' \in [Tasks -> TaskRecs] /\ sched' \in [Torrents -> Entries]
    BY <1>6, <1>t, <2>1, ClaimIs, EntryIs DEF StartKick
  <2>3. QED
    BY <1>6, <2>2 DEF StartKick, AnnounceShape, ThreadsOK, ghosts
<1>7. CASE StopUnhot
  BY <1>7 DEF StopUnhot, AnnounceShape, ThreadsOK, ghosts
<1>8. CASE StopSchedule
  <2>1. tasks' \in [Tasks -> TaskRecs] /\ acks' \in [Torrents -> Nat] /\ crossed' \subseteq Torrents
    BY <1>8, <1>t, RenewIs DEF StopSchedule, AnnounceShape, ThreadsOK
  <2>2. sched' \in [Torrents -> Entries]
    BY <1>8, <1>t, EntryIs, IdleIs DEF StopSchedule
  <2>3. QED
    BY <1>8, <2>1, <2>2 DEF StopSchedule, AnnounceShape, ThreadsOK
<1>9. CASE StopBaseline
  BY <1>9, <1>z DEF StopBaseline, AnnounceShape, ThreadsOK, ghosts
<1>10. CASE BootList \/ \E t \in Torrents : BootActivate(t)
  <2>1. CASE BootList
    BY <2>1 DEF BootList, AnnounceShape, ThreadsOK, ghosts
  <2>2. ASSUME NEW t \in Torrents, BootActivate(t) PROVE AnnounceShape'
    <3>1. boot' \in [left : SUBSET Torrents, t : Torrents, done : 0..Pieces,
                    pc : {"idle", "list", "next", "done", "base", "sched"}]
      BY <2>2 DEF BootActivate, AnnounceShape, ThreadsOK
    <3>2. QED
      BY <2>2, <3>1 DEF BootActivate, AnnounceShape, ThreadsOK, ghosts
  <2>3. QED
    BY <1>10, <2>1, <2>2
<1>11. CASE BootReadDone
  <2>1. Done(boot.t) \in 0..Pieces
    BY <1>d DEF AnnounceShape, ThreadsOK
  <2>2. QED
    BY <1>11, <2>1 DEF BootReadDone, AnnounceShape, ThreadsOK, ghosts
<1>12. CASE BootBaseline
  BY <1>12, <1>b, <1>z DEF BootBaseline, AnnounceShape, ThreadsOK, ghosts
<1>13. CASE BootSchedule
  <2>1. Entry(boot.t, "far") \in Entries
    BY <1>t, EntryIs DEF AnnounceShape, ThreadsOK
  <2>2. sched' \in [Torrents -> Entries]
    BY <1>13, <1>t, <2>1 DEF BootSchedule
  <2>3. QED
    BY <1>13, <2>2 DEF BootSchedule, AnnounceShape, ThreadsOK, ghosts
<1>14. CASE BootStagger
  <2>1. PICK newest : sched' = [t \in Torrents |->
                LET due == IF t = newest THEN "now" ELSE "later"
                IN IF t \notin hot \/ sched[t].flight THEN sched[t]
                   ELSE [Entry(t, due) EXCEPT !.due = due]]
    BY <1>14 DEF BootStagger
  <2>2. sched' \in [Torrents -> Entries]
    BY <1>t, <2>1, EntryIs
  <2>3. QED
    BY <1>14, <2>2 DEF BootStagger, AnnounceShape, ThreadsOK, ghosts
<1>15. CASE CheckSnapshot \/ CheckKick \/ PollSnapshot
  BY <1>15 DEF CheckSnapshot, CheckKick, PollSnapshot, AnnounceShape, ThreadsOK, ghosts
<1>16. ASSUME NEW t \in Torrents, CheckComplete(t) PROVE AnnounceShape'
  <2>0. PICK e \in Entries : e = sched[t]
    BY <1>t
  <2>a. ASSUME WantsCompleted(t) PROVE sched' \in [Torrents -> Entries]
    <3>1. sched' = [sched EXCEPT ![t] = [e EXCEPT !.pending = TRUE, !.due = IF e.flight THEN @ ELSE "now"]]
      BY <1>16, <1>t, <2>0, <2>a DEF CheckComplete
    <3>2. [e EXCEPT !.pending = TRUE, !.due = IF e.flight THEN @ ELSE "now"] \in Entries
      BY DEF Entries
    <3>3. sched' \in [Torrents -> Entries]
      BY <1>t, <3>1, <3>2
    <3>4. QED
      BY <3>3
  <2>1. sched' \in [Torrents -> Entries]
    BY <1>16, <1>t, <2>a DEF CheckComplete
  <2>2. tick' \in [pc : {"idle", "check", "kick", "kclaim", "claim"}, t : Torrents, ids : SUBSET Torrents]
    <3>1. CASE ~WantsCompleted(t)
      BY <1>16, <3>1 DEF CheckComplete, AnnounceShape, ThreadsOK
    <3>2. CASE WantsCompleted(t)
      <4>1. tick' = [tick EXCEPT !.ids = @ \ {t}, !.t = t, !.pc = IF sched[t].flight THEN "check" ELSE "kick"]
        BY <1>16, <3>2 DEF CheckComplete
      <4>2. QED
        BY <4>1 DEF AnnounceShape, ThreadsOK
    <3>3. QED
      BY <3>1, <3>2
  <2>3. QED
    BY <1>16, <2>1, <2>2 DEF CheckComplete, AnnounceShape, ThreadsOK, ghosts
<1>17. CASE CheckClaim
  <2>1. tick.t \in Torrents
    BY DEF AnnounceShape, ThreadsOK
  <2>2. tasks' \in [Tasks -> TaskRecs] /\ sched' \in [Torrents -> Entries]
    BY <1>17, <1>t, <2>1, ClaimIs, EntryIs DEF CheckClaim
  <2>3. QED
    BY <1>17, <2>2 DEF CheckClaim, AnnounceShape, ThreadsOK, ghosts
<1>18. CASE PollClaim
  <2>1. PICK claimed \in SUBSET tick.ids :
            /\ sched' = [t \in Torrents |-> IF t \in claimed
                                            THEN [Entry(t, "now") EXCEPT !.flight = TRUE] ELSE sched[t]]
            /\ Spawn(claimed)
    BY <1>18 DEF PollClaim
  <2>2. claimed \in SUBSET Torrents
    BY DEF AnnounceShape, ThreadsOK
  <2>3. tasks' \in [Tasks -> TaskRecs] /\ sched' \in [Torrents -> Entries]
    BY <1>t, <2>1, <2>2, SpawnIs, EntryIs
  <2>4. QED
    BY <1>18, <2>3, IdleIs DEF PollClaim, AnnounceShape, ThreadsOK, ghosts
<1>19. ASSUME NEW t \in Torrents, Starve(t) \/ Verify(t) \/ TimePasses(t) PROVE AnnounceShape'
  <2>1. CASE Starve(t) \/ TimePasses(t)
    <3>1. [sched[t] EXCEPT !.due = "now"] \in Entries
      BY <1>t DEF Entries
    <3>2. sched' \in [Torrents -> Entries]
      BY <1>t, <2>1, <3>1 DEF Starve, TimePasses
    <3>3. QED
      BY <2>1, <3>2 DEF Starve, TimePasses, AnnounceShape, ThreadsOK, ghosts
  <2>2. CASE Verify(t)
    <3>1. have' \in [Torrents -> 0..Pieces]
      BY <2>2, AnnounceAssumption DEF Verify, AnnounceShape
    <3>2. QED
      BY <2>2, <3>1 DEF Verify, AnnounceShape, ThreadsOK, ghosts
  <2>3. QED
    BY <1>19, <2>1, <2>2
<1>20. ASSUME NEW k \in Tasks, TaskStep(k) \/ TaskFailed(k) PROVE AnnounceShape'
  <2>0. tasks[k] \in TaskRecs /\ tasks[k].t \in Torrents
    BY <1>t DEF TaskRecs
  <2>1. CASE TaskBegin(k)
    <3>1. [tasks[k] EXCEPT !.pc = "pick"] \in TaskRecs
      BY <2>0 DEF TaskRecs
    <3>2. tasks' \in [Tasks -> TaskRecs]
      BY <1>t, <2>1, <3>1, IdleIs DEF TaskBegin
    <3>3. QED
      BY <2>1, <3>2 DEF TaskBegin, AnnounceShape, ThreadsOK, ghosts
  <2>2. CASE TaskPick(k)
    <3>1. PICK t, e, event : t = tasks[k].t /\ e = [Entry(t, "now") EXCEPT !.flight = TRUE] /\ event = EventOf(e)
      OBVIOUS
    <3>2. e \in Entries /\ event \in {"completed", "started", "none"}
      BY <1>t, <2>0, <3>1, EntryIs DEF EventOf
    <3>3. sched' = [sched EXCEPT ![t] = IF event = "completed"
                       THEN [e EXCEPT !.completed = TRUE, !.pending = FALSE] ELSE e]
          /\ tasks' = [tasks EXCEPT ![k].event = event, ![k].pc = "host"]
      BY <2>2, <3>1 DEF TaskPick
    <3>4. sched' \in [Torrents -> Entries]
      BY <1>t, <3>2, <3>3 DEF Entries
    <3>5. tasks' \in [Tasks -> TaskRecs]
      BY <1>t, <2>0, <3>2, <3>3 DEF TaskRecs
    <3>6. QED
      BY <2>2, <3>4, <3>5 DEF TaskPick, AnnounceShape, ThreadsOK, ghosts
  <2>3. CASE TaskAcquire(k)
    <3>1. tasks' \in [Tasks -> TaskRecs]
      BY <1>t, <2>0, <2>3 DEF TaskAcquire, TaskRecs
    <3>2. QED
      BY <2>3, <3>1 DEF TaskAcquire, AnnounceShape, ThreadsOK, ghosts
  <2>4. CASE TaskAnswered(k) \/ TaskFailed(k)
    <3>1. [tasks[k] EXCEPT !.pc = "ok"] \in TaskRecs /\ [tasks[k] EXCEPT !.pc = "failed"] \in TaskRecs
      BY <2>0 DEF TaskRecs
    <3>2. tasks' \in [Tasks -> TaskRecs]
      BY <1>t, <2>4, <3>1, IdleIs DEF TaskAnswered, TaskFailed
    <3>3. acks' \in [Torrents -> Nat]
      BY <1>t, <2>4 DEF TaskAnswered, TaskFailed, ghosts
    <3>4. QED
      BY <2>4, <3>2, <3>3 DEF TaskAnswered, TaskFailed, AnnounceShape, ThreadsOK, ghosts
  <2>5. CASE TaskFinish(k)
    <3>1. PICK t, ev : t = tasks[k].t /\ ev = tasks[k].event
      OBVIOUS
    <3>2. AfterOk(sched[t], ev) \in Entries /\ AfterFailure(sched[t], ev) \in Entries
      BY <1>t, <2>0, <3>1, AfterTypes
    <3>3. [NoTask EXCEPT !.t = t, !.pc = "kick"] \in TaskRecs
      BY <2>0, <3>1, IdleIs DEF TaskRecs
    <3>4. tasks' \in [Tasks -> TaskRecs] /\ sched' \in [Torrents -> Entries]
      BY <1>t, <2>5, <3>1, <3>2, <3>3, IdleIs DEF TaskFinish
    <3>5. crossed' \subseteq Torrents
      BY <1>t, <2>0, <2>5 DEF TaskFinish
    <3>6. QED
      BY <2>5, <3>4, <3>5 DEF TaskFinish, AnnounceShape, ThreadsOK
  <2>6. CASE TaskKick(k)
    <3>1. tasks' \in [Tasks -> TaskRecs] /\ sched' \in [Torrents -> Entries]
      BY <1>t, <2>0, <2>6, IdleIs, EntryIs DEF TaskKick
    <3>2. QED
      BY <2>6, <3>1 DEF TaskKick, AnnounceShape, ThreadsOK, ghosts
  <2>7. QED
    BY <1>20, <2>1, <2>2, <2>3, <2>4, <2>5, <2>6 DEF TaskStep
<1>21. CASE UNCHANGED annVars
  BY <1>21 DEF annVars, ghosts, AnnounceShape, ThreadsOK
<1>22. QED
  BY <1>1, <1>2, <1>3, <1>4, <1>5, <1>6, <1>7, <1>8, <1>9, <1>10, <1>11, <1>12, <1>13, <1>14, <1>15, <1>16,
     <1>17, <1>18, <1>19, <1>20, <1>21
  DEF AnnounceNext, WorkerStep, BootStep, TickStep

-----------------------------------------------------------------------------
(* The host limiter.                                                       *)

HostOK == PerHost > 0 => Cardinality(Wired) <= PerHost

\* Sets of tasks are finite.
LEMMA WiredIs ==
  ASSUME NEW S \in SUBSET Tasks
  PROVE  /\ IsFiniteSet(S) /\ Cardinality(S) \in Nat
         /\ \A T \in SUBSET S : Cardinality(T) <= Cardinality(S)
<1>1. IsFiniteSet(S)
  BY AnnounceAssumption, FS_Subset
<1>2. QED
  BY <1>1, FS_Subset, FS_CardinalityType

\* No task goes on the wire: the host has no more than before.
LEMMA HostKeeps ==
  ASSUME HostOK, Wired' \subseteq Wired
  PROVE  HostOK'
<1>1. Cardinality(Wired') <= Cardinality(Wired) /\ Cardinality(Wired) \in Nat /\ Cardinality(Wired') \in Nat
  BY WiredIs DEF Wired
<1>2. QED
  BY <1>1, AnnounceAssumption DEF HostOK

\* HostLimiter::acquire is the only way to the wire.
LEMMA HostStep ==
  ASSUME AnnounceShape, HostOK, [AnnounceNext]_annVars
  PROVE  HostOK'
<1>t. tasks \in [Tasks -> TaskRecs] /\ sched \in [Torrents -> Entries] /\ acks \in [Torrents -> Nat]
      /\ crossed \subseteq Torrents /\ worker.t \in Torrents /\ tick.t \in Torrents /\ tick.ids \subseteq Torrents
  BY DEF AnnounceShape, ThreadsOK
<1>0. ASSUME \A k \in Tasks : tasks'[k] = tasks[k] \/ tasks'[k].pc # "wire" PROVE HostOK'
  <2>1. Wired' \subseteq Wired
    BY <1>0 DEF Wired
  <2>2. QED
    BY <2>1, HostKeeps
<1>1. ASSUME tasks' = tasks PROVE HostOK'
  BY <1>0, <1>1
<1>2. ASSUME NEW t \in Torrents, StopTorrent(t) PROVE HostOK'
  <2>1. PICK k \in FreeTasks : tasks' = [tasks EXCEPT ![k] = [NewTask(t) EXCEPT !.event = "stopped", !.pc = "host"]]
    BY <1>2 DEF StopTorrent
  <2>2. PICK x \in TaskRecs : x = NewTask(t)
    BY IdleIs
  <2>3. [x EXCEPT !.event = "stopped", !.pc = "host"].pc = "host"
    BY DEF TaskRecs
  <2>4. QED
    BY <1>0, <1>t, <2>1, <2>2, <2>3
<1>3. CASE StartSchedule \/ StopSchedule
  <2>1. Wired' \subseteq Wired
    BY <1>3, <1>t, RenewIs DEF StartSchedule, StopSchedule, Wired
  <2>2. QED
    BY <2>1, HostKeeps
<1>4. CASE StartKick
  <2>1. CASE Claim(worker.t)
    BY <1>0, <1>t, <2>1, ClaimIs, IdleIs
  <2>2. QED
    BY <1>1, <1>4, <2>1 DEF StartKick
<1>5. CASE CheckClaim
  BY <1>0, <1>5, <1>t, ClaimIs, IdleIs DEF CheckClaim
<1>6. CASE PollClaim
  <2>1. PICK claimed \in SUBSET tick.ids : Spawn(claimed)
    BY <1>6 DEF PollClaim
  <2>2. claimed \in SUBSET Torrents
    BY <1>t
  <2>3. QED
    BY <1>0, <1>t, <2>1, <2>2, SpawnIs, IdleIs
<1>7. ASSUME NEW k \in Tasks, TaskStep(k) \/ TaskFailed(k) PROVE HostOK'
  <2>0. tasks[k] \in TaskRecs
    BY <1>t
  <2>1. CASE TaskAcquire(k)
    <3>1. Wired' = Wired \cup {k} /\ k \notin Wired
      BY <1>t, <2>0, <2>1 DEF TaskAcquire, Wired, TaskRecs
    <3>2. Cardinality(Wired') = Cardinality(Wired) + 1 /\ Cardinality(Wired) \in Nat
      BY <3>1, WiredIs, FS_AddElement DEF Wired
    <3>3. QED
      BY <2>1, <3>2, AnnounceAssumption DEF TaskAcquire, HostOK, Wired
  <2>2. CASE TaskBegin(k) \/ TaskPick(k) \/ TaskAnswered(k) \/ TaskFailed(k) \/ TaskFinish(k) \/ TaskKick(k)
    <3>1. \E x : tasks' = [tasks EXCEPT ![k] = x] /\ x.pc # "wire"
      <4>0. tasks[k].t \in Torrents
        BY <2>0 DEF TaskRecs
      <4>1. CASE TaskBegin(k)
        <5>1. [tasks[k] EXCEPT !.pc = "pick"].pc = "pick"
          BY <2>0 DEF TaskRecs
        <5>2. tasks' = [tasks EXCEPT ![k] = IF tasks[k].t \in hot THEN [tasks[k] EXCEPT !.pc = "pick"] ELSE NoTask]
          BY <1>t, <4>1 DEF TaskBegin
        <5>3. QED
          BY <5>1, <5>2, IdleIs
      <4>2. CASE TaskPick(k)
        <5>1. PICK event : tasks' = [tasks EXCEPT ![k].event = event, ![k].pc = "host"]
          BY <4>2 DEF TaskPick
        <5>2. tasks' = [tasks EXCEPT ![k] = [tasks[k] EXCEPT !.event = event, !.pc = "host"]]
              /\ [tasks[k] EXCEPT !.event = event, !.pc = "host"].pc = "host"
          BY <1>t, <2>0, <5>1 DEF TaskRecs
        <5>3. QED
          BY <5>2
      <4>3. CASE TaskAnswered(k) \/ TaskFailed(k)
        <5>1. \A v \in {"ok", "failed"} : [tasks[k] EXCEPT !.pc = v].pc = v
          BY <2>0 DEF TaskRecs
        <5>2. \E v \in {"ok", "failed"} : tasks' = [tasks EXCEPT ![k] = IF tasks[k].event = "stopped" THEN NoTask
                                                                     ELSE [tasks[k] EXCEPT !.pc = v]]
          BY <1>t, <4>3 DEF TaskAnswered, TaskFailed
        <5>3. QED
          BY ZenonT(60), <5>1, <5>2, IdleIs
      <4>4. CASE TaskFinish(k)
        <5>1. \A t \in Torrents : [NoTask EXCEPT !.t = t, !.pc = "kick"].pc = "kick"
          BY IdleIs DEF TaskRecs
        <5>2. \/ tasks' = [tasks EXCEPT ![k] = NoTask]
              \/ \E t \in Torrents : tasks' = [tasks EXCEPT ![k] = [NoTask EXCEPT !.t = t, !.pc = "kick"]]
          BY <1>t, <4>0, <4>4 DEF TaskFinish
        <5>3. QED
          BY <5>1, <5>2, IdleIs
      <4>5. CASE TaskKick(k)
        BY <1>t, <4>0, <4>5, IdleIs DEF TaskKick
      <4>6. QED
        BY <2>2, <4>1, <4>2, <4>3, <4>4, <4>5
    <3>2. QED
      BY <1>0, <1>t, <3>1
  <2>3. QED
    BY <1>7, <2>1, <2>2 DEF TaskStep
<1>8. CASE \/ StartReadDone \/ StartBaseline \/ StopUnhot \/ StopBaseline \/ BootStep
           \/ \E t \in Torrents : StartTorrent(t) \/ CheckComplete(t) \/ Starve(t) \/ Verify(t) \/ TimePasses(t)
           \/ CheckSnapshot \/ CheckKick \/ PollSnapshot \/ UNCHANGED annVars
  <2>1. tasks' = tasks
    BY <1>8 DEF StartReadDone, StartBaseline, StopUnhot, StopBaseline, BootStep, BootList, BootActivate, BootReadDone,
                BootBaseline, BootSchedule, BootStagger, StartTorrent, CheckComplete, Starve, Verify, TimePasses,
                CheckSnapshot, CheckKick, PollSnapshot, annVars
  <2>2. QED
    BY <1>1, <2>1
<1>9. QED
  BY <1>2, <1>3, <1>4, <1>5, <1>6, <1>7, <1>8 DEF AnnounceNext, WorkerStep, TickStep

\* Nothing is under way when the program starts.
LEMMA AnnounceStarts == AnnounceInit => AnnounceShape /\ HostOK
<1> SUFFICES ASSUME AnnounceInit PROVE AnnounceShape /\ HostOK
  OBVIOUS
<1>1. tasks = [k \in Tasks |-> NoTask] /\ Wired = {}
  BY IdleIs DEF AnnounceInit, Wired
<1>2. HostOK
  BY <1>1, FS_EmptySet, AnnounceAssumption DEF HostOK
<1>3. Had \in 0..Pieces /\ 0 \in 0..Pieces
  BY AnnounceAssumption
<1>4. sched \in [Torrents -> Entries]
  BY DEF AnnounceInit, Entries, NoEntry, Fresh
<1>5. baseline \in [Torrents -> [done : 0..Pieces, incomplete : BOOLEAN]]
  BY <1>3 DEF AnnounceInit, NoBase
<1>6. ThreadsOK
  BY <1>3, IdleIs DEF AnnounceInit, ThreadsOK
<1>7. QED
  BY <1>1, <1>2, <1>3, <1>4, <1>5, <1>6, IdleIs DEF AnnounceInit, AnnounceShape

\* The announces keep their types, and no host has more announces on the wire
\* than max_concurrent_per_host (tracker/limit.rs), whoever spawned them.
THEOREM AnnouncesTypeCorrect == AnnounceSpec => []AnnounceTypeOK
<1>1. AnnounceShape /\ HostOK /\ [AnnounceNext]_annVars => (AnnounceShape /\ HostOK)'
  BY ShapeStep, HostStep
<1>2. AnnounceShape /\ HostOK => AnnounceTypeOK
  BY DEF AnnounceShape, HostOK, AnnounceTypeOK, Wired, Entries, TaskRecs
<1>3. QED
  BY <1>1, <1>2, AnnounceStarts, PTL DEF AnnounceSpec

-----------------------------------------------------------------------------
(* One completed announce per entry.                                       *)

\* A task of the present entry that has `completed' to tell, or failed to.
Holds(k, t) == /\ tasks[k].t = t /\ ~tasks[k].stale /\ tasks[k].event = "completed"
               /\ tasks[k].pc \in {"host", "wire", "failed"}
\* There is one at most, or one that a tracker accepted; the entry says so.
SentAt(t) ==
    /\ acks[t] <= 1
    /\ \A j, k \in Tasks : Holds(j, t) /\ Holds(k, t) => j = k
    /\ acks[t] = 1 => \A k \in Tasks : ~Holds(k, t)
    /\ (acks[t] = 1 \/ \E k \in Tasks : Holds(k, t)) => sched[t].completed
Absent(t) == Scheduled(t) \/ sched[t] = NoEntry
SentInv == \A t \in Torrents : Absent(t) /\ (t \notin crossed => SentAt(t))

\* A step that sends no `completed' and takes no mark off the entry.
LEMMA SentCarry ==
  ASSUME NEW t \in Torrents, SentAt(t), acks'[t] = acks[t], \A k \in Tasks : Holds(k, t)' => Holds(k, t),
         sched[t].completed => sched'[t].completed
  PROVE  SentAt(t)'
BY DEF SentAt

\* An entry that is made where there was none has sent nothing.
LEMMA EntryCarries ==
  ASSUME sched \in [Torrents -> Entries], NEW t \in Torrents, Absent(t), NEW due \in {"now", "later", "far"}
  PROVE  /\ Entry(t, due).completed = sched[t].completed /\ Entry(t, due).due # "none"
         /\ [Entry(t, due) EXCEPT !.flight = TRUE].completed = sched[t].completed
         /\ [Entry(t, due) EXCEPT !.flight = TRUE].due # "none"
         /\ [Entry(t, due) EXCEPT !.due = due].completed = sched[t].completed
         /\ [Entry(t, due) EXCEPT !.due = due].due # "none"
<1>1. PICK x : x = Entry(t, due)
  OBVIOUS
<1>2. CASE sched[t].due # "none"
  <2>1. x = sched[t]
    BY <1>1, <1>2 DEF Entry, Scheduled
  <2>2. x \in Entries /\ x.due # "none" /\ x.completed = sched[t].completed
    BY <1>2, <2>1
  <2>3. /\ [x EXCEPT !.flight = TRUE].completed = x.completed /\ [x EXCEPT !.flight = TRUE].due = x.due
        /\ [x EXCEPT !.due = due].completed = x.completed /\ [x EXCEPT !.due = due].due = due
    BY <2>2 DEF Entries
  <2>4. QED
    BY <1>1, <2>2, <2>3
<1>3. CASE sched[t].due = "none"
  <2>1. x = Fresh(due) /\ sched[t].completed = FALSE
    BY <1>1, <1>3 DEF Entry, Scheduled, Absent, NoEntry, Fresh
  <2>2. x \in Entries /\ x.due = due /\ x.completed = FALSE
    BY <2>1 DEF Fresh, Entries
  <2>3. /\ [x EXCEPT !.flight = TRUE].completed = x.completed /\ [x EXCEPT !.flight = TRUE].due = x.due
        /\ [x EXCEPT !.due = due].completed = x.completed /\ [x EXCEPT !.due = due].due = due
    BY <2>2 DEF Entries
  <2>4. QED
    BY <1>1, <2>1, <2>2, <2>3
<1>4. QED
  BY <1>2, <1>3

\* The entries that a step leaves: marked as before, and of the same kind.
Kept(t) == (sched[t].completed => sched'[t].completed) /\ Absent(t)'

\* A new task and no task have nothing to tell.
LEMMA TaskSaid ==
  ASSUME NEW k \in Tasks, NEW t \in Torrents, NEW u \in Torrents,
         tasks'[k] = tasks[k] \/ tasks'[k] = NewTask(u) \/ tasks'[k] = NoTask, Holds(k, t)'
  PROVE  Holds(k, t)
BY IdleIs DEF Holds

\* Steps of the worker, the boot and the tick: they start tasks, renew entries
\* and mark them as pending.
LEMMA SentByOthers ==
  ASSUME AnnounceShape, AnnounceShape', SentInv, [AnnounceNext]_annVars,
         ~ \E k \in Tasks : TaskStep(k) \/ TaskFailed(k), NEW t \in Torrents
  PROVE  Absent(t)' /\ (t \notin crossed' => SentAt(t)')
<1>t. /\ tasks \in [Tasks -> TaskRecs] /\ sched \in [Torrents -> Entries] /\ acks \in [Torrents -> Nat]
      /\ crossed \subseteq Torrents /\ worker.t \in Torrents /\ boot.t \in Torrents
      /\ tick.t \in Torrents /\ tick.ids \subseteq Torrents
  BY DEF AnnounceShape, ThreadsOK
<1>s. Absent(t) /\ (t \notin crossed => SentAt(t))
  BY DEF SentInv
<1>0. ASSUME acks' = acks, crossed' = crossed, Kept(t),
             \A k \in Tasks : tasks'[k] = tasks[k] \/ \E u \in Torrents : tasks'[k] = NewTask(u)
      PROVE  Absent(t)' /\ (t \notin crossed' => SentAt(t)')
  <2>1. \A k \in Tasks : Holds(k, t)' => Holds(k, t)
    <3>1. ASSUME NEW k \in Tasks, Holds(k, t)' PROVE Holds(k, t)
      <4>1. \E u \in Torrents : tasks'[k] = tasks[k] \/ tasks'[k] = NewTask(u) \/ tasks'[k] = NoTask
        BY <1>0
      <4>2. QED
        BY <3>1, <4>1, TaskSaid
    <3>2. QED
      BY <3>1
  <2>2. QED
    BY <1>0, <1>s, <2>1, SentCarry DEF Kept
<1>k. ASSUME sched' = sched PROVE Kept(t)
  BY <1>k, <1>s DEF Kept, Absent, Scheduled
<1>1. ASSUME NEW u \in Torrents, StopTorrent(u) PROVE Absent(t)' /\ (t \notin crossed' => SentAt(t)')
  <2>1. PICK k \in FreeTasks : tasks' = [tasks EXCEPT ![k] = [NewTask(u) EXCEPT !.event = "stopped", !.pc = "host"]]
    BY <1>1 DEF StopTorrent
  <2>2. PICK x \in TaskRecs : x = NewTask(u)
    BY IdleIs
  <2>3. [x EXCEPT !.event = "stopped", !.pc = "host"].event = "stopped"
    BY DEF TaskRecs
  <2>4. ASSUME NEW j \in Tasks, Holds(j, t)' PROVE Holds(j, t)
    BY <1>t, <2>1, <2>2, <2>3, <2>4 DEF Holds
  <2>5. acks' = acks /\ crossed' = crossed /\ sched' = sched
    BY <1>1 DEF StopTorrent, ghosts
  <2>6. QED
    BY <1>s, <1>k, <2>4, <2>5, SentCarry DEF Kept
<1>2. CASE StartSchedule \/ StopSchedule
  <2>1. PICK u \in Torrents : u = worker.t
    BY <1>t
  <2>2. Renew(u) /\ (sched' = [sched EXCEPT ![u] = Fresh("now")] \/ sched' = [sched EXCEPT ![u] = NoEntry])
    BY <1>2, <2>1 DEF StartSchedule, StopSchedule
  <2>3. /\ crossed' = crossed \ {u} /\ acks'[u] = 0 /\ \A v \in Torrents \ {u} : acks'[v] = acks[v]
        /\ \A k \in Tasks : /\ tasks'[k].pc = tasks[k].pc /\ tasks'[k].t = tasks[k].t
                            /\ tasks'[k].event = tasks[k].event
                            /\ tasks[k].t # u => tasks'[k] = tasks[k]
                            /\ tasks[k].t = u /\ tasks[k].pc # "idle" => tasks'[k].stale
    BY <1>t, <2>2, RenewIs
  <2>4. CASE t = u
    <3>1. \A k \in Tasks : ~Holds(k, t)'
      BY <2>3, <2>4 DEF Holds
    <3>2. SentAt(t)'
      BY <2>3, <2>4, <3>1 DEF SentAt
    <3>3. Absent(t)'
      BY <1>t, <2>2, <2>4 DEF Absent, Scheduled, Fresh
    <3>4. QED
      BY <3>2, <3>3
  <2>5. CASE t # u
    <3>1. \A k \in Tasks : Holds(k, t)' => Holds(k, t)
      BY <2>3, <2>5 DEF Holds
    <3>2. sched'[t] = sched[t]
      BY <1>t, <2>2, <2>5
    <3>3. QED
      BY <1>s, <2>3, <2>5, <3>1, <3>2, SentCarry DEF Absent, Scheduled
  <2>6. QED
    BY <2>4, <2>5
<1>c. ASSUME NEW u \in Torrents, Claim(u), acks' = acks, crossed' = crossed
      PROVE  Absent(t)' /\ (t \notin crossed' => SentAt(t)')
  <2>1. Kept(t)
    <3>1. CASE sched' = sched
      BY <1>k, <3>1
    <3>2. CASE sched' = [sched EXCEPT ![u] = [Entry(u, "now") EXCEPT !.flight = TRUE]]
      <4>1. CASE t = u
        BY <1>t, <1>s, <3>2, <4>1, EntryCarries DEF Kept, Absent, Scheduled
      <4>2. CASE t # u
        BY <1>t, <1>s, <3>2, <4>2 DEF Kept, Absent, Scheduled
      <4>3. QED
        BY <4>1, <4>2
    <3>3. QED
      BY <1>c, <1>t, <3>1, <3>2, ClaimIs
  <2>2. \A k \in Tasks : tasks'[k] = tasks[k] \/ \E v \in Torrents : tasks'[k] = NewTask(v)
    BY <1>c, <1>t, ClaimIs
  <2>3. QED
    BY <1>0, <1>c, <2>1, <2>2
<1>3. CASE StartKick
  <2>1. CASE Claim(worker.t)
    BY <1>c, <1>t, <1>3, <2>1 DEF StartKick, ghosts
  <2>2. CASE UNCHANGED <<sched, tasks>>
    BY <1>0, <1>k, <1>3, <2>2 DEF StartKick, ghosts
  <2>3. QED
    BY <1>3, <2>1, <2>2 DEF StartKick
<1>4. CASE CheckClaim
  BY <1>c, <1>t, <1>4 DEF CheckClaim, ghosts
<1>5. CASE PollClaim
  <2>1. PICK claimed \in SUBSET tick.ids :
            /\ sched' = [u \in Torrents |-> IF u \in claimed
                                            THEN [Entry(u, "now") EXCEPT !.flight = TRUE] ELSE sched[u]]
            /\ Spawn(claimed)
    BY <1>5 DEF PollClaim
  <2>2. claimed \in SUBSET Torrents
    BY <1>t
  <2>3. Kept(t)
    BY <1>t, <1>s, <2>1, EntryCarries DEF Kept, Absent, Scheduled
  <2>4. \A k \in Tasks : tasks'[k] = tasks[k] \/ \E v \in Torrents : tasks'[k] = NewTask(v)
    BY <1>t, <2>1, <2>2, SpawnIs
  <2>5. QED
    BY <1>0, <1>5, <2>3, <2>4 DEF PollClaim, ghosts
<1>6. CASE BootSchedule
  <2>1. Kept(t)
    BY <1>6, <1>t, <1>s, EntryCarries DEF BootSchedule, Kept, Absent, Scheduled
  <2>2. QED
    BY <1>0, <1>6, <2>1 DEF BootSchedule, ghosts
<1>7. CASE BootStagger
  <2>1. PICK newest : sched' = [u \in Torrents |->
                LET due == IF u = newest THEN "now" ELSE "later"
                IN IF u \notin hot \/ sched[u].flight THEN sched[u]
                   ELSE [Entry(u, due) EXCEPT !.due = due]]
    BY <1>7 DEF BootStagger
  <2>2. PICK due \in {"now", "later"} :
            sched'[t] = IF t \notin hot \/ sched[t].flight THEN sched[t] ELSE [Entry(t, due) EXCEPT !.due = due]
    BY <2>1
  <2>3. Kept(t)
    BY <1>t, <1>s, <2>2, EntryCarries DEF Kept, Absent, Scheduled
  <2>4. QED
    BY <1>0, <1>7, <2>3 DEF BootStagger, ghosts
<1>8. ASSUME NEW u \in Torrents, CheckComplete(u) PROVE Absent(t)' /\ (t \notin crossed' => SentAt(t)')
  <2>1. PICK e \in Entries : e = sched[u]
    BY <1>t
  <2>2. sched' = sched \/ (Scheduled(u) /\ sched' = [sched EXCEPT ![u] = [e EXCEPT !.pending = TRUE,
                                                                 !.due = IF e.flight THEN @ ELSE "now"]])
    BY <1>8, <1>t, <2>1 DEF CheckComplete, WantsCompleted
  <2>3. [e EXCEPT !.pending = TRUE, !.due = IF e.flight THEN @ ELSE "now"].completed = e.completed
        /\ (Scheduled(u) => [e EXCEPT !.pending = TRUE, !.due = IF e.flight THEN @ ELSE "now"].due # "none")
    BY <2>1 DEF Entries, Scheduled
  <2>4. Kept(t)
    BY <1>t, <1>s, <1>k, <2>1, <2>2, <2>3 DEF Kept, Absent, Scheduled
  <2>5. QED
    BY <1>0, <1>8, <2>4 DEF CheckComplete, ghosts
<1>9. ASSUME NEW u \in Torrents, Starve(u) \/ TimePasses(u) PROVE Absent(t)' /\ (t \notin crossed' => SentAt(t)')
  <2>1. PICK e \in Entries : e = sched[u]
    BY <1>t
  <2>2. sched' = [sched EXCEPT ![u] = [e EXCEPT !.due = "now"]]
    BY <1>9, <1>t, <2>1 DEF Starve, TimePasses
  <2>3. [e EXCEPT !.due = "now"].completed = e.completed /\ [e EXCEPT !.due = "now"].due # "none"
    BY DEF Entries
  <2>4. Kept(t)
    BY <1>t, <1>s, <2>1, <2>2, <2>3 DEF Kept, Absent, Scheduled
  <2>5. QED
    BY <1>0, <1>9, <2>4 DEF Starve, TimePasses, ghosts
<1>10. CASE \/ StartReadDone \/ StartBaseline \/ StopUnhot \/ StopBaseline
            \/ BootList \/ BootReadDone \/ BootBaseline
            \/ \E u \in Torrents : StartTorrent(u) \/ BootActivate(u) \/ Verify(u)
            \/ CheckSnapshot \/ CheckKick \/ PollSnapshot \/ UNCHANGED annVars
  <2>1. tasks' = tasks /\ sched' = sched /\ acks' = acks /\ crossed' = crossed
    BY <1>10 DEF StartReadDone, StartBaseline, StopUnhot, StopBaseline, BootList, BootActivate, BootReadDone,
                BootBaseline, StartTorrent, Verify, CheckSnapshot, CheckKick, PollSnapshot, ghosts, annVars
  <2>2. QED
    BY <1>0, <1>k, <2>1
<1>11. QED
  BY <1>1, <1>2, <1>3, <1>4, <1>5, <1>6, <1>7, <1>8, <1>9, <1>10
  DEF AnnounceNext, WorkerStep, BootStep, TickStep

\* The steps of a task: it picks `completed' when nobody has, and takes the
\* mark back only when it is the one that failed.
LEMMA SentByTasks ==
  ASSUME AnnounceShape, AnnounceShape', SentInv, NEW k \in Tasks, TaskStep(k) \/ TaskFailed(k), NEW t \in Torrents
  PROVE  Absent(t)' /\ (t \notin crossed' => SentAt(t)')
<1>t. /\ tasks \in [Tasks -> TaskRecs] /\ sched \in [Torrents -> Entries] /\ acks \in [Torrents -> Nat]
      /\ crossed \subseteq Torrents
  BY DEF AnnounceShape, ThreadsOK
<1>s. \A v \in Torrents : Absent(v) /\ (v \notin crossed => SentAt(v))
  BY DEF SentInv
<1>k. ASSUME sched' = sched PROVE Kept(t)
  BY <1>k, <1>s DEF Kept, Absent, Scheduled
<1>p. PICK x \in TaskRecs, u \in Torrents, ev \in {tasks[k].event} : x = tasks[k] /\ u = x.t /\ ev = x.event
  BY <1>t DEF TaskRecs
<1>0. ASSUME acks' = acks, crossed' = crossed, Kept(t),
             NEW y \in TaskRecs, tasks' = [tasks EXCEPT ![k] = y],
             y.event = "completed" /\ ~y.stale /\ y.pc \in {"host", "wire", "failed"} =>
                 x.event = "completed" /\ ~x.stale /\ x.pc \in {"host", "wire", "failed"} /\ x.t = y.t
      PROVE  Absent(t)' /\ (t \notin crossed' => SentAt(t)')
  <2>1. ASSUME NEW j \in Tasks, Holds(j, t)' PROVE Holds(j, t)
    BY <1>0, <1>p, <1>t, <2>1 DEF Holds
  <2>2. QED
    BY <1>0, <1>s, <2>1, SentCarry DEF Kept
<1>1. CASE TaskBegin(k)
  <2>1. PICK y : y = IF u \in hot THEN [x EXCEPT !.pc = "pick"] ELSE NoTask
    OBVIOUS
  <2>2. y \in TaskRecs /\ y.pc \in {"pick", "idle"}
    BY <2>1, IdleIs DEF TaskRecs
  <2>3. tasks' = [tasks EXCEPT ![k] = y] /\ acks' = acks /\ crossed' = crossed /\ sched' = sched
    BY <1>1, <1>p, <1>t, <2>1 DEF TaskBegin, ghosts
  <2>4. QED
    BY <1>0, <1>k, <2>2, <2>3
<1>2. CASE TaskPick(k)
  <2>1. PICK e, event : e = [Entry(u, "now") EXCEPT !.flight = TRUE] /\ event = EventOf(e)
    OBVIOUS
  <2>2. /\ e \in Entries /\ event \in {"completed", "started", "none"} /\ e.completed = sched[u].completed /\ e.due # "none"
        /\ (event = "completed" => ~sched[u].completed)
    BY <1>t, <1>s, <2>1, EntryIs, EntryCarries DEF EventOf
  <2>3. /\ sched' = [sched EXCEPT ![u] = IF event = "completed"
                       THEN [e EXCEPT !.completed = TRUE, !.pending = FALSE] ELSE e]
        /\ tasks' = [tasks EXCEPT ![k].event = event, ![k].pc = "host"]
        /\ acks' = acks /\ crossed' = crossed /\ x.pc = "pick"
    BY <1>2, <1>p, <2>1 DEF TaskPick, ghosts
  <2>4. PICK y : y = [x EXCEPT !.event = event, !.pc = "host"]
    OBVIOUS
  <2>5. y \in TaskRecs /\ y.event = event /\ y.t = u /\ y.stale = x.stale
    BY <1>p, <2>2, <2>4 DEF TaskRecs
  <2>6. tasks' = [tasks EXCEPT ![k] = y]
    BY <1>p, <1>t, <2>3, <2>4
  <2>7. [e EXCEPT !.completed = TRUE, !.pending = FALSE].completed
        /\ [e EXCEPT !.completed = TRUE, !.pending = FALSE].due = e.due
    BY <2>2 DEF Entries
  <2>8. Kept(t)
    <3>1. CASE t = u
      BY <1>t, <2>2, <2>3, <2>7, <3>1 DEF Kept, Absent, Scheduled
    <3>2. CASE t # u
      BY <1>t, <1>s, <2>3, <3>2 DEF Kept, Absent, Scheduled
    <3>3. QED
      BY <3>1, <3>2
  <2>9. CASE event # "completed"
    BY <1>0, <2>3, <2>5, <2>6, <2>8, <2>9
  <2>10. CASE event = "completed" /\ t = u
    <3>1. ASSUME t \notin crossed' PROVE SentAt(t)'
      <4>1. SentAt(t) /\ ~sched[t].completed
        BY <1>s, <2>2, <2>3, <2>10, <3>1
      <4>2. acks[t] # 1 /\ acks[t] <= 1 /\ \A j \in Tasks : ~Holds(j, t)
        BY <4>1 DEF SentAt
      <4>3. \A j \in Tasks : Holds(j, t)' => j = k
        BY <1>t, <2>6, <4>2 DEF Holds
      <4>4. sched'[t].completed
        BY <1>t, <2>3, <2>7, <2>10
      <4>5. QED
        BY <2>3, <4>2, <4>3, <4>4 DEF SentAt
    <3>2. QED
      BY <2>8, <3>1 DEF Kept
  <2>11. CASE event = "completed" /\ t # u
    <3>1. \A j \in Tasks : Holds(j, t)' => Holds(j, t)
      BY <1>t, <2>5, <2>6, <2>11 DEF Holds
    <3>2. QED
      BY <1>s, <2>3, <2>8, <3>1, SentCarry DEF Kept
  <2>12. QED
    BY <2>9, <2>10, <2>11
<1>3. CASE TaskAcquire(k)
  <2>1. PICK y : y = [x EXCEPT !.pc = "wire"]
    OBVIOUS
  <2>2. y \in TaskRecs /\ y.event = x.event /\ y.t = x.t /\ y.stale = x.stale
    BY <2>1 DEF TaskRecs
  <2>3. tasks' = [tasks EXCEPT ![k] = y] /\ x.pc = "host" /\ acks' = acks /\ crossed' = crossed /\ sched' = sched
    BY <1>3, <1>p, <1>t, <2>1 DEF TaskAcquire, ghosts
  <2>4. QED
    BY <1>0, <1>k, <2>2, <2>3
<1>4. CASE TaskFailed(k)
  <2>1. PICK y : y = IF ev = "stopped" THEN NoTask ELSE [x EXCEPT !.pc = "failed"]
    OBVIOUS
  <2>2. y \in TaskRecs /\ (y.pc = "idle" \/ (y.event = x.event /\ y.t = x.t /\ y.stale = x.stale))
    BY <2>1, IdleIs DEF TaskRecs
  <2>3. tasks' = [tasks EXCEPT ![k] = y] /\ x.pc = "wire" /\ acks' = acks /\ crossed' = crossed /\ sched' = sched
    BY <1>4, <1>p, <1>t, <2>1 DEF TaskFailed, ghosts
  <2>4. QED
    BY <1>0, <1>k, <2>2, <2>3
<1>5. CASE TaskAnswered(k)
  <2>1. PICK y : y = IF ev = "stopped" THEN NoTask ELSE [x EXCEPT !.pc = "ok"]
    OBVIOUS
  <2>2. y \in TaskRecs /\ y.pc \in {"idle", "ok"}
    BY <2>1, IdleIs DEF TaskRecs
  <2>3. /\ tasks' = [tasks EXCEPT ![k] = y] /\ x.pc = "wire" /\ crossed' = crossed /\ sched' = sched
        /\ acks' = IF ev = "completed" /\ ~x.stale THEN [acks EXCEPT ![u] = @ + 1] ELSE acks
    BY <1>5, <1>p, <1>t, <2>1 DEF TaskAnswered
  <2>4. CASE ev = "completed" /\ ~x.stale /\ t = u
    <3>1. Holds(k, t)
      BY <1>p, <2>3, <2>4 DEF Holds
    <3>2. ASSUME t \notin crossed' PROVE SentAt(t)'
      <4>1. acks[t] = 0 /\ sched[t].completed /\ \A j \in Tasks : Holds(j, t) => j = k
        BY <1>s, <1>t, <2>3, <3>1, <3>2 DEF SentAt
      <4>2. \A j \in Tasks : ~Holds(j, t)'
        BY <1>t, <2>2, <2>3, <4>1 DEF Holds
      <4>3. acks'[t] = 1
        BY <1>t, <2>3, <2>4, <4>1
      <4>4. QED
        BY <2>3, <4>1, <4>2, <4>3 DEF SentAt
    <3>3. QED
      BY <1>k, <2>3, <3>2 DEF Kept
  <2>5. CASE ~(ev = "completed" /\ ~x.stale /\ t = u)
    <3>1. acks'[t] = acks[t]
      BY <1>t, <2>3, <2>5
    <3>2. \A j \in Tasks : Holds(j, t)' => Holds(j, t)
      BY <1>t, <2>2, <2>3 DEF Holds
    <3>3. QED
      BY <1>s, <1>k, <2>3, <3>1, <3>2, SentCarry DEF Kept
  <2>6. QED
    BY <2>4, <2>5
<1>6. CASE TaskFinish(k)
  <2>1. acks' = acks /\ x.pc \in {"ok", "failed"}
        /\ crossed' = IF x.stale /\ Scheduled(u) THEN crossed \cup {u} ELSE crossed
    BY <1>6, <1>p DEF TaskFinish
  <2>2. \A v \in Torrents : [NoTask EXCEPT !.t = v, !.pc = "kick"] \in TaskRecs
                            /\ [NoTask EXCEPT !.t = v, !.pc = "kick"].event = "none"
    BY IdleIs DEF TaskRecs
  <2>3. PICK y \in TaskRecs : tasks' = [tasks EXCEPT ![k] = y] /\ y.event = "none"
    BY <1>6, <1>p, <2>2, IdleIs DEF TaskFinish
  <2>4. ASSUME NEW j \in Tasks, Holds(j, t)' PROVE Holds(j, t) /\ j # k
    BY <1>t, <2>3, <2>4 DEF Holds
  <2>5. \/ sched' = sched
        \/ x.pc = "ok" /\ Scheduled(u) /\ sched' = [sched EXCEPT ![u] = AfterOk(sched[u], ev)]
        \/ x.pc = "failed" /\ Scheduled(u) /\ sched' = [sched EXCEPT ![u] = AfterFailure(sched[u], ev)]
    BY <1>6, <1>p, <1>t, <2>1 DEF TaskFinish
  <2>6. /\ AfterOk(sched[u], ev).completed = (sched[u].completed \/ ev = "completed")
        /\ AfterFailure(sched[u], ev).completed = (sched[u].completed /\ ev # "completed")
        /\ AfterOk(sched[u], ev).due # "none" /\ AfterFailure(sched[u], ev).due # "none"
    BY <1>t, AfterTypes, AfterDue
  <2>7. Absent(t)'
    <3>1. CASE t = u
      BY <1>t, <1>s, <2>5, <2>6, <3>1 DEF Absent, Scheduled
    <3>2. CASE t # u
      BY <1>t, <1>s, <2>5, <3>2 DEF Absent, Scheduled
    <3>3. QED
      BY <3>1, <3>2
  <2>8. ASSUME t \notin crossed' PROVE SentAt(t)'
    <3>1. SentAt(t) /\ t \notin crossed
      BY <1>s, <2>1, <2>8
    <3>2. CASE sched[t].completed => sched'[t].completed
      BY <2>1, <2>4, <3>1, <3>2, SentCarry
    <3>3. CASE sched[t].completed /\ ~sched'[t].completed
      <4>1. t = u /\ x.pc = "failed" /\ ev = "completed" /\ Scheduled(u)
        <5>1. t = u
          BY <1>t, <2>5, <3>3
        <5>2. QED
          BY <1>t, <2>5, <2>6, <3>3, <5>1
      <4>2. Holds(k, t)
        BY <1>p, <2>1, <2>8, <4>1 DEF Holds
      <4>3. acks[t] # 1 /\ \A j \in Tasks : Holds(j, t) => j = k
        BY <3>1, <4>2 DEF SentAt
      <4>4. \A j \in Tasks : ~Holds(j, t)'
        BY <2>4, <4>3
      <4>5. QED
        BY <2>1, <3>1, <4>3, <4>4 DEF SentAt
    <3>4. QED
      BY <3>2, <3>3
  <2>9. QED
    BY <2>7, <2>8
<1>7. CASE TaskKick(k)
  <2>1. acks' = acks /\ crossed' = crossed
    BY <1>7 DEF TaskKick, ghosts
  <2>2. PICK y \in TaskRecs : tasks' = [tasks EXCEPT ![k] = y] /\ y.event = "none"
    BY <1>7, <1>p, IdleIs DEF TaskKick
  <2>3. sched' = sched \/ sched' = [sched EXCEPT ![u] = [Entry(u, "now") EXCEPT !.flight = TRUE]]
    BY <1>7, <1>p DEF TaskKick
  <2>4. Kept(t)
    <3>1. CASE sched' = sched
      BY <1>k, <3>1
    <3>2. CASE sched' = [sched EXCEPT ![u] = [Entry(u, "now") EXCEPT !.flight = TRUE]]
      <4>1. CASE t = u
        BY <1>t, <1>s, <3>2, <4>1, EntryCarries DEF Kept, Absent, Scheduled
      <4>2. CASE t # u
        BY <1>t, <1>s, <3>2, <4>2 DEF Kept, Absent, Scheduled
      <4>3. QED
        BY <4>1, <4>2
    <3>3. QED
      BY <2>3, <3>1, <3>2
  <2>5. QED
    BY <1>0, <2>1, <2>2, <2>4
<1>8. QED
  BY <1>1, <1>2, <1>3, <1>4, <1>5, <1>6, <1>7 DEF TaskStep

\* SentInv is inductive, given the types.
LEMMA SentStep ==
  ASSUME AnnounceShape, AnnounceShape', SentInv, [AnnounceNext]_annVars
  PROVE  SentInv'
<1>1. ASSUME NEW t \in Torrents PROVE Absent(t)' /\ (t \notin crossed' => SentAt(t)')
  <2>1. CASE \E k \in Tasks : TaskStep(k) \/ TaskFailed(k)
    BY <2>1, SentByTasks
  <2>2. CASE ~ \E k \in Tasks : TaskStep(k) \/ TaskFailed(k)
    BY <2>2, SentByOthers
  <2>3. QED
    BY <2>1, <2>2
<1>2. QED
  BY <1>1 DEF SentInv

\* A new entry has sent nothing.
LEMMA SentStarts == AnnounceInit => SentInv
<1> SUFFICES ASSUME AnnounceInit, NEW t \in Torrents PROVE Absent(t) /\ SentAt(t)
  BY DEF SentInv
<1>1. sched[t] = NoEntry \/ sched[t].due = "now"
  BY DEF AnnounceInit, Fresh
<1>2. acks[t] = 0 /\ \A k \in Tasks : tasks[k].event = "none"
  BY IdleIs DEF AnnounceInit
<1>3. QED
  BY <1>1, <1>2 DEF Absent, Scheduled, SentAt, Holds

\* No tracker is told twice that this run finished the download.  A task marks
\* `completed' as sent in the step that picks it (announce_and_connect), a
\* second task then finds the mark; the mark is taken back only by the one
\* task that failed, and a start or a stop in between turns its tasks into
\* tasks of an older entry.
THEOREM CompletedIsSentOnce == AnnounceSpec => []CompletedOnce
<1>1. AnnounceSpec => []AnnounceShape
  BY ShapeStep, AnnounceStarts, PTL DEF AnnounceSpec
<1>2. AnnounceShape /\ AnnounceShape' /\ SentInv /\ [AnnounceNext]_annVars => SentInv'
  BY SentStep
<1>3. AnnounceSpec => []SentInv
  BY <1>1, <1>2, SentStarts, PTL DEF AnnounceSpec
<1>4. SentInv => CompletedOnce
  BY DEF SentInv, SentAt, CompletedOnce
<1>5. QED
  BY <1>3, <1>4, PTL

-----------------------------------------------------------------------------
(* UdpTracker.                                                             *)

\* A datagram says which address it is about and which of the two questions,
\* and what is on its way to a tracker or back was really asked or answered.
Asks(q) ==
    /\ q.to \in 1..NumAddrs
    /\ q.kind \in {"connect", "announce"}
    /\ q.tid = Tid(q.to, q.kind)
Replies(d) ==
    /\ d.from \in 1..NumAddrs
    /\ d.kind \in {"connect", "announce", "error"}
    /\ d.kind = "connect" => d.tid = 2 * d.from - 1 /\ d.conn = d.from
    /\ d.kind = "announce" => d.tid = 2 * d.from /\ d.from \in counted
UdpInv ==
    /\ UdpTypeOK
    /\ stage # "resolve" => addr \in 1..NumAddrs \/ result = "failed"
    /\ Waiting => addr \in 1..NumAddrs
    /\ stage = "announce" => conn = addr
    /\ OkIsCounted
    /\ \A q \in asked : Asks(q)
    /\ \A d \in answers : Replies(d)

\* An attempt that fails leaves the next address asked, or nothing decided.
LEMMA NextAddressKeeps ==
  ASSUME UdpAssumption, UdpInv, Waiting, NextAddress,
         UNCHANGED counted, answers' \subseteq answers
  PROVE  UdpInv'
<1>1. /\ addr \in 1..NumAddrs /\ NumAddrs \in Nat /\ result = "none" /\ stage # "done"
      /\ \A q \in asked : Asks(q)
      /\ \A d \in answers : Replies(d)
  BY DEF UdpInv, UdpTypeOK, Waiting, UdpAssumption
<1>2. CASE addr = NumAddrs
  <2>1. stage' = "done" /\ result' = "failed" /\ addr' = addr /\ asked' = asked /\ conn' = 0
    BY <1>2 DEF NextAddress
  <2>2. UdpTypeOK'
    BY <1>1, <2>1 DEF UdpInv, UdpTypeOK
  <2>3. (\A q \in asked : Asks(q))' /\ (\A d \in answers : Replies(d))'
    BY <1>1, <2>1 DEF Asks, Replies
  <2>4. QED
    BY <1>1, <2>1, <2>2, <2>3 DEF UdpInv, OkIsCounted, Waiting
<1>3. CASE addr # NumAddrs
  <2>1. stage' = "connect" /\ addr' = addr + 1 /\ asked' = asked \cup {UdpConnect(addr + 1)}
        /\ result' = result /\ conn' = 0 /\ addr + 1 \in 1..NumAddrs
    BY <1>1, <1>3 DEF NextAddress
  <2>2. UdpTypeOK'
    BY <1>1, <2>1 DEF UdpInv, UdpTypeOK
  <2>3. Asks(UdpConnect(addr + 1))
    BY <2>1 DEF Asks, UdpConnect
  <2>4. (\A q \in asked : Asks(q))' /\ (\A d \in answers : Replies(d))'
    BY <1>1, <2>1, <2>3 DEF Asks, Replies
  <2>5. QED
    BY <1>1, <2>1, <2>2, <2>4 DEF UdpInv, OkIsCounted, Waiting
<1>4. QED
  BY <1>2, <1>3

\* What is taken or repeated was there.
LEMMA RestOfSet ==
  ASSUME NEW S, NEW d, NEW again \in BOOLEAN
  PROVE  Rest(S, d, again) \subseteq S
BY DEF Rest

\* Lookup: nothing has been asked yet.
LEMMA ResolveKeeps ==
  ASSUME UdpAssumption, UdpInv, NEW n \in 0..NumAddrs, Resolve(n)
  PROVE  UdpInv'
<1>1. /\ NumAddrs \in Nat /\ result = "none" /\ stage = "resolve"
      /\ UNCHANGED <<conn, answers, counted, copies>>
      /\ \A q \in asked : Asks(q)
      /\ \A d \in answers : Replies(d)
  BY DEF UdpInv, UdpTypeOK, UdpAssumption, Resolve
<1>2. CASE n = 0
  <2>1. stage' = "done" /\ result' = "failed" /\ UNCHANGED <<addr, asked>>
    BY <1>2 DEF Resolve
  <2>2. QED
    BY <1>1, <2>1 DEF UdpInv, UdpTypeOK, OkIsCounted, Waiting, Asks, Replies
<1>3. CASE n # 0
  <2>1. stage' = "connect" /\ addr' = NumAddrs + 1 - n /\ asked' = {UdpConnect(addr')}
        /\ result' = result /\ addr' \in 1..NumAddrs
    BY <1>1, <1>3 DEF Resolve
  <2>2. Asks(UdpConnect(addr'))
    BY <2>1 DEF Asks, UdpConnect
  <2>3. (\A q \in asked : Asks(q))'
    BY <2>1, <2>2 DEF Asks
  <2>4. QED
    BY <1>1, <2>1, <2>3 DEF UdpInv, UdpTypeOK, OkIsCounted, Waiting, Replies
<1>4. QED
  BY <1>2, <1>3

\* The tracker answers over the connection it was asked on, or refuses.
LEMMA TrackerKeeps ==
  ASSUME UdpAssumption, UdpInv, NEW q \in asked, NEW refuses \in BOOLEAN,
         NEW again \in BOOLEAN, TrackerAnswers(q, refuses, again)
  PROVE  UdpInv'
<1> DEFINE kind == IF refuses \/ ~(q.kind = "connect" \/ q.conn = q.to) THEN "error" ELSE q.kind
           d == [kind |-> kind, from |-> q.to, tid |-> q.tid,
                 conn |-> IF kind = "connect" THEN q.to ELSE 0]
<1>1. Asks(q) /\ kind \in {"error", q.kind}
  BY DEF UdpInv
<1>2. d.kind = kind /\ d.from = q.to /\ d.tid = q.tid
      /\ (kind = "connect" => d.conn = q.to)
  OBVIOUS
<1>3. /\ asked' = Rest(asked, q, again)
      /\ answers' = answers \cup {d}
      /\ counted' = IF kind = "announce" THEN counted \cup {q.to} ELSE counted
      /\ UNCHANGED <<addr, stage, conn, result>>
  BY DEF TrackerAnswers
<1> HIDE DEF d, kind
<1>4. counted \subseteq counted' /\ counted' \subseteq 1..NumAddrs
      /\ (kind = "announce" => q.to \in counted')
  BY <1>1, <1>3 DEF UdpInv, UdpTypeOK, Asks
<1>5. Replies(d)'
  <2>1. d.from \in 1..NumAddrs /\ d.kind \in {"connect", "announce", "error"}
    BY <1>1, <1>2 DEF Asks
  <2>2. d.kind = "connect" => d.tid = 2 * d.from - 1 /\ d.conn = d.from
    BY <1>1, <1>2 DEF Asks, Tid
  <2>3. d.kind = "announce" => d.tid = 2 * d.from /\ d.from \in counted'
    BY <1>1, <1>2, <1>4 DEF Asks, Tid
  <2>4. d' = d
    BY DEF d, kind
  <2>5. QED
    BY <2>1, <2>2, <2>3, <2>4 DEF Replies
<1>6. (\A e \in answers : Replies(e))'
  BY <1>3, <1>4, <1>5 DEF UdpInv, Replies, d, kind
<1>7. (\A e \in asked : Asks(e))'
  BY <1>3, RestOfSet DEF UdpInv, Asks
<1>8. QED
  BY <1>3, <1>4, <1>6, <1>7 DEF UdpInv, UdpTypeOK, OkIsCounted, Waiting

\* The id a connect answer carries is that of the address asked.
LEMMA ConnectKeeps ==
  ASSUME UdpAssumption, UdpInv, NEW d \in answers, NEW again \in BOOLEAN, TakesConnect(d, again)
  PROVE  UdpInv'
<1>1. answers' \subseteq answers /\ counted' = counted /\ stage = "connect" /\ Replies(d)
  BY RestOfSet DEF TakesConnect, UdpInv
<1>2. CASE Answers(d) /\ d.kind = "connect"
  <2>1. conn' = d.conn /\ stage' = "announce" /\ asked' = asked \cup {Announce(addr, d.conn)}
        /\ UNCHANGED <<addr, result>>
    BY <1>2 DEF TakesConnect
  <2>2. addr \in 1..NumAddrs /\ result = "none" /\ NumAddrs \in Nat
    BY <1>1 DEF UdpInv, UdpTypeOK, Waiting, UdpAssumption
  <2>3. d.conn = addr
    BY <1>1, <1>2, <2>2 DEF Replies, Answers, Tid
  <2>4. Asks(Announce(addr, d.conn))
    BY <2>2 DEF Asks, Announce
  <2>5. (\A q \in asked : Asks(q))' /\ (\A e \in answers : Replies(e))'
    BY <1>1, <2>1, <2>4 DEF UdpInv, Asks, Replies
  <2>6. QED
    BY <1>1, <2>1, <2>2, <2>3, <2>5 DEF UdpInv, UdpTypeOK, OkIsCounted, Waiting
<1>3. CASE ~(Answers(d) /\ d.kind = "connect")
  BY <1>1, <1>3, NextAddressKeeps DEF TakesConnect, Waiting
<1>4. QED
  BY <1>2, <1>3

\* An announce answer taken for done was counted.
LEMMA AnnounceKeeps ==
  ASSUME UdpAssumption, UdpInv, NEW d \in answers, NEW again \in BOOLEAN, TakesAnnounce(d, again)
  PROVE  UdpInv'
<1>1. answers' \subseteq answers /\ counted' = counted /\ stage = "announce" /\ Replies(d)
  BY RestOfSet DEF TakesAnnounce, UdpInv
<1>2. CASE Answers(d) /\ d.kind # "connect"
  <2>1. stage' = "done" /\ result' = (IF d.kind = "error" THEN "refused" ELSE "ok")
        /\ UNCHANGED <<addr, conn, asked>>
    BY <1>2 DEF TakesAnnounce
  <2>2. addr \in 1..NumAddrs /\ conn = addr /\ NumAddrs \in Nat
    BY <1>1 DEF UdpInv, Waiting, UdpAssumption
  <2>3. d.kind # "error" => addr \in counted
    BY <1>1, <1>2, <2>2 DEF Replies, Answers, Tid
  <2>4. (\A q \in asked : Asks(q))' /\ (\A e \in answers : Replies(e))'
    BY <1>1, <2>1 DEF UdpInv, Asks, Replies
  <2>5. QED
    BY <1>1, <2>1, <2>2, <2>3, <2>4 DEF UdpInv, UdpTypeOK, OkIsCounted, Waiting
<1>3. CASE ~(Answers(d) /\ d.kind # "connect")
  BY <1>1, <1>3, NextAddressKeeps DEF TakesAnnounce, Waiting
<1>4. QED
  BY <1>2, <1>3

\* Every step of announce_udp, the network and the trackers keeps UdpInv.
LEMMA UdpStep == ASSUME UdpAssumption, UdpInv, UdpNext PROVE UdpInv'
<1>1. ASSUME NEW n \in 0..NumAddrs, Resolve(n) PROVE UdpInv'
  BY <1>1, ResolveKeeps
<1>2. CASE TimesOut
  BY <1>2, NextAddressKeeps DEF TimesOut
<1>3. ASSUME NEW d, Lose(d) PROVE UdpInv'
  BY <1>3 DEF Lose, UdpInv, UdpTypeOK, OkIsCounted, Waiting, Asks, Replies
<1>4. QED
  BY <1>1, <1>2, <1>3, TrackerKeeps, ConnectKeeps, AnnounceKeeps DEF UdpNext

\* UdpInv always holds.
LEMMA UdpInvariant == UdpSpec => []UdpInv
<1>1. UdpInit => UdpInv
  BY UdpAssumption DEF UdpInit, UdpInv, UdpTypeOK, UdpAssumption, OkIsCounted, Waiting
<1>2. UdpInv /\ [UdpNext]_udpVars => UdpInv'
  BY UdpAssumption, UdpStep
    DEF udpVars, UdpInv, UdpTypeOK, OkIsCounted, Waiting, Asks, Replies
<1>3. QED
  BY <1>1, <1>2, PTL DEF UdpSpec

\* Of all addresses, and through lost, repeated and late datagrams: an
\* announce is taken for done only on the word of the tracker that it was
\* sent to last, and that tracker has counted it.
THEOREM OkWasCounted == UdpSpec => []OkIsCounted
BY UdpInvariant, PTL DEF UdpInv

=============================================================================
