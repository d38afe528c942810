-------------------------- MODULE AnnounceSchedule --------------------------
(***************************************************************************)
(* When a torrent talks to its trackers and what it tells them             *)
(* (session/announce.rs, session/catalog_io.rs, session/lifecycle.rs,      *)
(* tracker/limit.rs).                                                      *)
(*                                                                         *)
(* Five threads touch one schedule entry per torrent: the mutation worker  *)
(* (start and stop), the start-up task on a blocking thread, the tick on   *)
(* the accept thread, and the announce tasks, which the tracker thread     *)
(* interleaves at every await.  An announce is claimed by setting          *)
(* in_flight under the schedule lock BEFORE its task is spawned, so that   *)
(* one torrent never announces twice at once; the task clears the claim    *)
(* when it has its answer.  The registry, the schedule and the baselines   *)
(* have a lock each and no operation holds two of them.                    *)
(*                                                                         *)
(* `have' counts verified pieces; the uploaded counter is left out, it is  *)
(* reported against its baseline exactly as the downloaded one.            *)
(***************************************************************************)
EXTENDS Integers, FiniteSets

CONSTANTS
    Torrents,       \* torrents of the catalog
    Pieces,         \* pieces of each torrent
    Had,            \* pieces each torrent has when the program starts
    Tasks,          \* announce tasks that can exist at once (a bound)
    MaxInflight,    \* max_inflight_announces; 0 is no limit
    PerHost,        \* max_concurrent_per_host; 0 is no limit
    Budgets         \* bounds on starts, stops and failed announces, one of which
                    \* a behaviour has

ASSUME AnnounceAssumption ==
    /\ Pieces \in Nat \ {0} /\ Had \in 0..Pieces
    /\ Torrents # {}
    /\ Tasks \subseteq Nat /\ IsFiniteSet(Tasks)
    /\ MaxInflight \in Nat /\ PerHost \in Nat

VARIABLES
    hot,        \* torrents of the registry
    wanted,     \* torrents whose row has want_start = 1
    have,       \* pieces a torrent has
    sched,      \* announce_sched
    baseline,   \* announce_baseline
    tasks,      \* announce tasks on the tracker thread
    worker,     \* the mutation worker's command
    boot,       \* the start-up task
    tick,       \* the tick loop
    budget,     \* starts, stops and failed announces left
    began,      \* what a torrent had when it became hot (for the properties)
    acks,       \* `completed' announces of the present entry that a tracker accepted
    crossed,    \* torrents whose entry was written by a task of an older entry
    heard       \* torrents some tracker knows to be complete

annVars == <<hot, wanted, have, sched, baseline, tasks, worker, boot, tick,
             budget, began, acks, crossed, heard>>

ghosts == <<acks, crossed, heard>>

\* TorrentAnnounce::fresh.  `due' is next_due against the clock, "far" the
\* placeholder of a day.
Fresh(due) == [due |-> due, flight |-> FALSE, started |-> FALSE,
               completed |-> FALSE, pending |-> FALSE]
NoEntry == Fresh("none")
Scheduled(t) == sched[t].due # "none"
Entry(t, due) == IF Scheduled(t) THEN sched[t] ELSE Fresh(due)

\* The entry of t is replaced or removed: its tasks now work for an old one.
Renew(t) ==
    /\ acks' = [acks EXCEPT ![t] = 0]
    /\ crossed' = crossed \ {t}
    /\ tasks' = [k \in Tasks |-> IF tasks[k].t = t /\ tasks[k].pc # "idle"
                                 THEN [tasks[k] EXCEPT !.stale = TRUE] ELSE tasks[k]]

NoBase == [done |-> 0, incomplete |-> FALSE]
Idle == [t |-> CHOOSE t \in Torrents : TRUE, pc |-> "idle"]
NoTask == [t |-> Idle.t, pc |-> "idle", event |-> "none", stale |-> FALSE]
NewTask(t) == [NoTask EXCEPT !.t = t, !.pc = "queued"]

FreeTasks == {k \in Tasks : tasks[k].pc = "idle"}
InFlight == {t \in Torrents : sched[t].flight}

\* spawn_tracker of one task per member of claimed, at the lowest places.
Spawn(claimed) ==
    \E at \in [claimed -> FreeTasks] :
        /\ \A t, u \in claimed : t # u => at[t] # at[u]
        /\ \A t \in claimed, k \in FreeTasks :
              k < at[t] => \E u \in claimed : at[u] = k
        /\ tasks' = [k \in Tasks |->
              IF \E t \in claimed : at[t] = k
              THEN NewTask(CHOOSE t \in claimed : at[t] = k) ELSE tasks[k]]

\* The claim of kick_announce_now: nothing when one is in flight.
Claim(t) ==
    IF Entry(t, "now").flight
    THEN UNCHANGED <<sched, tasks>>
    ELSE /\ sched' = [sched EXCEPT ![t] = [Entry(t, "now") EXCEPT !.flight = TRUE]]
         /\ Spawn({t})

\* reset_announce_baseline reads the registry twice: what is done first,
\* completeness after it.
BaseOf(t, done) == [done |-> done, incomplete |-> t \in hot /\ have[t] < Pieces]
Done(t) == IF t \in hot THEN have[t] ELSE 0

\* Either the program starts up, or every torrent was just started.
AnnounceInit ==
    /\ wanted = Torrents
    /\ hot \in {{}, Torrents}
    /\ have = [t \in Torrents |-> Had]
    /\ sched = [t \in Torrents |-> IF hot = {} THEN NoEntry ELSE Fresh("now")]
    /\ baseline = [t \in Torrents |->
          IF hot = {} THEN NoBase ELSE [done |-> Had, incomplete |-> Had < Pieces]]
    /\ tasks = [k \in Tasks |-> NoTask]
    /\ worker = [op |-> "none", t |-> Idle.t, pc |-> "idle", done |-> 0]
    /\ boot = [left |-> {}, t |-> Idle.t, pc |-> IF hot = {} THEN "list" ELSE "idle",
               done |-> 0]
    /\ tick = [pc |-> "idle", t |-> Idle.t, ids |-> {}]
    /\ budget \in Budgets /\ (hot = {} => budget.starts = 0)
    /\ began = [t \in Torrents |-> Had]
    /\ acks = [t \in Torrents |-> 0]
    /\ crossed = {} /\ heard = {}

-----------------------------------------------------------------------------
(* The mutation worker: start_torrent.  The load and the insertion in the  *)
(* registry come first; the baseline waits for the catalog lock (the       *)
(* upload counter is seeded from it), the schedule entry comes last.       *)

StartTorrent(t) ==
    /\ worker.pc = "idle" /\ budget.starts > 0
    /\ worker' = [worker EXCEPT !.op = "start", !.t = t, !.pc = "done"]
    /\ budget' = [budget EXCEPT !.starts = @ - 1]
    /\ wanted' = wanted \cup {t}
    /\ hot' = hot \cup {t}
    /\ began' = IF t \in hot THEN began ELSE [began EXCEPT ![t] = have[t]]
    /\ UNCHANGED <<have, sched, baseline, tasks, boot, tick, ghosts>>

StartReadDone ==
    /\ worker.op = "start" /\ worker.pc = "done"
    /\ worker' = [worker EXCEPT !.pc = "base", !.done = Done(worker.t)]
    /\ UNCHANGED <<hot, wanted, have, sched, baseline, tasks, boot, tick, budget, began, ghosts>>

StartBaseline ==
    /\ worker.op = "start" /\ worker.pc = "base"
    /\ worker' = [worker EXCEPT !.pc = "sched", !.done = 0]
    /\ baseline' = [baseline EXCEPT ![worker.t] = BaseOf(worker.t, worker.done)]
    /\ began' = [began EXCEPT ![worker.t] = worker.done]
    /\ UNCHANGED <<hot, wanted, have, sched, tasks, boot, tick, budget, ghosts>>

\* sched.insert(id, fresh): whatever claim the old entry held is gone.
StartSchedule ==
    /\ worker.op = "start" /\ worker.pc = "sched"
    /\ worker' = [worker EXCEPT !.pc = "kick"]
    /\ sched' = [sched EXCEPT ![worker.t] = Fresh("now")]
    /\ Renew(worker.t)
    /\ UNCHANGED <<hot, wanted, have, baseline, boot, tick, budget, began, heard>>

\* kick_announce_now; only this thread stops torrents, so the registry
\* check and the claim see the same registry.
StartKick ==
    /\ worker.op = "start" /\ worker.pc = "kick"
    /\ worker' = [worker EXCEPT !.op = "none", !.pc = "idle"]
    /\ IF worker.t \in hot THEN Claim(worker.t) ELSE UNCHANGED <<sched, tasks>>
    /\ UNCHANGED <<hot, wanted, have, baseline, boot, tick, budget, began, ghosts>>

(* stop_torrent: the `stopped' announce is spawned while the torrent is    *)
(* hot, then the registry, the schedule and the baseline forget it.        *)

StopTorrent(t) ==
    /\ worker.pc = "idle" /\ budget.stops > 0 /\ t \in hot
    /\ worker' = [worker EXCEPT !.op = "stop", !.t = t, !.pc = "unhot"]
    /\ budget' = [budget EXCEPT !.stops = @ - 1]
    /\ \E k \in FreeTasks :
          /\ \A j \in FreeTasks : k <= j
          /\ tasks' = [tasks EXCEPT ![k] = [NewTask(t) EXCEPT !.event = "stopped", !.pc = "host"]]
    /\ UNCHANGED <<hot, wanted, have, sched, baseline, boot, tick, began, ghosts>>

StopUnhot ==
    /\ worker.op = "stop" /\ worker.pc = "unhot"
    /\ worker' = [worker EXCEPT !.pc = "sched"]
    /\ hot' = hot \ {worker.t}
    /\ UNCHANGED <<wanted, have, sched, baseline, tasks, boot, tick, budget, began, ghosts>>

StopSchedule ==
    /\ worker.op = "stop" /\ worker.pc = "sched"
    /\ worker' = [worker EXCEPT !.pc = "base"]
    /\ sched' = [sched EXCEPT ![worker.t] = NoEntry]
    /\ Renew(worker.t)
    /\ UNCHANGED <<hot, wanted, have, baseline, boot, tick, budget, began, heard>>

StopBaseline ==
    /\ worker.op = "stop" /\ worker.pc = "base"
    /\ worker' = [worker EXCEPT !.op = "none", !.pc = "idle"]
    /\ baseline' = [baseline EXCEPT ![worker.t] = NoBase]
    /\ wanted' = wanted \ {worker.t}
    /\ UNCHANGED <<hot, have, sched, tasks, boot, tick, budget, began, ghosts>>

-----------------------------------------------------------------------------
(* Start-up: sync_want_start activates what the catalog wants, each with a *)
(* placeholder far in the future, and batch_announce_hot gives every entry *)
(* that is not in flight its slot.                                         *)

BootList ==
    /\ boot.pc = "list"
    /\ boot' = [boot EXCEPT !.left = wanted, !.pc = "next"]
    /\ UNCHANGED <<hot, wanted, have, sched, baseline, tasks, worker, tick, budget, began, ghosts>>

BootActivate(t) ==
    /\ boot.pc = "next" /\ t \in boot.left
    /\ boot' = [boot EXCEPT !.left = @ \ {t}, !.t = t,
                            !.pc = IF t \in hot THEN "next" ELSE "done"]
    /\ wanted' = IF t \in hot THEN wanted ELSE wanted \cup {t}
    /\ hot' = hot \cup {t}
    /\ began' = IF t \in hot THEN began ELSE [began EXCEPT ![t] = have[t]]
    /\ UNCHANGED <<have, sched, baseline, tasks, worker, tick, budget, ghosts>>

BootReadDone ==
    /\ boot.pc = "done"
    /\ boot' = [boot EXCEPT !.pc = "base", !.done = Done(boot.t)]
    /\ UNCHANGED <<hot, wanted, have, sched, baseline, tasks, worker, tick, budget, began, ghosts>>

BootBaseline ==
    /\ boot.pc = "base"
    /\ boot' = [boot EXCEPT !.pc = "sched", !.done = 0]
    /\ baseline' = [baseline EXCEPT ![boot.t] = BaseOf(boot.t, boot.done)]
    /\ began' = IF boot.t \in hot THEN [began EXCEPT ![boot.t] = boot.done] ELSE began
    /\ UNCHANGED <<hot, wanted, have, sched, tasks, worker, tick, budget, ghosts>>

\* or_insert_with: an entry that is already there stays as it is.
BootSchedule ==
    /\ boot.pc = "sched"
    /\ boot' = [boot EXCEPT !.pc = "next"]
    /\ sched' = [sched EXCEPT ![boot.t] = Entry(boot.t, "far")]
    /\ UNCHANGED <<hot, wanted, have, baseline, tasks, worker, tick, budget, began, ghosts>>

\* batch_announce_hot: the newest torrent gets the slot `now', the others a
\* later one; entries in flight keep their time.  The poll at its end is left
\* to the tick, which makes the same one.
BootStagger ==
    /\ boot.pc = "next" /\ boot.left = {}
    /\ boot' = [boot EXCEPT !.pc = "idle"]
    /\ \E newest \in Torrents :
          /\ hot # {} => newest \in hot
          /\ sched' = [t \in Torrents |->
                LET due == IF t = newest THEN "now" ELSE "later"
                IN IF t \notin hot \/ sched[t].flight THEN sched[t]
                   ELSE [Entry(t, due) EXCEPT !.due = due]]
    /\ UNCHANGED <<hot, wanted, have, baseline, tasks, worker, tick, budget, began, ghosts>>

-----------------------------------------------------------------------------
(* The tick: check_completed_announces, then poll_announce_due, then, for   *)
(* a torrent short of peers, maybe_starve_announce.                        *)

\* The hot ids are copied before any other lock is taken.
CheckSnapshot ==
    /\ tick.pc = "idle"
    /\ tick' = [tick EXCEPT !.pc = "check", !.ids = hot]
    /\ UNCHANGED <<hot, wanted, have, sched, baseline, tasks, worker, boot, budget, began, ghosts>>

\* maybe_request_completed_announce, up to the kick.
WantsCompleted(t) == /\ baseline[t].incomplete /\ t \in hot /\ have[t] = Pieces
                     /\ Scheduled(t) /\ ~sched[t].completed /\ ~sched[t].pending

CheckComplete(t) ==
    /\ tick.pc = "check" /\ t \in tick.ids
    /\ IF WantsCompleted(t)
       THEN /\ sched' = [sched EXCEPT ![t].pending = TRUE,
                                      ![t].due = IF sched[t].flight THEN @ ELSE "now"]
            /\ tick' = [tick EXCEPT !.ids = @ \ {t}, !.t = t,
                                    !.pc = IF sched[t].flight THEN "check" ELSE "kick"]
       ELSE sched' = sched /\ tick' = [tick EXCEPT !.ids = @ \ {t}]
    /\ UNCHANGED <<hot, wanted, have, baseline, tasks, worker, boot, budget, began, ghosts>>

\* kick_announce_now: the registry first, the claim under another lock.
CheckKick ==
    /\ tick.pc = "kick"
    /\ tick' = [tick EXCEPT !.pc = IF tick.t \in hot THEN "kclaim" ELSE "check"]
    /\ UNCHANGED <<hot, wanted, have, sched, baseline, tasks, worker, boot, budget, began, ghosts>>

CheckClaim ==
    /\ tick.pc = "kclaim"
    /\ tick' = [tick EXCEPT !.pc = "check"]
    /\ Claim(tick.t)
    /\ UNCHANGED <<hot, wanted, have, baseline, worker, boot, budget, began, ghosts>>

PollSnapshot ==
    /\ tick.pc = "check" /\ tick.ids = {}
    /\ tick' = [tick EXCEPT !.pc = "claim", !.ids = hot]
    /\ UNCHANGED <<hot, wanted, have, sched, baseline, tasks, worker, boot, budget, began, ghosts>>

Overdue(t) == \/ ~Scheduled(t)
              \/ ~sched[t].flight /\ sched[t].due = "now"
LeastOf(a, b) == IF a < b THEN a ELSE b
\* saturating_sub: kicks do not ask for room and may exceed the budget.
Room == IF MaxInflight = 0 THEN Cardinality(Torrents)
        ELSE MaxInflight - LeastOf(MaxInflight, Cardinality(InFlight))

\* Claims what is due, an absent entry included, up to the budget.
PollClaim ==
    /\ tick.pc = "claim"
    /\ tick' = [tick EXCEPT !.pc = "idle", !.ids = {}, !.t = Idle.t]
    /\ LET due == {t \in tick.ids : Overdue(t)}
       IN \E claimed \in SUBSET due :
             /\ Cardinality(claimed) = LeastOf(Room, Cardinality(due))
             /\ sched' = [t \in Torrents |-> IF t \in claimed
                                             THEN [Entry(t, "now") EXCEPT !.flight = TRUE]
                                             ELSE sched[t]]
             /\ Spawn(claimed)
    /\ UNCHANGED <<hot, wanted, have, baseline, worker, boot, budget, began, ghosts>>

\* maybe_starve_announce: short of useful peers, the next announce is pulled
\* forward when min_interval has passed since the last success.
Starve(t) ==
    /\ tick.pc = "idle" /\ t \in hot /\ Scheduled(t)
    /\ ~sched[t].flight /\ sched[t].due \in {"later", "far"}
    /\ have[t] < Pieces
    /\ sched' = [sched EXCEPT ![t].due = "now"]
    /\ UNCHANGED <<hot, wanted, have, baseline, tasks, worker, boot, tick, budget, began, ghosts>>

-----------------------------------------------------------------------------
(* announce_and_connect on the tracker thread.                             *)

\* A torrent that is no longer hot ends the task at once.
TaskBegin(k) ==
    /\ tasks[k].pc = "queued"
    /\ tasks' = [tasks EXCEPT ![k] = IF tasks[k].t \in hot
                                     THEN [@ EXCEPT !.pc = "pick"] ELSE NoTask]
    /\ UNCHANGED <<hot, wanted, have, sched, baseline, worker, boot, tick, budget, began, ghosts>>

\* The event; `completed' is marked as sent before it is.
EventOf(e) == IF e.pending /\ e.started /\ ~e.completed THEN "completed"
              ELSE IF ~e.started THEN "started" ELSE "none"

\* announce_transfer_totals: what is done less the baseline, and an absent
\* baseline counts as zero.
Reported(t) == IF Done(t) < baseline[t].done THEN 0 ELSE Done(t) - baseline[t].done

TaskPick(k) ==
    LET t == tasks[k].t
        e == [Entry(t, "now") EXCEPT !.flight = TRUE]
        event == EventOf(e)
    IN /\ tasks[k].pc = "pick"
       /\ sched' = [sched EXCEPT ![t] = IF event = "completed"
                       THEN [e EXCEPT !.completed = TRUE, !.pending = FALSE] ELSE e]
       /\ tasks' = [tasks EXCEPT ![k].event = event, ![k].pc = "host"]
       /\ UNCHANGED <<hot, wanted, have, baseline, worker, boot, tick, budget, began, ghosts>>

\* HostLimiter::acquire: one token per announce in progress at the host.
TaskAcquire(k) ==
    /\ tasks[k].pc = "host"
    /\ PerHost = 0 \/ Cardinality({j \in Tasks : tasks[j].pc = "wire"}) < PerHost
    /\ tasks' = [tasks EXCEPT ![k].pc = "wire"]
    /\ UNCHANGED <<hot, wanted, have, sched, baseline, worker, boot, tick, budget, began, ghosts>>

\* announce_for: the first tracker that answers without a failure decides;
\* a `stopped' announce ends here.
TaskAnswered(k) ==
    LET t == tasks[k].t
    IN /\ tasks[k].pc = "wire"
       /\ tasks' = [tasks EXCEPT ![k] = IF @.event = "stopped" THEN NoTask
                                        ELSE [@ EXCEPT !.pc = "ok"]]
       /\ acks' = IF tasks[k].event = "completed" /\ ~tasks[k].stale
                  THEN [acks EXCEPT ![t] = @ + 1] ELSE acks
       /\ heard' = IF tasks[k].event = "completed" THEN heard \cup {t} ELSE heard
       /\ UNCHANGED <<hot, wanted, have, sched, baseline, worker, boot, tick, budget,
                      began, crossed>>

TaskFailed(k) ==
    /\ tasks[k].pc = "wire" /\ budget.fails > 0
    /\ budget' = [budget EXCEPT !.fails = @ - 1]
    /\ tasks' = [tasks EXCEPT ![k] = IF @.event = "stopped" THEN NoTask
                                     ELSE [@ EXCEPT !.pc = "failed"]]
    /\ UNCHANGED <<hot, wanted, have, sched, baseline, worker, boot, tick, began, ghosts>>

\* Seeded fault: every answer overwrites what was sent.
AfterOkOverwrites(e, event) ==
    [e EXCEPT !.flight = FALSE, !.started = @ \/ event = "started", !.due = "later",
              !.completed = (event = "completed"), !.pending = @ /\ event # "completed"]

\* After an answer: the claim ends, the next announce is after the interval,
\* or at once when `completed' became due while `started' was on its way.
AfterOk(e, event) ==
    LET f == [e EXCEPT !.flight = FALSE,
                       !.started = @ \/ event = "started",
                       !.completed = @ \/ event = "completed",
                       !.pending = @ /\ event # "completed"]
    IN [f EXCEPT !.due = IF f.pending /\ f.started /\ ~f.completed THEN "now" ELSE "later"]

FollowUp(e, event) == LET f == AfterOk(e, event)
                      IN f.pending /\ f.started /\ ~f.completed

\* Seeded fault: a `completed' that failed counts as sent.
AfterFailureForgets(e, event) == [e EXCEPT !.flight = FALSE, !.due = "later"]

\* After a total failure: a `completed' that never landed is asked again.
AfterFailure(e, event) ==
    [e EXCEPT !.flight = FALSE, !.due = "later",
              !.completed = @ /\ event # "completed",
              !.pending = @ \/ event = "completed"]

\* A task that comes back after a stop finds no entry, or the next run's.
TaskFinish(k) ==
    LET t == tasks[k].t
        ev == tasks[k].event
    IN /\ tasks[k].pc \in {"ok", "failed"}
       /\ crossed' = IF tasks[k].stale /\ Scheduled(t) THEN crossed \cup {t} ELSE crossed
       /\ IF ~Scheduled(t)
          THEN sched' = sched /\ tasks' = [tasks EXCEPT ![k] = NoTask]
          ELSE IF tasks[k].pc = "ok"
               THEN /\ sched' = [sched EXCEPT ![t] = AfterOk(@, ev)]
                    /\ tasks' = [tasks EXCEPT ![k] = IF FollowUp(sched[t], ev)
                                    THEN [NoTask EXCEPT !.t = t, !.pc = "kick"] ELSE NoTask]
               ELSE /\ sched' = [sched EXCEPT ![t] = AfterFailure(@, ev)]
                    /\ tasks' = [tasks EXCEPT ![k] = NoTask]
       /\ UNCHANGED <<hot, wanted, have, baseline, worker, boot, tick, budget, began,
                      acks, heard>>

\* The follow-up kick of `completed'; the new task takes this one's place.
TaskKick(k) ==
    LET t == tasks[k].t
    IN /\ tasks[k].pc = "kick"
       /\ IF t \in hot /\ ~Entry(t, "now").flight
          THEN /\ sched' = [sched EXCEPT ![t] = [Entry(t, "now") EXCEPT !.flight = TRUE]]
               /\ tasks' = [tasks EXCEPT ![k] = NewTask(t)]
          ELSE /\ sched' = sched
               /\ tasks' = [tasks EXCEPT ![k] = NoTask]
       /\ UNCHANGED <<hot, wanted, have, baseline, worker, boot, tick, budget, began, ghosts>>

-----------------------------------------------------------------------------
(* The sessions verify pieces; time passes.                                *)

Verify(t) ==
    /\ t \in hot /\ have[t] < Pieces
    /\ have' = [have EXCEPT ![t] = @ + 1]
    /\ UNCHANGED <<hot, wanted, sched, baseline, tasks, worker, boot, tick, budget, began, ghosts>>

\* The placeholder of a day never falls due in the model.
TimePasses(t) ==
    /\ sched[t].due = "later"
    /\ sched' = [sched EXCEPT ![t].due = "now"]
    /\ UNCHANGED <<hot, wanted, have, baseline, tasks, worker, boot, tick, budget, began, ghosts>>

WorkerStep == \/ StartReadDone \/ StartBaseline \/ StartSchedule \/ StartKick
              \/ StopUnhot \/ StopSchedule \/ StopBaseline
BootStep == \/ BootList \/ \E t \in Torrents : BootActivate(t)
            \/ BootReadDone \/ BootBaseline \/ BootSchedule \/ BootStagger
TickStep == \/ CheckSnapshot \/ \E t \in Torrents : CheckComplete(t)
            \/ CheckKick \/ CheckClaim \/ PollSnapshot \/ PollClaim
TaskStep(k) == \/ TaskBegin(k) \/ TaskPick(k) \/ TaskAcquire(k) \/ TaskAnswered(k)
               \/ TaskFinish(k) \/ TaskKick(k)

AnnounceNext ==
    \/ \E t \in Torrents : StartTorrent(t) \/ StopTorrent(t)
    \/ WorkerStep
    \/ BootStep
    \/ TickStep
    \/ \E t \in Torrents : Starve(t) \/ Verify(t) \/ TimePasses(t)
    \/ \E k \in Tasks : TaskStep(k) \/ TaskFailed(k)

AnnounceSpec == AnnounceInit /\ [][AnnounceNext]_annVars

-----------------------------------------------------------------------------
AnnounceTypeOK ==
    /\ hot \subseteq Torrents /\ wanted \subseteq Torrents
    /\ have \in [Torrents -> 0..Pieces]
    /\ sched \in [Torrents -> [due : {"none", "now", "later", "far"},
                               flight : BOOLEAN, started : BOOLEAN, completed : BOOLEAN,
                               pending : BOOLEAN]]
    /\ baseline \in [Torrents -> [done : 0..Pieces, incomplete : BOOLEAN]]
    /\ tasks \in [Tasks -> [t : Torrents, stale : BOOLEAN,
                            pc : {"idle", "queued", "pick", "host", "wire", "ok", "failed", "kick"},
                            event : {"none", "started", "completed", "stopped"}]]
    /\ PerHost > 0 => Cardinality({k \in Tasks : tasks[k].pc = "wire"}) <= PerHost

\* announce.rs: `completed' is marked as sent before it is on its way, so
\* that no concurrent or repeated announce tells a tracker twice that this
\* run finished the download, unless a task that outlived a stop or a start
\* wrote its outcome to the entry of the run after it.
CompletedOnce == \A t \in Torrents : t \notin crossed => acks[t] <= 1

\* catalog_io.rs: what a tracker is told was downloaded is what this run
\* downloaded, never what the torrent had before.
ReportsThisRun == \A k \in Tasks :
    LET t == tasks[k].t
    IN tasks[k].pc = "pick" /\ t \in hot => Reported(t) <= have[t] - began[t]

\* announce.rs: a torrent in the swarm is announced again and again.
AnnouncesGoOn ==
    \A t \in Torrents :
        []<>(t \notin hot \/ \E k \in Tasks : tasks[k].t = t /\ tasks[k].pc = "wire")

\* catalog_io.rs: a torrent that was incomplete when it started and has every
\* piece tells a tracker so, unless it is stopped first or started again.
Finished(t) == /\ t \in hot /\ baseline[t].incomplete /\ have[t] = Pieces
               /\ worker.t = t => worker.pc = "idle"
CompletedIsHeard == \A t \in Torrents :
    Finished(t) ~> (t \in heard \/ ~Finished(t))

\* The threads run, the trackers answer in the end (a host's tokens are given
\* out in order), and time passes.
AnnounceFairness ==
    /\ WF_annVars(WorkerStep) /\ WF_annVars(BootStep) /\ WF_annVars(TickStep)
    /\ \A k \in Tasks : SF_annVars(TaskStep(k))
    /\ \A t \in Torrents : WF_annVars(TimePasses(t))

AnnounceFairSpec == AnnounceSpec /\ AnnounceFairness
=============================================================================
