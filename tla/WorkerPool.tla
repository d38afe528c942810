------------------------------- MODULE WorkerPool -------------------------------
(***************************************************************************)
(* The pool of peer workers (runtime/pool.rs).                             *)
(*                                                                         *)
(* Sessions are handed to the worker thread with the fewest of them; the   *)
(* counts are atomics that the spawning task raises before it queues the   *)
(* session and a drop guard inside the session lowers.  Shutdown sends a   *)
(* sentinel behind what is queued and joins the threads until a deadline,  *)
(* because a worker may be stuck in a session that blocks.  The accept and *)
(* the tracker thread are told and joined in the same way and left out.    *)
(***************************************************************************)
EXTENDS Integers, Sequences, FiniteSets, FiniteSetsExt

CONSTANTS
    NumWorkers,
    Spawners,       \* tasks that dial or accept
    MaxSessions     \* bound: sessions spawned

Workers == 1..NumWorkers
ASSUME PoolAssumption ==
    /\ NumWorkers \in Nat \ {0} /\ MaxSessions \in Nat
    /\ IsFiniteSet(Spawners)

VARIABLES
    count,      \* peer_count of each worker
    active,     \* active_peers
    queue,      \* of each worker: "session" or "stop"
    running,    \* sessions on each worker
    thread,     \* "up", "stuck" or "ended"
    spawner,    \* what each spawning task is at, and the worker it chose
    shut,       \* the pool is shut down
    closer,     \* shutdown(): where it is, and at which worker
    sessions    \* left

poolVars == <<count, active, queue, running, thread, spawner, shut, closer, sessions>>

IdleSpawner == [pc |-> "idle", w |-> 1]

PoolInit ==
    /\ count = [w \in Workers |-> 0] /\ active = 0
    /\ queue = [w \in Workers |-> <<>>] /\ running = [w \in Workers |-> 0]
    /\ thread = [w \in Workers |-> "up"]
    /\ spawner = [s \in Spawners |-> IdleSpawner]
    /\ shut = FALSE /\ closer = [pc |-> "idle", w |-> 1] /\ sessions = MaxSessions

-----------------------------------------------------------------------------
(* spawn_peer                                                              *)

\* least_peers_worker: the first of those with the fewest.
LeastPeersWorker ==
    Min({w \in Workers : \A v \in Workers : count[w] <= count[v]})

SpawnChooses(s) ==
    /\ spawner[s].pc = "idle" /\ sessions > 0 /\ sessions' = sessions - 1
    /\ spawner' = IF shut THEN spawner ELSE [spawner EXCEPT ![s] = [pc |-> "count", w |-> LeastPeersWorker]]
    /\ UNCHANGED <<count, active, queue, running, thread, shut, closer>>

SpawnCounts(s) ==
    /\ spawner[s].pc = "count"
    /\ count' = [count EXCEPT ![spawner[s].w] = @ + 1] /\ active' = active + 1
    /\ spawner' = [spawner EXCEPT ![s].pc = "send"]
    /\ UNCHANGED <<queue, running, thread, shut, closer, sessions>>

\* The queue of a thread that ended is closed.
SpawnSends(s) ==
    LET w == spawner[s].w
    IN /\ spawner[s].pc = "send"
       /\ queue' = IF thread[w] = "ended" THEN queue ELSE [queue EXCEPT ![w] = Append(@, "session")]
       /\ spawner' = [spawner EXCEPT ![s] = IdleSpawner]
       /\ UNCHANGED <<count, active, running, thread, shut, closer, sessions>>

-----------------------------------------------------------------------------
(* worker_main                                                             *)

WorkerSpawns(w) ==
    /\ thread[w] = "up" /\ queue[w] # <<>> /\ Head(queue[w]) = "session"
    /\ queue' = [queue EXCEPT ![w] = Tail(@)]
    /\ running' = [running EXCEPT ![w] = @ + 1]
    /\ UNCHANGED <<count, active, thread, spawner, shut, closer, sessions>>

\* Seeded fault: a session that panics is not counted out.
OutWhenReturned(panics) == IF panics THEN 0 ELSE 1
\* The guard is dropped however the session ends.
GuardDrops(panics) == 1

SessionEnds(w, panics) ==
    /\ thread[w] = "up" /\ running[w] > 0
    /\ running' = [running EXCEPT ![w] = @ - 1]
    /\ count' = [count EXCEPT ![w] = @ - GuardDrops(panics)] /\ active' = active - GuardDrops(panics)
    /\ UNCHANGED <<queue, thread, spawner, shut, closer, sessions>>

\* A session blocks its thread, for a while or for ever.
WorkerSticks(w) ==
    /\ thread[w] = "up" /\ running[w] > 0 /\ thread' = [thread EXCEPT ![w] = "stuck"]
    /\ UNCHANGED <<count, active, queue, running, spawner, shut, closer, sessions>>
WorkerGoesOn(w) ==
    /\ thread[w] = "stuck" /\ thread' = [thread EXCEPT ![w] = "up"]
    /\ UNCHANGED <<count, active, queue, running, spawner, shut, closer, sessions>>

\* The runtime is dropped with its sessions; what was queued behind the
\* sentinel stays in the queue.
WorkerEnds(w) ==
    /\ thread[w] = "up" /\ queue[w] # <<>> /\ Head(queue[w]) = "stop"
    /\ queue' = [queue EXCEPT ![w] = Tail(@)]
    /\ thread' = [thread EXCEPT ![w] = "ended"]
    /\ running' = [running EXCEPT ![w] = 0]
    /\ count' = [count EXCEPT ![w] = @ - running[w]] /\ active' = active - running[w]
    /\ UNCHANGED <<spawner, shut, closer, sessions>>

-----------------------------------------------------------------------------
(* shutdown                                                                *)

ShutdownBegins ==
    /\ ~shut /\ closer.pc = "idle"
    /\ shut' = TRUE /\ closer' = [pc |-> "tell", w |-> 1]
    /\ UNCHANGED <<count, active, queue, running, thread, spawner, sessions>>

NextWorker(pc, then) == IF closer.w = NumWorkers THEN [pc |-> then, w |-> 1] ELSE [pc |-> pc, w |-> closer.w + 1]

ShutdownTells ==
    /\ closer.pc = "tell" /\ closer' = NextWorker("tell", "join")
    /\ queue' = [queue EXCEPT ![closer.w] = Append(@, "stop")]
    /\ UNCHANGED <<count, active, running, thread, spawner, shut, sessions>>

ShutdownJoins ==
    /\ closer.pc = "join" /\ thread[closer.w] = "ended"
    /\ closer' = NextWorker("join", "done")
    /\ UNCHANGED <<count, active, queue, running, thread, spawner, shut, sessions>>

\* Seeded fault: join without a deadline.
JoinsForEver == closer
\* join_until: at the deadline this thread and the others are left behind.
JoinUntil == [pc |-> "done", w |-> 1]

ShutdownDeadline ==
    /\ closer.pc = "join" /\ closer' = JoinUntil
    /\ UNCHANGED <<count, active, queue, running, thread, spawner, shut, sessions>>

-----------------------------------------------------------------------------
WorkerSteps(w) == WorkerSpawns(w) \/ WorkerEnds(w)
Shutdown == ShutdownTells \/ ShutdownJoins \/ ShutdownDeadline

PoolNext ==
    \/ \E s \in Spawners : SpawnChooses(s) \/ SpawnCounts(s) \/ SpawnSends(s)
    \/ \E w \in Workers : WorkerSpawns(w) \/ WorkerEnds(w) \/ WorkerSticks(w) \/ WorkerGoesOn(w)
                          \/ \E panics \in BOOLEAN : SessionEnds(w, panics)
    \/ ShutdownBegins \/ ShutdownTells \/ ShutdownJoins \/ ShutdownDeadline

PoolSpec == PoolInit /\ [][PoolNext]_poolVars

\* The control thread goes on and its deadline passes; a worker may be stuck.
PoolFairSpec == PoolSpec /\ WF_poolVars(Shutdown)

-----------------------------------------------------------------------------
Queued(w) == Cardinality({i \in DOMAIN queue[w] : queue[w][i] = "session"})
OnTheirWay(w) == Cardinality({s \in Spawners : spawner[s] = [pc |-> "send", w |-> w]})

PoolTypeOK ==
    /\ count \in [Workers -> 0..MaxSessions] /\ active \in 0..MaxSessions
    /\ running \in [Workers -> 0..MaxSessions] /\ sessions \in 0..MaxSessions

\* What "least peers" is decided by is what each worker has, over sessions
\* that end or panic while others are counted and queued: a count that drifts
\* would keep a worker empty for the life of the process.
CountsAreTrue == \A w \in Workers : thread[w] # "ended" => count[w] = running[w] + Queued(w) + OnTheirWay(w)

\* pool.rs: "do not hang control plane on stuck workers".
ShutdownReturns == shut ~> closer.pc = "done"
=============================================================================
