----------------------------- MODULE DiskWorker -----------------------------
(***************************************************************************)
(* The hash threads and the restartable disk worker they hand verified     *)
(* pieces to (runtime/hash_worker.rs, runtime/disk_worker.rs, its backends *)
(* in disk_worker/uring.rs and thread.rs).                                 *)
(*                                                                         *)
(* Hash threads drain the leech queue before they take one recheck job.    *)
(* A verified piece goes into the bounded channel of the backend in place; *)
(* a backend whose ring fails answers what it has, leaves, and is          *)
(* restarted by the threads that find its channel closed, at most          *)
(* MaxRestarts times and not during the cooldown.                          *)
(*                                                                         *)
(* Abstracted: the bytes and spans of a piece, the kind of a backend (one  *)
(* that never fails is the thread backend) and the clock (the cooldown is  *)
(* over at any time).                                                      *)
(***************************************************************************)
EXTENDS Integers, Sequences, FiniteSets

CONSTANTS
    Jobs,          \* leech pieces that can be in the pipeline
    NoJob,         \* a hash thread without one
    Hashers,       \* hash_workers
    Depth,         \* disk_depth: channel capacity, and pieces in flight
    MaxRestarts,   \* MAX_DISK_RESTARTS (3 in the code)
    MaxFailures,   \* bound: failing hashes, writes, rings and spawns
    MaxRechecks    \* bound: recheck jobs

ASSUME DiskAssumption ==
    /\ IsFiniteSet(Jobs) /\ NoJob \notin Jobs
    /\ IsFiniteSet(Hashers) /\ Hashers # {}
    /\ Depth \in Nat \ {0}
    /\ MaxRestarts \in Nat \ {0} /\ MaxFailures \in Nat /\ MaxRechecks \in Nat

VARIABLES
    leechQ,     \* leech_tx .. leech_rx
    recheckQ,   \* number of jobs in recheck_tx .. recheck_rx
    recheckLeft, \* remaining recheck jobs
    hasher,     \* the hash threads
    backend,    \* the backends spawned so far, by restart number
    cur,        \* DiskState.backend
    restarts,   \* DiskState.restarts
    cooling,    \* less than DISK_RESTART_COOLDOWN since last_restart
    deadPermanent,
    outcome,    \* what waits in the reply channel for the session
    passed,     \* ghost: recheck jobs a thread took while the piece was queued
    failLeft    \* remaining failures

diskVars == <<leechQ, recheckQ, recheckLeft, hasher, backend, cur, restarts,
              cooling, deadPermanent, outcome, passed, failLeft>>
queueVars == <<leechQ, recheckQ, recheckLeft, passed>>
stateVars == <<cur, restarts, cooling, deadPermanent>>

Gens == 0..MaxRestarts
Outcomes == {"ok", "hashFail", "writeFail"}
HasherPcs == {"leech", "recheck", "wait", "got", "rechecking", "verify",
              "send", "restart", "spawn", "join", "resend"}
BackendStates == {"none", "starting", "up", "drain", "closing", "dead"}

Hasher == [pc : HasherPcs, job : Jobs \cup {NoJob}, gen : Gens, keep : BOOLEAN]
Backend == [st : BackendStates, chan : Seq(Jobs), fly : SUBSET Jobs]
NoBackend == [st |-> "none", chan |-> <<>>, fly |-> {}]
NewBackend == [NoBackend EXCEPT !.st = "starting"]
Resting == [pc |-> "leech", job |-> NoJob, gen |-> 0, keep |-> FALSE]

DiskTypeOK ==
    /\ leechQ \in Seq(Jobs)
    /\ recheckQ \in Nat /\ recheckLeft \in Nat
    /\ hasher \in [Hashers -> Hasher]
    /\ backend \in [Gens -> Backend]
    /\ cur \in Gens /\ restarts \in Gens
    /\ cooling \in BOOLEAN /\ deadPermanent \in BOOLEAN
    /\ outcome \in [Jobs -> Outcomes \cup {"none", "lost"}]
    /\ passed \in [Jobs -> [Hashers -> Nat]]
    /\ failLeft \in Nat

DiskInit ==
    /\ leechQ = <<>> /\ recheckQ = 0 /\ recheckLeft \in 0..MaxRechecks
    /\ hasher = [h \in Hashers |-> Resting]
    /\ backend = [g \in Gens |-> IF g = 0 THEN NewBackend ELSE NoBackend]
    /\ cur = 0 /\ restarts = 0 /\ cooling = FALSE /\ deadPermanent = FALSE
    /\ outcome = [j \in Jobs |-> "none"]
    /\ passed = [j \in Jobs |-> [h \in Hashers |-> 0]]
    /\ failLeft \in 0..MaxFailures

Fail == failLeft > 0 /\ failLeft' = failLeft - 1
Reply(j, o) == outcome' = [outcome EXCEPT ![j] = o]
Queued == {leechQ[k] : k \in DOMAIN leechQ}
In(g) == {backend[g].chan[k] : k \in DOMAIN backend[g].chan}

-----------------------------------------------------------------------------
(* The queues (HashPool::submit, submit_recheck).                          *)

SubmitLeech(j) ==
    /\ leechQ' = Append(leechQ, j)
    /\ UNCHANGED <<recheckQ, recheckLeft, passed, hasher, backend, stateVars, outcome, failLeft>>

SubmitRecheck ==
    /\ recheckLeft > 0
    /\ recheckLeft' = recheckLeft - 1
    /\ recheckQ' = recheckQ + 1
    /\ UNCHANGED <<leechQ, passed, hasher, backend, stateVars, outcome, failLeft>>

-----------------------------------------------------------------------------
(* hash_worker_main.                                                       *)

Goto(h, pc) == hasher' = [hasher EXCEPT ![h].pc = pc]
NotPassed == [h \in Hashers |-> 0]
TakeLeech(h, keep) ==
    /\ hasher' = [hasher EXCEPT ![h] = [@ EXCEPT !.pc = "verify", !.keep = keep,
                                                 !.job = Head(leechQ)]]
    /\ leechQ' = Tail(leechQ)
    /\ passed' = [passed EXCEPT ![Head(leechQ)] = NotPassed]
    /\ UNCHANGED <<recheckQ, recheckLeft>>
StartRecheck(h) ==
    passed' = [j \in Jobs |-> IF j \in Queued THEN [passed[j] EXCEPT ![h] = @ + 1]
                              ELSE passed[j]]

\* The thread is done with its piece; a recheck job it kept comes next.
Answered(h) ==
    IF hasher[h].keep
      THEN hasher' = [hasher EXCEPT ![h] = [Resting EXCEPT !.pc = "rechecking"]]
           /\ StartRecheck(h)
      ELSE hasher' = [hasher EXCEPT ![h] = Resting] /\ UNCHANGED passed
workerRest == <<backend, stateVars, outcome, failLeft>>

\* First leech_rx.try_recv ...
TryLeech(h) ==
    /\ hasher[h].pc = "leech"
    /\ IF leechQ # <<>> THEN TakeLeech(h, FALSE)
       ELSE Goto(h, "recheck") /\ UNCHANGED queueVars
    /\ UNCHANGED workerRest

\* Seeded fault: a thread that has done one recheck job looks for the next.
TryRecheckAgain(h) ==
    /\ hasher[h].pc \in {"recheck", "leech"}
    /\ IF recheckQ > 0
         THEN /\ recheckQ' = recheckQ - 1 /\ StartRecheck(h)
              /\ Goto(h, "rechecking") /\ UNCHANGED <<leechQ, recheckLeft>>
         ELSE /\ hasher[h].pc = "recheck" /\ Goto(h, "wait") /\ UNCHANGED queueVars
    /\ UNCHANGED workerRest

\* ... then recheck_rx.try_recv ...
TryRecheck(h) ==
    /\ hasher[h].pc = "recheck"
    /\ IF recheckQ > 0
         THEN /\ recheckQ' = recheckQ - 1 /\ StartRecheck(h)
              /\ Goto(h, "rechecking") /\ UNCHANGED <<leechQ, recheckLeft>>
         ELSE Goto(h, "wait") /\ UNCHANGED queueVars
    /\ UNCHANGED workerRest

\* ... then block on both; a recheck job taken here lets a leech job go first.
Select(h) ==
    /\ hasher[h].pc = "wait"
    /\ \/ leechQ # <<>> /\ TakeLeech(h, FALSE)
       \/ /\ recheckQ > 0
          /\ recheckQ' = recheckQ - 1
          /\ Goto(h, "got") /\ UNCHANGED <<leechQ, recheckLeft, passed>>
    /\ UNCHANGED workerRest

LeechBeforeRecheck(h) ==
    /\ hasher[h].pc = "got"
    /\ IF leechQ # <<>>
         THEN TakeLeech(h, TRUE)
         ELSE /\ Goto(h, "rechecking") /\ StartRecheck(h)
              /\ UNCHANGED <<leechQ, recheckQ, recheckLeft>>
    /\ UNCHANGED workerRest

\* handle_recheck: read, hash, reply to the recheck thread.
Rechecked(h) ==
    /\ hasher[h].pc = "rechecking"
    /\ hasher' = [hasher EXCEPT ![h] = Resting]
    /\ UNCHANGED <<queueVars, workerRest>>

-----------------------------------------------------------------------------
(* DiskWorker::submit_write and try_restart, on a hash thread.             *)

\* The piece could not be handed over: WriteFail.
GiveUp(h) == Reply(hasher[h].job, "writeFail") /\ Answered(h)

submitRest == <<leechQ, recheckQ, recheckLeft>>

\* handle_verify: HashFail, or DiskWorker::submit_write, which looks at
\* dead_permanent and then clones the Arc of the backend in place.  (Two
\* sections in the code: the backend is not replaced once the flag is set.)
Verify(h) ==
    /\ hasher[h].pc = "verify"
    /\ \/ Fail /\ Reply(hasher[h].job, "hashFail") /\ Answered(h)
       \/ deadPermanent /\ GiveUp(h) /\ UNCHANGED failLeft
       \/ /\ ~deadPermanent
          /\ hasher' = [hasher EXCEPT ![h].pc = "send", ![h].gen = cur]
          /\ UNCHANGED <<outcome, passed, failLeft>>
    /\ UNCHANGED <<submitRest, backend, stateVars>>

\* SyncSender::send blocks while the channel is full ...
Listening(g) == backend[g].st \in {"starting", "up", "drain", "closing"}
Send(h) ==
    /\ hasher[h].pc \in {"send", "resend"}
    /\ LET g == hasher[h].gen IN
         /\ Listening(g) /\ Len(backend[g].chan) < Depth
         /\ backend' = [backend EXCEPT ![g].chan = Append(@, hasher[h].job)]
    /\ Answered(h)
    /\ UNCHANGED <<submitRest, stateVars, outcome, failLeft>>

\* ... and fails once the receiver is gone: restart, but only once per piece.
SendFails(h) ==
    /\ hasher[h].pc \in {"send", "resend"}
    /\ backend[hasher[h].gen].st = "dead"
    /\ IF hasher[h].pc = "send" THEN Goto(h, "restart") /\ UNCHANGED <<outcome, passed>>
       ELSE GiveUp(h)
    /\ UNCHANGED <<submitRest, backend, stateVars, failLeft>>

\* Under the state lock: the budget, then the cooldown, then reserve a slot.
\* Whose backend failed is not looked at.
TryRestart(h) ==
    /\ hasher[h].pc = "restart"
    /\ \/ /\ deadPermanent \/ restarts >= MaxRestarts
          /\ deadPermanent' = TRUE
          /\ GiveUp(h)
          /\ UNCHANGED <<restarts, cooling>>
       \/ /\ ~deadPermanent /\ restarts < MaxRestarts /\ cooling
          /\ GiveUp(h)
          /\ UNCHANGED <<deadPermanent, restarts, cooling>>
       \/ /\ ~deadPermanent /\ restarts < MaxRestarts /\ ~cooling
          /\ restarts' = restarts + 1 /\ cooling' = TRUE
          /\ hasher' = [hasher EXCEPT ![h].pc = "spawn", ![h].gen = restarts + 1]
          /\ UNCHANGED <<deadPermanent, outcome, passed>>
    /\ UNCHANGED <<submitRest, backend, cur, failLeft>>

\* spawn_backend outside the lock, then put it in place, unless the worker has
\* been given up meanwhile; the thread then drops the backend it replaced.
Spawn(h) ==
    /\ hasher[h].pc = "spawn"
    /\ IF deadPermanent THEN GiveUp(h) /\ UNCHANGED <<backend, cur>>
       ELSE /\ backend' = [backend EXCEPT ![hasher[h].gen] = NewBackend]
            /\ cur' = hasher[h].gen
            /\ hasher' = [hasher EXCEPT ![h].pc = "join", ![h].gen = cur]
            /\ UNCHANGED <<outcome, passed>>
    /\ UNCHANGED <<submitRest, restarts, cooling, deadPermanent, failLeft>>

SpawnFails(h) ==
    /\ hasher[h].pc = "spawn"
    /\ Fail
    /\ deadPermanent' = (deadPermanent \/ restarts >= MaxRestarts)
    /\ GiveUp(h)
    /\ UNCHANGED <<submitRest, backend, cur, restarts, cooling>>

\* The last owner of the old backend waits for its thread to end; then the one
\* retry, with the backend that is in place by now.
Idle(g) == backend[g].st = "dead" \/ (backend[g].chan = <<>> /\ backend[g].fly = {})
HeldByOther(h, g) ==
    \E k \in Hashers \ {h} : hasher[k].pc \in {"send", "resend"} /\ hasher[k].gen = g
Join(h) ==
    /\ hasher[h].pc = "join"
    /\ Idle(hasher[h].gen) \/ HeldByOther(h, hasher[h].gen)
    /\ hasher' = [hasher EXCEPT ![h].pc = "resend", ![h].gen = cur]
    /\ UNCHANGED <<queueVars, workerRest>>

CooldownOver ==
    /\ cooling /\ cooling' = FALSE
    /\ UNCHANGED <<queueVars, hasher, backend, cur, restarts, deadPermanent, outcome, failLeft>>

HashStep(h) ==
    \/ TryLeech(h) \/ TryRecheck(h) \/ Select(h) \/ LeechBeforeRecheck(h) \/ Rechecked(h)
    \/ Verify(h) \/ Send(h) \/ SendFails(h)
    \/ TryRestart(h) \/ Spawn(h) \/ SpawnFails(h) \/ Join(h)

-----------------------------------------------------------------------------
(* The thread of a backend (uring_main, thread_main).                      *)

backendRest == <<queueVars, hasher, stateVars>>
SetBackend(g, b) == backend' = [backend EXCEPT ![g] = b]

\* The thread sets its ring up, or ends with the receiver and what is in it.
Setup(g) ==
    /\ backend[g].st = "starting"
    /\ \/ SetBackend(g, [backend[g] EXCEPT !.st = "up"]) /\ UNCHANGED <<outcome, failLeft>>
       \/ /\ Fail
          /\ SetBackend(g, [NoBackend EXCEPT !.st = "dead"])
          /\ outcome' = [j \in Jobs |-> IF j \in In(g) THEN "lost" ELSE outcome[j]]
    /\ UNCHANGED backendRest

TakeWrite(g) ==
    /\ backend[g].st = "up"
    /\ backend[g].chan # <<>> /\ Cardinality(backend[g].fly) < Depth
    /\ SetBackend(g, [backend[g] EXCEPT !.fly = @ \cup {Head(backend[g].chan)},
                                        !.chan = Tail(@)])
    /\ UNCHANGED <<backendRest, outcome, failLeft>>

\* Every span of a piece is written, or one of them is not.
CompleteWrite(g) ==
    /\ backend[g].st = "up"
    /\ \E j \in backend[g].fly :
         /\ SetBackend(g, [backend[g] EXCEPT !.fly = @ \ {j}])
         /\ \/ Reply(j, "ok") /\ UNCHANGED failLeft
            \/ Fail /\ Reply(j, "writeFail")
    /\ UNCHANGED backendRest

\* submit_and_wait fails: fatal_drain_and_exit.
RingFails(g) ==
    /\ backend[g].st = "up" /\ backend[g].fly # {}
    /\ Fail
    /\ SetBackend(g, [backend[g] EXCEPT !.st = "drain"])
    /\ UNCHANGED <<backendRest, outcome>>

\* Completions still come, as failures; pieces without one are leaked.
DrainFlying(g) ==
    /\ backend[g].st = "drain" /\ backend[g].fly # {}
    /\ \E leaked \in SUBSET backend[g].fly :
         outcome' = [j \in Jobs |-> IF j \in leaked THEN "lost"
                                    ELSE IF j \in backend[g].fly THEN "writeFail"
                                    ELSE outcome[j]]
    /\ SetBackend(g, [backend[g] EXCEPT !.fly = {}])
    /\ UNCHANGED <<backendRest, failLeft>>

\* Seeded fault: what is left in the channel goes unanswered.
DrainChannelDropping(g) ==
    /\ backend[g].st = "drain" /\ backend[g].fly = {}
    /\ SetBackend(g, IF backend[g].chan # <<>> THEN [backend[g] EXCEPT !.chan = Tail(@)]
                     ELSE [backend[g] EXCEPT !.st = "closing"])
    /\ UNCHANGED <<backendRest, outcome, failLeft>>

DrainChannel(g) ==
    /\ backend[g].st = "drain" /\ backend[g].fly = {}
    /\ IF backend[g].chan # <<>>
         THEN /\ Reply(Head(backend[g].chan), "writeFail")
              /\ SetBackend(g, [backend[g] EXCEPT !.chan = Tail(@)])
         ELSE SetBackend(g, [backend[g] EXCEPT !.st = "closing"]) /\ UNCHANGED outcome
    /\ UNCHANGED <<backendRest, failLeft>>

\* drop(rx), after it was seen empty.
CloseChannel(g) ==
    /\ backend[g].st = "closing"
    /\ outcome' = [j \in Jobs |-> IF j \in In(g) THEN "lost" ELSE outcome[j]]
    /\ SetBackend(g, [NoBackend EXCEPT !.st = "dead"])
    /\ UNCHANGED <<backendRest, failLeft>>

BackendStep(g) ==
    Setup(g) \/ TakeWrite(g) \/ CompleteWrite(g) \/ RingFails(g)
        \/ DrainFlying(g) \/ DrainChannel(g) \/ CloseChannel(g)

DiskNext ==
    \/ SubmitRecheck \/ CooldownOver
    \/ \E h \in Hashers : HashStep(h)
    \/ \E g \in Gens : BackendStep(g)
=============================================================================
