-------------------------- MODULE WritePathProofs ---------------------------
(***************************************************************************)
(* TLAPS proofs about WritePath, for every value of its constants: any     *)
(* number of sessions, pieces, hash threads, restarts and failures.        *)
(*                                                                         *)
(* The state splits in two: the hash threads and the disk worker keep      *)
(* DiskInv by themselves (DiskStep), sessions only append to their queue   *)
(* and take their replies; sessions keep StagingInv, which ties each       *)
(* freelist's counter to the slots that assemble.                          *)
(*                                                                         *)
(* The last part follows each piece: PipeInv says that every piece is      *)
(* nowhere or in exactly one place, the queue, a hash thread, a channel, a *)
(* write in flight or a reply (One), and HashingIsSomewhere that a session *)
(* has a slot in the hash state exactly while its piece is somewhere.      *)
(***************************************************************************)
EXTENDS WritePath, SequenceTheorems, FiniteSetTheorems, TLAPS

USE StagingAssumption, DiskAssumption, WritePathAssumption

-----------------------------------------------------------------------------
(* The hash threads and the disk worker.                                   *)

\* Where a hash thread has a leech piece in its hands, and only there a recheck
\* job put aside.
Carrying == {"verify", "send", "restart", "spawn", "join", "resend"}
HashersOK ==
    /\ hasher \in [Hashers -> Hasher]
    /\ \A h \in Hashers : /\ hasher[h].pc \in Carrying => hasher[h].job \in Jobs
                          /\ hasher[h].keep => hasher[h].pc \in Carrying
PassedOK == passed \in [Jobs -> [Hashers -> Nat]]
DiskInv == DiskTypeOK /\ HashersOK

\* A thread that goes on keeps its shape (hash_worker_main).
LEMMA MoveType ==
  ASSUME HashersOK, NEW h \in Hashers, NEW n \in Hasher,
         n.pc \in Carrying => n.job \in Jobs, n.keep => n.pc \in Carrying,
         hasher' = [hasher EXCEPT ![h] = n]
  PROVE  HashersOK'
BY DEF HashersOK

\* The same for a thread that keeps its piece.
LEMMA GotoType ==
  ASSUME HashersOK, NEW h \in Hashers, NEW l \in HasherPcs,
         l \in Carrying <=> hasher[h].pc \in Carrying, Goto(h, l)
  PROVE  HashersOK'
<1> DEFINE n == [hasher[h] EXCEPT !.pc = l]
<1>1. hasher[h] \in Hasher
  BY DEF HashersOK
<1>2. n \in Hasher /\ n.pc = l /\ n.job = hasher[h].job /\ n.keep = hasher[h].keep
  BY <1>1 DEF Hasher
<1>3. hasher' = [hasher EXCEPT ![h] = n]
  BY DEF Goto
<1>4. (n.pc \in Carrying => n.job \in Jobs) /\ (n.keep => n.pc \in Carrying)
  BY <1>2 DEF HashersOK
<1> HIDE DEF n
<1>5. QED
  BY <1>2, <1>3, <1>4, MoveType

\* The same for a thread that turns to another backend.
LEMMA TurnType ==
  ASSUME HashersOK, NEW h \in Hashers, NEW l \in Carrying, NEW g \in Gens,
         hasher[h].pc \in Carrying,
         hasher' = [hasher EXCEPT ![h].pc = l, ![h].gen = g]
  PROVE  HashersOK'
<1> DEFINE n == [hasher[h] EXCEPT !.pc = l, !.gen = g]
<1>1. hasher[h] \in Hasher
  BY DEF HashersOK
<1>2. n \in Hasher /\ n.pc = l /\ n.job = hasher[h].job /\ n.keep = hasher[h].keep
  BY <1>1 DEF Hasher, Carrying, HasherPcs
<1>3. hasher' = [hasher EXCEPT ![h] = n]
  BY DEF HashersOK
<1>4. n.job \in Jobs
  BY <1>2 DEF HashersOK
<1> HIDE DEF n
<1>5. QED
  BY <1>2, <1>3, <1>4, MoveType

\* A recheck job that begins is counted for the pieces that wait.
LEMMA StartRecheckType ==
  ASSUME PassedOK, NEW h \in Hashers, StartRecheck(h)
  PROVE  PassedOK'
BY DEF PassedOK, StartRecheck

\* A thread that is done with its piece rests, or does the recheck job it kept.
LEMMA AnsweredType ==
  ASSUME HashersOK, PassedOK, NEW h \in Hashers, Answered(h)
  PROVE  HashersOK' /\ PassedOK'
<1>1. Resting \in Hasher /\ Resting.pc \notin Carrying /\ Resting.keep = FALSE
  BY DEF Resting, Hasher, HasherPcs, Gens, Carrying
<1> DEFINE r == [Resting EXCEPT !.pc = "rechecking"]
<1>2. r \in Hasher /\ r.pc \notin Carrying /\ r.keep = FALSE
  BY <1>1 DEF Hasher, HasherPcs, Carrying
<1> HIDE DEF r
<1>3. CASE hasher[h].keep
  <2>1. hasher' = [hasher EXCEPT ![h] = r] /\ StartRecheck(h)
    BY <1>3 DEF Answered, r
  <2>2. QED
    BY <1>2, <2>1, MoveType, StartRecheckType
<1>4. CASE ~hasher[h].keep
  BY <1>1, <1>4, MoveType DEF Answered, PassedOK
<1>5. QED
  BY <1>3, <1>4

\* A thread takes the first leech piece (leech_rx).
LEMMA TakeLeechType ==
  ASSUME HashersOK, PassedOK, leechQ \in Seq(Jobs), leechQ # <<>>,
         NEW h \in Hashers, NEW keep \in BOOLEAN, TakeLeech(h, keep)
  PROVE  HashersOK' /\ PassedOK' /\ leechQ' \in Seq(Jobs) /\ Head(leechQ) \in Jobs
<1> DEFINE n == [hasher[h] EXCEPT !.pc = "verify", !.keep = keep, !.job = Head(leechQ)]
<1>1. Head(leechQ) \in Jobs /\ Tail(leechQ) \in Seq(Jobs)
  OBVIOUS
<1>2. hasher[h] \in Hasher
  BY DEF HashersOK
<1>3. n \in Hasher /\ n.job \in Jobs /\ n.pc \in Carrying
  BY <1>1, <1>2 DEF Hasher, HasherPcs, Carrying
<1>4. hasher' = [hasher EXCEPT ![h] = n]
  BY DEF TakeLeech
<1>5. PassedOK' /\ leechQ' \in Seq(Jobs)
  BY <1>1 DEF TakeLeech, PassedOK, NotPassed
<1> HIDE DEF n
<1>6. QED
  BY <1>1, <1>3, <1>4, <1>5, MoveType

\* A backend that moves on keeps its shape (uring_main, thread_main).
LEMMA BackendType ==
  ASSUME backend \in [Gens -> Backend], NEW g \in Gens, NEW b \in Backend, SetBackend(g, b)
  PROVE  backend' \in [Gens -> Backend]
BY DEF SetBackend

\* An answer, and an answer for many pieces at once, keep the reply channels' shape.
LEMMA ReplyType ==
  ASSUME outcome \in [Jobs -> Outcomes \cup {"none", "lost"}], NEW j,
         NEW o \in Outcomes \cup {"none"}, Reply(j, o)
  PROVE  outcome' \in [Jobs -> Outcomes \cup {"none", "lost"}]
BY DEF Reply

\* A piece that is given up is answered with WriteFail.
LEMMA GiveUpType ==
  ASSUME DiskInv, NEW h \in Hashers, GiveUp(h)
  PROVE  HashersOK' /\ PassedOK' /\ outcome' \in [Jobs -> Outcomes \cup {"none", "lost"}]
<1>1. PassedOK /\ "writeFail" \in Outcomes
  BY DEF DiskInv, DiskTypeOK, PassedOK, Outcomes
<1>2. QED
  BY <1>1, AnsweredType, ReplyType DEF GiveUp, DiskInv, DiskTypeOK

\* No hash thread, restart or backend leaves the shapes, and a thread that
\* submits or restarts always has a piece to do it for.
LEMMA DiskStep ==
  ASSUME DiskInv, DiskNext PROVE DiskInv'
<1> USE DEF DiskInv
<1>0. DiskTypeOK /\ HashersOK /\ PassedOK
  BY DEF DiskTypeOK, PassedOK
<1>1. CASE SubmitRecheck
  BY <1>0, <1>1 DEF SubmitRecheck, DiskTypeOK, HashersOK, stateVars
<1>2. CASE CooldownOver
  BY <1>0, <1>2 DEF CooldownOver, DiskTypeOK, HashersOK, queueVars
<1>3. ASSUME NEW h \in Hashers, HashStep(h) PROVE DiskInv'
  <2>1. CASE TryLeech(h)
    <3>1. CASE leechQ # <<>>
      <4>1. TakeLeech(h, FALSE)
        BY <2>1, <3>1 DEF TryLeech
      <4>2. HashersOK' /\ PassedOK' /\ leechQ' \in Seq(Jobs)
        BY <1>0, <3>1, <4>1, TakeLeechType DEF DiskTypeOK
      <4>3. QED
        BY <2>1, <4>1, <4>2 DEF TryLeech, TakeLeech, DiskTypeOK, HashersOK, PassedOK, workerRest, stateVars
    <3>2. CASE leechQ = <<>>
      <4>1. Goto(h, "recheck") /\ UNCHANGED queueVars
        BY <2>1, <3>2 DEF TryLeech
      <4>2. HashersOK'
        BY <1>0, <2>1, <4>1, GotoType DEF TryLeech, HasherPcs, Carrying
      <4>3. QED
        BY <2>1, <4>1, <4>2 DEF TryLeech, DiskTypeOK, HashersOK, queueVars, workerRest, stateVars
    <3>3. QED
      BY <3>1, <3>2
  <2>2. CASE TryRecheck(h)
    <3>1. CASE recheckQ > 0
      <4>1. /\ recheckQ' = recheckQ - 1 /\ StartRecheck(h)
            /\ Goto(h, "rechecking") /\ UNCHANGED <<leechQ, recheckLeft>>
        BY <2>2, <3>1 DEF TryRecheck
      <4>2. HashersOK'
        BY <1>0, <2>2, <4>1, GotoType DEF TryRecheck, HasherPcs, Carrying
      <4>3. PassedOK' /\ recheckQ' \in Nat
        BY <1>0, <3>1, <4>1, StartRecheckType DEF DiskTypeOK
      <4>4. QED
        BY <2>2, <4>1, <4>2, <4>3 DEF TryRecheck, DiskTypeOK, HashersOK, PassedOK, workerRest, stateVars
    <3>2. CASE ~(recheckQ > 0)
      <4>1. Goto(h, "wait") /\ UNCHANGED queueVars
        BY <2>2, <3>2 DEF TryRecheck
      <4>2. HashersOK'
        BY <1>0, <2>2, <4>1, GotoType DEF TryRecheck, HasherPcs, Carrying
      <4>3. QED
        BY <2>2, <4>1, <4>2 DEF TryRecheck, DiskTypeOK, HashersOK, queueVars, workerRest, stateVars
    <3>3. QED
      BY <3>1, <3>2
  <2>3. CASE Select(h)
    <3>1. CASE leechQ # <<>> /\ TakeLeech(h, FALSE)
      <4>1. HashersOK' /\ PassedOK' /\ leechQ' \in Seq(Jobs)
        BY <1>0, <3>1, TakeLeechType DEF DiskTypeOK
      <4>2. QED
        BY <2>3, <3>1, <4>1 DEF Select, TakeLeech, DiskTypeOK, HashersOK, PassedOK, workerRest, stateVars
    <3>2. CASE /\ recheckQ > 0
               /\ recheckQ' = recheckQ - 1
               /\ Goto(h, "got") /\ UNCHANGED <<leechQ, recheckLeft, passed>>
      <4>1. HashersOK'
        BY <1>0, <2>3, <3>2, GotoType DEF Select, HasherPcs, Carrying
      <4>2. recheckQ' \in Nat
        BY <3>2 DEF DiskTypeOK
      <4>3. QED
        BY <2>3, <3>2, <4>1, <4>2 DEF Select, DiskTypeOK, HashersOK, workerRest, stateVars
    <3>3. QED
      BY <2>3, <3>1, <3>2 DEF Select
  <2>4. CASE LeechBeforeRecheck(h)
    <3>1. CASE leechQ # <<>>
      <4>1. TakeLeech(h, TRUE)
        BY <2>4, <3>1 DEF LeechBeforeRecheck
      <4>2. HashersOK' /\ PassedOK' /\ leechQ' \in Seq(Jobs)
        BY <1>0, <3>1, <4>1, TakeLeechType DEF DiskTypeOK
      <4>3. QED
        BY <2>4, <4>1, <4>2 DEF LeechBeforeRecheck, TakeLeech, DiskTypeOK, HashersOK, PassedOK, workerRest, stateVars
    <3>2. CASE leechQ = <<>>
      <4>1. Goto(h, "rechecking") /\ StartRecheck(h) /\ UNCHANGED <<leechQ, recheckQ, recheckLeft>>
        BY <2>4, <3>2 DEF LeechBeforeRecheck
      <4>2. HashersOK' /\ PassedOK'
        BY <1>0, <2>4, <4>1, GotoType, StartRecheckType DEF LeechBeforeRecheck, HasherPcs, Carrying
      <4>3. QED
        BY <2>4, <4>1, <4>2 DEF LeechBeforeRecheck, DiskTypeOK, HashersOK, PassedOK, workerRest, stateVars
    <3>3. QED
      BY <3>1, <3>2
  <2>5. CASE Rechecked(h)
    <3>1. Resting \in Hasher /\ Resting.pc \notin Carrying /\ Resting.keep = FALSE
      BY DEF Resting, Hasher, HasherPcs, Gens, Carrying
    <3>2. HashersOK'
      BY <1>0, <2>5, <3>1, MoveType DEF Rechecked
    <3>3. QED
      BY <2>5, <3>2 DEF Rechecked, DiskTypeOK, HashersOK, queueVars, workerRest, stateVars
  <2>6. CASE Verify(h)
    <3>1. CASE Fail /\ Reply(hasher[h].job, "hashFail") /\ Answered(h)
      <4>1. HashersOK' /\ PassedOK'
        BY <1>0, <3>1, AnsweredType
      <4>2. outcome' \in [Jobs -> Outcomes \cup {"none", "lost"}]
        BY <3>1, ReplyType DEF DiskTypeOK, Outcomes
      <4>4. failLeft' \in Nat
        BY <3>1 DEF DiskTypeOK, Fail
      <4>3. QED
        BY <2>6, <4>1, <4>2, <4>4 DEF Verify, DiskTypeOK, HashersOK, PassedOK, submitRest, stateVars
    <3>2. CASE deadPermanent /\ GiveUp(h) /\ UNCHANGED failLeft
      BY <2>6, <3>2, GiveUpType DEF Verify, DiskTypeOK, HashersOK, PassedOK, submitRest, stateVars
    <3>3. CASE /\ ~deadPermanent
               /\ hasher' = [hasher EXCEPT ![h].pc = "send", ![h].gen = cur]
               /\ UNCHANGED <<outcome, passed, failLeft>>
      <4>1. HashersOK'
        BY <1>0, <2>6, <3>3, TurnType DEF Verify, Carrying, DiskTypeOK
      <4>2. QED
        BY <2>6, <3>3, <4>1 DEF Verify, DiskTypeOK, HashersOK, submitRest, stateVars
    <3>4. QED
      BY <2>6, <3>1, <3>2, <3>3 DEF Verify
  <2>7. CASE Send(h)
    <3> DEFINE g == hasher[h].gen
               b == [backend[g] EXCEPT !.chan = Append(@, hasher[h].job)]
    <3>1. g \in Gens /\ hasher[h].job \in Jobs
      BY <1>0, <2>7 DEF Send, HashersOK, Hasher, Carrying
    <3>2. backend[g] \in Backend
      BY <3>1 DEF DiskTypeOK
    <3>3. b \in Backend
      <4>1. backend[g].chan \in Seq(Jobs)
        BY <3>2 DEF Backend
      <4>2. Append(backend[g].chan, hasher[h].job) \in Seq(Jobs)
        BY <3>1, <4>1
      <4>3. QED
        BY <3>2, <4>2 DEF Backend
    <3>4. SetBackend(g, b)
      BY <2>7 DEF Send, SetBackend
    <3> HIDE DEF b
    <3>5. backend' \in [Gens -> Backend]
      BY <3>1, <3>3, <3>4, BackendType DEF DiskTypeOK
    <3>6. HashersOK' /\ PassedOK'
      BY <1>0, <2>7, AnsweredType DEF Send
    <3>7. QED
      BY <2>7, <3>5, <3>6 DEF Send, DiskTypeOK, HashersOK, PassedOK, submitRest, stateVars
  <2>8. CASE SendFails(h)
    <3>1. CASE hasher[h].pc = "send"
      <4>1. Goto(h, "restart") /\ UNCHANGED <<outcome, passed>>
        BY <2>8, <3>1 DEF SendFails
      <4>2. HashersOK'
        BY <1>0, <2>8, <3>1, <4>1, GotoType DEF SendFails, HasherPcs, Carrying
      <4>3. QED
        BY <2>8, <4>1, <4>2 DEF SendFails, DiskTypeOK, HashersOK, submitRest, stateVars
    <3>2. CASE hasher[h].pc # "send"
      BY <2>8, <3>2, GiveUpType DEF SendFails, DiskTypeOK, HashersOK, PassedOK, submitRest, stateVars
    <3>3. QED
      BY <3>1, <3>2
  <2>9. CASE TryRestart(h)
    <3>1. CASE /\ deadPermanent' = TRUE
               /\ GiveUp(h)
               /\ UNCHANGED <<restarts, cooling>>
      BY <2>9, <3>1, GiveUpType DEF TryRestart, DiskTypeOK, HashersOK, PassedOK, submitRest
    <3>2. CASE /\ GiveUp(h)
               /\ UNCHANGED <<deadPermanent, restarts, cooling>>
      BY <2>9, <3>2, GiveUpType DEF TryRestart, DiskTypeOK, HashersOK, PassedOK, submitRest
    <3>3. CASE /\ restarts < MaxRestarts
               /\ restarts' = restarts + 1 /\ cooling' = TRUE
               /\ hasher' = [hasher EXCEPT ![h].pc = "spawn", ![h].gen = restarts + 1]
               /\ UNCHANGED <<deadPermanent, outcome, passed>>
      <4>1. restarts + 1 \in Gens
        BY <3>3 DEF DiskTypeOK, Gens
      <4>2. HashersOK'
        BY <1>0, <2>9, <3>3, <4>1, TurnType DEF TryRestart, Carrying
      <4>3. QED
        BY <2>9, <3>3, <4>1, <4>2 DEF TryRestart, DiskTypeOK, HashersOK, submitRest
    <3>4. QED
      BY <2>9, <3>1, <3>2, <3>3 DEF TryRestart
  <2>10. CASE Spawn(h)
    <3>1. CASE deadPermanent
      BY <2>10, <3>1, GiveUpType DEF Spawn, DiskTypeOK, HashersOK, PassedOK, submitRest
    <3>2. CASE ~deadPermanent
      <4>1. hasher[h].gen \in Gens
        BY <1>0 DEF HashersOK, Hasher
      <4>2. HashersOK'
        BY <1>0, <2>10, <3>2, TurnType DEF Spawn, Carrying, DiskTypeOK
      <4>3. NewBackend \in Backend
        <5>1. NoBackend \in Backend
          BY DEF NoBackend, Backend, BackendStates
        <5>2. QED
          BY <5>1 DEF NewBackend, Backend, BackendStates
      <4>4. backend' \in [Gens -> Backend]
        BY <2>10, <3>2, <4>1, <4>3 DEF Spawn, DiskTypeOK
      <4>5. QED
        BY <2>10, <3>2, <4>1, <4>2, <4>4 DEF Spawn, DiskTypeOK, HashersOK, submitRest
    <3>3. QED
      BY <3>1, <3>2
  <2>11. CASE SpawnFails(h)
    <3>1. failLeft' \in Nat /\ deadPermanent' \in BOOLEAN
      BY <2>11 DEF SpawnFails, Fail, DiskTypeOK
    <3>2. QED
      BY <2>11, <3>1, GiveUpType DEF SpawnFails, DiskTypeOK, HashersOK, PassedOK, submitRest
  <2>12. CASE Join(h)
    <3>1. HashersOK'
      BY <1>0, <2>12, TurnType DEF Join, Carrying, DiskTypeOK
    <3>2. QED
      BY <2>12, <3>1 DEF Join, DiskTypeOK, HashersOK, queueVars, workerRest, stateVars
  <2>13. QED
    BY <1>3, <2>1, <2>2, <2>3, <2>4, <2>5, <2>6, <2>7, <2>8, <2>9, <2>10, <2>11, <2>12 DEF HashStep
<1>4. ASSUME NEW g \in Gens, BackendStep(g) PROVE DiskInv'
  <2>1. /\ outcome' \in [Jobs -> Outcomes \cup {"none", "lost"}]
        /\ backend' \in [Gens -> Backend] /\ failLeft' \in Nat
        /\ UNCHANGED backendRest
    <3> USE DEF DiskTypeOK
    <3>0. backend[g] \in Backend
      OBVIOUS
    <3>d. [NoBackend EXCEPT !.st = "dead"] \in Backend
      <4>1. NoBackend \in Backend
        BY DEF NoBackend, Backend, BackendStates
      <4>2. QED
        BY <4>1 DEF Backend, BackendStates
    <3>t. ASSUME NEW st \in BackendStates PROVE [backend[g] EXCEPT !.st = st] \in Backend
      BY <3>0 DEF Backend
    <3>1. CASE Setup(g)
      BY <3>1, <3>d, <3>t, BackendType DEF Setup, Fail, BackendStates, backendRest
    <3>2. CASE TakeWrite(g)
      <4> DEFINE b == [backend[g] EXCEPT !.fly = @ \cup {Head(backend[g].chan)}, !.chan = Tail(@)]
      <4>1. backend[g].chan \in Seq(Jobs) /\ backend[g].chan # <<>> /\ backend[g].fly \subseteq Jobs
        BY <3>0, <3>2 DEF Backend, TakeWrite
      <4>2. Head(backend[g].chan) \in Jobs /\ Tail(backend[g].chan) \in Seq(Jobs)
        BY <4>1
      <4>3. b \in Backend
        BY <3>0, <4>1, <4>2 DEF Backend
      <4>4. SetBackend(g, b)
        BY <3>2 DEF TakeWrite
      <4> HIDE DEF b
      <4>5. QED
        BY <3>2, <4>3, <4>4, BackendType DEF TakeWrite, backendRest
    <3>3. CASE CompleteWrite(g)
      <4>1. PICK j \in backend[g].fly :
              /\ SetBackend(g, [backend[g] EXCEPT !.fly = @ \ {j}])
              /\ \/ Reply(j, "ok") /\ UNCHANGED failLeft
                 \/ Fail /\ Reply(j, "writeFail")
        BY <3>3 DEF CompleteWrite
      <4>2. [backend[g] EXCEPT !.fly = @ \ {j}] \in Backend
        BY <3>0 DEF Backend
      <4>3. outcome' \in [Jobs -> Outcomes \cup {"none", "lost"}]
        BY <4>1, ReplyType DEF Outcomes
      <4>4. QED
        BY <3>3, <4>1, <4>2, <4>3, BackendType DEF CompleteWrite, Fail, backendRest
    <3>4. CASE RingFails(g)
      BY <3>4, <3>t, BackendType DEF RingFails, Fail, BackendStates, backendRest
    <3>5. CASE DrainFlying(g)
      <4>1. [backend[g] EXCEPT !.fly = {}] \in Backend
        BY <3>0 DEF Backend
      <4>2. outcome' \in [Jobs -> Outcomes \cup {"none", "lost"}]
        BY <3>5 DEF DrainFlying, Outcomes
      <4>3. QED
        BY <3>5, <4>1, <4>2, BackendType DEF DrainFlying, backendRest
    <3>6. CASE DrainChannel(g)
      <4>1. CASE backend[g].chan # <<>>
        <5>1. backend[g].chan \in Seq(Jobs)
          BY <3>0 DEF Backend
        <5>2. Tail(backend[g].chan) \in Seq(Jobs)
          BY <4>1, <5>1
        <5>3. [backend[g] EXCEPT !.chan = Tail(@)] \in Backend
          BY <3>0, <5>2 DEF Backend
        <5>4. outcome' \in [Jobs -> Outcomes \cup {"none", "lost"}]
          BY <3>6, <4>1, ReplyType DEF DrainChannel, Outcomes
        <5>5. QED
          BY <3>6, <4>1, <5>3, <5>4, BackendType DEF DrainChannel, backendRest
      <4>2. CASE backend[g].chan = <<>>
        BY <3>6, <4>2, <3>t, BackendType DEF DrainChannel, BackendStates, backendRest
      <4>3. QED
        BY <4>1, <4>2
    <3>7. CASE CloseChannel(g)
      <4>1. outcome' \in [Jobs -> Outcomes \cup {"none", "lost"}]
        BY <3>7 DEF CloseChannel
      <4>2. QED
        BY <3>7, <3>d, <4>1, BackendType DEF CloseChannel, backendRest
    <3>8. QED
      BY <1>4, <3>1, <3>2, <3>3, <3>4, <3>5, <3>6, <3>7 DEF BackendStep
  <2>2. QED
    BY <2>1 DEF DiskTypeOK, HashersOK, backendRest, queueVars, stateVars
<1>5. QED
  BY <1>1, <1>2, <1>3, <1>4 DEF DiskNext

-----------------------------------------------------------------------------
(* The staging memory and the sessions.                                    *)

\* The buffers of a freelist that sessions assemble in.
Held(g) == {j \in Jobs : pool[j[1]] = g /\ slot[j[1]][j[2]] = "assembling"}

\* A session starts a piece only when it has read the torrent's freelist, and
\* none is left when it reads it again.
Unstarted ==
    \A p \in Sessions : pc[p] \in {"off", "ensure", "create", "take"}
        => \A k \in Slots : slot[p][k] = "none"

SessionTypeOK ==
    /\ pc \in [Actors -> Pcs]
    /\ leech \in [Sessions -> BOOLEAN]
    /\ slot \in [Sessions -> [Slots -> SlotStates]]
    /\ done \in BOOLEAN /\ prioLeft \in 0..MaxPrio

AssemblesInPool == \A p \in Sessions, k \in Slots : slot[p][k] = "assembling" => pool[p] # NoPool

StagingInv == StagingTypeOK /\ SessionTypeOK /\ AssemblesInPool /\ Unstarted /\ Budgeted

\* Budgeted, in terms of Held.
LEMMA BudgetByHeld ==
  Budgeted <=> \A g \in PoolIds : /\ pools[g].free + pools[g].out <= Capacity
                                  /\ pools[g].out = Cardinality(Held(g))
BY DEF Budgeted, Held

\* Finitely many pieces are assembled in a freelist.
LEMMA HeldFinite == \A g : IsFiniteSet(Held(g)) /\ Cardinality(Held(g)) \in Nat
<1>1. TAKE g
<1>2. Held(g) \in SUBSET Jobs
  BY DEF Held
<1>3. QED
  BY <1>2, FS_Subset, FS_CardinalityType

\* There is always a freelist no session refers to (PieceBufferPool::with_torrent
\* makes a new one): one more than there are sessions.
LEMMA FreshPool ==
  ASSUME StagingTypeOK PROVE \E g \in PoolIds : ~Owned(g, NoPool, pool)
<1>1. SUFFICES ASSUME \A g \in PoolIds : \E p \in Sessions : pool[p] = g PROVE FALSE
  BY DEF Owned, PoolIds
<1> DEFINE S == {p \in Sessions : pool[p] \in PoolIds}
           f == [p \in S |-> pool[p]]
<1>2. IsFiniteSet(S) /\ Cardinality(S) <= Cardinality(Sessions)
  BY FS_Subset
<1>3. Cardinality(Sessions) \in Nat /\ Cardinality(S) \in Nat
  BY <1>2, FS_CardinalityType
<1>4. f \in Surjection(S, PoolIds)
  BY <1>1 DEF Surjection, Range
<1>5. Cardinality(PoolIds) <= Cardinality(S)
  <2> HIDE DEF f, S
  <2>1. QED
    BY <1>2, <1>4, FS_Surjection
<1>6. Cardinality(PoolIds) = Cardinality(Sessions) + 1
  <2> DEFINE n == Cardinality(Sessions)
  <2>1. n \in Nat
    BY <1>3
  <2> HIDE DEF n
  <2>2. Cardinality(0..n) = n + 1
    <3>1. 0 \in Int /\ n \in Int /\ ~(0 > n) /\ n - 0 + 1 = n + 1
      BY <2>1
    <3>2. Cardinality(0..n) = IF 0 > n THEN 0 ELSE n - 0 + 1
      BY <3>1, FS_Interval, Zenon
    <3>3. QED
      BY <3>1, <3>2
  <2>3. QED
    BY <2>2 DEF PoolIds, n
<1>7. QED
  BY <1>2, <1>3, <1>5, <1>6

\* A step that neither starts nor ends an assembly keeps the buffers held.
LEMMA HeldSame ==
  ASSUME \A p \in Sessions, k \in Slots :
            /\ slot'[p][k] = "assembling" <=> slot[p][k] = "assembling"
            /\ slot[p][k] = "assembling" => pool'[p] = pool[p]
  PROVE  \A g : Held(g)' = Held(g)
<1>1. \A j \in Jobs : j[1] \in Sessions /\ j[2] \in Slots
  OBVIOUS
<1>2. QED
  BY <1>1 DEF Held

\* A step that starts an assembly, and one that ends it (try_start,
\* take_for_hash, clear, reclaim of an assembling slot).
LEMMA HeldMore ==
  ASSUME StagingInv, NEW p \in Sessions, NEW k \in Slots, slot[p][k] # "assembling",
         SetSlot(p, k, "assembling"), pool' = pool
  PROVE  \A g : Held(g)' = IF pool[p] = g THEN Held(g) \cup {<<p, k>>} ELSE Held(g)
<1>1. \A j \in Jobs : j[1] \in Sessions /\ j[2] \in Slots /\ j = <<j[1], j[2]>>
  OBVIOUS
<1>2. \A j \in Jobs : slot'[j[1]][j[2]] = IF j = <<p, k>> THEN "assembling" ELSE slot[j[1]][j[2]]
  BY <1>1 DEF SetSlot, StagingInv, SessionTypeOK
<1>3. <<p, k>> \in Jobs
  OBVIOUS
<1>4. QED
  BY <1>1, <1>2, <1>3 DEF Held

\* A slot that stops assembling leaves one freelist.
LEMMA HeldLess ==
  ASSUME StagingInv, NEW p \in Sessions, NEW k \in Slots, NEW s \in SlotStates, s # "assembling",
         SetSlot(p, k, s), pool' = pool
  PROVE  \A g : Held(g)' = IF pool[p] = g THEN Held(g) \ {<<p, k>>} ELSE Held(g)
<1>1. \A j \in Jobs : j[1] \in Sessions /\ j[2] \in Slots /\ j = <<j[1], j[2]>>
  OBVIOUS
<1>2. \A j \in Jobs : slot'[j[1]][j[2]] = IF j = <<p, k>> THEN s ELSE slot[j[1]][j[2]]
  BY <1>1 DEF SetSlot, StagingInv, SessionTypeOK
<1>3. QED
  BY <1>1, <1>2 DEF Held

\* A freelist that loses its last owner holds no buffer (Arc drop).
LEMMA DroppedFits ==
  ASSUME StagingInv, pools' = Dropped(shared', pool'), \A g : Held(g)' = Held(g)
  PROVE  pools' \in [PoolIds -> [free : Nat, out : Nat]] /\ Budgeted'
<1>1. pools' \in [PoolIds -> [free : Nat, out : Nat]]
  BY DEF Dropped, EmptyPool, StagingInv, StagingTypeOK
<1>2. ASSUME NEW g \in PoolIds
      PROVE  pools'[g].free + pools'[g].out <= Capacity /\ pools'[g].out = Cardinality(Held(g)')
  <2>1. CASE Owned(g, shared', pool')
    <3>1. pools'[g] = pools[g]
      BY <2>1 DEF Dropped
    <3>2. Held(g)' = Held(g)
      OBVIOUS
    <3>3. QED
      BY <3>1, <3>2, BudgetByHeld DEF StagingInv
  <2>2. CASE ~Owned(g, shared', pool')
    <3>1. pools'[g] = EmptyPool
      BY <2>2 DEF Dropped
    <3>2. Held(g)' = {}
      BY <2>2 DEF Owned, Held
    <3>3. QED
      BY <3>1, <3>2, FS_EmptySet DEF EmptyPool
  <2>3. QED
    BY <2>1, <2>2
<1>3. Budgeted'
  BY <1>2 DEF Budgeted, Held
<1>4. QED
  BY <1>1, <1>3

\* A buffer that comes back joins the freelist only within the budget.
LEMMA RecycledFits ==
  ASSUME NEW b \in [free : Nat, out : Nat], b.free + b.out <= Capacity
  PROVE  /\ Recycled(b) \in [free : Nat, out : Nat]
         /\ Recycled(b).free + Recycled(b).out <= Capacity /\ Recycled(b).out = b.out
BY DEF Recycled

\* The budget after one freelist has changed from b to c, against the buffers held.
LEMMA OnePoolFits ==
  ASSUME StagingInv, NEW g \in PoolIds, NEW c \in [free : Nat, out : Nat],
         pools' = [pools EXCEPT ![g] = c], c.free + c.out <= Capacity,
         c.out = Cardinality(Held(g)'), \A e \in PoolIds \ {g} : Held(e)' = Held(e)
  PROVE  pools' \in [PoolIds -> [free : Nat, out : Nat]] /\ Budgeted'
<1>1. pools' \in [PoolIds -> [free : Nat, out : Nat]]
  BY DEF StagingInv, StagingTypeOK
<1>2. ASSUME NEW e \in PoolIds
      PROVE  pools'[e].free + pools'[e].out <= Capacity /\ pools'[e].out = Cardinality(Held(e)')
  <2>1. CASE e = g
    BY <2>1 DEF StagingInv, StagingTypeOK
  <2>2. CASE e # g
    BY <2>2, BudgetByHeld DEF StagingInv, StagingTypeOK
  <2>3. QED
    BY <2>1, <2>2
<1>3. QED
  BY <1>1, <1>2 DEF Budgeted, Held

\* Starting a piece in a budget that has room (try_acquire).
LEMMA AcquireFits ==
  ASSUME StagingInv, NEW p \in Sessions, NEW k \in Slots, slot[p][k] # "assembling",
         pool[p] # NoPool, CanAcquire(pool[p]), Acquire(pool[p]),
         SetSlot(p, k, "assembling"), pool' = pool
  PROVE  pools' \in [PoolIds -> [free : Nat, out : Nat]] /\ Budgeted'
<1>1. PICK g \in PoolIds : g = pool[p]
  BY DEF StagingInv, StagingTypeOK
<1> DEFINE c == [free |-> IF pools[g].free > 0 THEN pools[g].free - 1 ELSE 0,
                 out |-> pools[g].out + 1]
<1>2. /\ pools[g] \in [free : Nat, out : Nat] /\ pools[g].free + pools[g].out <= Capacity
      /\ pools[g].out = Cardinality(Held(g))
  BY <1>1, BudgetByHeld DEF StagingInv, StagingTypeOK
<1>3. c \in [free : Nat, out : Nat] /\ c.free + c.out <= Capacity /\ c.out = pools[g].out + 1
  BY <1>1, <1>2 DEF CanAcquire
<1>4. pools' = [pools EXCEPT ![g] = c]
  BY <1>1 DEF Acquire
<1>5. <<p, k>> \notin Held(g)
  BY DEF Held
<1>6. Held(g)' = Held(g) \cup {<<p, k>>} /\ \A e \in PoolIds \ {g} : Held(e)' = Held(e)
  BY <1>1, HeldMore
<1>7. Cardinality(Held(g)') = Cardinality(Held(g)) + 1
  BY <1>5, <1>6, HeldFinite, FS_AddElement
<1> HIDE DEF c
<1>8. QED
  BY <1>1, <1>2, <1>3, <1>4, <1>6, <1>7, OnePoolFits

\* A buffer that leaves the slot it was assembled in, with its budget: given
\* back (clear, reclaim) or handed to the hash threads (take_for_hash).
LEMMA GiveBackFits ==
  ASSUME StagingInv, NEW p \in Sessions, NEW k \in Slots, slot[p][k] = "assembling",
         NEW s \in SlotStates, s # "assembling", SetSlot(p, k, s), pool' = pool,
         \/ Release(pool[p])
         \/ Detach(pool[p])
  PROVE  pools' \in [PoolIds -> [free : Nat, out : Nat]] /\ Budgeted'
<1>1. PICK g \in PoolIds : g = pool[p]
  BY DEF StagingInv, StagingTypeOK, AssemblesInPool
<1> DEFINE d == Detached(pools[g])
<1>2. /\ pools[g] \in [free : Nat, out : Nat] /\ pools[g].free + pools[g].out <= Capacity
      /\ pools[g].out = Cardinality(Held(g))
  BY <1>1, BudgetByHeld DEF StagingInv, StagingTypeOK
<1>3. <<p, k>> \in Held(g)
  BY <1>1 DEF Held
<1>4. Held(g)' = Held(g) \ {<<p, k>>} /\ \A e \in PoolIds \ {g} : Held(e)' = Held(e)
  BY <1>1, HeldLess
<1>5. Cardinality(Held(g)') = Cardinality(Held(g)) - 1 /\ Cardinality(Held(g)') \in Nat
  <2>1. Cardinality(Held(g) \ {<<p, k>>}) = Cardinality(Held(g)) - 1
    BY <1>3, HeldFinite, FS_RemoveElement
  <2>2. IsFiniteSet(Held(g) \ {<<p, k>>})
    BY HeldFinite, FS_RemoveElement
  <2>3. Cardinality(Held(g) \ {<<p, k>>}) \in Nat
    BY <2>2, FS_CardinalityType
  <2>4. QED
    BY <1>4, <2>1, <2>3
<1>6. /\ d \in [free : Nat, out : Nat] /\ d.free = pools[g].free
      /\ d.out = pools[g].out - 1
  BY <1>2, <1>5 DEF Detached
<1>7. d.free + d.out <= Capacity
  BY <1>2, <1>6
<1>8. Recycled(d) \in [free : Nat, out : Nat]
      /\ Recycled(d).free + Recycled(d).out <= Capacity /\ Recycled(d).out = d.out
  BY <1>6, <1>7, RecycledFits
<1>9. pools' = [pools EXCEPT ![g] = Recycled(d)] \/ pools' = [pools EXCEPT ![g] = d]
  <2>1. CASE Release(pool[p])
    BY <1>1, <2>1 DEF Release
  <2>2. CASE Detach(pool[p])
    BY <1>1, <2>2 DEF Detach
  <2>3. QED
    BY <2>1, <2>2
<1> HIDE DEF d
<1>10. QED
  BY <1>1, <1>2, <1>4, <1>5, <1>6, <1>7, <1>8, <1>9, OnePoolFits

\* A detached buffer that joins a freelist (donate).
LEMMA DonateFits ==
  ASSUME StagingInv, NEW g \in PoolIds \cup {NoPool}, Donate(g), \A e : Held(e)' = Held(e)
  PROVE  pools' \in [PoolIds -> [free : Nat, out : Nat]] /\ Budgeted'
<1>1. CASE g = NoPool
  <2>1. pools' = pools
    BY <1>1 DEF Donate
  <2>2. QED
    BY ZenonT(60), <2>1, BudgetByHeld DEF StagingInv, StagingTypeOK, Budgeted, Held
<1>2. CASE g # NoPool
  <2>1. g \in PoolIds /\ pools' = [pools EXCEPT ![g] = Recycled(pools[g])]
    BY <1>2 DEF Donate
  <2>2. /\ pools[g] \in [free : Nat, out : Nat] /\ pools[g].free + pools[g].out <= Capacity
        /\ pools[g].out = Cardinality(Held(g))
    BY <2>1, BudgetByHeld DEF StagingInv, StagingTypeOK
  <2>3. QED
    BY <2>1, <2>2, RecycledFits, OnePoolFits
<1>3. QED
  BY <1>1, <1>2

\* Before a session has read the freelist.
Early == {"off", "ensure", "create", "take"}

\* A step of one task that touches no buffer keeps the budget, and the tasks'
\* shapes as long as it does not fall back to where no piece is started.
LEMMA QuietStep ==
  ASSUME StagingInv, UNCHANGED <<pools, pool, slot>>,
         shared' \in PoolIds \cup {NoPool},
         leech' \in [Sessions -> BOOLEAN], done' \in BOOLEAN, prioLeft' \in 0..MaxPrio,
         NEW a \in Actors, NEW l \in Pcs, pc' = [pc EXCEPT ![a] = l],
         a \in Sessions /\ l \in Early => pc[a] \in Early
  PROVE  StagingInv'
<1>1. StagingTypeOK' /\ SessionTypeOK' /\ AssemblesInPool'
  BY DEF StagingInv, StagingTypeOK, SessionTypeOK, AssemblesInPool
<1>2. Budgeted'
  BY DEF StagingInv, Budgeted
<1>3. Unstarted'
  BY DEF StagingInv, SessionTypeOK, Unstarted, Early, Actors
<1>4. QED
  BY <1>1, <1>2, <1>3 DEF StagingInv

\* ensure_staging_pool, release_staging_pool and set_file_priority.
LEMMA EnsureKeeps ==
  ASSUME StagingInv, NEW a \in Actors, EnsureStep(a) PROVE StagingInv'
<1>0. SessionTypeOK /\ StagingTypeOK
  BY DEF StagingInv
<1>1. CASE EnsureCheck(a)
  <2> DEFINE l == IF ~done THEN "create" ELSE IF a = Mutator THEN "idle" ELSE "take"
  <2>1. PICK m \in Pcs : m = l
    BY DEF Pcs
  <2>2. pc' = [pc EXCEPT ![a] = m] /\ pc[a] \in Early
    BY <1>1, <2>1 DEF EnsureCheck, Go, At, Early
  <2>3. QED
    BY <1>0, <1>1, <2>2, QuietStep DEF EnsureCheck, poolVars, SessionTypeOK, StagingTypeOK
<1>2. CASE EnsureCreate(a)
  <2>1. PICK m \in Pcs : m = IF a = Mutator THEN "idle" ELSE "take"
    BY DEF Pcs
  <2>2. pc' = [pc EXCEPT ![a] = m] /\ pc[a] \in Early
    BY <1>2, <2>1 DEF EnsureCreate, Go, At, Early
  <2>3. shared' \in PoolIds \cup {NoPool}
    BY <1>0, <1>2, FreshPool DEF EnsureCreate, EnsurePool, StagingTypeOK
  <2>4. QED
    BY <1>0, <1>2, <2>2, <2>3, QuietStep DEF EnsureCreate, EnsurePool, SessionTypeOK
<1>3. CASE ReleaseShared(a)
  <2>1. UNCHANGED <<pool, slot>> /\ shared' = NoPool /\ pools' = Dropped(shared', pool')
    BY <1>3 DEF ReleaseShared, ReleasePool
  <2>2. \A g : Held(g)' = Held(g)
    BY <2>1, HeldSame
  <2>3. pools' \in [PoolIds -> [free : Nat, out : Nat]] /\ Budgeted'
    BY <2>1, <2>2, DroppedFits
  <2>4. StagingTypeOK' /\ AssemblesInPool'
    BY <1>0, <2>1, <2>3 DEF StagingTypeOK, StagingInv, AssemblesInPool
  <2>5. SessionTypeOK' /\ Unstarted'
    BY <1>0, <1>3, <2>1 DEF ReleaseShared, Go, At, SessionTypeOK, Unstarted, StagingInv, Pcs, Actors
  <2>6. QED
    BY <2>3, <2>4, <2>5 DEF StagingInv
<1>4. QED
  BY <1>1, <1>2, <1>3 DEF EnsureStep

\* Priorities and the last piece move no buffer.
LEMMA PriorityKeeps ==
  ASSUME StagingInv, SetFilePriority \/ Decide PROVE StagingInv'
<1>0. SessionTypeOK /\ StagingTypeOK /\ Mutator \in Actors
  BY DEF StagingInv, Actors
<1>1. CASE SetFilePriority
  <2>1. prioLeft' \in 0..MaxPrio /\ done' \in BOOLEAN
    BY <1>0, <1>1 DEF SetFilePriority, SessionTypeOK
  <2>2. QED
    BY <1>0, <1>1, <2>1, QuietStep DEF SetFilePriority, Go, poolVars, SessionTypeOK, StagingTypeOK, Pcs
<1>2. CASE Decide
  <2>1. PICK m \in Pcs : m = IF done THEN "release" ELSE "ensure"
    BY DEF Pcs
  <2>2. pc' = [pc EXCEPT ![Mutator] = m]
    BY <1>2, <2>1 DEF Decide, Go
  <2>3. QED
    BY <1>0, <1>2, <2>2, QuietStep DEF Decide, poolVars, SessionTypeOK, StagingTypeOK
<1>3. QED
  BY <1>1, <1>2

\* A session that moves on without touching a buffer.
LEMMA SessionMoves ==
  ASSUME StagingInv, NEW p \in Sessions,
         \/ Connect(p) \/ ReInterest(p) \/ LeechDone(p) \/ Disconnect(p) \/ Cleared(p) \/ Marked(p)
  PROVE  StagingInv'
<1>0. SessionTypeOK /\ StagingTypeOK /\ p \in Actors /\ pc = [pc EXCEPT ![p] = pc[p]] /\ pc[p] \in Pcs
  BY DEF StagingInv, Actors, SessionTypeOK
<1>1. CASE Connect(p)
  <2>1. PICK m \in Pcs : m = IF done THEN "idle" ELSE "ensure"
    BY DEF Pcs
  <2>2. pc' = [pc EXCEPT ![p] = m] /\ pc[p] \in Early
    BY <1>1, <2>1 DEF Connect, Go, At, Early
  <2>3. QED
    BY <1>0, <1>1, <2>2, QuietStep DEF Connect, poolVars, SessionTypeOK, StagingTypeOK
<1>2. CASE ReInterest(p)
  <2>1. PICK m \in Pcs : m = pc[p]
    BY <1>0
  <2>2. pc' = [pc EXCEPT ![p] = m] /\ leech' \in [Sessions -> BOOLEAN]
    BY <1>0, <1>2, <2>1 DEF ReInterest, SessionTypeOK
  <2>3. QED
    BY <1>0, <1>2, <2>1, <2>2, QuietStep DEF ReInterest, poolVars, SessionTypeOK, StagingTypeOK
<1>3. CASE LeechDone(p)
  BY <1>0, <1>3, QuietStep DEF LeechDone, Go, poolVars, SessionTypeOK, StagingTypeOK, Pcs, Early
<1>4. CASE Disconnect(p)
  BY <1>0, <1>4, QuietStep DEF Disconnect, Go, poolVars, SessionTypeOK, StagingTypeOK, Pcs, Early
<1>5. CASE Cleared(p)
  BY <1>0, <1>5, QuietStep DEF Cleared, Go, poolVars, SessionTypeOK, StagingTypeOK, Pcs, Early
<1>6. CASE Marked(p)
  <2>1. PICK m \in Pcs \ Early : m = IF done THEN "release" ELSE "idle"
    BY DEF Pcs, Early
  <2>2. pc' = [pc EXCEPT ![p] = m]
    BY <1>6, <2>1 DEF Marked, Go
  <2>3. QED
    BY <1>0, <1>6, <2>2, QuietStep DEF Marked, poolVars, SessionTypeOK, StagingTypeOK
<1>7. QED
  BY <1>1, <1>2, <1>3, <1>4, <1>5, <1>6

\* A session that reads the torrent's freelist, and one that ends, hold no buffer.
LEMMA SessionPools ==
  ASSUME StagingInv, NEW p \in Sessions, TakeShared(p) \/ Ended(p) PROVE StagingInv'
<1>0. SessionTypeOK /\ StagingTypeOK /\ Unstarted /\ AssemblesInPool
  BY DEF StagingInv
<1>1. CASE TakeShared(p)
  <2>1. /\ pool' = [pool EXCEPT ![p] = shared] /\ UNCHANGED <<pools, shared, slot>>
        /\ pc[p] = "take" /\ pc' = [pc EXCEPT ![p] = "idle"]
    BY <1>1 DEF TakeShared, TakePool, At, Go
  <2>2. \A k \in Slots : slot[p][k] = "none"
    BY <1>0, <2>1 DEF Unstarted
  <2>3. \A q \in Sessions, k \in Slots : slot[q][k] = "assembling" => q # p /\ pool'[q] = pool[q]
    BY <1>0, <2>1, <2>2 DEF StagingTypeOK
  <2>4. \A g : Held(g)' = Held(g)
    BY <2>1, <2>3, HeldSame
  <2>5. Budgeted'
    BY <2>1, <2>4, BudgetByHeld DEF StagingInv, Budgeted, Held
  <2>6. StagingTypeOK' /\ AssemblesInPool'
    BY <1>0, <2>1, <2>3 DEF StagingTypeOK, AssemblesInPool
  <2>7. SessionTypeOK' /\ Unstarted'
    BY <1>0, <1>1, <2>1 DEF TakeShared, SessionTypeOK, Unstarted, Pcs, Actors
  <2>8. QED
    BY <2>5, <2>6, <2>7 DEF StagingInv
<1>2. CASE Ended(p)
  <2>1. /\ pool' = [pool EXCEPT ![p] = NoPool] /\ pools' = Dropped(shared, pool') /\ shared' = shared
        /\ slot' = [slot EXCEPT ![p] = [k \in Slots |-> "none"]]
        /\ pc' = [pc EXCEPT ![p] = "off"]
        /\ \A k \in Slots : slot[p][k] # "assembling"
    BY <1>2 DEF Ended, LeavePool, Go, Assembling
  <2>2. \A q \in Sessions, k \in Slots :
           /\ slot'[q][k] = "assembling" <=> slot[q][k] = "assembling"
           /\ slot[q][k] = "assembling" => pool'[q] = pool[q]
    BY <1>0, <2>1 DEF SessionTypeOK, StagingTypeOK
  <2>3. \A g : Held(g)' = Held(g)
    BY <2>2, HeldSame
  <2>4. pools' \in [PoolIds -> [free : Nat, out : Nat]] /\ Budgeted'
    BY <2>1, <2>3, DroppedFits
  <2>5. StagingTypeOK' /\ AssemblesInPool'
    BY <1>0, <2>1, <2>2, <2>4 DEF StagingTypeOK, AssemblesInPool
  <2>6. SessionTypeOK'
    <3>1. slot' \in [Sessions -> [Slots -> SlotStates]]
      BY <1>0, <2>1 DEF SessionTypeOK, SlotStates
    <3>2. pc' \in [Actors -> Pcs]
      BY <1>0, <2>1 DEF SessionTypeOK, Pcs
    <3>3. QED
      BY <1>0, <1>2, <3>1, <3>2 DEF Ended, SessionTypeOK
  <2>7. Unstarted'
    BY <1>0, <2>1 DEF SessionTypeOK, Unstarted, Actors
  <2>8. QED
    BY <2>4, <2>5, <2>6, <2>7 DEF StagingInv
<1>3. QED
  BY <1>1, <1>2

\* What one slot's change leaves to show, once the freelists are known to fit.
LEMMA SlotStep ==
  ASSUME StagingInv, pools' \in [PoolIds -> [free : Nat, out : Nat]], Budgeted',
         UNCHANGED <<pool, shared>>, leech' \in [Sessions -> BOOLEAN],
         done' \in BOOLEAN, prioLeft' \in 0..MaxPrio,
         NEW p \in Sessions, NEW k \in Slots, NEW s \in SlotStates, SetSlot(p, k, s),
         s = "assembling" => pool[p] # NoPool, pc[p] \notin Early,
         NEW l \in Pcs \ Early, pc' = [pc EXCEPT ![p] = l]
  PROVE  StagingInv'
<1>1. StagingTypeOK'
  BY DEF StagingInv, StagingTypeOK
<1>2. SessionTypeOK' /\ AssemblesInPool'
  BY DEF StagingInv, SessionTypeOK, AssemblesInPool, SetSlot
<1>3. Unstarted'
  BY DEF StagingInv, SessionTypeOK, Unstarted, SetSlot, Early, Actors
<1>4. QED
  BY <1>1, <1>2, <1>3 DEF StagingInv

\* Every change of a slot keeps the budget (take_requests, handle_piece,
\* apply_hash_outcome, clear).
LEMMA SlotKeeps ==
  ASSUME StagingInv, NEW p \in Sessions, NEW k \in Slots,
         StartPiece(p, k) \/ PieceComplete(p, k) \/ HashTableGone(p, k) \/ ApplyOutcome(p, k)
  PROVE  StagingInv'
<1>0. /\ SessionTypeOK /\ StagingTypeOK /\ pc[p] = "idle" /\ "idle" \in Pcs \ Early
      /\ pc = [pc EXCEPT ![p] = "idle"]
  BY DEF StagingInv, StartPiece, PieceComplete, HashTableGone, ApplyOutcome, At, Pcs, Early, SessionTypeOK, Actors
<1>1. CASE StartPiece(p, k)
  <2>1. pools' \in [PoolIds -> [free : Nat, out : Nat]] /\ Budgeted'
    BY <1>1, AcquireFits DEF StartPiece
  <2>2. QED
    BY <1>0, <1>1, <2>1, SlotStep DEF StartPiece, SessionTypeOK, SlotStates
<1>2. CASE PieceComplete(p, k)
  <2>1. pools' \in [PoolIds -> [free : Nat, out : Nat]] /\ Budgeted'
    BY <1>2, GiveBackFits DEF PieceComplete, SlotStates
  <2>2. QED
    BY <1>0, <1>2, <2>1, SlotStep DEF PieceComplete, SessionTypeOK, SlotStates
<1>3. CASE HashTableGone(p, k)
  <2>1. pools' \in [PoolIds -> [free : Nat, out : Nat]] /\ Budgeted'
    BY <1>3, GiveBackFits DEF HashTableGone, SlotStates
  <2>2. "end" \in Pcs \ Early /\ leech' \in [Sessions -> BOOLEAN]
    BY <1>0, <1>3 DEF Pcs, Early, HashTableGone, SessionTypeOK
  <2>3. QED
    BY <1>0, <1>3, <2>1, <2>2, SlotStep DEF HashTableGone, Go, SessionTypeOK, SlotStates
<1>4. CASE ApplyOutcome(p, k)
  <2>1. PICK s \in SlotStates : s = IF slot[p][k] = "hashing" THEN "none" ELSE slot[p][k]
    BY <1>0 DEF SessionTypeOK, SlotStates
  <2>2. SetSlot(p, k, s) /\ Donate(pool[p]) /\ UNCHANGED <<shared, pool, leech, prioLeft>>
    BY <1>4, <2>1 DEF ApplyOutcome
  <2>3. \A g : Held(g)' = Held(g)
    BY <1>0, <2>1, <2>2, HeldSame DEF SetSlot, SessionTypeOK
  <2>4. PICK g \in PoolIds \cup {NoPool} : g = pool[p]
    BY <1>0 DEF StagingTypeOK
  <2>5. pools' \in [PoolIds -> [free : Nat, out : Nat]] /\ Budgeted'
    BY <2>2, <2>3, <2>4, DonateFits
  <2>6. PICK l \in Pcs \ Early : pc' = [pc EXCEPT ![p] = l]
    BY <1>0, <1>4 DEF ApplyOutcome, Go, Pcs, Early
  <2>7. s = "assembling" => pool[p] # NoPool
    BY <2>1 DEF StagingInv, AssemblesInPool
  <2>8. done' \in BOOLEAN
    BY <1>0, <1>4 DEF ApplyOutcome, SessionTypeOK
  <2>9. pc[p] \notin Early
    BY <1>0 DEF Early
  <2>10. QED
    BY <1>0, <2>2, <2>5, <2>6, <2>7, <2>8, <2>9, SlotStep DEF SessionTypeOK
<1>5. QED
  BY <1>1, <1>2, <1>3, <1>4

\* One buffer after the other goes back (StagingPool::clear).
LEMMA ClearKeeps ==
  ASSUME StagingInv, NEW p \in Sessions, ClearOne(p) PROVE StagingInv'
<1>0. /\ SessionTypeOK /\ StagingTypeOK /\ pc[p] \in Pcs \ Early
      /\ pc = [pc EXCEPT ![p] = pc[p]]
  BY DEF StagingInv, ClearOne, Pcs, Early, SessionTypeOK, Actors
<1>1. PICK k \in Slots : slot[p][k] = "assembling" /\ SetSlot(p, k, "none")
  BY DEF ClearOne, Assembling
<1>2. pools' \in [PoolIds -> [free : Nat, out : Nat]] /\ Budgeted'
  BY <1>1, GiveBackFits DEF ClearOne, SlotStates
<1>3. PICK l \in Pcs \ Early : l = pc[p]
  BY <1>0
<1>4. pc' = [pc EXCEPT ![p] = l] /\ pc[p] \notin Early
  BY <1>0, <1>3 DEF ClearOne
<1>5. QED
  BY <1>0, <1>1, <1>2, <1>4, SlotStep DEF ClearOne, SessionTypeOK, SlotStates

\* What the hash threads and the disk worker do touches no buffer of a session.
LEMMA StagingStutter ==
  ASSUME StagingInv, UNCHANGED <<poolVars, sessionVars>> PROVE StagingInv'
BY DEF StagingInv, StagingTypeOK, SessionTypeOK, AssemblesInPool, Unstarted, Budgeted, poolVars, sessionVars

\* Sessions submit pieces and take replies; they touch nothing else of the
\* hash threads and the disk worker.
LEMMA SubmitKeeps ==
  ASSUME DiskInv, NEW j \in Jobs, SubmitLeech(j) PROVE DiskInv'
<1>1. leechQ' \in Seq(Jobs)
  BY DEF DiskInv, DiskTypeOK, SubmitLeech
<1>2. QED
  BY <1>1 DEF DiskInv, DiskTypeOK, HashersOK, SubmitLeech, stateVars

\* The session that takes a reply leaves threads and backends alone.
LEMMA ReplyTaken ==
  ASSUME DiskInv, NEW j \in Jobs, Reply(j, "none"),
         UNCHANGED <<queueVars, hasher, backend, stateVars, failLeft>>
  PROVE DiskInv'
<1>1. outcome' \in [Jobs -> Outcomes \cup {"none", "lost"}]
  BY ReplyType DEF DiskInv, DiskTypeOK
<1>2. QED
  BY <1>1 DEF DiskInv, DiskTypeOK, HashersOK, queueVars, stateVars

\* Sessions leave threads and backends alone.
LEMMA DiskStutter ==
  ASSUME DiskInv, UNCHANGED diskVars PROVE DiskInv'
BY DEF DiskInv, DiskTypeOK, HashersOK, diskVars

WriteInv == StagingInv /\ DiskInv

\* No step of any task or thread breaks the invariant.
LEMMA WriteStep ==
  ASSUME WriteInv, [Next]_vars PROVE WriteInv'
<1> USE DEF WriteInv
<1>1. ASSUME NEW a \in Actors, EnsureStep(a) PROVE WriteInv'
  <2>1. UNCHANGED diskVars
    BY <1>1 DEF EnsureStep, EnsureCheck, EnsureCreate, ReleaseShared
  <2>2. QED
    BY <1>1, <2>1, EnsureKeeps, DiskStutter
<1>2. CASE SetFilePriority \/ Decide
  <2>1. UNCHANGED diskVars
    BY <1>2 DEF SetFilePriority, Decide
  <2>2. QED
    BY <1>2, <2>1, PriorityKeeps, DiskStutter
<1>3. ASSUME NEW p \in Sessions, SessionStep(p) PROVE WriteInv'
  <2>1. CASE Connect(p) \/ ReInterest(p) \/ LeechDone(p) \/ Disconnect(p) \/ Cleared(p) \/ Marked(p)
    <3>1. UNCHANGED diskVars
      BY <2>1 DEF Connect, ReInterest, LeechDone, Disconnect, Cleared, Marked
    <3>2. QED
      BY <2>1, <3>1, SessionMoves, DiskStutter
  <2>2. CASE TakeShared(p) \/ Ended(p)
    <3>1. UNCHANGED diskVars
      BY <2>2 DEF TakeShared, Ended
    <3>2. QED
      BY <2>2, <3>1, SessionPools, DiskStutter
  <2>3. CASE ClearOne(p)
    <3>1. UNCHANGED diskVars
      BY <2>3 DEF ClearOne
    <3>2. QED
      BY <2>3, <3>1, ClearKeeps, DiskStutter
  <2>4. ASSUME NEW k \in Slots,
               StartPiece(p, k) \/ PieceComplete(p, k) \/ HashTableGone(p, k)
                 \/ ApplyOutcome(p, k) \/ Discard(p, k)
        PROVE  WriteInv'
    <3>0. <<p, k>> \in Jobs
      OBVIOUS
    <3>1. CASE StartPiece(p, k) \/ HashTableGone(p, k)
      <4>1. UNCHANGED diskVars
        BY <3>1 DEF StartPiece, HashTableGone
      <4>2. QED
        BY <3>1, <4>1, SlotKeeps, DiskStutter
    <3>2. CASE PieceComplete(p, k)
      <4>1. SubmitLeech(<<p, k>>)
        BY <3>2 DEF PieceComplete
      <4>2. QED
        BY <3>0, <3>2, <4>1, SlotKeeps, SubmitKeeps
    <3>3. CASE ApplyOutcome(p, k)
      <4>1. Reply(<<p, k>>, "none") /\ UNCHANGED <<queueVars, hasher, backend, stateVars, failLeft>>
        BY <3>3 DEF ApplyOutcome
      <4>2. QED
        BY <3>0, <3>3, <4>1, SlotKeeps, ReplyTaken
    <3>4. CASE Discard(p, k)
      <4>1. Reply(<<p, k>>, "none") /\ UNCHANGED <<queueVars, hasher, backend, stateVars, failLeft>>
        BY <3>4 DEF Discard
      <4>2. UNCHANGED <<poolVars, sessionVars>>
        BY <3>4 DEF Discard
      <4>3. QED
        BY <3>0, <4>1, <4>2, StagingStutter, ReplyTaken
    <3>5. QED
      BY <2>4, <3>1, <3>2, <3>3, <3>4
  <2>5. QED
    BY <1>3, <2>1, <2>2, <2>3, <2>4 DEF SessionStep
<1>4. CASE DiskNext /\ UNCHANGED <<poolVars, sessionVars>>
  BY <1>4, DiskStep, StagingStutter
<1>5. CASE UNCHANGED vars
  BY <1>5, DiskStutter, StagingStutter DEF vars
<1>6. QED
  BY <1>1, <1>2, <1>3, <1>4, <1>5 DEF Next

\* The initial state satisfies WriteInv.
LEMMA WriteInit ==
  ASSUME Init PROVE WriteInv
<1>1. StagingTypeOK
  <2>1. 0 \in PoolIds
    BY FS_CardinalityType DEF PoolIds
  <2>2. EmptyPool \in [free : Nat, out : Nat]
    BY DEF EmptyPool
  <2>3. QED
    BY <2>1, <2>2 DEF Init, StagingInit, StagingTypeOK
<1>2. SessionTypeOK /\ AssemblesInPool /\ Unstarted
  BY DEF Init, SessionTypeOK, AssemblesInPool, Unstarted, Actors, Pcs, SlotStates
<1>3. Budgeted
  <2>1. \A g \in PoolIds : Held(g) = {}
    BY DEF Init, Held
  <2>2. \A g \in PoolIds : pools[g].free = 0 /\ pools[g].out = 0
    BY DEF Init, StagingInit, EmptyPool
  <2>3. Cardinality({}) = 0
    BY FS_EmptySet
  <2>4. \A g \in PoolIds : Cardinality(Held(g)) = 0
    BY <2>1, <2>3
  <2>5. QED
    BY <2>2, <2>4, BudgetByHeld
<1>4. Resting \in Hasher /\ Resting.pc \notin Carrying /\ Resting.keep = FALSE
  BY DEF Resting, Hasher, HasherPcs, Gens, Carrying
<1>5. HashersOK
  BY <1>4 DEF Init, DiskInit, HashersOK
<1>6. NoBackend \in Backend
  BY DEF NoBackend, Backend, BackendStates
<1>7. NewBackend \in Backend
  BY <1>6 DEF NewBackend, Backend, BackendStates
<1>8. backend \in [Gens -> Backend]
  BY <1>6, <1>7 DEF Init, DiskInit
<1>9. DiskTypeOK
  <2>1. leechQ \in Seq(Jobs) /\ recheckQ \in Nat /\ recheckLeft \in Nat /\ failLeft \in Nat
    BY DEF Init, DiskInit
  <2>2. cur \in Gens /\ restarts \in Gens /\ cooling \in BOOLEAN /\ deadPermanent \in BOOLEAN
    <3>1. 0 \in Gens
      BY DEF Gens
    <3>2. QED
      BY <3>1 DEF Init, DiskInit
  <2>3. /\ outcome \in [Jobs -> Outcomes \cup {"none", "lost"}]
        /\ passed \in [Jobs -> [Hashers -> Nat]]
    BY DEF Init, DiskInit
  <2>4. QED
    BY <1>5, <1>8, <2>1, <2>2, <2>3 DEF DiskTypeOK, HashersOK
<1>10. QED
  BY <1>1, <1>2, <1>3, <1>5, <1>9 DEF WriteInv, StagingInv, DiskInv

\* Every field of the write path keeps its shape, and only a session with a
\* freelist assembles pieces (StagingPool::try_start).
THEOREM WriteTypeCorrect == Spec => []TypeOK
<1>1. WriteInv => TypeOK
  BY DEF WriteInv, StagingInv, DiskInv, SessionTypeOK, AssemblesInPool, TypeOK
<1>2. QED
  BY <1>1, WriteInit, WriteStep, PTL DEF Spec

\* A freelist never holds more than its budget and never loses count of the
\* buffers sessions assemble in (PieceBufferPool).
THEOREM StaysInBudget == Spec => []Budgeted
<1>1. WriteInv => Budgeted
  BY DEF WriteInv, StagingInv
<1>2. QED
  BY <1>1, WriteInit, WriteStep, PTL DEF Spec

-----------------------------------------------------------------------------
(* Leech before recheck.                                                   *)

\* A thread between its look at an empty leech queue and the recheck job it
\* finds then, or with a recheck job it put aside for a leech piece.
Aside(h) == hasher[h].pc \in {"recheck", "wait", "got"} \/ hasher[h].keep

\* Why one recheck job is all: a thread that has done one passes through the
\* leech queue before the next, and finds the piece that waits.
LeechInv ==
    \A j \in Jobs, h \in Hashers :
        /\ passed[j][h] <= 1
        /\ j \notin Queued \/ Aside(h) => passed[j][h] = 0

\* Taking the first piece leaves the others where they are.
LEMMA QueueTail ==
  ASSUME leechQ \in Seq(Jobs), leechQ # <<>>, leechQ' = Tail(leechQ)
  PROVE  Queued' \subseteq Queued /\ Queued \subseteq Queued' \cup {Head(leechQ)}
<1>1. DOMAIN leechQ = 1..Len(leechQ) /\ Len(leechQ) \in Nat \ {0}
  OBVIOUS
<1>2. DOMAIN leechQ' = 1..(Len(leechQ) - 1) /\ \A k \in DOMAIN leechQ' : leechQ'[k] = leechQ[k + 1]
  BY <1>1
<1>3. Queued' \subseteq Queued
  BY <1>1, <1>2 DEF Queued
<1>4. ASSUME NEW k \in DOMAIN leechQ PROVE leechQ[k] \in Queued' \cup {Head(leechQ)}
  <2>1. CASE k = 1
    BY <2>1
  <2>2. CASE k # 1
    <3>1. k - 1 \in DOMAIN leechQ' /\ leechQ'[k - 1] = leechQ[k]
      BY <1>1, <1>2, <2>2
    <3>2. QED
      BY <3>1 DEF Queued
  <2>3. QED
    BY <2>1, <2>2
<1>5. QED
  BY <1>3, <1>4 DEF Queued

\* What is queued stays queued when another piece comes.
LEMMA QueueAppend ==
  ASSUME leechQ \in Seq(Jobs), NEW j \in Jobs, leechQ' = Append(leechQ, j)
  PROVE  Queued \subseteq Queued'
<1>1. \A k \in DOMAIN leechQ : k \in DOMAIN leechQ' /\ leechQ'[k] = leechQ[k]
  OBVIOUS
<1>2. QED
  BY <1>1 DEF Queued

\* Nothing is queued, taken or begun.
LEMMA LeechStutter ==
  ASSUME LeechInv, UNCHANGED <<leechQ, passed>>, \A h \in Hashers : Aside(h)' => Aside(h)
  PROVE  LeechInv'
BY DEF LeechInv, Queued

\* A thread that answers: it rests, or begins the recheck job it put aside.
LEMMA LeechAnswered ==
  ASSUME DiskInv, LeechInv, NEW h \in Hashers, Answered(h), UNCHANGED leechQ
  PROVE  LeechInv'
<1>0. passed \in [Jobs -> [Hashers -> Nat]] /\ hasher \in [Hashers -> Hasher]
  BY DEF DiskInv, DiskTypeOK
<1>1. CASE hasher[h].keep
  <2>1. /\ hasher' = [hasher EXCEPT ![h] = [Resting EXCEPT !.pc = "rechecking"]]
        /\ StartRecheck(h)
    BY <1>1 DEF Answered
  <2>2. ~Aside(h)' /\ \A q \in Hashers \ {h} : Aside(q)' <=> Aside(q)
    BY <1>0, <2>1 DEF Aside, Resting
  <2>3. \A j \in Jobs, q \in Hashers :
           passed'[j][q] = IF j \in Queued /\ q = h THEN passed[j][q] + 1 ELSE passed[j][q]
    BY <1>0, <2>1 DEF StartRecheck
  <2>4. \A j \in Jobs : passed[j][h] = 0
    BY <1>1 DEF LeechInv, Aside
  <2>5. Queued' = Queued
    BY DEF Queued
  <2>6. QED
    BY <1>0, <2>2, <2>3, <2>4, <2>5 DEF LeechInv
<1>2. CASE ~hasher[h].keep
  <2>1. hasher' = [hasher EXCEPT ![h] = Resting] /\ UNCHANGED passed
    BY <1>2 DEF Answered
  <2>2. ~Aside(h)' /\ \A q \in Hashers \ {h} : Aside(q)' <=> Aside(q)
    BY <1>0, <2>1 DEF Aside, Resting
  <2>3. QED
    BY <2>1, <2>2, LeechStutter
<1>3. QED
  BY <1>1, <1>2

\* A thread that takes a piece, with a recheck job put aside only if it had one.
LEMMA LeechTaken ==
  ASSUME DiskInv, LeechInv, NEW h \in Hashers, NEW keep \in BOOLEAN, leechQ # <<>>,
         TakeLeech(h, keep), keep => Aside(h)
  PROVE  LeechInv'
<1>0. /\ passed \in [Jobs -> [Hashers -> Nat]] /\ hasher \in [Hashers -> Hasher]
      /\ leechQ \in Seq(Jobs)
  BY DEF DiskInv, DiskTypeOK
<1>1. Queued' \subseteq Queued /\ Queued \subseteq Queued' \cup {Head(leechQ)}
  BY <1>0, QueueTail DEF TakeLeech
<1>2. \A q \in Hashers : Aside(q)' => Aside(q)
  <2>1. hasher'[h].pc = "verify" /\ hasher'[h].keep = keep
    BY <1>0 DEF TakeLeech, Hasher
  <2>2. \A q \in Hashers \ {h} : hasher'[q] = hasher[q]
    BY <1>0 DEF TakeLeech
  <2>3. QED
    BY <2>1, <2>2 DEF Aside
<1>3. \A j \in Jobs, q \in Hashers :
         passed'[j][q] = IF j = Head(leechQ) THEN 0 ELSE passed[j][q]
  BY <1>0 DEF TakeLeech, NotPassed
<1>4. QED
  BY <1>1, <1>2, <1>3 DEF LeechInv

\* A thread that begins the recheck job it found or put aside.
LEMMA LeechPassed ==
  ASSUME DiskInv, LeechInv, NEW h \in Hashers, hasher[h].pc \in {"recheck", "got"},
         ~hasher[h].keep, Goto(h, "rechecking"), StartRecheck(h), UNCHANGED leechQ
  PROVE  LeechInv'
<1>0. passed \in [Jobs -> [Hashers -> Nat]] /\ hasher \in [Hashers -> Hasher]
  BY DEF DiskInv, DiskTypeOK
<1>1. hasher'[h].pc = "rechecking" /\ hasher'[h].keep = hasher[h].keep
  BY <1>0 DEF Goto, Hasher
<1>2. ~Aside(h)' /\ \A q \in Hashers \ {h} : Aside(q)' <=> Aside(q)
  BY <1>0, <1>1 DEF Aside, Goto
<1>3. \A j \in Jobs, q \in Hashers :
         passed'[j][q] = IF j \in Queued /\ q = h THEN passed[j][q] + 1 ELSE passed[j][q]
  BY <1>0 DEF StartRecheck
<1>4. \A j \in Jobs : passed[j][h] = 0
  BY DEF LeechInv, Aside
<1>5. Queued' = Queued
  BY DEF Queued
<1>6. QED
  BY <1>0, <1>2, <1>3, <1>4, <1>5 DEF LeechInv

\* No thread begins a second recheck job while a piece waits.
LEMMA LeechHash ==
  ASSUME DiskInv, LeechInv, NEW h \in Hashers, HashStep(h) PROVE LeechInv'
<1>0. /\ hasher \in [Hashers -> Hasher] /\ passed \in [Jobs -> [Hashers -> Nat]]
      /\ hasher[h].pc \notin Carrying => ~hasher[h].keep
  BY DEF DiskInv, DiskTypeOK, HashersOK
<1>1. CASE TryLeech(h)
  <2>1. CASE leechQ # <<>>
    BY <1>1, <2>1, LeechTaken DEF TryLeech
  <2>2. CASE leechQ = <<>>
    <3>1. Goto(h, "recheck") /\ UNCHANGED <<leechQ, passed>>
      BY <1>1, <2>2 DEF TryLeech, queueVars
    <3>2. Queued = {} /\ Queued' = {}
      BY <2>2, <3>1 DEF Queued
    <3>3. QED
      BY <3>1, <3>2 DEF LeechInv
  <2>3. QED
    BY <2>1, <2>2
<1>2. CASE TryRecheck(h)
  <2>1. CASE recheckQ > 0
    BY <1>0, <1>2, <2>1, LeechPassed DEF TryRecheck, Carrying
  <2>2. CASE ~(recheckQ > 0)
    <3>1. Goto(h, "wait") /\ UNCHANGED <<leechQ, passed>>
      BY <1>2, <2>2 DEF TryRecheck, queueVars
    <3>2. \A q \in Hashers : Aside(q)' => Aside(q)
      BY <1>0, <1>2, <3>1 DEF TryRecheck, Goto, Aside
    <3>3. QED
      BY <3>1, <3>2, LeechStutter
  <2>3. QED
    BY <2>1, <2>2
<1>3. CASE Select(h)
  <2>1. CASE leechQ # <<>> /\ TakeLeech(h, FALSE)
    BY <2>1, LeechTaken
  <2>2. CASE Goto(h, "got") /\ UNCHANGED <<leechQ, recheckLeft, passed>>
    <3>1. \A q \in Hashers : Aside(q)' => Aside(q)
      BY <1>0, <1>3, <2>2 DEF Select, Goto, Aside
    <3>2. QED
      BY <2>2, <3>1, LeechStutter
  <2>3. QED
    BY <1>3, <2>1, <2>2 DEF Select
<1>4. CASE LeechBeforeRecheck(h)
  <2>1. CASE leechQ # <<>>
    BY <1>4, <2>1, LeechTaken DEF LeechBeforeRecheck, Aside
  <2>2. CASE leechQ = <<>>
    BY <1>0, <1>4, <2>2, LeechPassed DEF LeechBeforeRecheck, Carrying
  <2>3. QED
    BY <2>1, <2>2
<1>5. CASE Rechecked(h)
  <2>1. UNCHANGED <<leechQ, passed>> /\ hasher' = [hasher EXCEPT ![h] = Resting]
    BY <1>5 DEF Rechecked, queueVars
  <2>2. \A q \in Hashers : Aside(q)' => Aside(q)
    BY <1>0, <2>1 DEF Aside, Resting
  <2>3. QED
    BY <2>1, <2>2, LeechStutter
<1>6. ASSUME UNCHANGED leechQ, Answered(h) PROVE LeechInv'
  BY <1>6, LeechAnswered
<1>7. ASSUME UNCHANGED <<leechQ, passed>>, NEW l \in Carrying, NEW g,
             hasher' = [hasher EXCEPT ![h].pc = l, ![h].gen = g]
      PROVE  LeechInv'
  <2>1. \A q \in Hashers : Aside(q)' => Aside(q)
    BY <1>0, <1>7 DEF Aside, Carrying, Hasher
  <2>2. QED
    BY <1>7, <2>1, LeechStutter
<1>8. CASE Verify(h)
  BY <1>6, <1>7, <1>8 DEF Verify, GiveUp, submitRest, Carrying
<1>9. CASE Send(h)
  BY <1>6, <1>9 DEF Send, submitRest
<1>10. CASE SendFails(h)
  <2>1. CASE hasher[h].pc = "send"
    <3>1. Goto(h, "restart") /\ UNCHANGED <<leechQ, passed>>
      BY <1>10, <2>1 DEF SendFails, submitRest
    <3>2. \A q \in Hashers : Aside(q)' => Aside(q)
      BY <1>0, <3>1 DEF Goto, Aside, Hasher
    <3>3. QED
      BY <3>1, <3>2, LeechStutter
  <2>2. CASE hasher[h].pc # "send"
    BY <1>6, <1>10, <2>2 DEF SendFails, GiveUp, submitRest
  <2>3. QED
    BY <2>1, <2>2
<1>11. CASE TryRestart(h)
  BY <1>6, <1>7, <1>11 DEF TryRestart, GiveUp, submitRest, Carrying
<1>12. CASE Spawn(h)
  BY <1>6, <1>7, <1>12 DEF Spawn, GiveUp, submitRest, Carrying
<1>13. CASE SpawnFails(h)
  BY <1>6, <1>13 DEF SpawnFails, GiveUp, submitRest
<1>14. CASE Join(h)
  BY <1>7, <1>14 DEF Join, queueVars, Carrying
<1>15. QED
  BY <1>1, <1>2, <1>3, <1>4, <1>5, <1>8, <1>9, <1>10, <1>11, <1>12, <1>13, <1>14 DEF HashStep

\* Every step keeps LeechInv.
LEMMA LeechStep ==
  ASSUME WriteInv, LeechInv, [Next]_vars PROVE LeechInv'
<1> USE DEF WriteInv
<1>1. ASSUME UNCHANGED <<leechQ, passed, hasher>> PROVE LeechInv'
  BY <1>1, LeechStutter DEF Aside
<1>2. ASSUME UNCHANGED diskVars PROVE LeechInv'
  BY <1>1, <1>2 DEF diskVars
<1>3. ASSUME NEW a \in Actors, EnsureStep(a) PROVE LeechInv'
  BY <1>2, <1>3 DEF EnsureStep, EnsureCheck, EnsureCreate, ReleaseShared
<1>4. CASE SetFilePriority \/ Decide
  BY <1>2, <1>4 DEF SetFilePriority, Decide
<1>5. ASSUME NEW p \in Sessions, SessionStep(p) PROVE LeechInv'
  <2>1. CASE \/ Connect(p) \/ ReInterest(p) \/ LeechDone(p) \/ Disconnect(p) \/ Cleared(p)
             \/ Marked(p) \/ TakeShared(p) \/ Ended(p) \/ ClearOne(p)
    BY <1>2, <2>1 DEF Connect, ReInterest, LeechDone, Disconnect, Cleared, Marked, TakeShared, Ended, ClearOne
  <2>2. ASSUME NEW k \in Slots, PieceComplete(p, k) PROVE LeechInv'
    <3>1. leechQ \in Seq(Jobs) /\ <<p, k>> \in Jobs /\ leechQ' = Append(leechQ, <<p, k>>)
          /\ UNCHANGED <<passed, hasher>>
      BY <2>2 DEF PieceComplete, SubmitLeech, DiskInv, DiskTypeOK
    <3>2. Queued \subseteq Queued'
      BY <3>1, QueueAppend
    <3>3. \A q \in Hashers : Aside(q)' <=> Aside(q)
      BY <3>1 DEF Aside
    <3>4. QED
      BY <3>1, <3>2, <3>3 DEF LeechInv
  <2>3. ASSUME NEW k \in Slots, StartPiece(p, k) \/ HashTableGone(p, k) PROVE LeechInv'
    BY <1>2, <2>3 DEF StartPiece, HashTableGone
  <2>4. ASSUME NEW k \in Slots, ApplyOutcome(p, k) \/ Discard(p, k) PROVE LeechInv'
    BY <1>1, <2>4 DEF ApplyOutcome, Discard, queueVars
  <2>5. QED
    BY <1>5, <2>1, <2>2, <2>3, <2>4 DEF SessionStep
<1>6. CASE DiskNext
  <2>1. CASE SubmitRecheck \/ CooldownOver
    BY <1>1, <2>1 DEF SubmitRecheck, CooldownOver, queueVars
  <2>2. ASSUME NEW g \in Gens, BackendStep(g) PROVE LeechInv'
    BY <1>1, <2>2 DEF BackendStep, Setup, TakeWrite, CompleteWrite, RingFails, DrainFlying,
                      DrainChannel, CloseChannel, backendRest, queueVars
  <2>3. QED
    BY <1>6, <2>1, <2>2, LeechHash DEF DiskNext
<1>7. CASE UNCHANGED vars
  BY <1>2, <1>7 DEF vars
<1>8. QED
  BY <1>3, <1>4, <1>5, <1>6, <1>7 DEF Next

\* While a leech piece waits, each hash thread begins at most the one recheck
\* job it was about to take (hash_worker_main).
THEOREM LeechGoesFirst == Spec => []LeechFirst
<1>1. Init => LeechInv
  BY DEF Init, DiskInit, LeechInv
<1>2. LeechInv => LeechFirst
  BY DEF LeechInv, LeechFirst
<1>3. QED
  BY <1>1, <1>2, WriteInit, WriteStep, LeechStep, PTL DEF Spec

-----------------------------------------------------------------------------
(* One place for each piece.                                               *)

Elems(s) == {s[k] : k \in DOMAIN s}
DupFree(s) == \A i, k \in DOMAIN s : s[i] = s[k] => i = k

\* Where a piece is: the queue, hash threads, channels, writes in flight; an
\* answer in the reply channel is its outcome.
Threads(i) == {h \in Hashers : hasher[h].job = i}
Chans(i) == {g \in Gens : i \in In(g)}
Flies(i) == {g \in Gens : i \in backend[g].fly}

Nowhere(i) ==
    i \notin Queued /\ Threads(i) = {} /\ Chans(i) = {} /\ Flies(i) = {} /\ outcome[i] = "none"
OnlyQueued(i) ==
    i \in Queued /\ Threads(i) = {} /\ Chans(i) = {} /\ Flies(i) = {} /\ outcome[i] = "none"
OnlyThread(i) ==
    /\ i \notin Queued /\ Chans(i) = {} /\ Flies(i) = {} /\ outcome[i] = "none"
    /\ \E h \in Hashers : Threads(i) = {h}
OnlyChan(i) ==
    /\ i \notin Queued /\ Threads(i) = {} /\ Flies(i) = {} /\ outcome[i] = "none"
    /\ \E g \in Gens : Chans(i) = {g}
OnlyFly(i) ==
    /\ i \notin Queued /\ Threads(i) = {} /\ Chans(i) = {} /\ outcome[i] = "none"
    /\ \E g \in Gens : Flies(i) = {g}
OnlyReply(i) ==
    i \notin Queued /\ Threads(i) = {} /\ Chans(i) = {} /\ Flies(i) = {} /\ outcome[i] # "none"
Somewhere(i) == OnlyQueued(i) \/ OnlyThread(i) \/ OnlyChan(i) \/ OnlyFly(i) \/ OnlyReply(i)
One(i) == Nowhere(i) \/ Somewhere(i)

QueuesOK ==
    /\ DupFree(leechQ)
    /\ \A g \in Gens : DupFree(backend[g].chan) /\ Len(backend[g].chan) <= Depth
JobsHeld == \A h \in Hashers : hasher[h].pc \notin Carrying => hasher[h].job = NoJob
\* A backend is empty before it starts and when it has ended.
BackendsOK ==
    \A g \in Gens : /\ backend[g].st \in {"none", "dead"} => backend[g].chan = <<>>
                    /\ backend[g].st \notin {"up", "drain"} => backend[g].fly = {}
\* The slot that a thread has reserved is one that no backend was in yet.
SpawnsOK ==
    /\ \A g \in Gens : g > restarts => backend[g].st = "none"
    /\ \A h \in Hashers : hasher[h].pc = "spawn" =>
          hasher[h].gen <= restarts /\ backend[hasher[h].gen].st = "none"
    /\ \A h, k \in Hashers : hasher[h].pc = "spawn" /\ hasher[k].pc = "spawn"
                             /\ hasher[h].gen = hasher[k].gen => h = k

PipeInv == QueuesOK /\ JobsHeld /\ BackendsOK /\ SpawnsOK /\ \A i \in Jobs : One(i)
HashingIsSomewhere ==
    \A p \in Sessions, k \in Slots :
        pc[p] # "off" => (slot[p][k] = "hashing" <=> ~Nowhere(<<p, k>>))

\* A step moves a piece from one place to another, or leaves it where it is.
Same(i) ==
    /\ i \in Queued' <=> i \in Queued
    /\ Threads(i)' = Threads(i) /\ Chans(i)' = Chans(i) /\ Flies(i)' = Flies(i)
    /\ outcome'[i] = outcome[i]
Carried == \A i \in Jobs : Same(i) \/ (Somewhere(i) /\ Somewhere(i)')

\* A piece that moves from one place to another is still in one.
LEMMA CarriedKeeps ==
  ASSUME NEW i, Same(i) \/ (Somewhere(i) /\ Somewhere(i)')
  PROVE  (One(i) => One(i)') /\ (Nowhere(i)' <=> Nowhere(i))
<1>1. CASE Same(i)
  BY <1>1 DEF Same, One, Nowhere, Somewhere, OnlyQueued, OnlyThread, OnlyChan, OnlyFly, OnlyReply
<1>2. CASE Somewhere(i) /\ Somewhere(i)'
  BY <1>2 DEF One, Nowhere, Somewhere, OnlyQueued, OnlyThread, OnlyChan, OnlyFly, OnlyReply
<1>3. QED
  BY <1>1, <1>2

\* Where a piece was found is where it is.
LEMMA FoundThere ==
  ASSUME NEW i, One(i)
  PROVE  /\ i \in Queued => OnlyQueued(i)
         /\ \A h \in Hashers : hasher[h].job = i => OnlyThread(i) /\ Threads(i) = {h}
         /\ \A g \in Gens : i \in In(g) => OnlyChan(i) /\ Chans(i) = {g}
         /\ \A g \in Gens : i \in backend[g].fly => OnlyFly(i) /\ Flies(i) = {g}
<1>1. /\ \A h \in Hashers : hasher[h].job = i => h \in Threads(i)
      /\ \A g \in Gens : i \in In(g) => g \in Chans(i)
      /\ \A g \in Gens : i \in backend[g].fly => g \in Flies(i)
  BY DEF Threads, Chans, Flies
<1>2. QED
  BY <1>1 DEF One, Nowhere, Somewhere, OnlyQueued, OnlyThread, OnlyChan, OnlyFly, OnlyReply

\* Sequences without repetition that lose their first element or grow by one.
LEMMA TailElems ==
  ASSUME NEW S, NEW s \in Seq(S), s # <<>>
  PROVE  /\ Tail(s) \in Seq(S) /\ Head(s) \in S /\ Len(Tail(s)) = Len(s) - 1
         /\ Elems(s) = {Head(s)} \cup Elems(Tail(s))
         /\ DupFree(s) => Head(s) \notin Elems(Tail(s)) /\ DupFree(Tail(s))
<1> DEFINE t == Tail(s)
<1>1. /\ Len(s) \in Nat \ {0} /\ DOMAIN s = 1..Len(s) /\ Head(s) = s[1] /\ s[1] \in S
      /\ t \in Seq(S) /\ Len(t) = Len(s) - 1 /\ DOMAIN t = 1..(Len(s) - 1)
      /\ \A i \in 1..(Len(s) - 1) : t[i] = s[i + 1]
  OBVIOUS
<1> HIDE DEF t
<1>2. \A i \in 1..(Len(s) - 1) : i + 1 \in DOMAIN s /\ i + 1 # 1
  BY <1>1
<1>3. \A i \in DOMAIN s : i = 1 \/ (i - 1 \in 1..(Len(s) - 1) /\ t[i - 1] = s[i])
  BY <1>1
<1>4. Elems(t) \subseteq Elems(s) /\ Head(s) \in Elems(s)
  <2>1. \A i \in DOMAIN t : t[i] \in Elems(s)
    BY <1>1, <1>2 DEF Elems
  <2>2. Elems(t) \subseteq Elems(s)
    BY <2>1 DEF Elems
  <2>3. 1 \in DOMAIN s
    BY <1>1
  <2>4. Head(s) \in Elems(s)
    BY <1>1, <2>3 DEF Elems
  <2>5. QED
    BY <2>2, <2>4
<1>5. Elems(s) \subseteq {Head(s)} \cup Elems(t)
  <2>1. \A i \in DOMAIN s : s[i] \in {Head(s)} \cup Elems(t)
    BY <1>1, <1>3 DEF Elems
  <2>2. QED
    BY <2>1 DEF Elems
<1>6. ASSUME DupFree(s) PROVE Head(s) \notin Elems(t) /\ DupFree(t)
  <2>1. Head(s) \notin Elems(t)
    BY <1>1, <1>2, <1>6 DEF Elems, DupFree
  <2>2. \A i, k \in 1..(Len(s) - 1) : t[i] = t[k] => i + 1 = k + 1
    BY <1>1, <1>2, <1>6 DEF DupFree
  <2>3. QED
    BY <1>1, <2>1, <2>2 DEF DupFree
<1>7. QED
  BY <1>1, <1>4, <1>5, <1>6 DEF t

\* A new element keeps a queue free of doubles.
LEMMA AppendElems ==
  ASSUME NEW S, NEW s \in Seq(S), NEW e \in S
  PROVE  /\ Append(s, e) \in Seq(S) /\ Len(Append(s, e)) = Len(s) + 1
         /\ Elems(Append(s, e)) = Elems(s) \cup {e}
         /\ DupFree(s) /\ e \notin Elems(s) => DupFree(Append(s, e))
<1> DEFINE t == Append(s, e)
<1>1. /\ Len(s) \in Nat /\ DOMAIN s = 1..Len(s) /\ t \in Seq(S) /\ Len(t) = Len(s) + 1
      /\ DOMAIN t = 1..(Len(s) + 1) /\ t[Len(s) + 1] = e /\ \A i \in 1..Len(s) : t[i] = s[i]
  OBVIOUS
<1> HIDE DEF t
<1>2. Elems(t) = Elems(s) \cup {e}
  BY SMTT(20), <1>1 DEF Elems
<1>3. ASSUME DupFree(s), e \notin Elems(s) PROVE DupFree(t)
  BY <1>1, <1>3 DEF DupFree, Elems
<1>4. QED
  BY <1>1, <1>2, <1>3 DEF t

\* The queues as sets.
LEMMA QueueElems == Queued = Elems(leechQ) /\ \A g : In(g) = Elems(backend[g].chan)
BY DEF Queued, In, Elems

\* A thread that changes its job, a backend that changes what it has.
LEMMA ThreadMoves ==
  ASSUME HashersOK, NEW h \in Hashers, NEW n, hasher' = [hasher EXCEPT ![h] = n], NEW i
  PROVE  Threads(i)' = IF n.job = i THEN Threads(i) \cup {h} ELSE Threads(i) \ {h}
<1>1. hasher'[h] = n /\ \A k \in Hashers : k # h => hasher'[k] = hasher[k]
  BY DEF HashersOK
<1>2. \A k \in Hashers : k \in Threads(i)' <=> hasher'[k].job = i
  BY DEF Threads
<1>3. \A k \in Hashers : k \in Threads(i) <=> hasher[k].job = i
  BY DEF Threads
<1>4. Threads(i) \subseteq Hashers /\ Threads(i)' \subseteq Hashers
  BY DEF Threads
<1>5. QED
  BY <1>1, <1>2, <1>3, <1>4

\* A step of a backend changes its channel and its ring only.
LEMMA BackendMoves ==
  ASSUME backend \in [Gens -> Backend], NEW g \in Gens, NEW b, SetBackend(g, b), NEW i
  PROVE  /\ Chans(i)' = IF i \in Elems(b.chan) THEN Chans(i) \cup {g} ELSE Chans(i) \ {g}
         /\ Flies(i)' = IF i \in b.fly THEN Flies(i) \cup {g} ELSE Flies(i) \ {g}
<1>1. backend'[g] = b /\ \A e \in Gens : e # g => backend'[e] = backend[e]
  BY DEF SetBackend
<1>2. \A e \in Gens : /\ e \in Chans(i)' <=> i \in Elems(backend'[e].chan)
                      /\ e \in Flies(i)' <=> i \in backend'[e].fly
  BY DEF Chans, Flies, In, Elems
<1>3. \A e \in Gens : /\ e \in Chans(i) <=> i \in Elems(backend[e].chan)
                      /\ e \in Flies(i) <=> i \in backend[e].fly
  BY DEF Chans, Flies, In, Elems
<1>4. Chans(i) \subseteq Gens /\ Chans(i)' \subseteq Gens /\ Flies(i) \subseteq Gens /\ Flies(i)' \subseteq Gens
  BY DEF Chans, Flies
<1>5. Chans(i)' = IF i \in Elems(b.chan) THEN Chans(i) \cup {g} ELSE Chans(i) \ {g}
  BY <1>1, <1>2, <1>3, <1>4
<1>6. Flies(i)' = IF i \in b.fly THEN Flies(i) \cup {g} ELSE Flies(i) \ {g}
  BY <1>1, <1>2, <1>3, <1>4
<1>7. QED
  BY <1>5, <1>6

-----------------------------------------------------------------------------
\* What the steps of the threads and backends owe: the shape of the pipeline
\* and each piece carried.
Kept == QueuesOK' /\ JobsHeld' /\ BackendsOK' /\ SpawnsOK' /\ Carried

\* A step that carries every piece keeps PipeInv.
LEMMA KeptIs == ASSUME PipeInv, Kept PROVE PipeInv'
<1>1. \A i \in Jobs : One(i)'
  BY CarriedKeeps DEF PipeInv, Kept, Carried
<1>2. QED
  BY <1>1 DEF PipeInv, Kept

\* A thread that goes on, other than to a spawn.
LEMMA ThreadFrame ==
  ASSUME HashersOK, JobsHeld, SpawnsOK, NEW h \in Hashers, NEW n, hasher' = [hasher EXCEPT ![h] = n],
         n.pc \notin Carrying => n.job = NoJob, n.pc # "spawn",
         restarts' = restarts, \A g \in Gens : backend'[g].st = backend[g].st
  PROVE  JobsHeld' /\ SpawnsOK'
<1>1. hasher'[h] = n /\ \A k \in Hashers : k # h => hasher'[k] = hasher[k]
  BY DEF HashersOK
<1>2. JobsHeld'
  BY <1>1 DEF JobsHeld
<1>3. \A k \in Hashers : hasher'[k].pc = "spawn" => hasher'[k] = hasher[k] /\ hasher[k].gen \in Gens
  <2>1. ASSUME NEW k \in Hashers PROVE hasher[k].gen \in Gens
    BY DEF HashersOK, Hasher
  <2>2. QED
    BY <1>1, <2>1
<1>4. SpawnsOK'
  BY <1>3 DEF SpawnsOK
<1>5. QED
  BY <1>2, <1>4

\* Backends that do not change stay in order.
LEMMA PipeFrame ==
  ASSUME PipeInv, UNCHANGED backend PROVE BackendsOK' /\ (DupFree(leechQ') => QueuesOK')
BY DEF PipeInv, BackendsOK, QueuesOK

\* The thread keeps its piece, or has none.
LEMMA ThreadGoes ==
  ASSUME HashersOK, PipeInv, NEW h \in Hashers, NEW n, hasher' = [hasher EXCEPT ![h] = n],
         n.job = hasher[h].job, n.pc \notin Carrying => n.job = NoJob, n.pc # "spawn",
         UNCHANGED <<leechQ, backend, restarts, outcome>>
  PROVE  Kept
<1>1. JobsHeld' /\ SpawnsOK'
  BY ThreadFrame DEF PipeInv
<1>2. BackendsOK' /\ QueuesOK'
  BY PipeFrame DEF PipeInv, QueuesOK
<1>3. ASSUME NEW i \in Jobs PROVE Same(i)
  <2>1. Threads(i)' = IF n.job = i THEN Threads(i) \cup {h} ELSE Threads(i) \ {h}
    BY ThreadMoves
  <2>2. h \in Threads(i) <=> n.job = i
    BY DEF Threads
  <2>3. Threads(i)' = Threads(i)
    BY <2>1, <2>2
  <2>4. QED
    BY <2>3 DEF Same, Queued, Chans, Flies, In
<1>4. QED
  BY <1>1, <1>2, <1>3 DEF Kept, Carried

\* A thread that moves on with its piece moves no piece.
LEMMA GotoGoes ==
  ASSUME HashersOK, PipeInv, NEW h \in Hashers, NEW l, Goto(h, l),
         l # "spawn", l \in Carrying <=> hasher[h].pc \in Carrying,
         UNCHANGED <<leechQ, backend, restarts, outcome>>
  PROVE  Kept
<1> DEFINE n == [hasher[h] EXCEPT !.pc = l]
<1>1. hasher[h] \in Hasher
  BY DEF HashersOK
<1>2. n.pc = l /\ n.job = hasher[h].job
  BY <1>1 DEF Hasher
<1>3. hasher' = [hasher EXCEPT ![h] = n]
  BY DEF Goto
<1>4. n.pc \notin Carrying => n.job = NoJob
  BY <1>2 DEF PipeInv, JobsHeld
<1> HIDE DEF n
<1>5. QED
  BY <1>2, <1>3, <1>4, ThreadGoes

\* The first piece of the queue goes to a thread that has none.
LEMMA TakeMoves ==
  ASSUME DiskInv, PipeInv, NEW h \in Hashers, NEW keep \in BOOLEAN, leechQ # <<>>,
         hasher[h].pc \notin Carrying, TakeLeech(h, keep), UNCHANGED workerRest
  PROVE  Kept
<1>0. PICK j : j = Head(leechQ)
  OBVIOUS
<1> DEFINE n == [hasher[h] EXCEPT !.pc = "verify", !.keep = keep, !.job = j]
<1>1. HashersOK /\ leechQ \in Seq(Jobs) /\ hasher[h] \in Hasher
  BY DEF DiskInv, DiskTypeOK, HashersOK
<1>2. n.pc = "verify" /\ n.job = j
  BY <1>1 DEF Hasher
<1>3. hasher' = [hasher EXCEPT ![h] = n] /\ leechQ' = Tail(leechQ)
  BY <1>0 DEF TakeLeech
<1>4. UNCHANGED <<backend, restarts, outcome>>
  BY DEF workerRest, stateVars
<1>5. /\ j \in Jobs /\ Queued = {j} \cup Queued' /\ j \notin Queued' /\ DupFree(leechQ')
  <2>1. Queued = Elems(leechQ) /\ Queued' = Elems(Tail(leechQ)) /\ DupFree(leechQ)
    BY <1>3 DEF Queued, Elems, PipeInv, QueuesOK
  <2>2. QED
    BY <1>0, <1>1, <1>3, <2>1, TailElems
<1> HIDE DEF n
<1>6. JobsHeld' /\ SpawnsOK'
  BY <1>1, <1>2, <1>3, <1>4, ThreadFrame DEF PipeInv, Carrying
<1>7. BackendsOK' /\ QueuesOK'
  BY <1>4, <1>5, PipeFrame
<1>8. /\ \A i : Threads(i)' = IF n.job = i THEN Threads(i) \cup {h} ELSE Threads(i) \ {h}
      /\ \A i : Chans(i)' = Chans(i) /\ Flies(i)' = Flies(i) /\ outcome'[i] = outcome[i]
  <2>1. \A i : Threads(i)' = IF n.job = i THEN Threads(i) \cup {h} ELSE Threads(i) \ {h}
    BY <1>1, <1>3, ThreadMoves
  <2>2. QED
    BY <1>4, <2>1 DEF Chans, Flies, In
<1>9. ASSUME NEW i \in Jobs, i # j PROVE Same(i)
  <2>1. h \notin Threads(i)
    BY DEF PipeInv, JobsHeld, Threads, DiskAssumption
  <2>2. QED
    BY <1>2, <1>5, <1>8, <1>9, <2>1 DEF Same
<1>10. OnlyQueued(j)
  BY <1>5, FoundThere DEF PipeInv
<1>11. OnlyThread(j)'
  BY <1>2, <1>5, <1>8, <1>10 DEF OnlyQueued, OnlyThread
<1>12. QED
  BY <1>6, <1>7, <1>9, <1>10, <1>11 DEF Kept, Carried, Somewhere

\* The thread is rid of its piece.
LEMMA AnsweredIs ==
  ASSUME HashersOK, NEW h \in Hashers, Answered(h)
  PROVE  \E n : hasher' = [hasher EXCEPT ![h] = n] /\ n.job = NoJob /\ n.pc \notin Carrying /\ n.pc # "spawn"
<1> DEFINE r == [Resting EXCEPT !.pc = "rechecking"]
<1>1. /\ Resting.job = NoJob /\ Resting.pc \notin Carrying
      /\ r.job = NoJob /\ r.pc \notin Carrying
  BY DEF Resting, Carrying
<1>2. hasher' = [hasher EXCEPT ![h] = r] \/ hasher' = [hasher EXCEPT ![h] = Resting]
  BY DEF Answered
<1> HIDE DEF r
<1>3. QED
  BY <1>1, <1>2 DEF Carrying

\* The piece a thread gives away was in that thread only.
LEMMA HandedOver ==
  ASSUME DiskInv, PipeInv, NEW h \in Hashers, hasher[h].pc \in Carrying, Answered(h), NEW j, j = hasher[h].job
  PROVE  /\ j \in Jobs /\ OnlyThread(j) /\ Threads(j)' = {}
         /\ \A i \in Jobs : i # j => Threads(i)' = Threads(i)
<1>1. HashersOK
  BY DEF DiskInv
<1>2. PICK n : hasher' = [hasher EXCEPT ![h] = n] /\ n.job = NoJob
  BY <1>1, AnsweredIs
<1>3. j \in Jobs
  BY <1>1 DEF HashersOK
<1>4. OnlyThread(j) /\ Threads(j) = {h}
  BY <1>3, FoundThere DEF PipeInv
<1>5. \A i \in Jobs : Threads(i)' = Threads(i) \ {h}
  <2>1. ASSUME NEW i \in Jobs PROVE Threads(i)' = Threads(i) \ {h}
    BY <1>1, <1>2, ThreadMoves DEF DiskAssumption
  <2>2. QED
    BY <2>1
<1>6. \A i \in Jobs : i # j => h \notin Threads(i)
  BY DEF Threads
<1>7. ASSUME NEW i \in Jobs, i # j PROVE Threads(i)' = Threads(i)
  <2>1. Threads(i)' = Threads(i) \ {h} /\ h \notin Threads(i)
    BY <1>5, <1>6, <1>7
  <2>2. QED
    BY <2>1
<1>8. Threads(j)' = {}
  BY <1>3, <1>4, <1>5
<1>9. QED
  BY <1>3, <1>4, <1>7, <1>8

\* A thread that gives up moves its piece into the reply.
LEMMA GiveUpMoves ==
  ASSUME DiskInv, PipeInv, NEW h \in Hashers, hasher[h].pc \in Carrying, Answered(h),
         NEW o, o # "none", Reply(hasher[h].job, o), UNCHANGED <<leechQ, backend, restarts>>
  PROVE  Kept
<1>0. PICK j : j = hasher[h].job
  OBVIOUS
<1>1. HashersOK /\ outcome \in [Jobs -> Outcomes \cup {"none", "lost"}]
  BY DEF DiskInv, DiskTypeOK
<1>2. PICK n : hasher' = [hasher EXCEPT ![h] = n] /\ n.job = NoJob /\ n.pc \notin Carrying /\ n.pc # "spawn"
  BY <1>1, AnsweredIs
<1>3. JobsHeld' /\ SpawnsOK'
  BY <1>1, <1>2, ThreadFrame DEF PipeInv
<1>4. BackendsOK' /\ QueuesOK'
  BY PipeFrame DEF PipeInv, QueuesOK
<1>5. /\ j \in Jobs /\ OnlyThread(j) /\ Threads(j)' = {}
      /\ \A i \in Jobs : i # j => Threads(i)' = Threads(i)
  BY <1>0, HandedOver
<1>6. outcome'[j] = o /\ \A i \in Jobs : i # j => outcome'[i] = outcome[i]
  BY <1>0, <1>1, <1>5 DEF Reply
<1>7. \A i : (i \in Queued' <=> i \in Queued) /\ Chans(i)' = Chans(i) /\ Flies(i)' = Flies(i)
  BY DEF Queued, Chans, Flies, In
<1>8. OnlyReply(j)'
  BY <1>5, <1>6, <1>7 DEF OnlyThread, OnlyReply
<1>9. \A i \in Jobs : i # j => Same(i)
  BY <1>5, <1>6, <1>7 DEF Same
<1>10. QED
  BY <1>3, <1>4, <1>5, <1>8, <1>9 DEF Kept, Carried, Somewhere

\* SyncSender::send: the piece goes into the channel of a backend.
LEMMA SendMoves ==
  ASSUME DiskInv, PipeInv, NEW h \in Hashers, Send(h) PROVE Kept
<1>0. PICK j, g : j = hasher[h].job /\ g = hasher[h].gen
  OBVIOUS
<1>1. /\ HashersOK /\ backend \in [Gens -> Backend] /\ hasher[h] \in Hasher /\ g \in Gens
      /\ hasher[h].pc \in Carrying
  BY <1>0 DEF DiskInv, DiskTypeOK, HashersOK, Hasher, Send, Carrying
<1> DEFINE s == backend[g].chan
           b == [backend[g] EXCEPT !.chan = Append(@, j)]
<1>2. /\ Answered(h) /\ UNCHANGED <<leechQ, restarts, outcome>>
      /\ Listening(g) /\ Len(s) < Depth /\ SetBackend(g, b)
  BY <1>0 DEF Send, SetBackend, submitRest, stateVars
<1>3. backend[g] \in Backend /\ s \in Seq(Jobs)
  BY <1>1 DEF Backend
<1>4. b.st = backend[g].st /\ b.chan = Append(s, j) /\ b.fly = backend[g].fly
  BY <1>3 DEF Backend
<1>5. /\ j \in Jobs /\ OnlyThread(j) /\ Threads(j)' = {}
      /\ \A i \in Jobs : i # j => Threads(i)' = Threads(i)
  BY <1>0, <1>1, <1>2, HandedOver
<1>6. DupFree(s) /\ j \notin Elems(s)
  <2>1. g \notin Chans(j)
    BY <1>5 DEF OnlyThread
  <2>2. QED
    BY <1>1, <2>1 DEF PipeInv, QueuesOK, Chans, In, Elems
<1>7. Elems(b.chan) = Elems(s) \cup {j} /\ DupFree(b.chan) /\ Len(b.chan) = Len(s) + 1
  BY <1>3, <1>4, <1>5, <1>6, AppendElems
<1>8. PICK n : hasher' = [hasher EXCEPT ![h] = n] /\ n.job = NoJob /\ n.pc \notin Carrying /\ n.pc # "spawn"
  BY <1>1, <1>2, AnsweredIs
<1>9. Len(b.chan) <= Depth
  BY <1>2, <1>3, <1>7 DEF DiskAssumption
<1> HIDE DEF s, b
<1>10. backend'[g] = b /\ \A e \in Gens : e # g => backend'[e] = backend[e]
  BY <1>1, <1>2 DEF SetBackend
<1>11. \A e \in Gens : backend'[e].st = backend[e].st
  BY <1>4, <1>10
<1>12. JobsHeld' /\ SpawnsOK'
  BY <1>1, <1>2, <1>8, <1>11, ThreadFrame DEF PipeInv
<1>13. QueuesOK'
  BY <1>2, <1>7, <1>9, <1>10 DEF PipeInv, QueuesOK
<1>14. BackendsOK'
  <2>1. backend[g].st \notin {"none", "dead"}
    BY <1>2 DEF Listening
  <2>2. QED
    BY <1>4, <1>10, <2>1 DEF PipeInv, BackendsOK
<1>15. \A i \in Jobs : /\ Chans(i)' = IF i \in Elems(b.chan) THEN Chans(i) \cup {g} ELSE Chans(i) \ {g}
                       /\ Flies(i)' = IF i \in b.fly THEN Flies(i) \cup {g} ELSE Flies(i) \ {g}
  BY <1>1, <1>2, BackendMoves
<1>16. \A i \in Jobs : (g \in Chans(i) <=> i \in Elems(s)) /\ (g \in Flies(i) <=> i \in b.fly)
  BY <1>1, <1>4 DEF Chans, Flies, In, Elems, s
<1>17. \A i \in Jobs : Flies(i)' = Flies(i) /\ Chans(i)' = IF i = j THEN Chans(i) \cup {g} ELSE Chans(i)
  <2>1. ASSUME NEW i \in Jobs
        PROVE  Flies(i)' = Flies(i) /\ Chans(i)' = IF i = j THEN Chans(i) \cup {g} ELSE Chans(i)
    <3>1. i \in Elems(b.chan) <=> g \in Chans(i) \/ i = j
      BY <1>7, <1>16
    <3>2. Flies(i)' = Flies(i)
      BY <1>15, <1>16
    <3>3. CASE i = j
      BY <1>15, <3>1, <3>2, <3>3
    <3>4. CASE i # j
      BY <1>15, <3>1, <3>2, <3>4
    <3>5. QED
      BY <3>3, <3>4
  <2>2. QED
    BY <2>1
<1>18. \A i : (i \in Queued' <=> i \in Queued) /\ outcome'[i] = outcome[i]
  BY <1>2 DEF Queued
<1>19. ASSUME NEW i \in Jobs, i # j PROVE Same(i)
  BY <1>5, <1>17, <1>18, <1>19 DEF Same
<1>20. OnlyChan(j)'
  <2>1. Chans(j)' = {g} /\ Flies(j)' = {} /\ j \notin Queued' /\ outcome'[j] = "none"
    BY <1>5, <1>17, <1>18 DEF OnlyThread
  <2>2. QED
    BY <1>1, <1>5, <2>1 DEF OnlyChan
<1>21. QED
  BY <1>5, <1>12, <1>13, <1>14, <1>19, <1>20 DEF Kept, Carried, Somewhere

\* try_restart reserves a slot, and spawn_backend fills it.
LEMMA ReserveKeeps ==
  ASSUME DiskInv, PipeInv, NEW h \in Hashers, hasher[h].pc = "restart",
         restarts < MaxRestarts, restarts' = restarts + 1,
         hasher' = [hasher EXCEPT ![h].pc = "spawn", ![h].gen = restarts + 1],
         UNCHANGED <<leechQ, backend, outcome>>
  PROVE  Kept
<1> DEFINE n == [hasher[h] EXCEPT !.pc = "spawn", !.gen = restarts + 1]
<1>1. /\ HashersOK /\ hasher[h] \in Hasher /\ restarts \in Nat /\ restarts + 1 \in Gens
      /\ \A k \in Hashers : hasher[k].gen \in Nat
      /\ \A g \in Gens : g \in Nat
  <2>1. MaxRestarts \in Nat
    BY DEF DiskAssumption
  <2>2. restarts \in 0..MaxRestarts /\ HashersOK
    BY DEF DiskInv, DiskTypeOK, Gens
  <2>3. \A k \in Hashers : hasher[k] \in Hasher /\ hasher[k].gen \in 0..MaxRestarts
    BY <2>2 DEF HashersOK, Hasher, Gens
  <2>4. QED
    BY <2>1, <2>2, <2>3 DEF Gens
<1>2. n.pc = "spawn" /\ n.job = hasher[h].job /\ n.gen = restarts + 1
  BY <1>1 DEF Hasher
<1>3. hasher' = [hasher EXCEPT ![h] = n]
  BY <1>1 DEF HashersOK
<1> HIDE DEF n
<1>4. hasher'[h] = n /\ \A k \in Hashers : k # h => hasher'[k] = hasher[k]
  BY <1>1, <1>3 DEF HashersOK
<1>5. JobsHeld'
  BY <1>2, <1>4 DEF PipeInv, JobsHeld, Carrying
<1>6. backend[restarts + 1].st = "none"
  BY <1>1 DEF PipeInv, SpawnsOK
<1>7. SpawnsOK'
  <2>1. \A g \in Gens : g > restarts' => backend'[g].st = "none"
    BY <1>1 DEF PipeInv, SpawnsOK
  <2>2. ASSUME NEW k \in Hashers, hasher'[k].pc = "spawn"
        PROVE  hasher'[k].gen <= restarts' /\ backend'[hasher'[k].gen].st = "none"
    <3>1. CASE k = h
      BY <1>1, <1>2, <1>4, <1>6, <3>1
    <3>2. CASE k # h
      <4>1. hasher[k].gen <= restarts /\ backend[hasher[k].gen].st = "none"
        BY <1>4, <2>2, <3>2 DEF PipeInv, SpawnsOK
      <4>2. \A x, y \in Nat : x <= y => x <= y + 1
        OBVIOUS
      <4>3. hasher[k].gen <= restarts + 1
        BY <1>1, <4>1, <4>2
      <4>4. QED
        BY <1>4, <3>2, <4>1, <4>3
    <3>3. QED
      BY <3>1, <3>2
  <2>3. ASSUME NEW k \in Hashers, k # h, hasher'[k].pc = "spawn" PROVE hasher'[k].gen # n.gen
    <3>1. hasher[k].gen <= restarts /\ hasher[k].gen \in Nat /\ hasher'[k] = hasher[k]
      BY <1>1, <1>4, <2>3 DEF PipeInv, SpawnsOK
    <3>2. \A x, y \in Nat : x <= y => x # y + 1
      OBVIOUS
    <3>3. QED
      BY <1>1, <1>2, <3>1, <3>2
  <2>4. ASSUME NEW k \in Hashers, NEW l \in Hashers, hasher'[k].pc = "spawn", hasher'[l].pc = "spawn",
               hasher'[k].gen = hasher'[l].gen
        PROVE  k = l
    <3>1. CASE k = h \/ l = h
      BY <1>4, <2>3, <2>4, <3>1
    <3>2. CASE k # h /\ l # h
      BY <1>4, <2>4, <3>2 DEF PipeInv, SpawnsOK
    <3>3. QED
      BY <3>1, <3>2
  <2>5. QED
    BY <2>1, <2>2, <2>4 DEF SpawnsOK
<1>8. BackendsOK' /\ QueuesOK'
  BY PipeFrame DEF PipeInv, QueuesOK
<1>9. ASSUME NEW i \in Jobs PROVE Same(i)
  <2>1. Threads(i)' = IF n.job = i THEN Threads(i) \cup {h} ELSE Threads(i) \ {h}
    BY <1>1, <1>3, ThreadMoves
  <2>2. h \in Threads(i) <=> n.job = i
    BY <1>2 DEF Threads
  <2>3. QED
    BY <2>1, <2>2 DEF Same, Queued, Chans, Flies, In
<1>10. QED
  BY <1>5, <1>7, <1>8, <1>9 DEF Kept, Carried

\* A new backend begins empty.
LEMMA SpawnMoves ==
  ASSUME DiskInv, PipeInv, NEW h \in Hashers, hasher[h].pc = "spawn",
         backend' = [backend EXCEPT ![hasher[h].gen] = NewBackend],
         hasher' = [hasher EXCEPT ![h].pc = "join", ![h].gen = cur],
         UNCHANGED <<leechQ, restarts, outcome>>
  PROVE  Kept
<1>0. PICK g : g = hasher[h].gen
  OBVIOUS
<1> DEFINE n == [hasher[h] EXCEPT !.pc = "join", !.gen = cur]
<1>1. HashersOK /\ hasher[h] \in Hasher /\ backend \in [Gens -> Backend]
  BY DEF DiskInv, DiskTypeOK, HashersOK
<1>2. n.pc = "join" /\ n.job = hasher[h].job /\ hasher' = [hasher EXCEPT ![h] = n]
  BY <1>1 DEF Hasher, HashersOK
<1> HIDE DEF n
<1>3. hasher'[h] = n /\ \A k \in Hashers : k # h => hasher'[k] = hasher[k]
  BY <1>1, <1>2 DEF HashersOK
<1>4. g \in Gens /\ g <= restarts /\ backend[g].st = "none"
  BY <1>0, <1>1 DEF Hasher, PipeInv, SpawnsOK
<1>5. backend[g].chan = <<>> /\ backend[g].fly = {}
  BY <1>4 DEF PipeInv, BackendsOK
<1>6. NewBackend.st = "starting" /\ NewBackend.chan = <<>> /\ NewBackend.fly = {}
  BY DEF NewBackend, NoBackend
<1>7. SetBackend(g, NewBackend) /\ backend'[g] = NewBackend /\ \A e \in Gens : e # g => backend'[e] = backend[e]
  BY <1>0, <1>1, <1>4 DEF SetBackend
<1>8. QueuesOK' /\ BackendsOK'
  BY <1>5, <1>6, <1>7 DEF PipeInv, QueuesOK, BackendsOK
<1>9. JobsHeld'
  BY <1>2, <1>3 DEF PipeInv, JobsHeld, Carrying
<1>10. SpawnsOK'
  <2>1. ~(g > restarts)
    BY <1>4 DEF DiskInv, DiskTypeOK, Gens
  <2>2. ASSUME NEW k \in Hashers, hasher'[k].pc = "spawn" PROVE k # h /\ hasher'[k] = hasher[k] /\ hasher[k].gen # g
    <3>1. k # h /\ hasher'[k] = hasher[k]
      BY <1>2, <1>3, <2>2
    <3>2. QED
      BY <1>0, <2>2, <3>1 DEF PipeInv, SpawnsOK
  <2>3. \A k \in Hashers : hasher[k].gen \in Gens
    BY <1>1 DEF HashersOK, Hasher
  <2>4. \A k \in Hashers : hasher'[k].pc = "spawn" =>
           hasher'[k].gen <= restarts' /\ backend'[hasher'[k].gen].st = "none"
    <3>1. ASSUME NEW k \in Hashers, hasher'[k].pc = "spawn"
          PROVE  hasher'[k].gen <= restarts' /\ backend'[hasher'[k].gen].st = "none"
      <4>1. hasher[k].gen <= restarts /\ backend[hasher[k].gen].st = "none"
        BY <2>2, <3>1 DEF PipeInv, SpawnsOK
      <4>2. backend'[hasher[k].gen] = backend[hasher[k].gen]
        BY <1>7, <2>2, <2>3, <3>1
      <4>3. QED
        BY <2>2, <3>1, <4>1, <4>2
    <3>2. QED
      BY <3>1
  <2>5. \A e \in Gens : e > restarts' => backend'[e].st = "none"
    BY <1>7, <2>1 DEF PipeInv, SpawnsOK
  <2>6. QED
    BY ZenonT(60), <2>2, <2>4, <2>5 DEF PipeInv, SpawnsOK
<1>11. ASSUME NEW i \in Jobs PROVE Same(i)
  <2>1. Threads(i)' = IF n.job = i THEN Threads(i) \cup {h} ELSE Threads(i) \ {h}
    <3>1. HashersOK /\ hasher' = [hasher EXCEPT ![h] = n]
      BY <1>1, <1>2
    <3>2. QED
      BY <3>1, ThreadMoves
  <2>2. h \in Threads(i) <=> n.job = i
    BY <1>2 DEF Threads
  <2>3. /\ Chans(i)' = IF i \in Elems(NewBackend.chan) THEN Chans(i) \cup {g} ELSE Chans(i) \ {g}
        /\ Flies(i)' = IF i \in NewBackend.fly THEN Flies(i) \cup {g} ELSE Flies(i) \ {g}
    BY <1>1, <1>4, <1>7, BackendMoves
  <2>4. i \notin Elems(NewBackend.chan) /\ i \notin NewBackend.fly /\ g \notin Chans(i) /\ g \notin Flies(i)
    BY <1>5, <1>6 DEF Elems, Chans, Flies, In
  <2>5. Threads(i)' = Threads(i) /\ Chans(i)' = Chans(i) /\ Flies(i)' = Flies(i)
    BY <2>1, <2>2, <2>3, <2>4
  <2>6. QED
    BY <2>5 DEF Same, Queued
<1>12. QED
  BY <1>8, <1>9, <1>10, <1>11 DEF Kept, Carried

-----------------------------------------------------------------------------
\* hash_worker_main: no step of a hash thread loses a piece or doubles it.
LEMMA HashCarries ==
  ASSUME DiskInv, PipeInv, NEW h \in Hashers, HashStep(h) PROVE Kept
<1>0. HashersOK /\ leechQ \in Seq(Jobs)
  BY DEF DiskInv, DiskTypeOK
<1>1. CASE TryLeech(h)
  <2>1. CASE leechQ # <<>> /\ TakeLeech(h, FALSE)
    BY <1>1, <2>1, TakeMoves DEF TryLeech, Carrying
  <2>2. CASE Goto(h, "recheck") /\ UNCHANGED queueVars
    BY <1>0, <1>1, <2>2, GotoGoes DEF TryLeech, Carrying, queueVars, workerRest, stateVars
  <2>3. QED
    BY <1>1, <2>1, <2>2 DEF TryLeech
<1>2. CASE TryRecheck(h)
  <2>1. PICK l : Goto(h, l) /\ l \in {"rechecking", "wait"} /\ UNCHANGED <<leechQ, workerRest>>
    BY <1>2 DEF TryRecheck, queueVars
  <2>2. QED
    BY <1>0, <1>2, <2>1, GotoGoes DEF TryRecheck, Carrying, workerRest, stateVars
<1>3. CASE Select(h)
  <2>1. CASE leechQ # <<>> /\ TakeLeech(h, FALSE)
    BY <1>3, <2>1, TakeMoves DEF Select, Carrying
  <2>2. CASE Goto(h, "got") /\ UNCHANGED <<leechQ, recheckLeft, passed>>
    BY <1>0, <1>3, <2>2, GotoGoes DEF Select, Carrying, workerRest, stateVars
  <2>3. QED
    BY <1>3, <2>1, <2>2 DEF Select
<1>4. CASE LeechBeforeRecheck(h)
  <2>1. CASE leechQ # <<>> /\ TakeLeech(h, TRUE)
    BY <1>4, <2>1, TakeMoves DEF LeechBeforeRecheck, Carrying
  <2>2. CASE Goto(h, "rechecking") /\ UNCHANGED <<leechQ, recheckQ, recheckLeft>>
    BY <1>0, <1>4, <2>2, GotoGoes DEF LeechBeforeRecheck, Carrying, workerRest, stateVars
  <2>3. QED
    BY <1>4, <2>1, <2>2 DEF LeechBeforeRecheck
<1>5. CASE Rechecked(h)
  <2>1. hasher[h].job = NoJob
    BY <1>5 DEF PipeInv, JobsHeld, Rechecked, Carrying
  <2>2. Resting.job = NoJob /\ Resting.pc # "spawn"
    BY DEF Resting
  <2>3. hasher' = [hasher EXCEPT ![h] = Resting] /\ UNCHANGED <<leechQ, backend, restarts, outcome>>
    BY <1>5 DEF Rechecked, queueVars, workerRest, stateVars
  <2>4. QED
    BY <1>0, <2>1, <2>2, <2>3, ThreadGoes
<1>6. CASE Verify(h)
  <2>1. hasher[h].pc \in Carrying /\ UNCHANGED <<leechQ, backend, restarts>>
    BY <1>6 DEF Verify, Carrying, submitRest, stateVars
  <2>2. CASE Reply(hasher[h].job, "hashFail") /\ Answered(h)
    BY <2>1, <2>2, GiveUpMoves
  <2>3. CASE GiveUp(h)
    BY <2>1, <2>3, GiveUpMoves DEF GiveUp
  <2>4. CASE hasher' = [hasher EXCEPT ![h].pc = "send", ![h].gen = cur] /\ UNCHANGED outcome
    <3> DEFINE n == [hasher[h] EXCEPT !.pc = "send", !.gen = cur]
    <3>1. hasher[h] \in Hasher
      BY <1>0 DEF HashersOK
    <3>2. n.pc = "send" /\ n.job = hasher[h].job /\ hasher' = [hasher EXCEPT ![h] = n]
      BY <1>0, <2>4, <3>1 DEF Hasher, HashersOK
    <3> HIDE DEF n
    <3>3. QED
      BY <1>0, <2>1, <2>4, <3>2, ThreadGoes DEF Carrying
  <2>5. QED
    BY <1>6, <2>2, <2>3, <2>4 DEF Verify
<1>7. CASE Send(h)
  BY <1>7, SendMoves
<1>8. CASE SendFails(h)
  <2>1. hasher[h].pc \in Carrying /\ UNCHANGED <<leechQ, backend, restarts>>
    BY <1>8 DEF SendFails, Carrying, submitRest, stateVars
  <2>2. CASE Goto(h, "restart") /\ UNCHANGED <<outcome, passed>>
    BY <1>0, <2>1, <2>2, GotoGoes DEF Carrying
  <2>3. CASE GiveUp(h)
    BY <2>1, <2>3, GiveUpMoves DEF GiveUp
  <2>4. QED
    BY <1>8, <2>2, <2>3 DEF SendFails
<1>9. CASE TryRestart(h)
  <2>1. hasher[h].pc = "restart" /\ hasher[h].pc \in Carrying /\ UNCHANGED <<leechQ, backend>>
    BY <1>9 DEF TryRestart, Carrying, submitRest
  <2>2. CASE GiveUp(h) /\ UNCHANGED restarts
    BY <2>1, <2>2, GiveUpMoves DEF GiveUp
  <2>3. CASE /\ restarts < MaxRestarts /\ restarts' = restarts + 1
             /\ hasher' = [hasher EXCEPT ![h].pc = "spawn", ![h].gen = restarts + 1]
             /\ UNCHANGED outcome
    BY <2>1, <2>3, ReserveKeeps
  <2>4. QED
    BY <1>9, <2>2, <2>3 DEF TryRestart
<1>10. CASE Spawn(h)
  <2>1. hasher[h].pc = "spawn" /\ hasher[h].pc \in Carrying /\ UNCHANGED <<leechQ, restarts>>
    BY <1>10 DEF Spawn, Carrying, submitRest
  <2>2. CASE GiveUp(h) /\ UNCHANGED backend
    BY <2>1, <2>2, GiveUpMoves DEF GiveUp
  <2>3. CASE /\ backend' = [backend EXCEPT ![hasher[h].gen] = NewBackend]
             /\ hasher' = [hasher EXCEPT ![h].pc = "join", ![h].gen = cur]
             /\ UNCHANGED outcome
    BY <2>1, <2>3, SpawnMoves
  <2>4. QED
    BY <1>10, <2>2, <2>3 DEF Spawn
<1>11. CASE SpawnFails(h)
  <2>1. hasher[h].pc \in Carrying /\ GiveUp(h) /\ UNCHANGED <<leechQ, backend, restarts>>
    BY <1>11 DEF SpawnFails, Carrying, submitRest
  <2>2. QED
    BY <2>1, GiveUpMoves DEF GiveUp
<1>12. CASE Join(h)
  <2> DEFINE n == [hasher[h] EXCEPT !.pc = "resend", !.gen = cur]
  <2>1. hasher[h] \in Hasher
    BY <1>0 DEF HashersOK
  <2>2. n.pc = "resend" /\ n.job = hasher[h].job /\ hasher' = [hasher EXCEPT ![h] = n]
    BY <1>0, <1>12, <2>1 DEF Hasher, HashersOK, Join
  <2>3. UNCHANGED <<leechQ, backend, restarts, outcome>>
    BY <1>12 DEF Join, queueVars, workerRest, stateVars
  <2> HIDE DEF n
  <2>4. QED
    BY <1>0, <2>2, <2>3, ThreadGoes DEF Carrying
<1>13. QED
  BY <1>1, <1>2, <1>3, <1>4, <1>5, <1>6, <1>7, <1>8, <1>9, <1>10, <1>11, <1>12 DEF HashStep

-----------------------------------------------------------------------------
\* A step of a backend's thread: what it still has, and where the rest went.
LEMMA BackendFrame ==
  ASSUME DiskInv, PipeInv, NEW g \in Gens, NEW b, SetBackend(g, b), UNCHANGED backendRest,
         backend[g].st # "none", DupFree(b.chan), Len(b.chan) <= Depth,
         b.st \in {"none", "dead"} => b.chan = <<>>, b.st \notin {"up", "drain"} => b.fly = {}
  PROVE  /\ QueuesOK' /\ JobsHeld' /\ BackendsOK' /\ SpawnsOK'
         /\ \A i : (i \in Queued' <=> i \in Queued) /\ Threads(i)' = Threads(i)
         /\ \A i : /\ Chans(i)' = IF i \in Elems(b.chan) THEN Chans(i) \cup {g} ELSE Chans(i) \ {g}
                   /\ Flies(i)' = IF i \in b.fly THEN Flies(i) \cup {g} ELSE Flies(i) \ {g}
<1>1. backend \in [Gens -> Backend] /\ HashersOK
  BY DEF DiskInv, DiskTypeOK
<1>2. backend'[g] = b /\ \A e \in Gens : e # g => backend'[e] = backend[e]
  BY <1>1 DEF SetBackend
<1>3. UNCHANGED <<leechQ, hasher, restarts>>
  BY DEF backendRest, queueVars, stateVars
<1>4. QueuesOK' /\ JobsHeld' /\ BackendsOK'
  BY <1>2, <1>3 DEF PipeInv, QueuesOK, JobsHeld, BackendsOK
<1>5. SpawnsOK'
  <2>1. \A e \in Gens : backend[e].st = "none" => backend'[e].st = "none"
    BY <1>2
  <2>2. \A k \in Hashers : hasher[k].gen \in Gens
    BY <1>1 DEF HashersOK, Hasher
  <2>3. QED
    BY <1>3, <2>1, <2>2 DEF PipeInv, SpawnsOK
<1>6. \A i : (i \in Queued' <=> i \in Queued) /\ Threads(i)' = Threads(i)
  BY <1>3 DEF Queued, Threads
<1>7. ASSUME NEW i
      PROVE  /\ Chans(i)' = IF i \in Elems(b.chan) THEN Chans(i) \cup {g} ELSE Chans(i) \ {g}
             /\ Flies(i)' = IF i \in b.fly THEN Flies(i) \cup {g} ELSE Flies(i) \ {g}
  BY <1>1, BackendMoves
<1>8. QED
  BY <1>4, <1>5, <1>6, <1>7

\* What a backend has, in terms of its channel and its writes.
LEMMA Has ==
  ASSUME NEW g \in Gens, NEW i
  PROVE  (g \in Chans(i) <=> i \in Elems(backend[g].chan)) /\ (g \in Flies(i) <=> i \in backend[g].fly)
BY DEF Chans, Flies, In, Elems

\* Pieces that leave a backend with an answer: from its channel or its writes.
LEMMA AnsweredFrom ==
  ASSUME DiskInv, PipeInv, NEW g \in Gens, NEW b, SetBackend(g, b), UNCHANGED backendRest,
         backend[g].st # "none", DupFree(b.chan), Len(b.chan) <= Depth,
         b.st \in {"none", "dead"} => b.chan = <<>>, b.st \notin {"up", "drain"} => b.fly = {},
         NEW gone,
         \A i \in gone : i \in Elems(backend[g].chan) \/ i \in backend[g].fly,
         \A i : i \in Elems(b.chan) <=> i \in Elems(backend[g].chan) /\ i \notin gone,
         \A i : i \in b.fly <=> i \in backend[g].fly /\ i \notin gone,
         \A i \in Jobs : IF i \in gone THEN outcome'[i] # "none" ELSE outcome'[i] = outcome[i]
  PROVE  Kept
<1>1. /\ QueuesOK' /\ JobsHeld' /\ BackendsOK' /\ SpawnsOK'
      /\ \A i : (i \in Queued' <=> i \in Queued) /\ Threads(i)' = Threads(i)
      /\ \A i : /\ Chans(i)' = IF i \in Elems(b.chan) THEN Chans(i) \cup {g} ELSE Chans(i) \ {g}
                /\ Flies(i)' = IF i \in b.fly THEN Flies(i) \cup {g} ELSE Flies(i) \ {g}
  BY BackendFrame
<1>2. ASSUME NEW i \in Jobs, i \notin gone PROVE Same(i)
  <2>1. (g \in Chans(i) <=> i \in Elems(b.chan)) /\ (g \in Flies(i) <=> i \in b.fly)
    BY <1>2, Has
  <2>2. Chans(i)' = Chans(i) /\ Flies(i)' = Flies(i)
    BY ZenonT(60), <1>1, <2>1
  <2>3. QED
    BY <1>1, <1>2, <2>2 DEF Same
<1>3. ASSUME NEW i \in Jobs, i \in gone PROVE Somewhere(i) /\ OnlyReply(i)'
  <2>1. i \notin Elems(b.chan) /\ i \notin b.fly /\ outcome'[i] # "none"
    BY <1>3
  <2>2. Chans(i)' = Chans(i) \ {g} /\ Flies(i)' = Flies(i) \ {g}
    BY <1>1, <2>1
  <2>3. One(i)
    BY DEF PipeInv
  <2>4. CASE i \in Elems(backend[g].chan)
    <3>1. OnlyChan(i) /\ Chans(i) = {g}
      BY <2>3, <2>4, FoundThere DEF In, Elems
    <3>2. Chans(i)' = {} /\ Flies(i)' = {}
      BY <2>2, <3>1 DEF OnlyChan
    <3>3. QED
      BY <1>1, <2>1, <3>1, <3>2 DEF OnlyChan, OnlyReply, Somewhere
  <2>5. CASE i \in backend[g].fly
    <3>1. OnlyFly(i) /\ Flies(i) = {g}
      BY <2>3, <2>5, FoundThere
    <3>2. Chans(i)' = {} /\ Flies(i)' = {}
      BY <2>2, <3>1 DEF OnlyFly
    <3>3. QED
      BY <1>1, <2>1, <3>1, <3>2 DEF OnlyFly, OnlyReply, Somewhere
  <2>6. QED
    BY <1>3, <2>4, <2>5
<1>4. QED
  BY <1>1, <1>2, <1>3 DEF Kept, Carried, Somewhere

\* The empty channel is in order.
LEMMA EmptyChan == DupFree(<<>>) /\ Elems(<<>>) = {} /\ Len(<<>>) <= Depth
<1>1. DOMAIN <<>> = {} /\ Len(<<>>) = 0
  OBVIOUS
<1>2. QED
  BY <1>1 DEF DupFree, Elems, DiskAssumption

\* thread_main, uring_main: the first piece of the channel is being written.
LEMMA TakeWriteMoves ==
  ASSUME DiskInv, PipeInv, NEW g \in Gens, TakeWrite(g) PROVE Kept
<1> DEFINE s == backend[g].chan
           b == [backend[g] EXCEPT !.fly = @ \cup {Head(backend[g].chan)}, !.chan = Tail(@)]
<1>0. PICK j : j = Head(s)
  OBVIOUS
<1>1. /\ backend[g].st = "up" /\ s # <<>> /\ SetBackend(g, b) /\ UNCHANGED <<backendRest, outcome>>
      /\ backend[g] \in Backend /\ s \in Seq(Jobs)
  BY DEF TakeWrite, DiskInv, DiskTypeOK, Backend
<1>2. b.st = "up" /\ b.chan = Tail(s) /\ b.fly = backend[g].fly \cup {j}
  BY <1>0, <1>1 DEF Backend
<1>3. DupFree(s) /\ Len(s) <= Depth
  BY DEF PipeInv, QueuesOK
<1>4. /\ j \in Jobs /\ Elems(s) = {j} \cup Elems(b.chan) /\ j \notin Elems(b.chan) /\ DupFree(b.chan)
      /\ Len(b.chan) = Len(s) - 1
  BY <1>0, <1>1, <1>2, <1>3, TailElems
<1>5. Len(b.chan) <= Depth
  BY <1>1, <1>3, <1>4 DEF DiskAssumption
<1>6. \A i : (g \in Chans(i) <=> i \in Elems(s)) /\ (g \in Flies(i) <=> i \in backend[g].fly)
  BY Has
<1> HIDE DEF s, b
<1>7. /\ QueuesOK' /\ JobsHeld' /\ BackendsOK' /\ SpawnsOK'
      /\ \A i : (i \in Queued' <=> i \in Queued) /\ Threads(i)' = Threads(i)
      /\ \A i : /\ Chans(i)' = IF i \in Elems(b.chan) THEN Chans(i) \cup {g} ELSE Chans(i) \ {g}
                /\ Flies(i)' = IF i \in b.fly THEN Flies(i) \cup {g} ELSE Flies(i) \ {g}
  BY <1>1, <1>2, <1>4, <1>5, BackendFrame
<1>8. ASSUME NEW i \in Jobs, i # j PROVE Same(i)
  <2>1. (g \in Chans(i) <=> i \in Elems(b.chan)) /\ (g \in Flies(i) <=> i \in b.fly)
    BY <1>2, <1>4, <1>6, <1>8
  <2>2. Chans(i)' = Chans(i) /\ Flies(i)' = Flies(i)
    BY <1>7, <2>1
  <2>3. QED
    BY <1>1, <1>7, <2>2 DEF Same
<1>9. OnlyChan(j) /\ Chans(j) = {g}
  <2>1. One(j) /\ j \in Elems(s)
    BY <1>4 DEF PipeInv
  <2>2. QED
    BY <2>1, FoundThere DEF In, Elems, s
<1>10. OnlyFly(j)'
  <2>1. Chans(j)' = {} /\ Flies(j)' = {g}
    BY <1>2, <1>4, <1>7, <1>9 DEF OnlyChan
  <2>2. QED
    BY <1>1, <1>7, <1>9, <2>1 DEF OnlyChan, OnlyFly
<1>11. QED
  BY <1>7, <1>8, <1>9, <1>10 DEF Kept, Carried, Somewhere

\* Every step of a backend carries every piece.
LEMMA BackendCarries ==
  ASSUME DiskInv, PipeInv, NEW g \in Gens, BackendStep(g) PROVE Kept
<1>0. /\ backend[g] \in Backend /\ outcome \in [Jobs -> Outcomes \cup {"none", "lost"}]
      /\ DupFree(backend[g].chan) /\ Len(backend[g].chan) <= Depth
      /\ backend[g].chan \in Seq(Jobs) /\ backend[g].fly \subseteq Jobs
  BY DEF DiskInv, DiskTypeOK, PipeInv, QueuesOK, Backend
<1>1. \A i : i \in In(g) <=> i \in Elems(backend[g].chan)
  BY DEF In, Elems
<1>2. ASSUME NEW b, SetBackend(g, b), UNCHANGED <<backendRest, outcome>>,
             backend[g].st \notin {"none", "dead"},
             b.chan = backend[g].chan, b.fly = backend[g].fly, b.st \notin {"none", "dead"},
             b.st \in {"up", "drain"} \/ b.fly = {}
      PROVE  Kept
  <2>0. PICK gone : gone = {}
    OBVIOUS
  <2>1. /\ \A i \in gone : i \in Elems(backend[g].chan) \/ i \in backend[g].fly
        /\ \A i : i \in Elems(b.chan) <=> i \in Elems(backend[g].chan) /\ i \notin gone
        /\ \A i : i \in b.fly <=> i \in backend[g].fly /\ i \notin gone
        /\ \A i \in Jobs : IF i \in gone THEN outcome'[i] # "none" ELSE outcome'[i] = outcome[i]
    BY <1>2, <2>0
  <2>2. DupFree(b.chan) /\ Len(b.chan) <= Depth
    BY <1>0, <1>2
  <2>3. QED
    BY <1>2, <2>1, <2>2, AnsweredFrom
<1>3. ASSUME SetBackend(g, [NoBackend EXCEPT !.st = "dead"]), UNCHANGED backendRest,
             backend[g].st # "none", backend[g].fly = {},
             outcome' = [j \in Jobs |-> IF j \in In(g) THEN "lost" ELSE outcome[j]]
      PROVE  Kept
  <2> DEFINE b == [NoBackend EXCEPT !.st = "dead"]
  <2>1. b.st = "dead" /\ b.chan = <<>> /\ b.fly = {}
    BY DEF NoBackend
  <2>2. SetBackend(g, b)
    BY <1>3
  <2> HIDE DEF b
  <2>3. DupFree(b.chan) /\ Elems(b.chan) = {} /\ Len(b.chan) <= Depth
    BY <2>1, EmptyChan
  <2>4. \A i \in Jobs : IF i \in In(g) THEN outcome'[i] # "none" ELSE outcome'[i] = outcome[i]
    BY <1>3
  <2>5. QED
    BY <1>1, <1>3, <2>1, <2>2, <2>3, <2>4, AnsweredFrom
<1>4. CASE Setup(g)
  <2> DEFINE b == [backend[g] EXCEPT !.st = "up"]
  <2>1. b.st = "up" /\ b.chan = backend[g].chan /\ b.fly = backend[g].fly
    BY <1>0 DEF Backend
  <2>2. backend[g].st = "starting" /\ backend[g].fly = {} /\ UNCHANGED backendRest
    BY <1>4 DEF Setup, PipeInv, BackendsOK
  <2>3. CASE SetBackend(g, b) /\ UNCHANGED outcome
    <3> HIDE DEF b
    <3>1. QED
      BY <1>2, <2>1, <2>2, <2>3
  <2>4. CASE /\ SetBackend(g, [NoBackend EXCEPT !.st = "dead"])
             /\ outcome' = [j \in Jobs |-> IF j \in In(g) THEN "lost" ELSE outcome[j]]
    BY <1>3, <2>2, <2>4
  <2>5. QED
    BY <1>4, <2>3, <2>4 DEF Setup
<1>5. CASE TakeWrite(g)
  BY <1>5, TakeWriteMoves
<1>6. CASE CompleteWrite(g)
  <2>1. PICK j \in backend[g].fly : /\ SetBackend(g, [backend[g] EXCEPT !.fly = @ \ {j}])
                                    /\ Reply(j, "ok") \/ Reply(j, "writeFail")
    BY <1>6 DEF CompleteWrite
  <2> DEFINE b == [backend[g] EXCEPT !.fly = @ \ {j}]
  <2>2. b.st = "up" /\ b.chan = backend[g].chan /\ b.fly = backend[g].fly \ {j} /\ backend[g].st = "up"
        /\ UNCHANGED backendRest
    BY <1>0, <1>6 DEF Backend, CompleteWrite
  <2>3. SetBackend(g, b)
    BY <2>1
  <2> HIDE DEF b
  <2>0. PICK gone : gone = {j}
    OBVIOUS
  <2>4. \A i \in Jobs : IF i \in gone THEN outcome'[i] # "none" ELSE outcome'[i] = outcome[i]
    BY <1>0, <2>0, <2>1 DEF Reply
  <2>5. One(j) /\ j \in Jobs
    BY <1>0, <2>1 DEF PipeInv
  <2>6. j \notin Elems(backend[g].chan)
    BY <2>1, <2>5, FoundThere, Has DEF OnlyFly
  <2>7. \A i : i \in Elems(b.chan) <=> i \in Elems(backend[g].chan) /\ i \notin gone
    BY <2>0, <2>2, <2>6
  <2>8. /\ \A i \in gone : i \in Elems(backend[g].chan) \/ i \in backend[g].fly
        /\ \A i : i \in b.fly <=> i \in backend[g].fly /\ i \notin gone
    BY <2>0, <2>1, <2>2
  <2>9. DupFree(b.chan) /\ Len(b.chan) <= Depth
    BY <1>0, <2>2
  <2>10. b.st = "up" /\ backend[g].st = "up" /\ UNCHANGED backendRest
    BY <2>2
  <2>11. /\ backend[g].st # "none" /\ b.st \in {"none", "dead"} => b.chan = <<>>
         /\ b.st \notin {"up", "drain"} => b.fly = {}
    BY <2>10
  <2>12. QED
    BY <2>3, <2>4, <2>7, <2>8, <2>9, <2>10, <2>11, AnsweredFrom
<1>7. CASE RingFails(g)
  <2> DEFINE b == [backend[g] EXCEPT !.st = "drain"]
  <2>1. b.st = "drain" /\ b.chan = backend[g].chan /\ b.fly = backend[g].fly
    BY <1>0 DEF Backend
  <2>2. backend[g].st = "up" /\ SetBackend(g, b) /\ UNCHANGED <<backendRest, outcome>>
    BY <1>7 DEF RingFails
  <2> HIDE DEF b
  <2>3. QED
    BY <1>2, <2>1, <2>2
<1>8. CASE DrainFlying(g)
  <2> DEFINE b == [backend[g] EXCEPT !.fly = {}]
  <2>1. b.st = "drain" /\ b.chan = backend[g].chan /\ b.fly = {} /\ backend[g].st = "drain"
        /\ UNCHANGED backendRest /\ SetBackend(g, b)
    BY <1>0, <1>8 DEF Backend, DrainFlying
  <2> HIDE DEF b
  <2>2. \A i \in Jobs : IF i \in backend[g].fly THEN outcome'[i] # "none" ELSE outcome'[i] = outcome[i]
    <3>1. PICK leaked \in SUBSET backend[g].fly :
            outcome' = [j \in Jobs |-> IF j \in leaked THEN "lost"
                                       ELSE IF j \in backend[g].fly THEN "writeFail"
                                       ELSE outcome[j]]
      BY <1>8 DEF DrainFlying
    <3>2. QED
      BY <3>1
  <2>3. \A i : i \in Elems(b.chan) <=> i \in Elems(backend[g].chan) /\ i \notin backend[g].fly
    <3>1. ASSUME NEW i \in backend[g].fly PROVE i \notin Elems(backend[g].chan)
      <4>1. One(i)
        BY <1>0 DEF PipeInv
      <4>2. QED
        BY <4>1, FoundThere, Has DEF OnlyFly
    <3>2. QED
      BY <2>1, <3>1
  <2>4. QED
    BY <1>0, <2>1, <2>2, <2>3, AnsweredFrom
<1>9. CASE DrainChannel(g)
  <2>1. backend[g].st = "drain" /\ backend[g].fly = {} /\ UNCHANGED backendRest
    BY <1>9 DEF DrainChannel
  <2>2. CASE backend[g].chan # <<>>
    <3>0. PICK j : j = Head(backend[g].chan)
      OBVIOUS
    <3> DEFINE b == [backend[g] EXCEPT !.chan = Tail(@)]
    <3>1. b.st = "drain" /\ b.chan = Tail(backend[g].chan) /\ b.fly = {}
      BY <1>0, <2>1 DEF Backend
    <3>2. SetBackend(g, b) /\ Reply(j, "writeFail")
      BY <1>9, <2>2, <3>0 DEF DrainChannel
    <3> HIDE DEF b
    <3>3. /\ j \in Jobs /\ Elems(backend[g].chan) = {j} \cup Elems(b.chan) /\ j \notin Elems(b.chan)
          /\ DupFree(b.chan) /\ Len(b.chan) = Len(backend[g].chan) - 1
      BY <1>0, <2>2, <3>0, <3>1, TailElems
    <3>4. Len(b.chan) <= Depth
      BY <1>0, <3>3 DEF DiskAssumption
    <3>5. \A i \in Jobs : IF i \in {j} THEN outcome'[i] # "none" ELSE outcome'[i] = outcome[i]
      BY <1>0, <3>2 DEF Reply
    <3>6. \A i : i \in Elems(b.chan) <=> i \in Elems(backend[g].chan) /\ i \notin {j}
      BY <3>3
    <3>7. j \in Elems(backend[g].chan)
      BY <3>3
    <3>8. QED
      BY <2>1, <3>1, <3>2, <3>3, <3>4, <3>5, <3>6, <3>7, AnsweredFrom
  <2>3. CASE backend[g].chan = <<>>
    <3> DEFINE b == [backend[g] EXCEPT !.st = "closing"]
    <3>1. b.st = "closing" /\ b.chan = backend[g].chan /\ b.fly = backend[g].fly
      BY <1>0 DEF Backend
    <3>2. SetBackend(g, b) /\ UNCHANGED outcome
      BY <1>9, <2>3 DEF DrainChannel
    <3> HIDE DEF b
    <3>3. QED
      BY <1>2, <2>1, <3>1, <3>2
  <2>4. QED
    BY <2>2, <2>3
<1>10. CASE CloseChannel(g)
  BY <1>3, <1>10 DEF CloseChannel, PipeInv, BackendsOK
<1>11. QED
  BY <1>4, <1>5, <1>6, <1>7, <1>8, <1>9, <1>10 DEF BackendStep

\* Every step of threads and backends carries every piece.
LEMMA DiskCarries ==
  ASSUME DiskInv, PipeInv, DiskNext PROVE Kept
<1>1. CASE SubmitRecheck \/ CooldownOver
  <2>1. UNCHANGED <<leechQ, hasher, backend, restarts, outcome>>
    BY <1>1 DEF SubmitRecheck, CooldownOver, stateVars, queueVars
  <2>2. QED
    BY <2>1 DEF Kept, Carried, Same, PipeInv, QueuesOK, JobsHeld, BackendsOK, SpawnsOK,
                Queued, Threads, Chans, Flies, In
<1>2. QED
  BY <1>1, HashCarries, BackendCarries DEF DiskNext

-----------------------------------------------------------------------------
\* The sessions: a slot in the hash state and its piece.
PlaceInv == WriteInv /\ PipeInv /\ HashingIsSomewhere

\* A slot is a job.
LEMMA JobOf == \A p \in Sessions, k \in Slots : <<p, k>> \in Jobs
BY DEF WritePathAssumption

\* Neither a piece nor whether its slot is in the hash state changes.
LEMMA SlotFrame ==
  ASSUME HashingIsSomewhere, \A i \in Jobs : Nowhere(i)' <=> Nowhere(i),
         \A p \in Sessions : pc'[p] # "off" =>
            pc[p] # "off" /\ \A k \in Slots : slot'[p][k] = "hashing" <=> slot[p][k] = "hashing"
  PROVE  HashingIsSomewhere'
<1>1. ASSUME NEW p \in Sessions, NEW k \in Slots, pc'[p] # "off"
      PROVE  slot'[p][k] = "hashing" <=> ~Nowhere(<<p, k>>)'
  <2>1. (slot[p][k] = "hashing" <=> ~Nowhere(<<p, k>>)) /\ (slot'[p][k] = "hashing" <=> slot[p][k] = "hashing")
    BY <1>1 DEF HashingIsSomewhere
  <2>2. Nowhere(<<p, k>>)' <=> Nowhere(<<p, k>>)
    BY JobOf
  <2>3. QED
    BY <2>1, <2>2
<1>2. QED
  BY <1>1 DEF HashingIsSomewhere

\* What a session does alone moves no piece.
LEMMA PipeStutter ==
  ASSUME PipeInv, UNCHANGED diskVars PROVE PipeInv' /\ \A i \in Jobs : Nowhere(i)' <=> Nowhere(i)
<1>1. Kept /\ \A i \in Jobs : Same(i)
  BY DEF Kept, Carried, Same, PipeInv, QueuesOK, JobsHeld, BackendsOK, SpawnsOK, diskVars,
         Queued, Threads, Chans, Flies, In
<1>2. QED
  BY <1>1, KeptIs, CarriedKeeps

\* HashPool::submit, and the session that takes its reply.
LEMMA SubmitPlaces ==
  ASSUME DiskInv, PipeInv, NEW j \in Jobs, Nowhere(j), SubmitLeech(j)
  PROVE  PipeInv' /\ ~Nowhere(j)' /\ \A i \in Jobs : i # j => (Nowhere(i)' <=> Nowhere(i))
<1>1. leechQ \in Seq(Jobs) /\ leechQ' = Append(leechQ, j) /\ UNCHANGED <<hasher, backend, restarts, outcome>>
  BY DEF DiskInv, DiskTypeOK, SubmitLeech, stateVars
<1>2. Queued = Elems(leechQ) /\ Queued' = Elems(leechQ') /\ DupFree(leechQ) /\ j \notin Queued
  BY DEF Queued, Elems, PipeInv, QueuesOK, Nowhere
<1>3. Queued' = Queued \cup {j} /\ DupFree(leechQ')
  BY <1>1, <1>2, AppendElems
<1>4. \A i : /\ Threads(i)' = Threads(i) /\ Chans(i)' = Chans(i) /\ Flies(i)' = Flies(i)
             /\ outcome'[i] = outcome[i]
  BY <1>1 DEF Threads, Chans, Flies, In
<1>5. OnlyQueued(j)'
  BY <1>3, <1>4 DEF Nowhere, OnlyQueued
<1>6. ASSUME NEW i \in Jobs, i # j PROVE Same(i)
  BY <1>3, <1>4, <1>6 DEF Same
<1>7. \A i \in Jobs : One(i)'
  <2>1. \A i \in Jobs : i # j => One(i)'
    BY <1>6, CarriedKeeps DEF PipeInv
  <2>2. One(j)'
    BY <1>5 DEF One, Somewhere
  <2>3. QED
    BY <2>1, <2>2
<1>8. JobsHeld' /\ BackendsOK' /\ SpawnsOK' /\ QueuesOK'
  BY <1>1, <1>3 DEF PipeInv, JobsHeld, BackendsOK, SpawnsOK, QueuesOK
<1>9. ~Nowhere(j)'
  BY <1>5 DEF OnlyQueued, Nowhere
<1>10. \A i \in Jobs : i # j => (Nowhere(i)' <=> Nowhere(i))
  BY <1>6, CarriedKeeps
<1>11. QED
  BY <1>7, <1>8, <1>9, <1>10 DEF PipeInv

\* A reply that is taken was the piece's only place.
LEMMA ReplyPlaces ==
  ASSUME DiskInv, PipeInv, NEW j \in Jobs, outcome[j] # "none", Reply(j, "none"),
         UNCHANGED <<leechQ, hasher, backend, restarts>>
  PROVE  PipeInv' /\ Nowhere(j)' /\ \A i \in Jobs : i # j => (Nowhere(i)' <=> Nowhere(i))
<1>1. outcome'[j] = "none" /\ \A i \in Jobs : i # j => outcome'[i] = outcome[i]
  BY DEF DiskInv, DiskTypeOK, Reply
<1>2. \A i : /\ Threads(i)' = Threads(i) /\ Chans(i)' = Chans(i) /\ Flies(i)' = Flies(i)
             /\ (i \in Queued' <=> i \in Queued)
  BY DEF Threads, Chans, Flies, In, Queued
<1>3. OnlyReply(j)
  BY DEF PipeInv, One, Nowhere, Somewhere, OnlyQueued, OnlyThread, OnlyChan, OnlyFly
<1>4. Nowhere(j)'
  BY <1>1, <1>2, <1>3 DEF OnlyReply, Nowhere
<1>5. ASSUME NEW i \in Jobs, i # j PROVE Same(i)
  BY <1>1, <1>2, <1>5 DEF Same
<1>6. \A i \in Jobs : One(i)'
  <2>1. \A i \in Jobs : i # j => One(i)'
    BY <1>5, CarriedKeeps DEF PipeInv
  <2>2. QED
    BY <1>4, <2>1 DEF One
<1>7. JobsHeld' /\ BackendsOK' /\ SpawnsOK' /\ QueuesOK'
  BY DEF PipeInv, JobsHeld, BackendsOK, SpawnsOK, QueuesOK
<1>8. \A i \in Jobs : i # j => (Nowhere(i)' <=> Nowhere(i))
  BY <1>5, CarriedKeeps
<1>9. QED
  BY <1>4, <1>6, <1>7, <1>8 DEF PipeInv

\* Only the slot of one piece changes, and the piece with it.
LEMMA OneSlot ==
  ASSUME SessionTypeOK, HashingIsSomewhere, NEW p \in Sessions, NEW k \in Slots, NEW s, SetSlot(p, k, s),
         \A i \in Jobs : i # <<p, k>> => (Nowhere(i)' <=> Nowhere(i)),
         s = "hashing" <=> ~Nowhere(<<p, k>>)',
         \A q \in Sessions : pc'[q] # "off" => pc[q] # "off"
  PROVE  HashingIsSomewhere'
<1>1. \A q \in Sessions, l \in Slots : slot'[q][l] = IF q = p /\ l = k THEN s ELSE slot[q][l]
  BY DEF SessionTypeOK, SetSlot
<1>2. ASSUME NEW q \in Sessions, NEW l \in Slots, pc'[q] # "off"
      PROVE  slot'[q][l] = "hashing" <=> ~Nowhere(<<q, l>>)'
  <2>1. CASE q = p /\ l = k
    BY <1>1, <2>1
  <2>2. CASE ~(q = p /\ l = k)
    <3>1. <<q, l>> # <<p, k>> /\ <<q, l>> \in Jobs
      BY <2>2, JobOf
    <3>2. slot[q][l] = "hashing" <=> ~Nowhere(<<q, l>>)
      BY <1>2 DEF HashingIsSomewhere
    <3>3. QED
      BY <1>1, <2>2, <3>1, <3>2
  <2>3. QED
    BY <2>1, <2>2
<1>3. QED
  BY <1>2 DEF HashingIsSomewhere

\* Where the actors stand after one of them moves.
LEMMA GoesTo ==
  ASSUME SessionTypeOK, NEW a \in Actors, NEW l, Go(a, l)
  PROVE  /\ \A q \in Sessions : pc'[q] = IF q = a THEN l ELSE pc[q]
         /\ pc[a] # "off" => \A q \in Sessions : pc'[q] # "off" => pc[q] # "off"
BY DEF SessionTypeOK, Go, Actors

\* Steps that leave the pieces and the hash states alone.
LEMMA QuietPlaces ==
  ASSUME PlaceInv, UNCHANGED <<diskVars, slot>>, NEW a \in Actors, NEW l, Go(a, l), pc[a] # "off"
  PROVE  PipeInv' /\ HashingIsSomewhere'
<1>1. SessionTypeOK
  BY DEF PlaceInv, WriteInv, StagingInv
<1>2. \A q \in Sessions : pc'[q] # "off" => pc[q] # "off"
  BY <1>1, GoesTo
<1>3. PipeInv' /\ \A i \in Jobs : Nowhere(i)' <=> Nowhere(i)
  BY PipeStutter DEF PlaceInv
<1>4. QED
  BY <1>2, <1>3, SlotFrame DEF PlaceInv

\* ensure_staging_pool and the priorities move no piece.
LEMMA ActorPlaces ==
  ASSUME PlaceInv, (\E a \in Actors : EnsureStep(a)) \/ SetFilePriority \/ Decide
  PROVE  PipeInv' /\ HashingIsSomewhere'
<1>1. ASSUME NEW a \in Actors, EnsureStep(a) PROVE PipeInv' /\ HashingIsSomewhere'
  <2>1. UNCHANGED <<diskVars, slot>> /\ pc[a] # "off" /\ \E l : Go(a, l)
    BY <1>1 DEF EnsureStep, EnsureCheck, EnsureCreate, ReleaseShared, At
  <2>2. QED
    BY <2>1, QuietPlaces
<1>2. CASE SetFilePriority \/ Decide
  <2>1. UNCHANGED <<diskVars, slot>> /\ Mutator \in Actors /\ pc[Mutator] # "off" /\ \E l : Go(Mutator, l)
    BY <1>2 DEF SetFilePriority, Decide, At, Actors
  <2>2. QED
    BY <2>1, QuietPlaces
<1>3. QED
  BY <1>1, <1>2

\* A new session: the last one's slots are gone, and so are its pieces.
LEMMA ConnectPlaces ==
  ASSUME PlaceInv, NEW p \in Sessions, Connect(p) PROVE PipeInv' /\ HashingIsSomewhere'
<1>1. SessionTypeOK /\ Unstarted /\ p \in Actors /\ pc[p] = "off" /\ UNCHANGED <<diskVars, slot>>
  BY DEF PlaceInv, WriteInv, StagingInv, Actors, Connect, At
<1>2. PipeInv' /\ \A i \in Jobs : Nowhere(i)' <=> Nowhere(i)
  BY <1>1, PipeStutter DEF PlaceInv
<1>3. PICK l : Go(p, l)
  BY DEF Connect
<1>4. \A q \in Sessions : q # p => pc'[q] = pc[q]
  BY <1>1, <1>3, GoesTo
<1>5. ASSUME NEW k \in Slots PROVE Nowhere(<<p, k>>) /\ slot[p][k] # "hashing"
  <2>1. ~InPipeline(<<p, k>>)
    BY DEF Connect
  <2>2. Nowhere(<<p, k>>)
    BY <2>1 DEF InPipeline, Nowhere, Threads, Chans, Flies
  <2>3. slot[p][k] = "none"
    BY <1>1 DEF Unstarted
  <2>4. QED
    BY <2>2, <2>3
<1>6. ASSUME NEW q \in Sessions, NEW k \in Slots, pc'[q] # "off"
      PROVE  slot'[q][k] = "hashing" <=> ~Nowhere(<<q, k>>)'
  <2>1. Nowhere(<<q, k>>)' <=> Nowhere(<<q, k>>)
    BY <1>2, JobOf
  <2>2. CASE q = p
    BY <1>1, <1>5, <2>1, <2>2
  <2>3. CASE q # p
    <3>1. slot[q][k] = "hashing" <=> ~Nowhere(<<q, k>>)
      BY <1>4, <1>6, <2>3 DEF PlaceInv, HashingIsSomewhere
    <3>2. QED
      BY <1>1, <2>1, <3>1
  <2>4. QED
    BY <2>2, <2>3
<1>7. QED
  BY <1>2, <1>6 DEF HashingIsSomewhere

\* A session and one of its slots (take_requests, take_for_hash, reclaim).
LEMMA SlotPlaces ==
  ASSUME PlaceInv, NEW p \in Sessions, NEW k \in Slots,
         \/ StartPiece(p, k) \/ PieceComplete(p, k) \/ HashTableGone(p, k)
         \/ ApplyOutcome(p, k) \/ Discard(p, k)
  PROVE  PipeInv' /\ HashingIsSomewhere'
<1>0. /\ SessionTypeOK /\ DiskInv /\ PipeInv /\ HashingIsSomewhere /\ p \in Actors
      /\ slot[p][k] \in SlotStates
  BY DEF PlaceInv, WriteInv, StagingInv, Actors, SessionTypeOK
<1>1. PICK j : j = <<p, k>> /\ j \in Jobs
  BY JobOf
<1>2. pc[p] # "off" => (slot[p][k] = "hashing" <=> ~Nowhere(j))
  BY <1>0, <1>1 DEF HashingIsSomewhere
<1>3. CASE StartPiece(p, k)
  <2>1. /\ pc[p] # "off" /\ UNCHANGED <<diskVars, pc>> /\ SetSlot(p, k, "assembling") /\ Nowhere(j)
    BY <1>2, <1>3 DEF StartPiece, At
  <2>2. PipeInv' /\ \A i \in Jobs : Nowhere(i)' <=> Nowhere(i)
    BY <1>0, <2>1, PipeStutter
  <2>3. Nowhere(<<p, k>>)'
    BY <1>1, <2>1, <2>2
  <2>4. HashingIsSomewhere'
    BY <1>0, <2>1, <2>2, <2>3, OneSlot
  <2>5. QED
    BY <2>2, <2>4
<1>4. CASE PieceComplete(p, k)
  <2>1. /\ UNCHANGED pc /\ SetSlot(p, k, "hashing") /\ SubmitLeech(j) /\ Nowhere(j)
    BY <1>1, <1>2, <1>4 DEF PieceComplete, At
  <2>2. PipeInv' /\ ~Nowhere(j)' /\ \A i \in Jobs : i # j => (Nowhere(i)' <=> Nowhere(i))
    BY <1>0, <1>1, <2>1, SubmitPlaces
  <2>3. ~Nowhere(<<p, k>>)' /\ \A i \in Jobs : i # <<p, k>> => (Nowhere(i)' <=> Nowhere(i))
    BY <1>1, <2>2
  <2>4. HashingIsSomewhere'
    BY <1>0, <2>1, <2>3, OneSlot
  <2>5. QED
    BY <2>2, <2>4
<1>5. CASE HashTableGone(p, k)
  <2>1. /\ pc[p] # "off" /\ UNCHANGED diskVars /\ SetSlot(p, k, "none") /\ Nowhere(j) /\ Go(p, "end")
    BY <1>2, <1>5 DEF HashTableGone, At
  <2>2. PipeInv' /\ \A i \in Jobs : Nowhere(i)' <=> Nowhere(i)
    BY <1>0, <2>1, PipeStutter
  <2>3. Nowhere(<<p, k>>)' /\ \A q \in Sessions : pc'[q] # "off" => pc[q] # "off"
    BY <1>0, <1>1, <2>1, <2>2, GoesTo
  <2>4. HashingIsSomewhere'
    BY <1>0, <2>1, <2>2, <2>3, OneSlot
  <2>5. QED
    BY <2>2, <2>4
<1>6. CASE ApplyOutcome(p, k)
  <2>1. /\ pc[p] # "off" /\ outcome[j] # "none" /\ Reply(j, "none")
        /\ UNCHANGED <<leechQ, hasher, backend, restarts>>
        /\ SetSlot(p, k, IF slot[p][k] = "hashing" THEN "none" ELSE slot[p][k])
        /\ pc' = pc \/ Go(p, "marked")
    BY <1>1, <1>6 DEF ApplyOutcome, At, Outcomes, queueVars, stateVars
  <2>2. PipeInv' /\ Nowhere(j)' /\ \A i \in Jobs : i # j => (Nowhere(i)' <=> Nowhere(i))
    BY <1>0, <1>1, <2>1, ReplyPlaces
  <2>3. PICK s : SetSlot(p, k, s) /\ s # "hashing"
    BY <2>1
  <2>4. \A q \in Sessions : pc'[q] # "off" => pc[q] # "off"
    BY <1>0, <2>1, GoesTo
  <2>5. Nowhere(<<p, k>>)' /\ \A i \in Jobs : i # <<p, k>> => (Nowhere(i)' <=> Nowhere(i))
    BY <1>1, <2>2
  <2>6. HashingIsSomewhere'
    BY <1>0, <2>3, <2>4, <2>5, OneSlot
  <2>7. QED
    BY <2>2, <2>6
<1>7. CASE Discard(p, k)
  <2>1. /\ pc[p] = "off" /\ outcome[j] # "none" /\ Reply(j, "none")
        /\ UNCHANGED <<leechQ, hasher, backend, restarts, pc, slot>>
    BY <1>1, <1>7 DEF Discard, At, queueVars, stateVars, sessionVars
  <2>2. PipeInv' /\ \A i \in Jobs : i # j => (Nowhere(i)' <=> Nowhere(i))
    BY <1>0, <1>1, <2>1, ReplyPlaces
  <2>3. ASSUME NEW q \in Sessions, NEW l \in Slots, pc'[q] # "off"
        PROVE  slot'[q][l] = "hashing" <=> ~Nowhere(<<q, l>>)'
    <3>1. <<q, l>> # j /\ <<q, l>> \in Jobs
      BY <1>1, <2>1, <2>3, JobOf
    <3>2. slot[q][l] = "hashing" <=> ~Nowhere(<<q, l>>)
      BY <1>0, <2>1, <2>3 DEF HashingIsSomewhere
    <3>3. QED
      BY <2>1, <2>2, <3>1, <3>2
  <2>4. QED
    BY <2>2, <2>3 DEF HashingIsSomewhere
<1>8. QED
  BY <1>3, <1>4, <1>5, <1>6, <1>7

\* A session queues a piece that was nowhere, or takes a reply.
LEMMA SessionPlaces ==
  ASSUME PlaceInv, NEW p \in Sessions, SessionStep(p) PROVE PipeInv' /\ HashingIsSomewhere'
<1>0. SessionTypeOK /\ DiskInv /\ PipeInv /\ HashingIsSomewhere /\ p \in Actors
  BY DEF PlaceInv, WriteInv, StagingInv, Actors
<1>1. CASE Connect(p)
  BY <1>1, ConnectPlaces
<1>2. CASE TakeShared(p) \/ LeechDone(p) \/ Disconnect(p) \/ Cleared(p) \/ Marked(p)
  <2>1. UNCHANGED <<diskVars, slot>> /\ pc[p] # "off" /\ \E l : Go(p, l)
    BY <1>2 DEF TakeShared, LeechDone, Disconnect, Cleared, Marked, At
  <2>2. QED
    BY <1>0, <2>1, QuietPlaces
<1>3. CASE ReInterest(p)
  <2>1. UNCHANGED <<diskVars, slot, pc>>
    BY <1>3 DEF ReInterest
  <2>2. PipeInv' /\ \A i \in Jobs : Nowhere(i)' <=> Nowhere(i)
    BY <1>0, <2>1, PipeStutter
  <2>3. QED
    BY <1>0, <2>1, <2>2, SlotFrame
<1>4. CASE ClearOne(p)
  <2>1. PICK k \in Assembling(p) : SetSlot(p, k, "none")
    BY <1>4 DEF ClearOne
  <2>2. k \in Slots /\ slot[p][k] = "assembling" /\ pc[p] # "off" /\ UNCHANGED <<diskVars, pc>>
    BY <1>4 DEF ClearOne, Assembling
  <2>3. PipeInv' /\ \A i \in Jobs : Nowhere(i)' <=> Nowhere(i)
    BY <1>0, <2>2, PipeStutter
  <2>4. Nowhere(<<p, k>>)'
    BY <1>0, <2>2, <2>3, JobOf DEF HashingIsSomewhere
  <2>5. HashingIsSomewhere'
    BY <1>0, <2>1, <2>2, <2>3, <2>4, OneSlot
  <2>6. QED
    BY <2>3, <2>5
<1>5. CASE Ended(p)
  <2>1. Go(p, "off") /\ slot' = [slot EXCEPT ![p] = [k \in Slots |-> "none"]] /\ UNCHANGED diskVars
    BY <1>5 DEF Ended
  <2>2. PipeInv' /\ \A i \in Jobs : Nowhere(i)' <=> Nowhere(i)
    BY <1>0, <2>1, PipeStutter
  <2>3. \A q \in Sessions : pc'[q] # "off" => pc'[q] = pc[q] /\ q # p
    BY <1>0, <2>1, GoesTo
  <2>4. \A q \in Sessions : q # p => slot'[q] = slot[q]
    BY <1>0, <2>1 DEF SessionTypeOK
  <2>5. QED
    BY <1>0, <2>2, <2>3, <2>4, SlotFrame
<1>6. QED
  BY <1>1, <1>2, <1>3, <1>4, <1>5, SlotPlaces DEF SessionStep

\* Every step keeps PlaceInv.
LEMMA PlaceStep == ASSUME PlaceInv, [Next]_vars PROVE PlaceInv'
<1>0. WriteInv /\ WriteInv'
  BY WriteStep DEF PlaceInv
<1>1. CASE (\E a \in Actors : EnsureStep(a)) \/ SetFilePriority \/ Decide
  BY <1>0, <1>1, ActorPlaces DEF PlaceInv
<1>2. ASSUME NEW p \in Sessions, SessionStep(p) PROVE PlaceInv'
  BY <1>0, <1>2, SessionPlaces DEF PlaceInv
<1>3. CASE DiskNext /\ UNCHANGED <<poolVars, sessionVars>>
  <2>1. Kept /\ PipeInv /\ UNCHANGED <<pc, slot>>
    BY <1>0, <1>3, DiskCarries DEF PlaceInv, WriteInv, sessionVars
  <2>2. PipeInv' /\ \A i \in Jobs : Nowhere(i)' <=> Nowhere(i)
    BY <2>1, KeptIs, CarriedKeeps DEF Kept, Carried
  <2>3. HashingIsSomewhere'
    BY <2>1, <2>2, SlotFrame DEF PlaceInv
  <2>4. QED
    BY <1>0, <2>2, <2>3 DEF PlaceInv
<1>4. CASE UNCHANGED vars
  <2>1. UNCHANGED <<diskVars, pc, slot>>
    BY <1>4 DEF vars, sessionVars
  <2>2. PipeInv' /\ \A i \in Jobs : Nowhere(i)' <=> Nowhere(i)
    BY <2>1, PipeStutter DEF PlaceInv
  <2>3. QED
    BY <1>0, <2>1, <2>2, SlotFrame DEF PlaceInv
<1>5. QED
  BY <1>1, <1>2, <1>3, <1>4 DEF Next

\* The initial state satisfies PlaceInv.
LEMMA PlaceInit == ASSUME Init PROVE PlaceInv
<1>0. WriteInv
  BY WriteInit
<1>1. /\ leechQ = <<>> /\ restarts = 0
      /\ hasher = [h \in Hashers |-> Resting]
      /\ backend = [g \in Gens |-> IF g = 0 THEN NewBackend ELSE NoBackend]
      /\ outcome = [j \in Jobs |-> "none"]
  BY DEF Init, DiskInit
<1>2. /\ NewBackend.chan = <<>> /\ NewBackend.fly = {} /\ NewBackend.st = "starting"
      /\ NoBackend.chan = <<>> /\ NoBackend.fly = {} /\ NoBackend.st = "none"
      /\ Resting.job = NoJob /\ Resting.pc = "leech"
  BY DEF NewBackend, NoBackend, Resting
<1>3. \A g \in Gens : backend[g].chan = <<>> /\ backend[g].fly = {} /\ (g # 0 => backend[g].st = "none")
                      /\ backend[g].st \in {"none", "starting"}
  BY <1>1, <1>2
<1>4. QueuesOK /\ BackendsOK /\ JobsHeld
  <2>1. QueuesOK
    BY <1>1, <1>3, EmptyChan DEF QueuesOK
  <2>2. BackendsOK
    BY <1>3 DEF BackendsOK
  <2>3. QED
    BY <1>1, <1>2, <2>1, <2>2 DEF JobsHeld
<1>5. SpawnsOK
  BY <1>1, <1>2, <1>3 DEF SpawnsOK
<1>6. ASSUME NEW i \in Jobs PROVE Nowhere(i)
  <2>1. Queued = {} /\ Threads(i) = {}
    BY <1>1, <1>2 DEF Queued, Threads, DiskAssumption
  <2>2. Chans(i) = {} /\ Flies(i) = {}
    BY <1>3, EmptyChan DEF Chans, Flies, In, Elems
  <2>3. QED
    BY <1>1, <2>1, <2>2 DEF Nowhere
<1>7. HashingIsSomewhere
  <2>1. \A p \in Sessions : pc[p] = "off"
    BY DEF Init, Actors, WritePathAssumption
  <2>2. QED
    BY <2>1 DEF HashingIsSomewhere
<1>8. QED
  BY <1>0, <1>4, <1>5, <1>6, <1>7 DEF PlaceInv, PipeInv, One

\* The places of a piece, counted.
LEMMA CopiesAre ==
  ASSUME PlaceInv, NEW j \in Jobs PROVE Copies(j) = IF Nowhere(j) THEN 0 ELSE 1
<1> DEFINE qs == {k \in DOMAIN leechQ : leechQ[k] = j}
           cs == {e \in Gens \X (1..Depth) :
                    e[2] \in DOMAIN backend[e[1]].chan /\ backend[e[1]].chan[e[2]] = j}
<1>1. One(j) /\ QueuesOK /\ backend \in [Gens -> Backend]
  BY DEF PlaceInv, PipeInv, WriteInv, DiskInv, DiskTypeOK
<1>2. \/ j \notin Queued /\ qs = {}
      \/ j \in Queued /\ \E k : qs = {k}
  <2>1. CASE j \notin Queued
    <3>1. qs = {}
      BY <2>1 DEF Queued, Elems
    <3>2. QED
      BY <2>1, <3>1
  <2>2. CASE j \in Queued
    <3>1. PICK k \in DOMAIN leechQ : leechQ[k] = j
      BY <2>2 DEF Queued, Elems
    <3>2. qs = {k}
      BY <1>1, <3>1 DEF QueuesOK, DupFree
    <3> HIDE DEF qs
    <3>3. QED
      BY <2>2, <3>2
  <2>3. QED
    BY <2>1, <2>2
<1>3. Chans(j) = {} => cs = {}
  BY DEF Chans, In
<1>4. ASSUME NEW g \in Gens, Chans(j) = {g} PROVE \E e : cs = {e}
  <2>1. PICK k \in DOMAIN backend[g].chan : backend[g].chan[k] = j
    BY <1>4 DEF Chans, In
  <2>2. k \in 1..Depth
    <3>1. backend[g].chan \in Seq(Jobs) /\ Len(backend[g].chan) <= Depth /\ Depth \in Nat
      BY <1>1 DEF Backend, QueuesOK, DiskAssumption
    <3>2. QED
      BY <2>1, <3>1
  <2>3. <<g, k>> \in cs
    BY <2>1, <2>2
  <2>4. ASSUME NEW e \in cs PROVE e = <<g, k>>
    <3>1. e \in Gens \X (1..Depth) /\ e[1] \in Chans(j)
      BY <2>4 DEF Chans, In
    <3>2. e[1] = g
      BY <1>4, <3>1
    <3>3. e[2] = k
      BY <1>1, <2>1, <2>4, <3>2 DEF QueuesOK, DupFree
    <3>4. QED
      BY <3>1, <3>2, <3>3
  <2> HIDE DEF cs
  <2>5. cs = {<<g, k>>}
    BY <2>3, <2>4
  <2>6. QED
    BY <2>5
<1> DEFINE r == IF outcome[j] = "none" THEN 0 ELSE 1
<1>5. Copies(j) = Cardinality(qs) + Cardinality(Threads(j)) + Cardinality(cs) + Cardinality(Flies(j)) + r
  BY DEF Copies, Places, Threads, Flies
<1> HIDE DEF qs, cs, r
<1>6. Cardinality({}) = 0 /\ \A x : Cardinality({x}) = 1
  BY FS_EmptySet, FS_Singleton
<1>7. /\ Cardinality(qs) = IF j \in Queued THEN 1 ELSE 0
      /\ Threads(j) = {} => Cardinality(Threads(j)) = 0
      /\ Flies(j) = {} => Cardinality(Flies(j)) = 0
      /\ Chans(j) = {} => Cardinality(cs) = 0
      /\ \A x : Threads(j) = {x} => Cardinality(Threads(j)) = 1
      /\ \A x : Flies(j) = {x} => Cardinality(Flies(j)) = 1
      /\ \A x \in Gens : Chans(j) = {x} => Cardinality(cs) = 1
      /\ r = IF outcome[j] = "none" THEN 0 ELSE 1
  BY <1>2, <1>3, <1>4, <1>6 DEF r
<1>8. CASE Nowhere(j)
  BY <1>5, <1>7, <1>8 DEF Nowhere
<1>9. CASE Somewhere(j)
  <2>1. ~Nowhere(j)
    BY <1>9 DEF Somewhere, Nowhere, OnlyQueued, OnlyThread, OnlyChan, OnlyFly, OnlyReply
  <2>2. Copies(j) = 1
    BY <1>5, <1>7, <1>9 DEF Somewhere, OnlyQueued, OnlyThread, OnlyChan, OnlyFly, OnlyReply
  <2>3. QED
    BY <2>1, <2>2
<1>10. QED
  BY <1>1, <1>8, <1>9 DEF One

\* A piece in the hash state is in exactly one place: a queue, a thread's hands,
\* a channel, in flight or answered, through restarts of the disk worker, the
\* one retry, failing rings and sessions that end (submit_write, handle_verify,
\* try_restart, fatal_drain_and_exit).
THEOREM EachInOnePlace == Spec => []OnePlace
<1>1. ASSUME PlaceInv PROVE OnePlace
  <2>1. ASSUME NEW p \in Sessions, NEW k \in Slots
        PROVE  /\ Copies(<<p, k>>) <= 1
               /\ pc[p] # "off" => (slot[p][k] = "hashing" <=> Copies(<<p, k>>) = 1)
    <3>1. Copies(<<p, k>>) = IF Nowhere(<<p, k>>) THEN 0 ELSE 1
      BY <1>1, CopiesAre, JobOf
    <3>2. pc[p] # "off" => (slot[p][k] = "hashing" <=> ~Nowhere(<<p, k>>))
      BY <1>1 DEF PlaceInv, HashingIsSomewhere
    <3>3. QED
      BY <3>1, <3>2
  <2>2. QED
    BY <2>1 DEF OnePlace
<1>2. QED
  BY <1>1, PlaceInit, PlaceStep, PTL DEF Spec
=============================================================================
