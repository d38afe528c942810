------------------------------ MODULE SpanWrite ------------------------------
(***************************************************************************)
(* The spans of a piece on their way to the files: the disk thread of the  *)
(* io_uring backend (runtime/disk_worker/uring.rs) and of the POSIX AIO    *)
(* backend (aio.rs), whose writes DiskWorker takes for one step.           *)
(*                                                                         *)
(* A piece is cut into a write for every file it touches; the writes of up *)
(* to SpanDepth pieces are with the kernel at a time.  The kernel reads    *)
(* the buffer of a piece for as long as one of its writes is queued or     *)
(* running, and the answer gives that buffer back to the staging pool.     *)
(* An io_uring write waits in the submission queue until a submit moves it *)
(* to the kernel; an AIO write is there at once.                           *)
(*                                                                         *)
(* Abstracted: offsets and bytes, the cache of open files (opening one     *)
(* fails or does not), and the option that discards all writes.            *)
(***************************************************************************)
EXTENDS Integers, Sequences, FiniteSets, SequencesExt

CONSTANTS
    SpanPieces,     \* the pieces handed to the backend
    SpansOf,        \* how many files each of them touches
    SpanDepth,      \* disk_depth
    RingEntries,    \* room in the submission queue (4 * depth, at least 16)
    MaxErrors       \* bound: failing opens, submits, waits and writes

ASSUME SpanAssumption ==
    /\ IsFiniteSet(SpanPieces) /\ SpansOf \in [SpanPieces -> Nat]
    /\ SpanDepth \in Nat \ {0} /\ RingEntries \in Nat \ {0} /\ MaxErrors \in Nat

VARIABLES
    onRing,       \* TRUE: io_uring, FALSE: AIO
    offered,    \* pieces not yet sent
    inbox,      \* rx
    hungUp,     \* every sender of rx is gone
    waiting,    \* taken from rx, not started
    fly,        \* inflight: the pieces, with their remaining and failed
    at,         \* where the thread is
    cut,        \* start_piece: the piece and its next span
    sq,         \* writes pushed, not yet submitted
    kernel,     \* writes the kernel works on
    finished,   \* writes it has finished, not yet harvested
    wrote,      \* those of them that were written in full
    answer,     \* complete_write_job of each piece
    errors      \* left

spanVars == <<onRing, offered, inbox, hungUp, waiting, fly, at, cut, sq, kernel,
              finished, wrote, answer, errors>>

Ops(p) == {<<p, s>> : s \in 1..SpansOf[p]}
AllOps == UNION {Ops(p) : p \in SpanPieces}
Pending == ToSet(sq) \cup kernel \cup finished
Flying == DOMAIN fly
NoPiece == <<>>

SpanInit ==
    /\ onRing \in BOOLEAN
    /\ offered = SpanPieces /\ inbox = <<>> /\ hungUp = FALSE /\ waiting = <<>>
    /\ fly = <<>> /\ at = "fill" /\ cut = NoPiece
    /\ sq = <<>> /\ kernel = {} /\ finished = {} /\ wrote = {}
    /\ answer = [p \in SpanPieces |-> "none"] /\ errors = MaxErrors

Errs == errors > 0 /\ errors' = errors - 1
With(p, n, f) == [q \in Flying \cup {p} |->
                    IF q = p THEN [remaining |-> n, failed |-> f] ELSE fly[q]]
Settles(ps, a) == answer' = [p \in SpanPieces |-> IF p \in ps THEN a ELSE answer[p]]

-----------------------------------------------------------------------------
(* The hash threads, and the kernel.                                       *)

SendsPiece(p) ==
    /\ p \in offered /\ ~hungUp /\ at # "ended" /\ Len(inbox) < SpanDepth
    /\ offered' = offered \ {p} /\ inbox' = Append(inbox, p)
    /\ UNCHANGED <<onRing, hungUp, waiting, fly, at, cut, sq, kernel, finished, wrote, answer, errors>>

HangsUp ==
    /\ ~hungUp /\ hungUp' = TRUE
    /\ UNCHANGED <<onRing, offered, inbox, waiting, fly, at, cut, sq, kernel, finished, wrote, answer, errors>>

\* In full, short or not at all; nothing but the kernel knows which yet.
Finishes(op) ==
    /\ op \in kernel
    /\ kernel' = kernel \ {op} /\ finished' = finished \cup {op}
    /\ \/ wrote' = wrote \cup {op} /\ UNCHANGED errors
       \/ Errs /\ UNCHANGED wrote
    /\ UNCHANGED <<onRing, offered, inbox, hungUp, waiting, fly, at, cut, sq, answer>>

-----------------------------------------------------------------------------
(* uring_main and aio_main, up to the wait.                                *)

outside == <<onRing, offered, hungUp>>

Fill ==
    /\ at = "fill" /\ at' = "start"
    /\ LET room == SpanDepth - Cardinality(Flying) - Len(waiting)
           n == IF Len(inbox) < room THEN Len(inbox) ELSE room
       IN  waiting' = waiting \o SubSeq(inbox, 1, n) /\ inbox' = SubSeq(inbox, n + 1, Len(inbox))
    /\ UNCHANGED <<outside, fly, cut, sq, kernel, finished, wrote, answer, errors>>

\* start_piece, until the first write: no room in the onRing, a file that does
\* not open, nothing to write.
StartPiece ==
    /\ at = "start" /\ Cardinality(Flying) < SpanDepth /\ waiting # <<>>
    /\ LET p == Head(waiting) IN
         \/ /\ SpansOf[p] = 0 /\ Settles({p}, "ok") /\ UNCHANGED <<at, cut, errors>>
         \/ /\ onRing /\ SpansOf[p] > RingEntries
            /\ Settles({p}, "fail") /\ UNCHANGED <<at, cut, errors>>
         \/ /\ SpansOf[p] > 0 /\ (onRing => SpansOf[p] <= RingEntries)
            /\ Errs /\ Settles({p}, "fail") /\ UNCHANGED <<at, cut>>
         \/ /\ SpansOf[p] > 0 /\ (onRing => SpansOf[p] <= RingEntries)
            /\ at' = "push" /\ cut' = <<p, 1>> /\ UNCHANGED <<answer, errors>>
    /\ waiting' = Tail(waiting)
    /\ UNCHANGED <<outside, inbox, fly, sq, kernel, finished, wrote>>

\* Then wait for completions, or for a piece if nothing is in flight.
StartsOver ==
    /\ at = "start" /\ (Cardinality(Flying) >= SpanDepth \/ waiting = <<>>)
    /\ at' = IF Flying # {} THEN "wait" ELSE "recv"
    /\ UNCHANGED <<outside, inbox, waiting, fly, cut, sq, kernel, finished, wrote, answer, errors>>

Recv ==
    /\ at = "recv"
    /\ \/ inbox # <<>> /\ waiting' = <<Head(inbox)>> /\ inbox' = Tail(inbox) /\ at' = "fill"
       \/ inbox = <<>> /\ hungUp /\ at' = "ended" /\ UNCHANGED <<waiting, inbox>>
    /\ UNCHANGED <<outside, fly, cut, sq, kernel, finished, wrote, answer, errors>>

-----------------------------------------------------------------------------
(* start_piece of the ring.                                                *)

\* Seeded fault: a submit that fails hands the job back, whatever was pushed.
PartialHandedBack ==
    /\ Settles({cut[1]}, "fail")
    /\ UNCHANGED fly

\* The writes pushed so far stay in flight, as those of a failed piece;
\* without one the job is handed back.
Partial ==
    IF cut[2] = 1 THEN Settles({cut[1]}, "fail") /\ UNCHANGED fly
    ELSE fly' = With(cut[1], cut[2] - 1, TRUE) /\ UNCHANGED answer

\* submit moves the first n entries.
Submits(n) ==
    /\ kernel' = kernel \cup ToSet(SubSeq(sq, 1, n))
    /\ sq' = SubSeq(sq, n + 1, Len(sq))

Push ==
    /\ onRing /\ at = "push" /\ cut[2] <= SpansOf[cut[1]] /\ Len(sq) < RingEntries
    /\ sq' = Append(sq, cut) /\ cut' = [cut EXCEPT ![2] = @ + 1]
    /\ UNCHANGED <<outside, inbox, waiting, fly, at, kernel, finished, wrote, answer, errors>>

\* No room: submit and try again; 64 tries without room give the piece up.
PushFull ==
    /\ onRing /\ at = "push" /\ cut[2] <= SpansOf[cut[1]] /\ Len(sq) = RingEntries
    /\ \/ /\ \E n \in 1..Len(sq) : Submits(n)
          /\ UNCHANGED <<fly, at, cut, answer, errors>>
       \/ Errs /\ Partial /\ at' = "start" /\ cut' = NoPiece /\ UNCHANGED <<sq, kernel>>
    /\ UNCHANGED <<outside, inbox, waiting, finished, wrote>>

SubmitPiece ==
    /\ onRing /\ at = "push" /\ cut[2] > SpansOf[cut[1]]
    /\ \/ /\ \E n \in 1..Len(sq) : Submits(n)
          /\ fly' = With(cut[1], SpansOf[cut[1]], FALSE)
          /\ UNCHANGED <<answer, errors>>
       \/ Errs /\ Partial /\ UNCHANGED <<sq, kernel>>
    /\ at' = "start" /\ cut' = NoPiece
    /\ UNCHANGED <<outside, inbox, waiting, finished, wrote>>

-----------------------------------------------------------------------------
(* start_piece of AIO.                                                     *)

AioWrite ==
    /\ ~onRing /\ at = "push" /\ cut[2] <= SpansOf[cut[1]]
    /\ \/ /\ kernel' = kernel \cup {cut} /\ cut' = [cut EXCEPT ![2] = @ + 1]
          /\ UNCHANGED <<at, errors>>
       \/ Errs /\ at' = "undo" /\ UNCHANGED <<kernel, cut>>
    /\ UNCHANGED <<outside, inbox, waiting, fly, sq, finished, wrote, answer>>

AioStarted ==
    /\ ~onRing /\ at = "push" /\ cut[2] > SpansOf[cut[1]]
    /\ fly' = With(cut[1], SpansOf[cut[1]], FALSE)
    /\ at' = "start" /\ cut' = NoPiece
    /\ UNCHANGED <<outside, inbox, waiting, sq, kernel, finished, wrote, answer, errors>>

\* The writes before the one that failed are cancelled and waited for
\* (drain_one_aiocb) before the job is handed back.
AioUndo ==
    /\ at = "undo" /\ Ops(cut[1]) \cap kernel = {}
    /\ finished' = finished \ Ops(cut[1])
    /\ Settles({cut[1]}, "fail") /\ at' = "start" /\ cut' = NoPiece
    /\ UNCHANGED <<outside, inbox, waiting, fly, sq, kernel, wrote, errors>>

-----------------------------------------------------------------------------
(* Completions.                                                            *)

Back(p) == {op \in finished : op[1] = p}
Left(p) == fly[p].remaining - Cardinality(Back(p))

\* Seeded fault: the result of the last write decides.
SpoiltByLast(p) ==
    IF Back(p) = {} THEN fly[p].failed ELSE \E op \in Back(p) : op \notin wrote
\* A write that failed or was short spoils the piece for good.
Spoilt(p) == fly[p].failed \/ \E op \in Back(p) : op \notin wrote

\* harvest_cqes, harvest_completions: all that has finished; a piece with
\* nothing left is answered.
HarvestFrom(verdict) ==
    LET whole == {p \in Flying : Left(p) = 0} IN
    /\ fly' = [p \in Flying \ whole |-> [remaining |-> Left(p), failed |-> Spoilt(p)]]
    /\ answer' = [p \in SpanPieces |-> IF p \in whole THEN verdict[p] ELSE answer[p]]
    /\ finished' = {}
Harvest == HarvestFrom([p \in Flying |-> IF Spoilt(p) THEN "fail" ELSE "ok"])

\* submit_and_wait(1), aio_suspend.
Wait ==
    /\ at = "wait" /\ finished # {}
    /\ sq = <<>> /\ Harvest
    /\ at' = "fill"
    /\ UNCHANGED <<outside, inbox, waiting, cut, sq, kernel, wrote, errors>>
WaitSubmits ==
    /\ at \in {"wait", "drain"} /\ sq # <<>> /\ Submits(Len(sq))
    /\ UNCHANGED <<outside, inbox, waiting, fly, at, cut, finished, wrote, answer, errors>>

\* fatal_drain_and_exit: every piece in flight is a failed one.
WaitFails ==
    /\ at = "wait" /\ Errs /\ at' = "drain"
    /\ fly' = [p \in Flying |-> [fly[p] EXCEPT !.failed = TRUE]]
    /\ UNCHANGED <<outside, inbox, waiting, cut, sq, kernel, finished, wrote, answer>>

DrainHarvests ==
    /\ at = "drain" /\ finished # {} /\ Harvest
    /\ UNCHANGED <<outside, inbox, waiting, at, cut, sq, kernel, wrote, errors>>

\* Eight failing waits or 60 s: what the kernel may still read is leaked.
\* AIO waits for as long as it takes.
DrainGivesUp ==
    /\ onRing /\ at = "drain" /\ Flying # {} /\ Errs
    /\ Settles(Flying, "leaked") /\ fly' = <<>>
    /\ UNCHANGED <<outside, inbox, waiting, at, cut, sq, kernel, finished, wrote>>

\* What was not started, and what is still in the channel, fails.
DrainsRest ==
    /\ at = "drain" /\ Flying = {}
    /\ Settles(ToSet(waiting) \cup ToSet(inbox), "fail")
    /\ waiting' = <<>> /\ inbox' = <<>> /\ at' = "ended"
    /\ UNCHANGED <<outside, fly, cut, sq, kernel, finished, wrote, errors>>

-----------------------------------------------------------------------------
SpanStep ==
    \/ Fill \/ StartPiece \/ StartsOver \/ Recv
    \/ Push \/ PushFull \/ SubmitPiece \/ AioWrite \/ AioStarted \/ AioUndo
    \/ Wait \/ WaitSubmits \/ WaitFails \/ DrainHarvests \/ DrainGivesUp \/ DrainsRest
SpanNext ==
    \/ \E p \in SpanPieces : SendsPiece(p)
    \/ HangsUp \/ SpanStep
    \/ \E op \in AllOps : Finishes(op)

SpanSpec == SpanInit /\ [][SpanNext]_spanVars
SpanFairSpec ==
    SpanSpec /\ WF_spanVars(SpanStep) /\ \A op \in AllOps : WF_spanVars(Finishes(op))

-----------------------------------------------------------------------------
SpanTypeOK ==
    /\ onRing \in BOOLEAN /\ hungUp \in BOOLEAN /\ offered \subseteq SpanPieces
    /\ inbox \in Seq(SpanPieces) /\ waiting \in Seq(SpanPieces)
    /\ Flying \subseteq SpanPieces
    /\ \A p \in Flying : fly[p] \in [remaining : Nat, failed : BOOLEAN]
    /\ at \in {"fill", "start", "recv", "push", "undo", "wait", "drain", "ended"}
    /\ sq \in Seq(AllOps) /\ kernel \cup finished \cup wrote \subseteq AllOps
    /\ answer \in [SpanPieces -> {"none", "ok", "fail", "leaked"}] /\ errors \in Nat

\* The buffer of a piece goes back to the pool only when no write of it is
\* queued or running, and as a stored piece only when every one of its files
\* took all it was given: whatever fails, and however far start_piece came.
BufferOutlivesWrites ==
    \A p \in SpanPieces :
        /\ answer[p] \in {"ok", "fail"} => Ops(p) \cap Pending = {}
        /\ answer[p] = "ok" => Ops(p) \subseteq wrote

\* Every piece the thread has been sent is answered, or leaked for ever.
SentIsAnswered ==
    \A p \in SpanPieces : p \in ToSet(inbox) ~> answer[p] # "none"
=============================================================================
