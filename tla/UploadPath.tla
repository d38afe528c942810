----------------------------- MODULE UploadPath -----------------------------
(***************************************************************************)
(* The outbound half of one established peer session: the reader task      *)
(* turns the remote's messages into commands, the writer task turns        *)
(* commands, newly verified pieces and its timers into frames on the wire  *)
(* (peer/established.rs, peer/duplex.rs, peer/out_queue.rs, upload/).      *)
(* Reader and writer are two tasks of one thread: each action is what one  *)
(* of them does between two awaits.  Pieces are marked by other threads at *)
(* any moment, between any two actions.                                    *)
(*                                                                         *)
(* The remote is whoever sends messages: each handler of the reader is an  *)
(* action that may happen at any time, and what a frame written to the     *)
(* wire does to the remote's idea of our pieces is remoteView.             *)
(***************************************************************************)
EXTENDS Integers, Sequences, FiniteSets, SequencesExt

NoBlock == "no block"

CONSTANTS
    Pieces,      \* pieces of the torrent
    Blocks,      \* blocks a remote may ask for
    PieceOf,     \* the piece a block lies in, NoPiece when it fits none
    NoPiece,
    Modes,       \* what was negotiated and configured for a session
    PieceMax,    \* OutQueue.piece_max, MAX_UPLOAD_REQQ in the code
    ChunkMax,    \* frames that fit COALESCE_MAX
    MaxMsgs,     \* bound: messages of the remote (Interested is free)
    MaxTrouble,  \* bound: reads that fail, waits for tokens
    MaxIdle      \* bound: keepalive timers that fire

ASSUME UploadAssumption ==
    /\ IsFiniteSet(Pieces) /\ IsFiniteSet(Blocks)
    /\ NoPiece \notin Pieces /\ NoBlock \notin Blocks
    /\ PieceOf \in [Blocks -> Pieces \cup {NoPiece}]
    /\ Modes \subseteq [fast : BOOLEAN, rc4 : BOOLEAN, upload : BOOLEAN]
    /\ PieceMax \in Nat \ {0} /\ ChunkMax \in Nat \ {0}
    /\ MaxMsgs \in Nat /\ MaxTrouble \in Nat /\ MaxIdle \in Nat

VARIABLES
    mode,        \* Fast on both sides, RC4 on the wire, cfg.allow_upload
    have,        \* PieceState.bitfield
    unpublished, \* marked, and mark_have has not reached have_hub.publish yet
    haveRx,      \* the session's receiver of the HAVE hub
    subscribed,  \* subscribe_have has run
    hello,       \* possession snapshot not yet written, or NoHello
    reader,      \* where the reader task stands
    interested,  \* peer_interested
    leeching,    \* am_interested
    stop,        \* cfg.stop: the torrent was stopped
    cmd,         \* the channel from reader to writer
    writer,      \* where the writer task stands
    ctrl,        \* OutQueue.ctrl: chunks of coalesced frames
    pieces,      \* OutQueue.pieces
    active,      \* OutQueue.active
    filling,     \* the block pick_next_active has popped and is reading
    keepalive,   \* OutQueue.keepalive_queued
    pending,     \* cfg.upload_pending, as last published
    remoteView,  \* history: what the remote believes we have
    sent,        \* history: answers written for each block
    withdrawn,   \* history: blocks the writer has seen taken back
    gap,         \* history: frames encrypted and then never written
    msgs, trouble, idle   \* what is left of the bounds

sessionVars == <<hello, reader, interested, leeching, stop>>
queueVars == <<ctrl, pieces, active, filling, keepalive, pending>>
torrentVars == <<have, unpublished, mode>>
history == <<remoteView, sent, withdrawn, gap>>
bounds == <<msgs, trouble, idle>>
vars == <<mode, have, unpublished, haveRx, subscribed, hello, reader, interested,
          leeching, stop, cmd, writer, ctrl, pieces, active, filling, keepalive,
          pending, remoteView, sent, withdrawn, gap, msgs, trouble, idle>>

NoHello == <<>>
Idle == [kind |-> "none"]

Have(i) == [kind |-> "have", piece |-> i]
Possession(S) == [kind |-> "possession", set |-> S]
Reject(b) == [kind |-> "reject", block |-> b]
KeepAlive == [kind |-> "keepalive"]

Frames == [kind : {"have"}, piece : Pieces]
            \cup [kind : {"possession"}, set : SUBSET Pieces]
            \cup [kind : {"reject"}, block : Blocks] \cup {KeepAlive}

Ctrl(f) == [kind |-> "ctrl", frame |-> f]
Upload(b) == [kind |-> "upload", block |-> b]
Cancel(b) == [kind |-> "cancel", block |-> b]
ClearPieces == [kind |-> "clear"]
ReaderDone == [kind |-> "done"]

WriterMsg == [kind : {"ctrl"}, frame : Frames]
               \cup [kind : {"upload", "cancel"}, block : Blocks]
               \cup {ClearPieces, ReaderDone}

Active == [kind : {"ctrl"}, frames : Seq(Frames)]
            \cup [kind : {"piece"}, block : Blocks, cipher : BOOLEAN]
            \cup {Idle}

TypeOK ==
    /\ mode \in Modes
    /\ have \subseteq Pieces /\ unpublished \subseteq have
    /\ haveRx \in Seq(Pieces) /\ subscribed \in BOOLEAN
    /\ hello \in {NoHello} \cup {<<S>> : S \in SUBSET Pieces}
    /\ reader \in {"start", "hello", "late", "on", "done"}
    /\ interested \in BOOLEAN /\ leeching \in BOOLEAN /\ stop \in BOOLEAN
    /\ cmd \in Seq(WriterMsg)
    /\ writer \in {"start", "gather", "send", "writing", "sleep", "idle", "flush", "last", "done"}
    /\ ctrl \in Seq(Seq(Frames) \ {<<>>})
    /\ pieces \in Seq(Blocks) /\ Len(pieces) <= PieceMax
    /\ active \in Active
    /\ filling \in Blocks \cup {NoBlock}
    /\ keepalive \in BOOLEAN /\ pending \in 0..PieceMax
    /\ remoteView \subseteq Pieces /\ sent \in [Blocks -> Nat]
    /\ withdrawn \subseteq Blocks /\ gap \in Nat
    /\ msgs \in 0..MaxMsgs /\ trouble \in 0..MaxTrouble /\ idle \in 0..MaxIdle

Init ==
    /\ mode \in Modes
    /\ have \in SUBSET Pieces /\ unpublished = {}
    /\ haveRx = <<>> /\ subscribed = FALSE /\ hello = NoHello
    /\ reader = "start" /\ interested = FALSE /\ stop = FALSE
    /\ leeching \in BOOLEAN /\ (leeching => have # Pieces)
    /\ cmd = <<>> /\ writer = "start"
    /\ ctrl = <<>> /\ pieces = <<>> /\ active = Idle /\ filling = NoBlock
    /\ keepalive = FALSE /\ pending = 0
    /\ remoteView = {} /\ sent = [b \in Blocks |-> 0]
    /\ withdrawn = {} /\ gap = 0
    /\ msgs \in 0..MaxMsgs /\ trouble = MaxTrouble /\ idle \in 0..MaxIdle

-----------------------------------------------------------------------------
(* The torrent: mark_have on some other thread, and the HAVE hub.          *)

MarkHave(i) ==
    /\ i \notin have
    /\ have' = have \cup {i}
    /\ unpublished' = unpublished \cup {i}
    /\ UNCHANGED <<mode, haveRx, subscribed, sessionVars, cmd, writer, queueVars, history, bounds>>

\* publish, after the piece lock was released.
Publish(i) ==
    /\ i \in unpublished
    /\ unpublished' = unpublished \ {i}
    /\ haveRx' = IF subscribed THEN Append(haveRx, i) ELSE haveRx
    /\ UNCHANGED <<mode, have, subscribed, sessionVars, cmd, writer, queueVars, history, bounds>>

-----------------------------------------------------------------------------
(* The queue: what the methods of OutQueue do between two awaits.          *)

PiecePending == Len(pieces) + (IF active.kind = "piece" THEN 1 ELSE 0)

\* push_ctrl_owned: coalesce into the last chunk while it fits.
WithCtrl(q, fs) ==
    IF q # <<>> /\ Len(Last(q)) + Len(fs) <= ChunkMax
    THEN ReplaceAt(q, Len(q), Last(q) \o fs)
    ELSE Append(q, fs)

WithReject(q, b) == IF mode.fast THEN WithCtrl(q, <<Reject(b)>>) ELSE q

Holds(b) ==
    \/ b \in ToSet(pieces)
    \/ active.kind = "piece" /\ active.block = b

\* try_push_piece, and the Reject of apply_writer_msg when it refuses.
Refuse(b) ==
    /\ ctrl' = WithReject(ctrl, b)
    /\ pending' = PiecePending
    /\ UNCHANGED <<pieces, active, withdrawn, gap>>

Enqueue(b) ==
    /\ pieces' = Append(pieces, b)
    /\ pending' = PiecePending + 1
    /\ withdrawn' = withdrawn \ {b}
    /\ UNCHANGED <<ctrl, active, gap>>

\* Seeded fault: a repeated request joins the queue a second time.
PushPieceAgain(b) == IF PiecePending >= PieceMax THEN Refuse(b) ELSE Enqueue(b)

PushPiece(b) == IF PiecePending >= PieceMax \/ Holds(b) THEN Refuse(b) ELSE Enqueue(b)

\* A frame RC4 has run over and that will never be written.
Encrypted == active.kind = "piece" /\ active.cipher
CountGap == gap' = IF Encrypted /\ active' # active THEN gap + 1 ELSE gap

\* What stays in the queue when the blocks B are taken back.
TakeBack(B, left) ==
    /\ pieces' = left
    /\ active' = IF active.kind = "piece" /\ active.block \in B /\ ~active.cipher
                 THEN Idle ELSE active
    /\ withdrawn' = withdrawn \cup
                    {b \in B : ~(active'.kind = "piece" /\ active'.block = b)}
    /\ CountGap
    /\ UNCHANGED ctrl

Count(left, act) == Len(left) + (IF act.kind = "piece" THEN 1 ELSE 0)

\* Seeded fault: an active PIECE is dropped although RC4 has run over it.
CancelPieceLate(b) ==
    /\ pieces' = RemoveFirst(pieces, b)
    /\ active' = IF active.kind = "piece" /\ active.block = b THEN Idle ELSE active
    /\ CountGap
    /\ pending' = Count(pieces', active')
    /\ withdrawn' = withdrawn \cup {b}
    /\ UNCHANGED ctrl

\* cancel_piece: from the FIFO, and the active one while nothing of it has
\* been encrypted or written.
CancelPiece(b) ==
    /\ TakeBack({b}, RemoveFirst(pieces, b))
    /\ pending' = IF pieces' # pieces \/ active' # active THEN Count(pieces', active') ELSE pending

\* Seeded fault: NotInterested clears the queue and says nothing about it.
ClearAllQuietly ==
    /\ TakeBack(Blocks, <<>>)
    /\ UNCHANGED pending

\* clear_pieces
ClearAll ==
    /\ TakeBack(Blocks, <<>>)
    /\ pending' = Count(pieces', active')

-----------------------------------------------------------------------------
(* The start of a session: EstablishedPeer::run.                           *)

\* The subscription comes before the snapshot of the bitfield.
Subscribe ==
    /\ reader = "start" /\ ~subscribed
    /\ subscribed' = TRUE
    /\ UNCHANGED <<torrentVars, haveRx, sessionVars, cmd, writer, queueVars, history, bounds>>

Snapshot ==
    /\ reader = "start" /\ subscribed
    /\ hello' = <<have>>
    /\ reader' = "hello"
    /\ UNCHANGED <<torrentVars, haveRx, subscribed, interested, leeching, stop, cmd, writer,
                   queueVars, history, bounds>>

\* Bitfield or HaveAll/HaveNone, Interested, Unchoke, ... in one write.
WriteHello ==
    /\ reader = "hello"
    /\ remoteView' = hello[1]
    /\ hello' = NoHello
    /\ reader' = "late"
    /\ UNCHANGED <<torrentVars, haveRx, subscribed, interested, leeching, stop, cmd, writer,
                   queueVars, sent, withdrawn, gap, bounds>>

\* HAVEs that arrived during the write, then both tasks run.
WriteLateHaves ==
    /\ reader = "late"
    /\ remoteView' = remoteView \cup ToSet(haveRx)
    /\ haveRx' = <<>>
    /\ reader' = "on"
    /\ writer' = "gather"
    /\ UNCHANGED <<torrentVars, subscribed, hello, interested, leeching, stop, cmd, queueVars,
                   sent, withdrawn, gap, bounds>>

-----------------------------------------------------------------------------
(* The reader: parse_available_messages, for what concerns the upload, and *)
(* the end of the download (reader_loop).                                  *)

Listening == reader = "on" /\ ~stop /\ msgs > 0
ReaderUnchanged ==
    UNCHANGED <<torrentVars, haveRx, subscribed, hello, leeching, stop, writer, queueVars,
                history, trouble, idle>>

\* classify_upload_request; the writer enforces the queue limits.
OnRequest(b) ==
    /\ Listening /\ mode.upload
    /\ msgs' = msgs - 1
    /\ cmd' = IF interested /\ PieceOf[b] \in have THEN Append(cmd, Upload(b))
              ELSE IF mode.fast THEN Append(cmd, Ctrl(Reject(b)))
              ELSE cmd
    /\ UNCHANGED <<reader, interested>>
    /\ ReaderUnchanged

OnCancel(b) ==
    /\ Listening /\ mode.upload
    /\ msgs' = msgs - 1
    /\ cmd' = Append(cmd, Cancel(b))
    /\ UNCHANGED <<reader, interested>>
    /\ ReaderUnchanged

OnInterested ==
    /\ Listening /\ ~interested
    /\ interested' = TRUE
    /\ UNCHANGED <<reader, cmd, msgs>>
    /\ ReaderUnchanged

OnNotInterested ==
    /\ Listening /\ interested
    /\ msgs' = msgs - 1
    /\ interested' = FALSE
    /\ cmd' = Append(cmd, ClearPieces)
    /\ UNCHANGED reader
    /\ ReaderUnchanged

\* The wanted set is in: tell the remote again what we have.  Without upload
\* the session ends instead.
LeechComplete ==
    /\ reader = "on" /\ leeching
    /\ leeching' = FALSE
    /\ IF mode.upload
       THEN cmd' = Append(cmd, Ctrl(Possession(have))) /\ UNCHANGED reader
       ELSE cmd' = Append(cmd, ReaderDone) /\ reader' = "done"
    /\ UNCHANGED <<torrentVars, haveRx, subscribed, hello, interested, stop, writer, queueVars,
                   history, bounds>>

\* stop_torrent sets the flag of every session.
Stop ==
    /\ reader = "on" /\ ~stop
    /\ stop' = TRUE
    /\ UNCHANGED <<torrentVars, haveRx, subscribed, hello, reader, interested, leeching, cmd,
                   writer, queueVars, history, bounds>>

\* End of file or stop; or the idle timer, which a published upload
\* postpones.  Unless stopped the writer goes on until its queue is empty.
ReaderEnds(byTimer) ==
    /\ reader = "on"
    /\ byTimer => pending = 0
    /\ reader' = "done"
    /\ cmd' = Append(cmd, ReaderDone)
    /\ UNCHANGED <<torrentVars, haveRx, subscribed, hello, interested, leeching, stop, writer,
                   queueVars, history, bounds>>

-----------------------------------------------------------------------------
(* The writer: writer_loop with apply_writer_msg, send_quantum with        *)
(* pick_next_active, and the final flush.                                  *)

WriterUnchanged == UNCHANGED <<torrentVars, subscribed, sessionVars, msgs>>

ApplyMsg(m) ==
    CASE m.kind = "ctrl"   -> /\ ctrl' = WithCtrl(ctrl, <<m.frame>>)
                              /\ UNCHANGED <<pieces, active, pending, withdrawn, gap>>
      [] m.kind = "upload" -> PushPiece(m.block)
      [] m.kind = "cancel" -> CancelPiece(m.block)
      [] m.kind = "clear"  -> ClearAll
      [] m.kind = "done"   -> UNCHANGED <<ctrl, pieces, active, pending, withdrawn, gap>>

\* Commands are taken before HAVEs, one after the other.
TakeMsg ==
    /\ writer \in {"gather", "idle"} /\ ~stop /\ cmd # <<>>
    /\ ApplyMsg(Head(cmd))
    /\ cmd' = Tail(cmd)
    /\ writer' = "gather"
    /\ UNCHANGED <<haveRx, filling, keepalive, remoteView, sent, trouble, idle>>
    /\ WriterUnchanged

has_work == active # Idle \/ ctrl # <<>> \/ pieces # <<>>

\* Seeded fault: HAVEs are taken before the commands.
TakeHavesFirst ==
    /\ writer = "gather" /\ ~stop
    /\ haveRx' = <<>>
    /\ ctrl' = IF haveRx = <<>> THEN ctrl
               ELSE WithCtrl(ctrl, [k \in 1..Len(haveRx) |-> Have(haveRx[k])])
    /\ writer' = IF cmd # <<>> THEN "gather"
                 ELSE IF has_work \/ haveRx # <<>> THEN "send"
                 ELSE IF reader = "done" THEN "flush" ELSE "idle"
    /\ UNCHANGED <<cmd, pieces, active, filling, keepalive, pending, history, trouble, idle>>
    /\ WriterUnchanged

\* enqueue_have_messages, once the command channel is empty; then send, or
\* end, or wait.
TakeHaves ==
    /\ writer = "gather" /\ ~stop /\ cmd = <<>>
    /\ haveRx' = <<>>
    /\ ctrl' = IF haveRx = <<>> THEN ctrl
               ELSE WithCtrl(ctrl, [k \in 1..Len(haveRx) |-> Have(haveRx[k])])
    /\ writer' = IF has_work \/ haveRx # <<>> THEN "send"
                 ELSE IF reader = "done" THEN "flush" ELSE "idle"
    /\ UNCHANGED <<cmd, pieces, active, filling, keepalive, pending, history, trouble, idle>>
    /\ WriterUnchanged

WakeForHave ==
    /\ writer = "idle" /\ ~stop /\ cmd = <<>> /\ haveRx # <<>>
    /\ writer' = "gather"
    /\ UNCHANGED <<haveRx, cmd, queueVars, history, trouble, idle>>
    /\ WriterUnchanged

\* push_keepalive: at most one until it has been written.
KeepAliveTimer ==
    /\ writer = "idle" /\ ~stop /\ cmd = <<>> /\ haveRx = <<>> /\ idle > 0
    /\ idle' = idle - 1
    /\ keepalive' = TRUE
    /\ ctrl' = IF keepalive THEN ctrl ELSE WithCtrl(ctrl, <<KeepAlive>>)
    /\ writer' = "gather"
    /\ UNCHANGED <<haveRx, cmd, pieces, active, filling, pending, history, trouble>>
    /\ WriterUnchanged

\* pick_next_active: a control chunk before the next PIECE, encrypted when
\* it becomes the active send, whole.
PickCtrl ==
    /\ writer = "send" /\ active = Idle /\ filling = NoBlock /\ ctrl # <<>>
    /\ active' = [kind |-> "ctrl", frames |-> Head(ctrl)]
    /\ ctrl' = Tail(ctrl)
    /\ writer' = "writing"
    /\ UNCHANGED <<haveRx, cmd, pieces, filling, keepalive, pending, history, trouble, idle>>
    /\ WriterUnchanged

PickPiece ==
    /\ writer = "send" /\ active = Idle /\ filling = NoBlock
    /\ ctrl = <<>> /\ pieces # <<>>
    /\ filling' = Head(pieces)
    /\ pieces' = Tail(pieces)
    /\ UNCHANGED <<haveRx, cmd, writer, ctrl, active, keepalive, pending, history, trouble, idle>>
    /\ WriterUnchanged

\* Before the first byte of a PIECE: tokens for all of it, or sleep with the
\* block active.
Go(a) ==
    /\ active' = a
    /\ writer' = "writing"
    /\ UNCHANGED <<trouble, pending>>

\* Seeded fault: the block that has to wait for tokens is given up.
RateLimitedDropping(a) ==
    /\ trouble > 0
    /\ trouble' = trouble - 1
    /\ active' = Idle
    /\ writer' = "sleep"
    /\ pending' = Len(pieces)

RateLimited(a) ==
    /\ trouble > 0
    /\ trouble' = trouble - 1
    /\ active' = a
    /\ writer' = "sleep"
    /\ pending' = Len(pieces) + 1

\* begin_upload: header and payload, then RC4 over both; a file that is not
\* found is opened once more before the block is given up.
FillOk ==
    /\ writer = "send" /\ filling # NoBlock
    /\ LET begun == [kind |-> "piece", block |-> filling, cipher |-> mode.rc4]
       IN  Go(begun) \/ RateLimited(begun)
    /\ filling' = NoBlock
    /\ UNCHANGED <<haveRx, cmd, ctrl, pieces, keepalive, history, idle>>
    /\ WriterUnchanged

Resume ==
    /\ writer = "send" /\ active.kind = "piece"
    /\ Go(active) \/ RateLimited(active)
    /\ UNCHANGED <<haveRx, cmd, ctrl, pieces, filling, keepalive, history, idle>>
    /\ WriterUnchanged

\* No REJECT without Fast: the block is dropped and the peer kept.
FillFails ==
    /\ writer = "send" /\ filling # NoBlock /\ trouble > 0
    /\ trouble' = trouble - 1
    /\ ctrl' = WithReject(ctrl, filling)
    /\ filling' = NoBlock
    /\ writer' = IF ctrl' = <<>> /\ pieces # <<>> THEN "send" ELSE "gather"
    /\ pending' = IF writer' = "gather" THEN PiecePending ELSE pending
    /\ UNCHANGED <<haveRx, cmd, pieces, active, keepalive, history, idle>>
    /\ WriterUnchanged

WakeUp ==
    /\ writer = "sleep"
    /\ writer' = "gather"
    /\ UNCHANGED <<haveRx, cmd, queueVars, history, trouble, idle>>
    /\ WriterUnchanged

\* What a frame says of piece i: a possession message speaks of every piece.
Grants(f, i) ==
    \/ f.kind = "have" /\ f.piece = i
    \/ f.kind = "possession" /\ i \in f.set

Takes(f, i) == f.kind = "possession" /\ i \notin f.set

\* The last word on piece i in a chunk of frames.
Tells(fs, i) ==
    \E k \in DOMAIN fs : Grants(fs[k], i) /\ \A j \in DOMAIN fs : j > k => ~Takes(fs[j], i)

Denies(fs, i) ==
    \E k \in DOMAIN fs : Takes(fs[k], i) /\ \A j \in DOMAIN fs : j > k => ~Grants(fs[j], i)

\* What the remote makes of the chunks q, read in their order.
Learn(view, q) ==
    {i \in Pieces :
        \/ \E k \in DOMAIN q : Tells(q[k], i) /\ \A j \in DOMAIN q : j > k => ~Denies(q[j], i)
        \/ i \in view /\ \A k \in DOMAIN q : ~Denies(q[k], i)}

Times(seq, x) == Cardinality({k \in DOMAIN seq : seq[k] = x})
Rejections(fs, b) == Times(fs, Reject(b))

OnWire(a) ==
    IF a.kind = "ctrl"
    THEN /\ remoteView' = Learn(remoteView, <<a.frames>>)
         /\ sent' = [b \in Blocks |-> sent[b] + Rejections(a.frames, b)]
    ELSE /\ sent' = [sent EXCEPT ![a.block] = @ + 1]
         /\ UNCHANGED remoteView

\* write_all has taken the whole frame; note_ctrl_fully_sent.
Written ==
    /\ writer = "writing"
    /\ OnWire(active)
    /\ active' = Idle
    /\ keepalive' = IF active.kind = "ctrl" /\ ctrl = <<>> THEN FALSE ELSE keepalive
    /\ writer' = "send"
    /\ UNCHANGED <<haveRx, cmd, ctrl, pieces, filling, pending, withdrawn, gap, trouble, idle>>
    /\ WriterUnchanged

\* send_quantum returns.
SendEnds ==
    /\ writer = "send" /\ filling = NoBlock /\ ~has_work
    /\ pending' = 0
    /\ writer' = IF reader = "done" /\ cmd = <<>> THEN "flush" ELSE "gather"
    /\ UNCHANGED <<haveRx, cmd, ctrl, pieces, active, filling, keepalive, history, trouble, idle>>
    /\ WriterUnchanged

\* A write fails: both tasks of the session end at once.
WriteFails ==
    /\ writer = "writing" /\ trouble > 0
    /\ trouble' = trouble - 1
    /\ writer' = "done"
    /\ reader' = "done"
    /\ cmd' = <<>> /\ ctrl' = <<>> /\ pieces' = <<>> /\ active' = Idle
    /\ pending' = PiecePending
    /\ UNCHANGED <<torrentVars, haveRx, subscribed, hello, interested, leeching, stop,
                   filling, keepalive, history, msgs, idle>>

LeaveLoop ==
    /\ writer \in {"gather", "idle"} /\ stop
    /\ writer' = "flush"
    /\ UNCHANGED <<haveRx, cmd, queueVars, history, trouble, idle>>
    /\ WriterUnchanged

\* The final flush: no upload, unless RC4 has already run over the block.
Flush ==
    /\ writer = "flush"
    /\ pieces' = <<>>
    /\ active' = IF active.kind = "piece" /\ ~active.cipher THEN Idle ELSE active
    /\ writer' = "last"
    /\ CountGap
    /\ UNCHANGED <<haveRx, cmd, ctrl, filling, keepalive, pending, remoteView, sent, withdrawn,
                   trouble, idle>>
    /\ WriterUnchanged

FlushWrite ==
    /\ writer = "last"
    /\ IF active # Idle
       THEN OnWire(active) /\ active' = Idle /\ UNCHANGED ctrl
       ELSE /\ ctrl # <<>>
            /\ OnWire([kind |-> "ctrl", frames |-> Head(ctrl)])
            /\ ctrl' = Tail(ctrl)
            /\ UNCHANGED active
    /\ UNCHANGED <<haveRx, cmd, writer, pieces, filling, keepalive, pending, withdrawn, gap,
                   trouble, idle>>
    /\ WriterUnchanged

\* Nothing left, no tokens, or two seconds have passed.
FlushEnds ==
    /\ writer = "last"
    /\ writer' = "done"
    /\ UNCHANGED <<haveRx, cmd, queueVars, history, trouble, idle>>
    /\ WriterUnchanged

-----------------------------------------------------------------------------

HelloNext == Subscribe \/ Snapshot \/ WriteHello \/ WriteLateHaves

WriterNext ==
    \/ TakeMsg \/ TakeHaves \/ WakeForHave
    \/ PickCtrl \/ PickPiece \/ FillOk \/ FillFails
    \/ Resume \/ WakeUp \/ Written \/ SendEnds \/ WriteFails
    \/ LeaveLoop \/ Flush \/ FlushWrite \/ FlushEnds

Next ==
    \/ \E i \in Pieces : MarkHave(i) \/ Publish(i)
    \/ HelloNext
    \/ \E b \in Blocks : OnRequest(b) \/ OnCancel(b)
    \/ OnInterested \/ OnNotInterested
    \/ LeechComplete \/ Stop \/ ReaderEnds(TRUE) \/ ReaderEnds(FALSE)
    \/ KeepAliveTimer
    \/ WriterNext

Spec == Init /\ [][Next]_vars

\* Tasks are polled; a write completes or fails; the final flush has a deadline.
FairSpec == Spec /\ WF_vars(HelloNext) /\ WF_vars(WriterNext)

-----------------------------------------------------------------------------
(* Properties.                                                             *)

Open == reader \in {"on", "done"} /\ ~stop /\ writer \notin {"flush", "last", "done"}

\* send_quantum: what was encrypted is written, whatever was cancelled,
\* failed to load or waited for tokens in between, or the remote's decryption
\* would be out of step for the rest of the session.
CipherInStep == gap = 0

\* cancel_piece removes one entry of the FIFO and try_push_piece refuses
\* doubles: a block the writer has seen taken back is not served, unless it
\* was asked for again or had already been encrypted.
CancelledIsGone ==
    \A b \in withdrawn :
        /\ ~Holds(b)
        /\ filling # b

\* Everything the remote will have heard when it has read all that is queued
\* for it now, in the order in which it will arrive.
InHand == IF active.kind = "ctrl" THEN <<active.frames>> ELSE <<>>
Said(q) == [k \in DOMAIN q |-> IF q[k].kind = "ctrl" THEN <<q[k].frame>> ELSE <<>>]
WillKnow == Learn(remoteView, InHand \o ctrl \o Said(cmd)) \cup ToSet(haveRx)

\* Subscription before snapshot, HAVEs after commands: whichever thread marks
\* a piece, whenever it does, the remote of an open session will hear of it,
\* and a possession message sent again never takes a piece back.
RemoteLearns == Open => have \ unpublished \subseteq WillKnow

\* While the writer waits, the number the reader's idle timer looks at is the
\* number of blocks in the queue, so a session that owes blocks stays.
PendingWhileWaiting == writer \in {"idle", "sleep"} => pending = PiecePending

-----------------------------------------------------------------------------
(* The session keeps the promise of RequestLedger.                         *)

Ended == writer \in {"flush", "last", "done"}

\* Where x stands in a queue of chunks.
Places(q, x) == UNION {{k} \X {j \in DOMAIN q[k] : q[k][j] = x} : k \in DOMAIN q}

InQueue(b) ==
    Times(pieces, b)
      + (IF filling = b THEN 1 ELSE 0)
      + (IF active.kind = "piece" /\ active.block = b THEN 1 ELSE 0)

Rejected(b) ==
    Cardinality(Places(ctrl, Reject(b)))
      + (IF active.kind = "ctrl" THEN Rejections(active.frames, b) ELSE 0)

Owed(b) ==
    IF Ended THEN 0
    ELSE Times(cmd, Upload(b)) + Times(cmd, Ctrl(Reject(b))) + InQueue(b) + Rejected(b)

Revoked ==
    IF Ended THEN {}
    ELSE {b \in Blocks : Cancel(b) \in ToSet(cmd) \/ ClearPieces \in ToSet(cmd)}

\* What is written while a session ends settles nothing any more.
Ledger == INSTANCE RequestLedger WITH
    owed <- [b \in Blocks |-> Owed(b)],
    sent <- IF Ended THEN [b \in Blocks |-> 0] ELSE sent,
    revoked <- Revoked,
    over <- Ended,
    fast <- mode.fast

\* The two tasks, their queues, RC4 and the rate limit together implement the
\* ledger: one answer for each request, none lost but those taken back (or,
\* without Fast, refused), and none outstanding for ever.
KeepsLedger == Ledger!LedgerSpec
=============================================================================
