-------------------------------- MODULE WireRead --------------------------------
(***************************************************************************)
(* How the reader of a connection gets messages out of the byte stream     *)
(* (net.rs, wire/messages.rs, peer/duplex.rs, peer/established.rs).        *)
(*                                                                         *)
(* The remote's frames, a length and a body, arrive cut anywhere and       *)
(* encrypted by a stream cipher.  The reader appends what a read returns   *)
(* to a buffer, decrypts the new bytes in place, consumes frames by a      *)
(* cursor and moves the rest to the front from time to time.  While it     *)
(* downloads it raises SO_RCVLOWAT, so that it is not woken for less than  *)
(* the rest of a frame, or than the blocks it has asked for: which the     *)
(* remote may never send.                                                  *)
(*                                                                         *)
(* Bytes are counted in coarse units; a byte is the frame it belongs to,   *)
(* its offset, and whether it has been decrypted with its own key stream.  *)
(***************************************************************************)
EXTENDS Integers, Sequences, FiniteSets, FiniteSetsExt, SequencesExt

CONSTANTS
    Prefix,         \* units of a length prefix
    BodyOf,         \* per kind of message: units of its body
    LowatMin,       \* RCVLOWAT_MIN
    LowatCap,       \* the least of PIPELINE_LOWAT_CAP, WIRE_READ_CHUNK and half the buffer
    CompactAt,      \* THRESH
    Pipe,           \* blocks asked for at once
    MaxFrames,      \* bound: what the remote sends
    MaxStalls,      \* bound: park deadlines that pass although bytes are due
    CancelSafe      \* a read that is dropped at its deadline has taken no bytes

Kinds == {"small", "alive", "choke", "unchoke", "piece"}
ASSUME WireAssumption ==
    /\ BodyOf \in [Kinds -> Nat] /\ CancelSafe \in BOOLEAN
    /\ {Prefix, LowatMin, LowatCap, CompactAt, Pipe} \subseteq Nat \ {0}
    /\ {MaxFrames, MaxStalls} \subseteq Nat

VARIABLES
    frames,     \* what the remote has sent
    owes,       \* blocks the remote has been asked for
    chokes,     \* the remote's own idea of it
    coming,     \* bytes on their way
    queued,     \* bytes in the socket
    buf, cur,   \* ReadCursor
    keyed,      \* bytes the decrypting cipher has gone through
    wanted,     \* outstanding blocks
    choked,     \* peer_choking
    leeching,   \* the torrent is not complete
    parked,     \* the low-water mark of the read under way, or 0
    due,        \* that read has a stall deadline
    skip,       \* skip_speculative
    heard,      \* ghost: the messages that were handled
    lost,       \* ghost: a read that was dropped at its deadline had taken bytes
    stalls      \* deadlines left

wireVars == <<frames, owes, chokes, coming, queued, buf, cur, keyed, wanted, choked,
              leeching, parked, due, skip, heard, lost, stalls>>
remoteVars == <<frames, owes, chokes>>

\* encode_message
FrameLen(kind) == Prefix + BodyOf[kind]
Bytes(f, kind, from, to) == [i \in 1..(to - from) |-> [f |-> f, o |-> from + i, clear |-> FALSE]]

\* The handshake may have read the beginning of the first frame, decrypted.
WireInit == \E n \in 0..FrameLen("small") :
    /\ frames = (IF n = 0 THEN <<>> ELSE <<"small">>) /\ owes = 0 /\ chokes = TRUE
    /\ coming = (IF n = 0 THEN <<>> ELSE Bytes(1, "small", n, FrameLen("small"))) /\ queued = <<>>
    /\ buf = [i \in 1..n |-> [f |-> 1, o |-> i, clear |-> TRUE]] /\ cur = 0
    /\ keyed = n
    /\ wanted = 0 /\ choked = TRUE /\ leeching = TRUE
    /\ parked = 0 /\ due = FALSE /\ skip = FALSE /\ heard = <<>> /\ lost = FALSE /\ stalls = MaxStalls

-----------------------------------------------------------------------------
(* The remote and the network.                                             *)

RemoteSends(kind) ==
    /\ Len(frames) < MaxFrames
    /\ kind = "piece" => owes > 0 /\ ~chokes
    /\ kind = "choke" => ~chokes
    /\ kind = "unchoke" => chokes
    /\ frames' = Append(frames, kind)
    /\ coming' = coming \o Bytes(Len(frames) + 1, kind, 0, FrameLen(kind))
    /\ owes' = CASE kind = "piece" -> owes - 1 [] kind = "choke" -> 0 [] OTHER -> owes
    /\ chokes' = (kind = "choke" \/ (chokes /\ kind # "unchoke"))
    /\ UNCHANGED <<queued, buf, cur, keyed, wanted, choked, leeching, parked, due, skip, heard, lost, stalls>>

Arrive(n) ==
    /\ n <= Len(coming)
    /\ queued' = queued \o SubSeq(coming, 1, n)
    /\ coming' = SubSeq(coming, n + 1, Len(coming))
    /\ UNCHANGED <<remoteVars, buf, cur, keyed, wanted, choked, leeching, parked, due, skip, heard, lost, stalls>>

-----------------------------------------------------------------------------
(* ReadCursor and the parser.                                              *)

Unparsed == SubSeq(buf, cur + 1, Len(buf))

\* Four bytes at the cursor are a length when they are the first four of a
\* frame, in the clear; else they say anything, which is a length of zero.
Aligned == \A i \in 1..Prefix : Unparsed[i].clear /\ Unparsed[i].o = i /\ Unparsed[i].f = Unparsed[1].f
MsgLen == IF Aligned THEN FrameLen(frames[Unparsed[1].f]) ELSE Prefix

\* frame_remaining, or the buffer has no length yet
HasLength == Len(Unparsed) >= Prefix
FrameRemaining == Max({MsgLen - Len(Unparsed), 0})
HasCompleteFrame == HasLength /\ FrameRemaining = 0

\* Seeded fault: the bytes go and the cursor stays.
CompactKeepsCursor(b, c) ==
    IF c > 0 /\ (c >= CompactAt \/ 2 * c >= Len(b)) THEN <<SubSeq(b, c + 1, Len(b)), c>> ELSE <<b, c>>
Compacted(b, c) ==
    IF c > 0 /\ (c >= CompactAt \/ 2 * c >= Len(b)) THEN <<SubSeq(b, c + 1, Len(b)), 0>> ELSE <<b, c>>

\* append_wire_read: the cipher runs over the new bytes, in order.
Before(fs, n) == LET units[i \in 0..Len(fs)] == IF i = 0 THEN 0 ELSE units[i - 1] + FrameLen(fs[i])
                 IN  units[n]
Position(byte) == byte.o + Before(frames, byte.f - 1)
Decrypted(bs) == [i \in DOMAIN bs |-> [bs[i] EXCEPT !.clear = (keyed + i = Position(bs[i]))]]

\* What the parser makes of the frame at the cursor.
Parsed == IF Aligned THEN frames[Unparsed[1].f] ELSE "garbage"

-----------------------------------------------------------------------------
(* The reader.                                                             *)

Awake == parked = 0

\* parse_available_messages, a frame at a time; requests go out at once.
Asks == IF leeching /\ ~choked' THEN Pipe ELSE 0
ReaderParses ==
    /\ Awake /\ HasCompleteFrame
    /\ heard' = Append(heard, Parsed)
    /\ cur' = Min({cur + MsgLen, Len(buf)})
    /\ choked' = (Parsed = "choke" \/ (choked /\ Parsed # "unchoke"))
    /\ wanted' = CASE Parsed = "choke" -> 0
                   [] Parsed = "unchoke" -> Asks
                   [] Parsed = "piece" /\ wanted > 0 -> wanted - 1
                   [] OTHER -> wanted
    /\ owes' = IF Parsed = "unchoke" /\ ~chokes THEN Asks ELSE owes
    /\ UNCHANGED <<frames, chokes, coming, queued, buf, keyed, leeching, parked, due, skip, lost, stalls>>

\* The last piece may come from another peer, at any time.
TorrentCompletes ==
    /\ leeching /\ leeching' = FALSE
    /\ UNCHANGED <<remoteVars, coming, queued, buf, cur, keyed, wanted, choked, parked, due, skip,
                   heard, lost, stalls>>

\* pipeline_lowat and recv_lowat, in units.
SpecLowat == IF Min({wanted * BodyOf["piece"], LowatCap}) < LowatMin THEN 0
             ELSE Min({wanted * BodyOf["piece"], LowatCap})
FrameLowat == IF ~HasLength \/ FrameRemaining < LowatMin THEN 0 ELSE Min({FrameRemaining, LowatCap})

\* Seeded fault: a stalled reader parks for its blocks again.
ParkLowatAgain == Max({1, FrameLowat, SpecLowat})
\* recv_lowat_park; a mark that is not raised is one.
ParkLowat == IF ~leeching THEN 1 ELSE Max({1, FrameLowat, IF skip THEN 0 ELSE SpecLowat})

\* Nothing is left to parse: a seed cancels what it asked for.  The stall
\* deadline is there while blocks are outstanding and may be asked for.
\* RecvLowatGuard::arm, and the read.
ReaderParks ==
    /\ Awake /\ ~HasCompleteFrame
    /\ LET c == Compacted(buf, cur) IN buf' = c[1] /\ cur' = c[2]
    /\ wanted' = IF leeching THEN wanted ELSE 0
    /\ owes' = IF leeching THEN owes ELSE 0
    /\ parked' = ParkLowat /\ skip' = FALSE
    /\ due' = (leeching /\ ~choked /\ wanted > 0)
    /\ UNCHANGED <<frames, chokes, coming, queued, keyed, choked, leeching, heard, lost, stalls>>

\* What is queued is read, up to WIRE_READ_CHUNK; the mark goes back to one.
ReaderReads ==
    /\ ~Awake /\ Len(queued) >= parked
    /\ LET n == Min({Len(queued), LowatCap})
       IN /\ buf' = buf \o Decrypted(SubSeq(queued, 1, n))
          /\ keyed' = keyed + n
          /\ queued' = SubSeq(queued, n + 1, Len(queued))
    /\ parked' = 0 /\ due' = FALSE
    /\ UNCHANGED <<remoteVars, coming, cur, wanted, choked, leeching, skip, heard, lost, stalls>>

\* The deadline passes: the blocks are cancelled and asked for again, and the
\* next read parks without them.  "late": the read had completed, so that it is
\* dropped with what it took from the socket.
StallEnds(late) ==
    /\ due
    /\ parked' = 0 /\ due' = FALSE /\ skip' = TRUE
    /\ wanted' = IF leeching THEN Pipe ELSE 0
    /\ owes' = IF leeching /\ ~chokes THEN Pipe ELSE 0
    /\ queued' = IF late THEN <<>> ELSE queued
    /\ lost' = (lost \/ late)
    /\ UNCHANGED <<frames, chokes, coming, buf, cur, keyed, choked, leeching, heard>>

\* A deadline may pass while bytes come; when nothing else happens it does.
ReaderStalls(late) ==
    /\ late => ~CancelSafe /\ Len(queued) >= parked
    /\ stalls > 0 /\ stalls' = stalls - 1 /\ StallEnds(late)
ReaderTimesOut == coming = <<>> /\ Len(queued) < parked /\ StallEnds(FALSE) /\ UNCHANGED stalls

-----------------------------------------------------------------------------
ReaderSteps == ReaderParses \/ ReaderParks \/ ReaderReads

WireNext ==
    \/ \E kind \in Kinds : RemoteSends(kind)
    \/ \E n \in 1..Len(coming) : Arrive(n)
    \/ ReaderParses \/ ReaderParks \/ ReaderReads
    \/ TorrentCompletes \/ ReaderTimesOut
    \/ \E late \in BOOLEAN : ReaderStalls(late)

WireSpec == WireInit /\ [][WireNext]_wireVars

\* TCP delivers; the reader's task is scheduled; a deadline passes.
WireFairSpec ==
    /\ WireSpec
    /\ WF_wireVars(\E n \in 1..Len(coming) : Arrive(n))
    /\ WF_wireVars(ReaderSteps) /\ WF_wireVars(ReaderTimesOut)

-----------------------------------------------------------------------------
WireTypeOK ==
    /\ frames \in Seq(Kinds) /\ owes \in 0..Pipe /\ wanted \in 0..Pipe
    /\ cur \in 0..Len(buf) /\ parked \in 0..Max({LowatCap, 1}) /\ stalls \in 0..MaxStalls
    /\ lost \in BOOLEAN

\* What the reader handles is what the remote sent, in order, whatever the
\* cuts, the moves in the buffer, the remains of the handshake and the reads
\* that were given up.
HearsTheStream == IsPrefix(heard, frames)

\* The same until a read that had completed is dropped at its deadline
\* (read_some_until): the bytes it took are gone, and the stream with them.
HearsUntilLost == lost \/ HearsTheStream

\* net.rs: "a seed peer's requests, HAVE, and a closed connection with a short
\* recv queue would never wake".  No mark keeps what was sent from the reader
\* for ever, not the rest of a frame and not blocks that are never sent; and
\* it hears each message as it was sent, in its place.
AllIsHeard == []<>(heard = frames)
=============================================================================
