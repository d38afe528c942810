--------------------------- MODULE BlockPipeline ---------------------------
(***************************************************************************)
(* The inbound half of one established session, block by block: requests   *)
(* are issued while pieces are staged, tokens of the global limit last and *)
(* the remote does not choke us; blocks, rejects and chokes come back; a   *)
(* timer takes back what was not answered (peer/download.rs,               *)
(* staging/pool.rs, peer/duplex.rs, peer/established.rs, rate_limit.rs).   *)
(* LeechPath abstracts all of this to one step for each piece.             *)
(*                                                                         *)
(* The session is one task; one issue of requests (take_requests) is       *)
(* several steps here, because other sessions share the claims, the        *)
(* freelist and the tokens with it.  Lengths are in units smaller than a   *)
(* block, so that data can cover a block in part.                          *)
(***************************************************************************)
EXTENDS Integers, Sequences, FiniteSets, SequencesExt, FiniteSetsExt

CONSTANTS
    Pieces,       \* the wanted pieces, which the remote has
    PieceLen,     \* their lengths
    BlockSize,    \* BLOCK_SIZE
    Modes,        \* what a session negotiated, and how the remote behaves
    Pipelines,    \* depths adapt_pipeline chooses from
    Fair,         \* capacity.div_ceil(MIN_PEER_SPREAD): pieces one session may assemble
    Buffers,      \* free buffers of the torrent's freelist at the start
    EndgameMax,   \* ENDGAME_MAX_MISSING
    Capacity,     \* TokenBucket.capacity
    MaxTrouble    \* bound: steps of rivals, operator, faulty remote and timers

ASSUME BlockAssumption ==
    /\ IsFiniteSet(Pieces) /\ Pieces # {}
    /\ BlockSize \in Nat \ {0}
    /\ PieceLen \in [Pieces -> Nat \ {0}]
    /\ Modes \subseteq [fast : BOOLEAN, limited : BOOLEAN, odd : BOOLEAN]
    /\ Pipelines \subseteq Nat \ {0} /\ IsFiniteSet(Pipelines) /\ Pipelines # {}
    /\ Fair \in Nat \ {0} /\ Buffers \in Nat \ {0}
    /\ EndgameMax \in Nat /\ Capacity \in Nat /\ MaxTrouble \in Nat

VARIABLES
    mode,         \* Fast negotiated, a limit set, a remote that makes up data
    has,          \* HotTorrent: verified pieces
    taken,        \* HotTorrent.in_flight: pieces rival sessions have reserved
    mine,         \* PeerPieceClaims.held
    free,         \* PieceBufferPool.available
    slot,         \* StagingPool.slots, by piece
    choking,      \* peer_choking
    allowed,      \* allowed_fast
    endgame,      \* PeerDownload.endgame
    pipeline,     \* PeerDownload.pipeline
    issue,        \* the issue of requests under way, or NoIssue
    tokens,       \* TokenBucket.tokens, whole units
    limited,      \* down_cap # 0
    toRemote,     \* Requests and Cancels on their way
    remoteQ,      \* requests the remote will answer
    remoteChokes, \* the remote's choke state
    remoteAllows, \* the pieces it allows while it chokes
    fromRemote,   \* its answers on their way
    over,         \* the session has ended
    dropped,      \* history: blocks whose request the remote has discarded
    crossed,      \* history: a Cancel, or data nobody asked for, may cross an answer
    trouble       \* what is left of the bound

torrentVars == <<has, taken, mine, free>>
sessionVars == <<slot, choking, allowed, endgame, pipeline, issue, over>>
tokenVars == <<tokens, limited>>
remoteVars == <<remoteQ, remoteChokes, remoteAllows>>
wires == <<toRemote, fromRemote>>
history == <<dropped, crossed>>
vars == <<mode, has, taken, mine, free, slot, choking, allowed, endgame, pipeline,
          issue, tokens, limited, toRemote, remoteQ, remoteChokes, remoteAllows,
          fromRemote, over, dropped, crossed, trouble>>

num_blocks(p) == (PieceLen[p] + BlockSize - 1) \div BlockSize
BlocksOf(p) == 0..num_blocks(p) - 1
block_len(p, i) == Min({PieceLen[p] - i * BlockSize, BlockSize})
Units(p) == 0..PieceLen[p] - 1
BlockUnits(p, i) == i * BlockSize .. i * BlockSize + block_len(p, i) - 1
AllBlocks == UNION {{<<p, i>> : i \in BlocksOf(p)} : p \in Pieces}

NoSlot == [st |-> "none", have |-> {}, requested |-> {}, written |-> {}]
Fresh == [st |-> "assembling", have |-> {}, requested |-> {}, written |-> {}]
NoIssue == [limit |-> 0, paid |-> 0, reqs |-> <<>>, starting |-> {}, stop |-> FALSE]

Req(b) == [kind |-> "request", block |-> b]
Can(b) == [kind |-> "cancel", block |-> b]
Data(p, begin, len) == [kind |-> "piece", piece |-> p, begin |-> begin, len |-> len]
Whole(b) == Data(b[1], b[2] * BlockSize, block_len(b[1], b[2]))
Rej(b) == [kind |-> "reject", block |-> b]
Note(k) == [kind |-> k]
Allow(p) == [kind |-> "allow", piece |-> p]

Slot(p) == [st : {"none", "assembling", "hashing"}, have : SUBSET BlocksOf(p),
            requested : SUBSET BlocksOf(p), written : SUBSET Units(p)]

TypeOK ==
    /\ mode \in Modes
    /\ has \subseteq Pieces /\ taken \subseteq Pieces /\ mine \subseteq Pieces
    /\ free \in 0..Buffers
    /\ \A p \in Pieces : slot[p] \in Slot(p)
    /\ choking \in BOOLEAN /\ allowed \subseteq Pieces /\ endgame \in BOOLEAN
    /\ pipeline \in Pipelines
    /\ issue.limit \in 0..Max(Pipelines)
    /\ issue.reqs \in Seq(AllBlocks) /\ issue.starting \subseteq Pieces
    /\ tokens \in 0..Max({Capacity, Max(Pipelines) * BlockSize}) /\ limited \in BOOLEAN
    /\ \A k \in 1..Len(toRemote) : toRemote[k].block \in AllBlocks
    /\ remoteQ \subseteq AllBlocks /\ remoteChokes \in BOOLEAN
    /\ remoteAllows \subseteq Pieces
    /\ over \in BOOLEAN /\ crossed \in BOOLEAN
    /\ dropped \subseteq AllBlocks /\ trouble \in 0..MaxTrouble

Init ==
    /\ mode \in Modes
    /\ has = {} /\ taken = {} /\ mine = {} /\ free \in 1..Buffers
    /\ slot = [p \in Pieces |-> NoSlot]
    /\ choking = TRUE /\ allowed = {} /\ endgame = FALSE
    /\ pipeline = Min(Pipelines) /\ issue = NoIssue
    /\ limited = mode.limited /\ tokens = IF limited THEN Capacity ELSE 0
    /\ toRemote = <<>> /\ remoteQ = {} /\ remoteChokes = TRUE /\ remoteAllows = {}
    /\ fromRemote = <<>> /\ over = FALSE
    /\ dropped = {} /\ crossed = FALSE /\ trouble = MaxTrouble

downloading == has # Pieces
Working == ~over /\ downloading
Trouble == trouble > 0 /\ trouble' = trouble - 1

-----------------------------------------------------------------------------
(* Staging: what the session knows about its pieces.                       *)

Staged == {p \in Pieces : slot[p].st = "assembling"}
Hashing == {p \in Pieces : slot[p].st = "hashing"}

outstanding_blocks(p) ==
    IF p \in Staged THEN {<<p, i>> : i \in slot[p].requested \ slot[p].have} ELSE {}
outstanding_list == UNION {outstanding_blocks(p) : p \in Pieces}
total_outstanding == Cardinality(outstanding_list)

can_request == ~choking \/ allowed # {}
may_request_piece(p) == ~choking \/ p \in allowed

max_assembling_pieces(limit) ==
    LET blocks == Max({num_blocks(p) : p \in Pieces})
        for_pipe == (limit + blocks - 1) \div blocks
    IN  Min({for_pipe, Fair})

\* requeue_missing of every staged piece.
requeue_timed_out ==
    [p \in Pieces |-> IF p \in Staged THEN [slot[p] EXCEPT !.requested = @ \cap slot[p].have]
                      ELSE slot[p]]

Cancels == [k \in 1..total_outstanding |-> Can(SetToSeq(outstanding_list)[k])]

-----------------------------------------------------------------------------
(* issue_requests: tokens first, then take_requests, then the refund.      *)

\* Seeded fault: the grant is rounded up to whole blocks.
GrantUp == IF limited
           THEN LET pre == Min({pipeline * BlockSize, tokens})
                IN  [limit |-> (pre + BlockSize - 1) \div BlockSize, paid |-> pre]
           ELSE [limit |-> pipeline, paid |-> 0]

\* try_consume_download, rounded down to whole blocks.
Grant == IF limited
         THEN LET pre == Min({pipeline * BlockSize, tokens})
              IN  [limit |-> pre \div BlockSize, paid |-> pre]
         ELSE [limit |-> pipeline, paid |-> 0]

\* Outside endgame nothing is asked for while more than half of the limit is
\* outstanding.
Full(limit) ==
    \/ ~endgame /\ total_outstanding > Max({limit \div 2, 1})
    \/ total_outstanding >= limit

Unasked(p) == BlocksOf(p) \ (slot[p].have \cup slot[p].requested)
Askable == {p \in Staged : may_request_piece(p) /\ Unasked(p) # {}}

\* in_staging, is_hashing, piece_ok and try_claim of start_piece.
Startable(p, limit) ==
    /\ free > 0 /\ Cardinality(Staged) < max_assembling_pieces(limit)
    /\ p \notin has \cup Staged \cup Hashing
    /\ may_request_piece(p)
    /\ endgame \/ p \notin taken \cup mine

WouldAsk(limit) ==
    ~Full(limit) /\ (Askable # {} \/ \E p \in Pieces : Startable(p, limit))

\* A grant below one block is put back.  An issue that finds nothing to ask for
\* leaves its mark on the tokens only, and is bounded.
BeginIssue ==
    /\ Working /\ issue = NoIssue /\ can_request
    /\ limited => tokens >= BlockSize
    /\ IF WouldAsk(Grant.limit) THEN UNCHANGED trouble ELSE limited /\ Trouble
    /\ issue' = [NoIssue EXCEPT !.limit = Grant.limit, !.paid = Grant.paid,
                                !.stop = Full(Grant.limit)]
    /\ tokens' = tokens - Grant.paid
    /\ UNCHANGED <<mode, torrentVars, slot, choking, allowed, endgame, pipeline, over,
                   limited, remoteVars, wires, history>>

Filling == /\ ~over /\ issue # NoIssue /\ ~issue.stop /\ issue.starting = {}
           /\ total_outstanding < issue.limit

IssueUnchanged == UNCHANGED <<mode, choking, allowed, endgame, pipeline, over, tokenVars,
                              remoteVars, wires, crossed, trouble>>

\* next_request: the first block that is neither here nor asked for.
NextRequest(p) ==
    /\ Filling /\ p \in Askable
    /\ LET i == Min(Unasked(p)) IN
       /\ slot' = [slot EXCEPT ![p].requested = @ \cup {i}]
       /\ issue' = [issue EXCEPT !.reqs = Append(@, <<p, i>>)]
       /\ dropped' = dropped \ {<<p, i>>}
    /\ UNCHANGED torrentVars
    /\ IssueUnchanged

\* A suggested piece or the rarest one, as soon as it is claimed.
StartPiece(p) ==
    /\ Filling /\ Askable = {} /\ Startable(p, issue.limit)
    /\ mine' = mine \cup {p}
    /\ issue' = [issue EXCEPT !.starting = {p}]
    /\ UNCHANGED <<has, taken, free, slot, dropped>>
    /\ IssueUnchanged

\* try_start.
OpenPiece ==
    /\ ~over /\ issue.starting # {} /\ free > 0
    /\ issue' = [issue EXCEPT !.starting = {}]
    /\ slot' = [p \in Pieces |-> IF p \in issue.starting THEN Fresh ELSE slot[p]]
    /\ free' = free - 1
    /\ UNCHANGED <<has, taken, mine, dropped>>
    /\ IssueUnchanged

\* abort_start: the freelist was emptied in between.
AbortStart ==
    /\ ~over /\ issue.starting # {} /\ free = 0
    /\ issue' = [issue EXCEPT !.starting = {}, !.stop = TRUE]
    /\ mine' = mine \ issue.starting
    /\ UNCHANGED <<has, taken, free, slot, dropped>>
    /\ IssueUnchanged

SumLen(reqs) == FoldLeft(LAMBDA n, b : n + block_len(b[1], b[2]), 0, reqs)

refund_download(n) ==
    IF limited THEN Min({tokens + n, Max({Capacity, n})}) ELSE tokens

\* Refund what was reserved for blocks that are not asked for, and send.
EndIssue ==
    /\ ~over /\ issue # NoIssue /\ issue.starting = {}
    /\ \/ issue.stop
       \/ total_outstanding >= issue.limit
       \/ Askable = {} /\ ~\E p \in Pieces : Startable(p, issue.limit)
    /\ tokens' = refund_download(issue.limit * BlockSize - SumLen(issue.reqs))
    /\ toRemote' = toRemote \o [k \in 1..Len(issue.reqs) |-> Req(issue.reqs[k])]
    /\ issue' = NoIssue
    /\ UNCHANGED <<mode, torrentVars, slot, choking, allowed, endgame, pipeline, over,
                   limited, remoteVars, fromRemote, history, trouble>>

-----------------------------------------------------------------------------
(* Messages from the remote: parse_available_messages, handle_piece.       *)

Receives(k) ==
    /\ ~over /\ issue = NoIssue /\ fromRemote # <<>> /\ Head(fromRemote).kind = k
    /\ fromRemote' = Tail(fromRemote)
    /\ UNCHANGED <<mode, endgame, pipeline, issue, tokenVars, toRemote, remoteVars, history,
                   trouble>>

OnChoke ==
    /\ Receives("choke") /\ choking' = TRUE
    /\ UNCHANGED <<torrentVars, slot, allowed, over>>

\* Seeded fault: everything outstanding is asked for again.
OnUnchokeAgain ==
    /\ Receives("unchoke") /\ choking' = FALSE
    /\ slot' = requeue_timed_out
    /\ UNCHANGED <<torrentVars, allowed, over>>

OnUnchoke ==
    /\ Receives("unchoke") /\ choking' = FALSE
    /\ UNCHANGED <<torrentVars, slot, allowed, over>>

OnAllowedFast ==
    /\ Receives("allow")
    /\ allowed' = IF downloading THEN allowed \cup {Head(fromRemote).piece} ELSE allowed
    /\ UNCHANGED <<torrentVars, slot, choking, over>>

\* Seeded fault: the Reject is read and forgotten.
OnRejectIgnored ==
    /\ Receives("reject")
    /\ UNCHANGED <<torrentVars, slot, choking, allowed, over>>

\* clear_request
OnReject ==
    /\ Receives("reject")
    /\ LET b == Head(fromRemote).block IN
       slot' = IF downloading /\ b \in outstanding_list
               THEN [slot EXCEPT ![b[1]].requested = @ \ {b[2]}] ELSE slot
    /\ UNCHANGED <<torrentVars, choking, allowed, over>>

\* Seeded fault: a block counts when the data reaches into it.
CoversAny(p, begin, len) ==
    {i \in BlocksOf(p) : BlockUnits(p, i) \cap begin..begin + len - 1 # {}}

\* mark_range_have: blocks are here when the data covers them whole.
Covers(p, begin, len) ==
    {i \in BlocksOf(p) : BlockUnits(p, i) \subseteq begin..begin + len - 1}

\* Data past the end, or unaligned data over several blocks, ends the session.
Malformed(p, begin, len) ==
    \/ begin + len > PieceLen[p]
    \/ /\ begin % BlockSize # 0
       /\ begin + len # PieceLen[p]
       /\ begin \div BlockSize # (begin + len - 1) \div BlockSize

Ingest(p, begin, len) ==
    [slot[p] EXCEPT !.have = @ \cup Covers(p, begin, len),
                    !.written = @ \cup (begin..begin + len - 1)]

\* handle_piece: data of pieces that are complete, hashing or not staged is
\* passed over; a complete piece leaves for the hash threads.
OnPiece ==
    /\ Receives("piece")
    /\ LET m == Head(fromRemote)
           p == m.piece
           s == Ingest(p, m.begin, m.len)
       IN  IF ~downloading \/ p \in has \/ p \notin Staged
           THEN UNCHANGED <<slot, free, over>>
           ELSE IF Malformed(p, m.begin, m.len)
           THEN /\ over' = TRUE
                /\ slot' = [q \in Pieces |-> NoSlot]
                /\ free' = free + Cardinality(Staged)
           ELSE /\ slot' = [slot EXCEPT ![p] =
                               IF s.have = BlocksOf(p) THEN [s EXCEPT !.st = "hashing"] ELSE s]
                /\ free' = IF s.have = BlocksOf(p) THEN free + 1 ELSE free
                /\ UNCHANGED over
    /\ mine' = IF over' THEN {} ELSE mine
    /\ UNCHANGED <<has, taken, choking, allowed>>

\* apply_hash_outcome.  A failure returns the torrent's claim.
HashOutcome(p, ok) ==
    /\ ~over /\ issue = NoIssue /\ slot[p].st = "hashing"
    /\ ok \/ trouble > 0
    /\ trouble' = IF ok THEN trouble ELSE trouble - 1
    /\ slot' = [slot EXCEPT ![p] = NoSlot]
    /\ has' = IF ok THEN has \cup {p} ELSE has
    /\ mine' = mine \ {p}
    /\ taken' = taken \ {p}
    /\ UNCHANGED <<mode, free, choking, allowed, endgame, pipeline, issue, over, tokenVars,
                   wires, remoteVars, history>>

-----------------------------------------------------------------------------
(* Timers and the end of the download: reader_inter_socket, reader_loop.   *)

Silent(b, k) == \A l \in k..Len(toRemote) : toRemote[l].block # b
Pending(b) ==
    \/ b \in remoteQ /\ Silent(b, 1)
    \/ \E k \in 1..Len(toRemote) : toRemote[k] = Req(b) /\ Silent(b, k + 1)
Answered(b) ==
    \E k \in 1..Len(fromRemote) :
        \/ fromRemote[k] = Rej(b)
        \/ fromRemote[k].kind = "piece" /\ fromRemote[k] = Whole(b)
Live(b) == Pending(b) \/ Answered(b)

SessionUnchanged == UNCHANGED <<mode, choking, allowed, issue, tokenVars, remoteVars, fromRemote>>

\* Seeded fault: the Cancels are sent and the marks stay.
CancelOnly ==
    /\ toRemote' = toRemote \o Cancels
    /\ slot' = slot
    /\ crossed' = (crossed \/ \E b \in outstanding_list : Live(b))

\* cancel_outstanding, then requeue_timed_out: everything may be asked for
\* again, behind the Cancels.
TakeBack ==
    /\ toRemote' = toRemote \o Cancels
    /\ slot' = requeue_timed_out
    /\ crossed' = (crossed \/ \E b \in outstanding_list : Live(b))

\* Nothing was ingested for REQUEST_STALL.  While every request is still
\* alive this is bad luck, and bounded.
Stall(early) ==
    /\ Working /\ issue = NoIssue /\ can_request /\ total_outstanding > 0
    /\ early <=> \A b \in outstanding_list : Live(b)
    /\ IF early THEN Trouble ELSE UNCHANGED trouble
    /\ TakeBack
    /\ UNCHANGED <<torrentVars, endgame, pipeline, over, dropped>>
    /\ SessionUnchanged

\* should_endgame: few pieces are left, or all of them are claimed.
EnterEndgame ==
    /\ Working /\ issue = NoIssue /\ ~endgame
    /\ \/ Cardinality(Pieces \ has) <= EndgameMax
       \/ Cardinality((mine \cup taken) \ has) >= Cardinality(Pieces \ has)
    /\ endgame' = TRUE
    /\ TakeBack
    /\ UNCHANGED <<torrentVars, pipeline, over, dropped, trouble>>
    /\ SessionUnchanged

\* adapt_pipeline
AdaptPipeline(n) ==
    /\ Working /\ issue = NoIssue /\ n # pipeline /\ Trouble
    /\ pipeline' = n
    /\ UNCHANGED <<torrentVars, slot, endgame, over, toRemote, history>>
    /\ SessionUnchanged

\* Everything wanted is there: staging.clear.
LeechComplete ==
    /\ ~over /\ ~downloading /\ issue = NoIssue /\ Staged # {}
    /\ toRemote' = toRemote \o Cancels
    /\ slot' = [p \in Pieces |-> IF p \in Staged THEN NoSlot ELSE slot[p]]
    /\ free' = free + Cardinality(Staged)
    /\ UNCHANGED <<has, taken, mine, endgame, pipeline, over, history, trouble>>
    /\ SessionUnchanged

\* useless_peer_idle: no block was ingested for minutes.  It always comes to
\* that when a rival finished a piece that is staged here.
IdleClose(early) ==
    /\ ~over /\ issue = NoIssue /\ Hashing = {}
    /\ early <=> Staged \cap has = {}
    /\ IF early THEN Trouble ELSE UNCHANGED trouble
    /\ over' = TRUE
    /\ slot' = [p \in Pieces |-> NoSlot]
    /\ free' = free + Cardinality(Staged)
    /\ mine' = {}
    /\ UNCHANGED <<has, taken, endgame, pipeline, toRemote, history>>
    /\ SessionUnchanged

-----------------------------------------------------------------------------
(* The others: rival sessions, the operator, the clock, the remote.        *)

OursUnchanged == UNCHANGED <<mode, mine, slot, choking, allowed, endgame, pipeline, issue, over>>

RivalClaims(p) ==
    /\ Trouble /\ p \notin has
    /\ endgame \/ p \notin mine \cup taken
    /\ taken' = taken \cup {p}
    /\ free > 0 /\ free' = free - 1
    /\ OursUnchanged /\ UNCHANGED <<has, tokenVars, wires, remoteVars, history>>

RivalEnds(p, done) ==
    /\ p \in taken
    /\ taken' = taken \ {p}
    /\ has' = IF done THEN has \cup {p} ELSE has
    /\ free' = free + 1
    /\ OursUnchanged /\ UNCHANGED <<tokenVars, wires, remoteVars, history, trouble>>

\* set_caps, at any time: also between the grant and the refund.
set_caps ==
    /\ Trouble /\ mode.limited
    /\ limited' = ~limited /\ tokens' = IF limited' THEN Capacity ELSE 0
    /\ OursUnchanged /\ UNCHANGED <<has, taken, free, wires, remoteVars, history>>

\* Blocks of other sessions.
Spend ==
    /\ Trouble /\ limited /\ tokens > 0 /\ tokens' = tokens - 1
    /\ OursUnchanged /\ UNCHANGED <<has, taken, free, limited, wires, remoteVars, history>>

Refill ==
    /\ limited /\ tokens < Capacity /\ tokens' = tokens + 1
    /\ OursUnchanged
    /\ UNCHANGED <<has, taken, free, limited, wires, remoteVars, history, trouble>>

\* There is no await in an issue: what the remote does meanwhile commutes
\* with it, and is put after it.
RemoteUnchanged ==
    /\ issue = NoIssue
    /\ OursUnchanged /\ UNCHANGED <<has, taken, free, tokenVars, crossed>>

\* It answers a request it will not serve with a Reject, or without Fast not
\* at all, and may do the same to what was cancelled.
Discard(B) ==
    IF mode.fast
    THEN fromRemote' = fromRemote \o [k \in 1..Cardinality(B) |-> Rej(SetToSeq(B)[k])]
         /\ UNCHANGED dropped
    ELSE dropped' = dropped \cup B /\ UNCHANGED fromRemote

RemoteReads ==
    /\ toRemote # <<>>
    /\ toRemote' = Tail(toRemote)
    /\ LET m == Head(toRemote)
           b == m.block
       IN  IF m.kind = "cancel"
           THEN remoteQ' = remoteQ \ {b} /\ UNCHANGED <<fromRemote, dropped>>
           ELSE IF b \in remoteQ \/ (remoteChokes /\ b[1] \notin remoteAllows)
           THEN Discard({b} \ remoteQ) /\ UNCHANGED remoteQ
           ELSE remoteQ' = remoteQ \cup {b} /\ UNCHANGED <<fromRemote, dropped>>
    /\ RemoteUnchanged /\ UNCHANGED <<remoteChokes, remoteAllows, trouble>>

RemoteServes(b) ==
    /\ b \in remoteQ
    /\ remoteQ' = remoteQ \ {b}
    /\ fromRemote' = Append(fromRemote, Whole(b))
    /\ RemoteUnchanged /\ UNCHANGED <<toRemote, remoteChokes, remoteAllows, dropped, trouble>>

RemoteUnchokes ==
    /\ remoteChokes /\ remoteChokes' = FALSE
    /\ fromRemote' = Append(fromRemote, Note("unchoke"))
    /\ RemoteUnchanged /\ UNCHANGED <<toRemote, remoteQ, remoteAllows, dropped, trouble>>

RemoteChokes ==
    /\ ~remoteChokes /\ Trouble /\ remoteChokes' = TRUE
    /\ LET gone == {b \in remoteQ : b[1] \notin remoteAllows}
           rejects == IF mode.fast THEN SetToSeq(gone) ELSE <<>>
       IN  /\ remoteQ' = remoteQ \ gone
           /\ fromRemote' = fromRemote \o <<Note("choke")>>
                              \o [k \in 1..Len(rejects) |-> Rej(rejects[k])]
           /\ dropped' = IF mode.fast THEN dropped ELSE dropped \cup gone
    /\ RemoteUnchanged /\ UNCHANGED <<toRemote, remoteAllows>>

RemoteAllowsFast(p) ==
    /\ mode.fast /\ remoteChokes /\ p \notin remoteAllows /\ Trouble
    /\ remoteAllows' = remoteAllows \cup {p}
    /\ fromRemote' = Append(fromRemote, Allow(p))
    /\ RemoteUnchanged /\ UNCHANGED <<toRemote, remoteQ, remoteChokes, dropped>>

\* A request is lost on the remote's side.
RemoteDrops(b) ==
    /\ b \in remoteQ /\ Trouble
    /\ remoteQ' = remoteQ \ {b} /\ dropped' = dropped \cup {b}
    /\ RemoteUnchanged /\ UNCHANGED <<wires, remoteChokes, remoteAllows>>

\* Data that nobody asked for in this form.
RemoteInvents(p, begin, len) ==
    /\ Trouble /\ mode.odd /\ issue = NoIssue
    /\ fromRemote' = Append(fromRemote, Data(p, begin, len))
    /\ crossed' = TRUE
    /\ OursUnchanged /\ UNCHANGED <<has, taken, free, tokenVars, toRemote, remoteVars, dropped>>

-----------------------------------------------------------------------------

IssueNext ==
    \/ BeginIssue \/ EndIssue \/ OpenPiece \/ AbortStart
    \/ \E p \in Pieces : NextRequest(p) \/ StartPiece(p)

ReceiveNext == OnChoke \/ OnUnchoke \/ OnAllowedFast \/ OnReject \/ OnPiece

RemoteNext == RemoteReads \/ RemoteUnchokes \/ \E b \in AllBlocks : RemoteServes(b)

Next ==
    \/ IssueNext \/ ReceiveNext \/ RemoteNext
    \/ \E p \in Pieces, ok \in BOOLEAN : HashOutcome(p, ok) \/ RivalEnds(p, ok)
    \/ EnterEndgame \/ LeechComplete
    \/ \E early \in BOOLEAN : Stall(early) \/ IdleClose(early)
    \/ \E n \in Pipelines : AdaptPipeline(n)
    \/ \E p \in Pieces : RivalClaims(p) \/ RemoteAllowsFast(p)
    \/ set_caps \/ Spend \/ Refill
    \/ RemoteChokes \/ \E b \in AllBlocks : RemoteDrops(b)
    \/ \E p \in Pieces, begin \in 0..BlockSize, len \in 1..2 * BlockSize :
           RemoteInvents(p, begin, len)

Spec == Init /\ [][Next]_vars

\* The task is polled and its timers fire; it comes back to the socket, to the
\* hash outcomes and to the idle timer between any two issues (SF).  Tokens come
\* back; the remote reads, unchokes and serves; rivals come to an end.
FairSpec ==
    /\ Spec
    /\ WF_vars(IssueNext) /\ WF_vars(Stall(FALSE)) /\ WF_vars(EnterEndgame)
    /\ SF_vars(ReceiveNext) /\ SF_vars(IdleClose(FALSE))
    /\ SF_vars(\E p \in Pieces : HashOutcome(p, TRUE))
    /\ WF_vars(Refill)
    /\ WF_vars(RemoteReads) /\ WF_vars(RemoteUnchokes)
    /\ WF_vars(\E b \in AllBlocks : RemoteServes(b))
    /\ WF_vars(\E p \in Pieces : RivalEnds(p, FALSE))

-----------------------------------------------------------------------------
(* Properties.                                                             *)

\* A block that is marked as requested has a request or an answer on its way,
\* or the remote has discarded it in silence: then the stall timer is the
\* only way back, and it is armed as soon as we may request.  (Blocks of a
\* piece that a rival finished are passed over; IdleClose ends that.)
RequestedIsLive ==
    ~over => \A b \in outstanding_list \ (ToSet(issue.reqs) \cup dropped) :
                 b[1] \in has \/ Live(b)

\* Choke, Unchoke, Reject, rate limit and failed hashes never make the session
\* ask twice for a block the remote still owes; only a Cancel that crosses an
\* answer, or data nobody asked for, can.
Requests(b) == Cardinality({k \in 1..Len(toRemote) : toRemote[k] = Req(b)})
NotAskedTwice ==
    ~crossed => \A b \in AllBlocks :
                    Requests(b) + (IF b \in remoteQ THEN 1 ELSE 0) <= 1

\* The two sides agree on the blocks that are asked for.
RequestsAgree == RequestedIsLive /\ NotAskedTwice

\* A buffer is recycled with another piece's bytes in it: what goes to the
\* hash threads has been written over from end to end.
BufferIsFresh == \A p \in Hashing : slot[p].written = Units(p)

\* What one issue asks for was granted by the limiter that stood when it began.
PaidFor ==
    issue # NoIssue /\ issue.paid > 0 => SumLen(issue.reqs) <= issue.paid

\* Whatever is dropped, choked, rejected or rate limited, the pieces arrive,
\* or the session ends.
Arrives == <>(over \/ ~downloading)

\* download_delay_for: "How long until `need` download tokens are available".
TokensComeBack == (limited /\ ~over) ~> (~limited \/ tokens >= BlockSize \/ over \/ ~downloading)
=============================================================================
