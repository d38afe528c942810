----------------------------- MODULE MCServices -----------------------------
(***************************************************************************)
(* The services around the data path, one at a time: the handshake, the    *)
(* reader of frames, the UDP announce, the spans of a piece, the pool of   *)
(* workers, the console and the log screen.  They share nothing but the    *)
(* process, so no behaviour mixes them: "part" says which of them runs,    *)
(* and the others rest in one of their initial states.                     *)
(***************************************************************************)
EXTENDS Handshake, WireRead, UdpTracker, WorkerPool, SpanWrite, Console, LogView,
        PayloadMove, Library, TLC

-----------------------------------------------------------------------------
(* PayloadMove: how the torrent lies, and what may happen to it.           *)
Lying(staged, have, want, linked) ==
    [staged |-> staged, have |-> have, want |-> want, links |-> linked, cache |-> FALSE,
     moves |-> 0, starts |-> 0, stops |-> 0, faults |-> 0, crashes |-> 0, readds |-> 0]
Unmoved == Lying(FALSE, {}, FALSE, TRUE)
Moving == {Unmoved, [Lying(FALSE, {1, 2}, FALSE, TRUE) EXCEPT !.stops = 1, !.crashes = 1, !.readds = 1]}
    \cup {[Lying(TRUE, {1}, TRUE, TRUE) EXCEPT !.moves = 1, !.starts = 1],
          [Lying(TRUE, {1}, TRUE, TRUE) EXCEPT !.moves = 1, !.stops = 1],
          [Lying(TRUE, {1}, TRUE, TRUE) EXCEPT !.starts = 1, !.stops = 1]}
    \cup UNION {
        {[Lying(TRUE, {1, 2}, TRUE, l) EXCEPT !.starts = 1, !.faults = 1, !.crashes = 1],
         [Lying(TRUE, {1, 2}, FALSE, l) EXCEPT !.starts = 1, !.faults = 1, !.crashes = 1],
         [Lying(TRUE, {1}, TRUE, l) EXCEPT !.faults = 1, !.crashes = 1],
         [Lying(FALSE, {1, 2}, TRUE, l) EXCEPT !.moves = 2, !.stops = 1, !.crashes = 1]}
        : l \in BOOLEAN}
\* A complete torrent that is removed, and added again with the cache on.
Readded == {Unmoved, [Lying(FALSE, {1, 2}, FALSE, TRUE) EXCEPT !.crashes = 1, !.readds = 1, !.cache = TRUE]}
\* A staged torrent whose directory the user changes.
Redirected == {Unmoved, [Lying(TRUE, {1, 2}, TRUE, TRUE) EXCEPT !.moves = 1, !.faults = 1, !.crashes = 1]}
\* The same, with nothing that fails.
Retargeted == {Unmoved, [Lying(TRUE, {1, 2}, TRUE, TRUE) EXCEPT !.moves = 1, !.crashes = 1]}
\* A torrent whose directory the user changes while it is downloading.
Downloading == {Unmoved, [Lying(FALSE, {1}, TRUE, TRUE) EXCEPT !.moves = 1]}

(* Library: one file that does not parse, and two torrents.                *)
CONSTANTS x, y
Hashes == <<Bad, x, y>>
Sizes == x :> 3 @@ y :> 2
Watching(start, delete, there) ==
    [start |-> start, delete |-> delete, deleteIfExists |-> there,
     adds |-> 0, commands |-> 0, restarts |-> 0, faults |-> 0]
Resting == [Watching(TRUE, FALSE, FALSE) EXCEPT !.commands = 2, !.restarts = 1, !.faults = 1]
Watched == {
    [Watching(TRUE, TRUE, TRUE) EXCEPT !.adds = 1, !.commands = 1],
    [Watching(FALSE, TRUE, FALSE) EXCEPT !.adds = 1, !.commands = 1],
    [Watching(FALSE, TRUE, TRUE) EXCEPT !.adds = 1, !.restarts = 1],
    Resting,
    [Watching(FALSE, FALSE, FALSE) EXCEPT !.commands = 2],
    [Watching(TRUE, TRUE, FALSE) EXCEPT !.commands = 3, !.faults = 1]}
\* Two threads that add at a time; a file of a torrent that the user stopped.
TwoAdders == {Resting, [Watching(FALSE, FALSE, FALSE) EXCEPT !.adds = 1]}
StoppedByUser == {Resting, [Watching(TRUE, FALSE, FALSE) EXCEPT !.commands = 1]}

(* Console.                                                                *)
FilterSets == {{1, 2}, {2}}
Using(presses, kicks, restores, faults, filters, typed) ==
    [presses |-> presses, kicks |-> kicks, restores |-> restores, faults |-> faults,
     filters |-> filters, typed |-> typed]
Used == {Using(2, 1, 0, 0, 0, FALSE), Using(1, 1, 1, 0, 0, FALSE), Using(1, 1, 0, 1, 0, FALSE),
         Using(1, 0, 0, 0, 1, TRUE)}
\* An id that is removed twice from the palette.
TypedTwice == {Using(1, 0, 0, 0, 1, TRUE), Using(3, 2, 0, 0, 0, TRUE)}

(* LogView, WireRead and SpanWrite.                                        *)
Line(rows, hit) == [rows |-> rows, hit |-> hit]
FewLines == <<Line(1, TRUE), Line(1, FALSE), Line(1, TRUE), Line(2, TRUE), Line(1, FALSE), Line(2, TRUE)>>
LongLines == <<Line(2, TRUE), Line(1, TRUE), Line(2, TRUE), Line(1, FALSE), Line(1, FALSE), Line(1, TRUE)>>
Texts == {FewLines, LongLines}
Bodies == [small |-> 1, alive |-> 0, choke |-> 1, unchoke |-> 1, piece |-> 3]
CONSTANTS p1, p2, p3
PieceSpans == p1 :> 2 @@ p2 :> 1 @@ p3 :> 0

-----------------------------------------------------------------------------
VARIABLE part
servicesVars == <<part, shakeVars, wireVars, udpVars, poolVars, spanVars, consoleVars, logVars,
                  moveVars, libraryVars>>

ServicesInit ==
    /\ part \in {"shake", "wire", "udp", "pool", "span", "console", "log", "move", "library"}
    /\ HandshakeInit /\ (part = "shake" \/ (dmode = "off" /\ amode = "require-rc4" /\ ia = "none" /\ peer = "known"))
    /\ WireInit /\ (part = "wire" \/ frames = <<>>)
    /\ UdpInit /\ PoolInit
    /\ SpanInit /\ (part = "span" \/ onRing)
    /\ ConsoleInit /\ (part = "console" \/ (budget.filters = 1 /\ \A i \in Ids : row[i] = "stopped"))
    /\ LogInit /\ (part = "log" \/ (text = FewLines /\ view.height = 2))
    /\ MoveInit /\ (part = "move" \/ meta.have = {})
    /\ LibraryInit /\ (part = "library" \/ (left.faults = 1 /\ left.restarts = 1))

ServicesNext ==
    \/ /\ part = "shake" /\ HandshakeNext
       /\ UNCHANGED <<part, wireVars, udpVars, poolVars, spanVars, consoleVars, logVars, moveVars, libraryVars>>
    \/ /\ part = "wire" /\ WireNext
       /\ UNCHANGED <<part, shakeVars, udpVars, poolVars, spanVars, consoleVars, logVars, moveVars, libraryVars>>
    \/ /\ part = "udp" /\ UdpNext
       /\ UNCHANGED <<part, shakeVars, wireVars, poolVars, spanVars, consoleVars, logVars, moveVars, libraryVars>>
    \/ /\ part = "pool" /\ PoolNext
       /\ UNCHANGED <<part, shakeVars, wireVars, udpVars, spanVars, consoleVars, logVars, moveVars, libraryVars>>
    \/ /\ part = "span" /\ SpanNext
       /\ UNCHANGED <<part, shakeVars, wireVars, udpVars, poolVars, consoleVars, logVars, moveVars, libraryVars>>
    \/ /\ part = "console" /\ ConsoleNext
       /\ UNCHANGED <<part, shakeVars, wireVars, udpVars, poolVars, spanVars, logVars, moveVars, libraryVars>>
    \/ /\ part = "log" /\ LogNext
       /\ UNCHANGED <<part, shakeVars, wireVars, udpVars, poolVars, spanVars, consoleVars, moveVars, libraryVars>>
    \/ /\ part = "move" /\ MoveNext
       /\ UNCHANGED <<part, shakeVars, wireVars, udpVars, poolVars, spanVars, consoleVars, logVars, libraryVars>>
    \/ /\ part = "library" /\ LibraryNext
       /\ UNCHANGED <<part, shakeVars, wireVars, udpVars, poolVars, spanVars, consoleVars, logVars, moveVars>>

ServicesSpec == ServicesInit /\ [][ServicesNext]_servicesVars

\* HandshakeFairSpec, WireFairSpec, PoolFairSpec, ConsoleFairSpec, MoveFairSpec
\* and LibraryFairSpec, of the one that runs.
ServicesFairSpec ==
    /\ ServicesSpec
    /\ WF_shakeVars(part = "shake" /\ HandshakeNext)
    /\ WF_wireVars(part = "wire" /\ \E n \in 1..Len(coming) : Arrive(n))
    /\ WF_wireVars(part = "wire" /\ ReaderSteps)
    /\ WF_wireVars(part = "wire" /\ ReaderTimesOut)
    /\ WF_poolVars(part = "pool" /\ Shutdown)
    /\ WF_consoleVars(part = "console" /\ Plane)
    /\ WF_consoleVars(part = "console" /\ ControlThreads)
    /\ WF_consoleVars(part = "console" /\ UiEnds)
    /\ WF_moveVars(part = "move" /\ (TickHands \/ Moves("tick")))
    /\ WF_moveVars(part = "move" /\ (CtlWorks \/ Moves("ctl")))
    /\ WF_libraryVars(part = "library" /\ (Watches \/ Adds("watch")))

-----------------------------------------------------------------------------
\* Quitting ends: the interface waits for the control thread, whatever is
\* queued and whoever is busy (QuitEnds), and the control thread for the peer
\* workers, one of which may be stuck (ShutdownReturns).
ShutdownEnds == QuitEnds /\ ShutdownReturns
=============================================================================
