------------------------- MODULE MCTorrentLifecycle -------------------------
(***************************************************************************)
(* TorrentLifecycle on small instances.                                    *)
(***************************************************************************)
EXTENDS TorrentLifecycle, TLC

CONSTANTS t1, t2, p1, p2

OneTorrent == {t1}
TwoTorrents == {t1, t2}
OnePiece == {p1}
TwoPieces == {p1, p2}

BothTasks == {"tick", "boot"}
TickTask == {"tick"}
BootTask == {"boot"}
Commanding == {"start", "stop", "delete", "remove"}
Rechecking == {"start", "stop", "recheck"}
Stopping == {"stop", "remove"}

\* Torrents are not symmetric: an idle worker's t is one of them.
PieceSymmetry == Permutations(Pieces)
=============================================================================
