----------------------------- MODULE HotTorrent -----------------------------
(***************************************************************************)
(* The in-memory aggregate of one active torrent (hot.rs, hot/pieces.rs,   *)
(* hot/have.rs): possession, the wanted set and its missing counter, the   *)
(* in_flight claims and the piece-hash table.  Every field has a lock or   *)
(* an atomic of its own and no operation holds two of them across a write, *)
(* so each operator below is ONE critical section; an operation of the     *)
(* source that takes several locks is several operators, and the modules   *)
(* that compose them let other threads in between.                         *)
(*                                                                         *)
(* Left out: the HAVE fan-out (have_hub), availability counters and byte   *)
(* totals, which no operator here reads.                                   *)
(***************************************************************************)
EXTENDS Integers, FiniteSets

CONSTANTS
    Pieces,      \* the piece indices 0 .. piece_count - 1
    WantedSets,  \* what build_wanted_bitfield yields for some file priorities
    EndgameMax,  \* ENDGAME_MAX_MISSING (8 in the code)
    MaxPrio      \* bound: how often the user changes file priorities

ASSUME HotAssumption ==
    /\ IsFiniteSet(Pieces) /\ Pieces # {}
    /\ WantedSets \subseteq SUBSET Pieces
    /\ EndgameMax \in Nat
    /\ MaxPrio \in Nat

VARIABLES
    have,      \* PieceState.bitfield: pieces verified and written
    wanted,    \* wanted_bf
    missing,   \* download_missing, the O(1) "anything left to leech" counter
    inFlight,  \* in_flight: exclusive reservations
    hashes,    \* FALSE once the piece-hash table has been dropped
    rebuild,   \* the thread inside rebuild_wanted_and_missing
    prioLeft   \* remaining priority changes (bounds the model)

hotVars == <<have, wanted, missing, inFlight, hashes, rebuild, prioLeft>>

RebuildIdle == [pc |-> "idle", bf |-> {}, n |-> 0]

HotTypeOK ==
    /\ have \subseteq Pieces
    /\ wanted \subseteq Pieces
    /\ missing \in Nat
    /\ inFlight \subseteq Pieces
    /\ hashes \in BOOLEAN
    /\ rebuild \in [pc : {"idle", "built", "stored"}, bf : SUBSET Pieces, n : Nat]
    /\ prioLeft \in 0..MaxPrio

\* PieceState.complete
complete == have = Pieces

\* Loaded from the catalog: any possession, hashes only when incomplete, and
\* finish_new has counted the missing pieces before anybody shares the value.
HotInit ==
    /\ have \in SUBSET Pieces
    /\ wanted \in WantedSets
    /\ missing = Cardinality(wanted \ have)
    /\ inFlight = {}
    /\ hashes = ~complete
    /\ rebuild = RebuildIdle
    /\ prioLeft = MaxPrio

-----------------------------------------------------------------------------
(* Reads.                                                                  *)

is_download_complete == missing = 0

\* Multi-source is allowed on the last pieces, or when claims cover them all.
should_endgame ==
    /\ missing > 0
    /\ \/ missing <= EndgameMax
       \/ Cardinality(inFlight) >= missing

\* What pick_rarest_piece and the Suggest path accept of the torrent's side;
\* outside endgame the pick skips what another peer has reserved.
Eligible(i, endgame) ==
    /\ i \in wanted \ have
    /\ endgame \/ i \notin inFlight

-----------------------------------------------------------------------------
(* Claims: try_claim_piece after its has_piece test, release_piece_claim.  *)

ClaimGranted(i, endgame) == endgame \/ i \notin inFlight

AddClaim(i) ==
    /\ inFlight' = inFlight \cup {i}
    /\ UNCHANGED <<have, wanted, missing, hashes, rebuild, prioLeft>>

release_piece_claim(i) ==
    /\ inFlight' = inFlight \ {i}
    /\ UNCHANGED <<have, wanted, missing, hashes, rebuild, prioLeft>>

-----------------------------------------------------------------------------
(* mark_have, the section under the pieces write lock, with the wanted bit *)
(* the caller read before taking it.  The hash table is dropped after the  *)
(* unlock; only a peer that then looks a hash up sees it, and that lookup  *)
(* is a step of its own, so the drop is kept here.                         *)

\* Seeded fault: counts a piece again when a second session delivers it.
MarkHaveAgain(i, wasWanted) ==
    /\ have' = have \cup {i}
    /\ missing' = IF wasWanted /\ missing > 0 THEN missing - 1 ELSE missing
    /\ hashes' = (hashes /\ have' # Pieces)
    /\ UNCHANGED <<wanted, inFlight, rebuild, prioLeft>>

\* Seeded fault: drops the hash table once the wanted files are in.
MarkHaveDropsEarly(i, wasWanted) ==
    /\ have' = have \cup {i}
    /\ missing' = IF i \notin have /\ wasWanted /\ missing > 0 THEN missing - 1
                  ELSE missing
    /\ hashes' = (hashes /\ missing' # 0)
    /\ UNCHANGED <<wanted, inFlight, rebuild, prioLeft>>

MarkHave(i, wasWanted) ==
    /\ IF i \in have
         THEN UNCHANGED <<have, missing, hashes>>
         ELSE LET fully == have \cup {i} = Pieces IN
              /\ have' = have \cup {i}
              /\ missing' = IF fully THEN 0
                            ELSE IF wasWanted /\ missing > 0 THEN missing - 1
                            ELSE missing
              /\ hashes' = (hashes /\ ~fully)
    /\ UNCHANGED <<wanted, inFlight, rebuild, prioLeft>>

-----------------------------------------------------------------------------
(* set_file_priority -> rebuild_wanted_and_missing, on the mutation worker *)
(* (one such thread): build and count against a snapshot of the bitfield,  *)
(* then store the wanted set, then store the counter.                      *)

SetFilePriority(W) ==
    /\ rebuild.pc = "idle"
    /\ prioLeft > 0
    /\ prioLeft' = prioLeft - 1
    /\ rebuild' = [pc |-> "built", bf |-> W,
                   n |-> IF complete THEN 0 ELSE Cardinality(W \ have)]
    /\ UNCHANGED <<have, wanted, missing, inFlight, hashes>>

StoreWanted ==
    /\ rebuild.pc = "built"
    /\ wanted' = rebuild.bf
    /\ rebuild' = [rebuild EXCEPT !.pc = "stored"]
    /\ UNCHANGED <<have, missing, inFlight, hashes, prioLeft>>

StoreMissing ==
    /\ rebuild.pc = "stored"
    /\ missing' = rebuild.n
    /\ rebuild' = RebuildIdle
    /\ UNCHANGED <<have, wanted, inFlight, hashes, prioLeft>>

RebuildNext ==
    \/ \E W \in WantedSets : SetFilePriority(W)
    \/ StoreWanted
    \/ StoreMissing

=============================================================================
