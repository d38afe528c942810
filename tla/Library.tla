-------------------------------- MODULE Library --------------------------------
(***************************************************************************)
(* How torrents come into the catalog and leave it (library/watch.rs,      *)
(* library/add.rs, library/leech_cache.rs, catalog/torrent.rs).            *)
(*                                                                         *)
(* A watch thread scans a directory of dropped .torrent files again and    *)
(* again; `:add' runs a thread of its own per torrent; both use SQLite     *)
(* connections of their own, beside that of the session.  An adder probes  *)
(* how much of the leech cache is promised, places the torrent, looks its  *)
(* infohash up and inserts or restores its row: steps between which others *)
(* run.  The user stops, deletes and removes; the process may die.         *)
(*                                                                         *)
(* Sizes are units of the cache; a torrent's wanted bytes are its size.    *)
(***************************************************************************)
EXTENDS Integers, FiniteSets, FiniteSetsExt

CONSTANTS
    Torrents,       \* infohashes
    Hash,           \* per dropped file: its infohash, or Bad when it does not parse
    Bad,
    SizeOf,         \* per torrent
    CacheCap,       \* leech_cache_size; 0 is no cap
    CacheMargin,    \* FREE_MARGIN_BYTES
    LibraryStarts   \* profiles: the watch directory's settings and the bounds

Drops == DOMAIN Hash
Adders == {"watch", "tui"}
LibraryProfile == [start : BOOLEAN, delete : BOOLEAN, deleteIfExists : BOOLEAN,
                   adds : Nat, commands : Nat, restarts : Nat, faults : Nat]

ASSUME LibraryAssumption ==
    /\ Bad \notin Torrents /\ Hash \in [Drops -> Torrents \cup {Bad}] /\ Drops \subseteq Nat
    /\ IsFiniteSet(Torrents) /\ SizeOf \in [Torrents -> Nat]
    /\ CacheCap \in Nat /\ CacheMargin \in Nat \ {0}
    /\ LibraryStarts \subseteq LibraryProfile

VARIABLES
    watch,      \* the settings of the watch directory
    dropped,    \* the files that are in it
    scan,       \* the files this scan has still to load
    rowOf,      \* the catalog, per infohash
    adder,      \* what each adder is at
    started,    \* torrents that a start was requested for
    loose,      \* ghost: two adds overlapped, a probe was taken as 0, or a
                \* restore was cut in two
    left        \* of each bound

libraryVars == <<watch, dropped, scan, rowOf, adder, started, loose, left>>

NoRow == [there |-> FALSE, deleted |-> FALSE, want |-> FALSE, staged |-> FALSE]
IdleAdder == [pc |-> "idle", t |-> Bad, start |-> FALSE, stage |-> FALSE, new |-> FALSE]

LibraryInit == \E p \in LibraryStarts :
    /\ watch = [start |-> p.start, delete |-> p.delete, deleteIfExists |-> p.deleteIfExists]
    /\ dropped = Drops /\ scan = {}
    /\ rowOf = [t \in Torrents |-> NoRow]
    /\ adder = [a \in Adders |-> IdleAdder] /\ started = {} /\ loose = FALSE
    /\ left = [adds |-> p.adds, commands |-> p.commands, restarts |-> p.restarts, faults |-> p.faults]

Spends(b) == left[b] > 0 /\ left' = [left EXCEPT ![b] = @ - 1]
At(a, pc) == adder[a].pc = pc
Steps(a, pc) == adder' = [adder EXCEPT ![a].pc = pc]

-----------------------------------------------------------------------------
(* Adding a torrent.                                                       *)

\* The bytes of a set of torrents together.
TotalSize(S) == MapThenSumSet(LAMBDA t : SizeOf[t], S)

\* Seeded fault: what is stopped does not count.
ReservedByStarted == TotalSize({t \in Torrents : rowOf[t].there /\ rowOf[t].staged /\ rowOf[t].want})
\* leech_cache_reserved_bytes: what is staged and not deleted, by total size.
Reserved == TotalSize({t \in Torrents : rowOf[t].there /\ rowOf[t].staged /\ ~rowOf[t].deleted})

\* choose_placement: the free space of the volume is in "faults".  The code's
\* difference stops at 0, where nothing fits, a margin being needed.
FitsCache(t, reserved) == CacheCap = 0 \/ SizeOf[t] + CacheMargin <= CacheCap - reserved

Midway(a) == adder[a].pc \in {"look", "insert", "restore", "path"}

\* The probe, and the placement that follows from it.  A volume without the
\* space, or a stage that cannot be made, is a placement in the library; a
\* probe that fails is taken as 0, and may stage into a full cache.
AdderPlaces(a) ==
    /\ At(a, "place")
    /\ \/ /\ adder' = [adder EXCEPT ![a].pc = "look", ![a].stage = FitsCache(adder[a].t, Reserved)]
          /\ left' = left
          /\ loose' = (loose \/ \E b \in Adders \ {a} : Midway(b))
       \/ /\ Spends("faults")
          /\ adder' = [adder EXCEPT ![a].pc = "look", ![a].stage = FALSE]
          /\ loose' = (loose \/ \E b \in Adders \ {a} : Midway(b))
       \/ /\ Spends("faults")
          /\ adder' = [adder EXCEPT ![a].pc = "look", ![a].stage = FitsCache(adder[a].t, 0)]
          /\ loose' = TRUE
    /\ UNCHANGED <<watch, dropped, scan, rowOf, started>>

\* insert_torrent: the lookup by infohash ...
AdderLooks(a) ==
    LET r == rowOf[adder[a].t]
    IN /\ At(a, "look")
       /\ adder' = [adder EXCEPT
             ![a].pc = CASE ~r.there -> "insert" [] r.deleted -> "restore" [] OTHER -> "added",
             ![a].new = ~r.there \/ r.deleted]
       /\ UNCHANGED <<watch, dropped, scan, rowOf, started, loose, left>>

\* ... the transaction, which fails on an infohash that came in meanwhile ...
AdderInserts(a) ==
    LET t == adder[a].t
    IN /\ At(a, "insert")
       /\ IF rowOf[t].there
          THEN rowOf' = rowOf /\ Steps(a, "failed")
          ELSE /\ rowOf' = [rowOf EXCEPT ![t] = [there |-> TRUE, deleted |-> FALSE,
                                want |-> adder[a].start, staged |-> adder[a].stage]]
               /\ Steps(a, "added")
       /\ UNCHANGED <<watch, dropped, scan, started, loose, left>>

\* ... or restore_deleted, in two statements: the row, when it is deleted
\* still, and where it is.
AdderRestores(a) ==
    LET t == adder[a].t
    IN /\ At(a, "restore")
       /\ IF rowOf[t].there /\ rowOf[t].deleted
          THEN /\ rowOf' = [rowOf EXCEPT ![t].deleted = FALSE, ![t].want = adder[a].start]
               /\ Steps(a, "path")
          ELSE rowOf' = rowOf /\ Steps(a, "added")
       /\ UNCHANGED <<watch, dropped, scan, started, loose, left>>

\* When the row is gone, set_metainfo_blob fails on its foreign key; it may
\* also fail behind a row that was moved.
AdderMovesRow(a) ==
    LET t == adder[a].t
    IN /\ At(a, "path")
       /\ \/ /\ rowOf[t].there /\ Steps(a, "added") /\ left' = left
             /\ rowOf' = [rowOf EXCEPT ![t].staged = adder[a].stage]
          \/ /\ rowOf[t].there /\ Steps(a, "failed") /\ Spends("faults")
             /\ rowOf' = [rowOf EXCEPT ![t].staged = adder[a].stage]
          \/ /\ ~rowOf[t].there /\ Steps(a, "failed") /\ left' = left
             /\ rowOf' = rowOf
       /\ UNCHANGED <<watch, dropped, scan, started, loose>>

\* A catalog, or a directory for .torrent files, that fails an add at its next
\* statement.  A restore that fails at its second one leaves the row restored,
\* and where it was when it was deleted.
AdderFails(a) ==
    /\ At(a, "place") \/ Midway(a)
    /\ Spends("faults") /\ Steps(a, "failed")
    /\ loose' = (loose \/ At(a, "path"))
    /\ UNCHANGED <<watch, dropped, scan, rowOf, started>>

-----------------------------------------------------------------------------
(* The watch thread.                                                       *)

\* scan_dir_collect
ScanBegins ==
    /\ scan = {} /\ At("watch", "idle") /\ dropped # {}
    /\ scan' = dropped
    /\ UNCHANGED <<watch, dropped, rowOf, adder, started, loose, left>>

NextFile == Min(scan)

\* Seeded fault: the first file that fails ends the scan.
SkipEndsScan == {}
\* A file that fails is passed over.
SkipsFile == scan \ {NextFile}

\* load_one: the bytes of the next file and what they say.
WatchLoads ==
    /\ scan # {} /\ At("watch", "idle")
    /\ IF Hash[NextFile] = Bad
       THEN scan' = SkipsFile /\ adder' = adder
       ELSE /\ adder' = [adder EXCEPT !["watch"] = [IdleAdder EXCEPT !.pc = "place",
                            !.t = Hash[NextFile], !.start = watch.start]]
            /\ scan' = scan
    /\ UNCHANGED <<watch, dropped, rowOf, started, loose, left>>

WatchSkips ==
    /\ At("watch", "failed")
    /\ scan' = SkipsFile /\ adder' = [adder EXCEPT !["watch"] = IdleAdder]
    /\ UNCHANGED <<watch, dropped, rowOf, started, loose, left>>

\* delete_after_import, when the file can be removed.
DeletesFile(new) == watch.delete /\ (new \/ watch.deleteIfExists)
WatchDeletes ==
    /\ At("watch", "added")
    /\ \/ dropped' = (IF DeletesFile(adder["watch"].new) THEN dropped \ {NextFile} ELSE dropped)
          /\ left' = left
       \/ DeletesFile(adder["watch"].new) /\ Spends("faults") /\ dropped' = dropped
    /\ Steps("watch", "tell")
    /\ UNCHANGED <<watch, scan, rowOf, started, loose>>

\* on_load: a directory that starts requests a start for what is there
\* already, too.
WatchTells ==
    /\ At("watch", "tell")
    /\ started' = IF watch.start THEN started \cup {adder["watch"].t} ELSE started
    /\ scan' = scan \ {NextFile}
    /\ adder' = [adder EXCEPT !["watch"] = IdleAdder]
    /\ UNCHANGED <<watch, dropped, rowOf, loose, left>>

-----------------------------------------------------------------------------
(* The user, the control worker, a restart.                                *)

\* cmd_add, and its thread's last step.
UserAdds(t, start) ==
    /\ At("tui", "idle") /\ Spends("adds")
    /\ adder' = [adder EXCEPT !["tui"] = [IdleAdder EXCEPT !.pc = "place", !.t = t, !.start = start]]
    /\ UNCHANGED <<watch, dropped, scan, rowOf, started, loose>>

UserTold ==
    /\ adder["tui"].pc \in {"added", "failed"}
    /\ started' = IF At("tui", "added") /\ adder["tui"].start THEN started \cup {adder["tui"].t}
                  ELSE started
    /\ adder' = [adder EXCEPT !["tui"] = IdleAdder]
    /\ UNCHANGED <<watch, dropped, scan, rowOf, loose, left>>

\* set_want_start(true): not of what is deleted.
ControlStarts(t) ==
    /\ t \in started /\ started' = started \ {t}
    /\ rowOf' = IF rowOf[t].there /\ ~rowOf[t].deleted THEN [rowOf EXCEPT ![t].want = TRUE] ELSE rowOf
    /\ UNCHANGED <<watch, dropped, scan, adder, loose, left>>

\* A stop is queued behind the starts.
UserStops(t) ==
    /\ t \notin started /\ rowOf[t].there /\ rowOf[t].want /\ ~rowOf[t].deleted /\ Spends("commands")
    /\ rowOf' = [rowOf EXCEPT ![t].want = FALSE]
    /\ UNCHANGED <<watch, dropped, scan, adder, started, loose>>

\* mark_deleted and remove_torrent: what is stopped.
UserDeletes(t) ==
    /\ rowOf[t].there /\ ~rowOf[t].want /\ ~rowOf[t].deleted /\ Spends("commands")
    /\ rowOf' = [rowOf EXCEPT ![t].deleted = TRUE]
    /\ UNCHANGED <<watch, dropped, scan, adder, started, loose>>

UserRemoves(t) ==
    /\ rowOf[t].there /\ ~rowOf[t].want /\ Spends("commands")
    /\ rowOf' = [rowOf EXCEPT ![t] = NoRow]
    /\ UNCHANGED <<watch, dropped, scan, adder, started, loose>>

\* The handoff of PayloadMove ended.
ComesHomeFromCache(t) ==
    /\ rowOf[t].there /\ rowOf[t].staged /\ rowOf[t].want
    /\ rowOf' = [rowOf EXCEPT ![t].staged = FALSE]
    /\ UNCHANGED <<watch, dropped, scan, adder, started, loose, left>>

\* The process dies and starts again; purge_soft_deleted removes what has
\* been deleted for long enough.
LibraryRestarts(old) ==
    /\ Spends("restarts")
    /\ \A t \in old : rowOf[t].deleted
    /\ rowOf' = [t \in Torrents |-> IF t \in old THEN NoRow ELSE rowOf[t]]
    /\ adder' = [a \in Adders |-> IdleAdder] /\ scan' = {} /\ started' = {}
    /\ loose' = (loose \/ \E a \in Adders : At(a, "path"))
    /\ UNCHANGED <<watch, dropped>>

-----------------------------------------------------------------------------
Adds(a) == AdderPlaces(a) \/ AdderLooks(a) \/ AdderInserts(a) \/ AdderRestores(a) \/ AdderMovesRow(a)
Watches == ScanBegins \/ WatchLoads \/ WatchSkips \/ WatchDeletes \/ WatchTells

LibraryNext ==
    \/ Watches \/ UserTold
    \/ \E a \in Adders : Adds(a) \/ AdderFails(a)
    \/ \E t \in Torrents :
          \/ ControlStarts(t) \/ UserStops(t) \/ UserDeletes(t) \/ UserRemoves(t)
          \/ ComesHomeFromCache(t)
          \/ \E s \in BOOLEAN : UserAdds(t, s)
    \/ \E old \in SUBSET Torrents : LibraryRestarts(old)

LibrarySpec == LibraryInit /\ [][LibraryNext]_libraryVars

\* The watch loop comes round again; nothing is promised of the user.
LibraryFairSpec == LibrarySpec /\ WF_libraryVars(Watches \/ Adds("watch"))

-----------------------------------------------------------------------------
LibraryTypeOK ==
    /\ dropped \subseteq Drops /\ scan \subseteq Drops /\ started \subseteq Torrents
    /\ rowOf \in [Torrents -> [there : BOOLEAN, deleted : BOOLEAN, want : BOOLEAN, staged : BOOLEAN]]
    /\ \A a \in Adders : ~At(a, "idle") => adder[a].t \in Torrents

\* config.rs: "soft max committed bytes under the cache (0 = no soft cap)".
\* What the catalog has staged fits the cache, over restores, deletes, handoffs,
\* failed adds and restarts; unless two threads probed before either inserted,
\* a probe that failed was taken as 0, or a restore is between its two
\* statements, or has ended there.
CapKept == \/ CacheCap = 0 \/ loose \/ \E a \in Adders : At(a, "path")
           \/ Reserved = 0 \/ Reserved + CacheMargin <= CacheCap

\* The same, whoever adds and whatever fails.
CacheBounded == CacheCap = 0 \/ Reserved <= CacheCap

\* watch.rs: "skip and keep scanning the rest of the dir".  A dropped file
\* that parses is in the catalog in the end, whatever lies beside it, whoever
\* adds the same torrent meanwhile, and however often the process dies:
\* when the user does not take it out again, which may be while it is put in.
DropsLand == \A f \in Drops : Hash[f] # Bad =>
    (f \in dropped /\ left.commands = 0 /\ At("watch", "idle")
        ~> rowOf[Hash[f]].there /\ ~rowOf[Hash[f]].deleted)

\* watch.rs: "already-in-catalog is a no-op".  What the user stopped is not
\* started again by a file that was imported before.
StopsStick == [][\A t \in Torrents :
    rowOf[t].there /\ ~rowOf[t].deleted /\ ~rowOf[t].want => ~rowOf'[t].want]_libraryVars

\* The library takes in what is dropped, whatever fails on the way, and stages
\* no more than its cache holds.
DropsFit == []CapKept /\ DropsLand
=============================================================================
