------------------------------ MODULE PayloadMove ------------------------------
(***************************************************************************)
(* A torrent's files on their way from one directory to another            *)
(* (session/relocate.rs, disk/relocate.rs, disk/write.rs, disk/audit.rs,   *)
(* catalog/storage.rs; the callers in session.rs and session/lifecycle.rs).*)
(*                                                                         *)
(* A torrent is downloaded on a fast `stage' and handed off to its `home'  *)
(* when it is complete; the user relocates it by hand.  Two tasks move     *)
(* files: the tick, which hands off, and the control worker (`ctl'), which *)
(* relocates, starts and stops.  The bootstrap activates the torrent       *)
(* beside them.  All of them read the directory in the catalog or in the   *)
(* HotTorrent, act on the file system, and write it back later.  Disk jobs *)
(* and seed reads hold a layout of their own, and the process may crash.   *)
(*                                                                         *)
(* One torrent, one piece per file.  A name is a link to an inode, so that *)
(* a hard link and a copy differ; handles that stay open after the name is *)
(* gone, and pieces that cross files, are left out.                        *)
(***************************************************************************)
EXTENDS Integers, FiniteSets

CONSTANTS
    NumFiles,       \* files of the torrent
    MoveStarts      \* how it may begin: profiles of the bounds and the rows

Roots == {"stage", "home", "other"}
Movers == {"tick", "ctl"}
Files == 1..NumFiles
Inodes == 1..(Cardinality(Roots) + 1)
Nowhere == "none"

Profile == [staged : BOOLEAN, have : SUBSET Files, want : BOOLEAN, links : BOOLEAN,
            cache : BOOLEAN, moves : Nat, starts : Nat, stops : Nat, faults : Nat,
            crashes : Nat, readds : Nat]
ASSUME MoveAssumption == NumFiles \in Nat \ {0} /\ MoveStarts \subseteq Profile

VARIABLES
    links,      \* the directories share a file system that has hard links
    cache,      \* a torrent that is added now is staged
    names,      \* per directory and file: the inode its name leads to, or 0
    bytes,      \* per file and inode: what a reader finds
    meta,       \* the catalog: meta_path, bitfield, want_start and deleted
    hot,        \* the HotTorrent, when there is one
    landed,     \* verified pieces that the catalog does not have yet
    jobs,       \* disk jobs, each with its layout
    mover,      \* the tick's handoff and the control worker's relocate
    starter,    \* the activations of the bootstrap and of the control worker
    stopping,   \* the control worker's stop, past its flush
    read,       \* one seed read
    raced,      \* ghost: a layout was used or installed that a move had left
    excused,    \* ghost: a handoff failed, or a stop took the completion or a late piece, or
                \* the user's new home was written when the torrent was home already
    spare       \* what is left of each bound

moveVars == <<links, cache, names, bytes, meta, hot, landed, jobs, mover, starter, stopping,
              read, raced, excused, spare>>

NoMove == [pc |-> "idle", from |-> Nowhere, to |-> Nowhere, left |-> {}, clear |-> FALSE,
           locked |-> FALSE]
NoStart == [pc |-> "idle", root |-> Nowhere, have |-> {}]
NotHot == [on |-> FALSE, root |-> Nowhere, have |-> {}]
NoRead == [pc |-> "idle", f |-> 1, root |-> Nowhere, tries |-> 0, switched |-> 0]
First(s) == CHOOSE f \in s : \A g \in s : f <= g

\* load_bitfield_state: complete is every piece.
Complete(have) == have = Files

MoveInit == \E p \in MoveStarts :
    LET root == IF p.staged THEN "stage" ELSE "home"
    IN /\ links = p.links /\ cache = p.cache
       /\ names = [r \in Roots |-> [f \in Files |-> IF r = root THEN 1 ELSE 0]]
       /\ bytes = [f \in Files |-> [i \in Inodes |-> IF f \in p.have THEN "good" ELSE "zero"]]
       /\ meta = [root |-> root, home |-> IF p.staged THEN "home" ELSE Nowhere,
                  have |-> p.have, want |-> p.want, deleted |-> FALSE]
       /\ hot = NotHot /\ landed = {} /\ jobs = {}
       /\ mover = [m \in Movers |-> IF m = "tick" THEN [NoMove EXCEPT !.pc = "boot"] ELSE NoMove]
       /\ starter = [s \in {"boot", "ctl"} |->
                       IF s = "boot" /\ p.want THEN [NoStart EXCEPT !.pc = "load"] ELSE NoStart]
       /\ stopping = FALSE /\ read = NoRead /\ raced = FALSE /\ excused = FALSE
       /\ spare = [moves |-> p.moves, starts |-> p.starts, stops |-> p.stops,
                   faults |-> p.faults, crashes |-> p.crashes, readds |-> p.readds]

Uses(r) == spare[r] > 0 /\ spare' = [spare EXCEPT ![r] = @ - 1]

\* The control worker does one command at a time.
CtlFree == mover["ctl"].pc = "idle" /\ starter["ctl"].pc = "idle" /\ ~stopping
\* catalog_mu: a cold relocate holds it from its first to its last file.
CatalogFree == ~mover["ctl"].locked

Content(r, f) == IF names[r][f] = 0 THEN "none" ELSE bytes[f][names[r][f]]
FreeInode(f) == First({i \in Inodes : \A r \in Roots : names[r][f] # i})

SetMover(m, st) == mover' = [mover EXCEPT ![m] = st]
Goes(m, pc) == SetMover(m, [mover[m] EXCEPT !.pc = pc])

-----------------------------------------------------------------------------
(* Where a move begins.                                                    *)

\* Seeded fault: what is at home already is not resumed.
ResumesUnmoved ==
    meta.home # Nowhere /\ Complete(meta.have) /\ ~meta.deleted /\ meta.root # meta.home
\* tick_loop before its loop: staged rows that are complete.
Resumes == meta.home # Nowhere /\ Complete(meta.have) /\ ~meta.deleted

TickBoots ==
    /\ mover["tick"].pc = "boot" /\ CatalogFree
    /\ Goes("tick", IF Resumes THEN "home" ELSE "idle")
    /\ UNCHANGED <<links, cache, names, bytes, meta, hot, landed, jobs, starter, stopping, read, raced, excused, spare>>

\* flush_piece_haves and what the tick does for a torrent that became complete.
TickFlushes ==
    /\ mover["tick"].pc = "idle" /\ CatalogFree /\ landed # {}
    /\ meta' = [meta EXCEPT !.have = @ \cup landed] /\ landed' = {}
    /\ Goes("tick", IF Complete(meta'.have) /\ ~Complete(meta.have) THEN "home" ELSE "idle")
    /\ UNCHANGED <<links, cache, names, bytes, hot, jobs, starter, stopping, read, raced, excused, spare>>

\* maybe_start_leech_cache_handoff
HandoffHome ==
    /\ mover["tick"].pc = "home" /\ CatalogFree
    /\ SetMover("tick", IF meta.home = Nowhere THEN NoMove
                        ELSE [NoMove EXCEPT !.pc = "root", !.to = meta.home])
    /\ UNCHANGED <<links, cache, names, bytes, meta, hot, landed, jobs, starter, stopping, read, raced, excused, spare>>

\* payload_root_and_complete: the HotTorrent's word, or the catalog's.
LiveRoot == IF hot.on THEN hot.root ELSE meta.root
LiveHave == IF hot.on THEN hot.have ELSE meta.have

\* run_leech_cache_handoff: from where, and whether at all.  A HotTorrent that
\* was loaded before a late piece of the stopped one landed is not complete.
HandoffRoot ==
    LET m == mover["tick"]
    IN /\ m.pc = "root" /\ CatalogFree
       /\ IF LiveRoot = m.to
          THEN meta' = [meta EXCEPT !.home = Nowhere] /\ SetMover("tick", NoMove)
          ELSE /\ meta' = meta
               /\ SetMover("tick", IF ~Complete(LiveHave) THEN NoMove
                                   ELSE [m EXCEPT !.pc = "publish", !.from = LiveRoot,
                                                  !.left = Files, !.clear = TRUE])
       /\ excused' = (excused \/ ~Complete(LiveHave))
    /\ UNCHANGED <<links, cache, names, bytes, hot, landed, jobs, starter, stopping, read, raced, spare>>

\* relocate_data_root: the home it had, in `from' until the next step.
RelocateHome(x) ==
    /\ CtlFree /\ CatalogFree /\ Uses("moves")
    /\ SetMover("ctl", [NoMove EXCEPT !.pc = "root", !.from = meta.home, !.to = x])
    /\ UNCHANGED <<links, cache, names, bytes, meta, hot, landed, jobs, starter, stopping, read, raced, excused>>

\* payload_data_root, and what is to be done: retarget what is staged, move
\* what is not.
RelocateRoot ==
    LET m == mover["ctl"]
        staged == m.from # Nowhere /\ LiveRoot # m.from
    IN /\ m.pc = "root" /\ CatalogFree
       /\ SetMover("ctl", IF m.to = (IF staged THEN m.from ELSE LiveRoot) THEN NoMove
                          ELSE IF staged THEN [m EXCEPT !.pc = "retarget"]
                          ELSE [m EXCEPT !.pc = "choose", !.from = LiveRoot])
    /\ UNCHANGED <<links, cache, names, bytes, meta, hot, landed, jobs, starter, stopping, read, raced, excused, spare>>

\* set_home_root(Some(new)), under a lock of its own: the tick may have brought
\* the torrent home since its directory was read.
RelocateRetargets ==
    /\ mover["ctl"].pc = "retarget" /\ CatalogFree
    /\ meta' = [meta EXCEPT !.home = mover["ctl"].to] /\ SetMover("ctl", NoMove)
    /\ excused' = (excused \/ meta.home = Nowhere)
    /\ UNCHANGED <<links, cache, names, bytes, hot, landed, jobs, starter, stopping, read, raced, spare>>

\* is_hot: a live move from the directory that was read, or a cold one ...
RelocateChooses ==
    LET m == mover["ctl"]
    IN /\ m.pc = "choose"
       /\ SetMover("ctl", IF hot.on THEN [m EXCEPT !.pc = "publish", !.left = Files]
                          ELSE [m EXCEPT !.pc = "cold"])
    /\ UNCHANGED <<links, cache, names, bytes, meta, hot, landed, jobs, starter, stopping, read, raced, excused, spare>>

\* ... relocate_torrent_data, which reads it again and holds the catalog.
RelocateLocks ==
    LET m == mover["ctl"]
    IN /\ m.pc = "cold" /\ CatalogFree
       /\ SetMover("ctl", IF meta.root = m.to THEN NoMove
                          ELSE [m EXCEPT !.pc = "publish", !.from = meta.root, !.left = Files,
                                         !.locked = TRUE])
    /\ UNCHANGED <<links, cache, names, bytes, meta, hot, landed, jobs, starter, stopping, read, raced, excused, spare>>

-----------------------------------------------------------------------------
(* The move: publish, catalog, live layout, unpublish.                     *)

\* Seeded fault: a file that is there is taken for published.
AnyIsPublished(m, f) == names[m.to][f] # 0
\* same_inode
IsPublished(m, f) == names[m.to][f] # 0 /\ names[m.to][f] = names[m.from][f]

\* publish_file of the next file.  A hard link is one step; a copy replaces
\* what was there, and is short until it ends.
Publish(w) ==
    LET m == mover[w]
        f == First(m.left)
    IN /\ m.pc = "publish" /\ m.left # {}
       /\ IF names[m.from][f] = 0 \/ IsPublished(m, f)
          THEN UNCHANGED <<names, bytes>> /\ SetMover(w, [m EXCEPT !.left = @ \ {f}])
          ELSE IF links
          THEN /\ names' = [names EXCEPT ![m.to][f] = names[m.from][f]]
               /\ bytes' = bytes
               /\ SetMover(w, [m EXCEPT !.left = @ \ {f}])
          ELSE /\ names' = [names EXCEPT ![m.to][f] = FreeInode(f)]
               /\ bytes' = [bytes EXCEPT ![f][FreeInode(f)] = "short"]
               /\ SetMover(w, [m EXCEPT !.pc = "copy"])
    /\ UNCHANGED <<links, cache, meta, hot, landed, jobs, starter, stopping, read, raced, excused, spare>>

CopyEnds(w) ==
    LET m == mover[w]
        f == First(m.left)
    IN /\ m.pc = "copy"
       /\ bytes' = IF names[m.to][f] = 0 THEN bytes
                   ELSE [bytes EXCEPT ![f][names[m.to][f]] = Content(m.from, f)]
       /\ SetMover(w, [m EXCEPT !.pc = "publish", !.left = @ \ {f}])
    /\ UNCHANGED <<links, cache, names, meta, hot, landed, jobs, starter, stopping, read, raced, excused, spare>>

\* Any error before the catalog is written: the source is where it was.
PublishFails(w) ==
    /\ mover[w].pc \in {"publish", "copy"} /\ Uses("faults")
    /\ SetMover(w, NoMove) /\ excused' = TRUE
    /\ UNCHANGED <<links, cache, names, bytes, meta, hot, landed, jobs, starter, stopping, read, raced>>

\* set_data_root; a cold move does not look for a HotTorrent any more.
SwitchRow(w) ==
    LET m == mover[w]
    IN /\ m.pc = "publish" /\ m.left = {} /\ (CatalogFree \/ m.locked)
       /\ meta' = [meta EXCEPT !.root = m.to]
       /\ raced' = (raced \/ (m.locked /\ hot.on))
       /\ SetMover(w, IF m.locked THEN [m EXCEPT !.pc = "unpublish", !.left = Files]
                      ELSE [m EXCEPT !.pc = "live"])
    /\ UNCHANGED <<links, cache, names, bytes, hot, landed, jobs, starter, stopping, read, excused, spare>>

\* set_data_root_live, when the registry has the torrent by now.
SwitchLive(w) ==
    LET m == mover[w]
    IN /\ m.pc = "live"
       /\ hot' = IF hot.on THEN [hot EXCEPT !.root = m.to] ELSE hot
       /\ read' = IF hot.on /\ read.pc # "idle" THEN [read EXCEPT !.switched = @ + 1] ELSE read
       /\ raced' = (raced \/ (hot.on /\ meta.root # m.to))
       /\ SetMover(w, [m EXCEPT !.pc = "unpublish", !.left = Files])
    /\ UNCHANGED <<links, cache, names, bytes, meta, landed, jobs, starter, stopping, excused, spare>>

\* unpublish_payload_files: the names, one after the other.
Unpublish(w) ==
    LET m == mover[w]
        f == First(m.left)
    IN /\ m.pc = "unpublish" /\ m.left # {}
       /\ names' = [names EXCEPT ![m.from][f] = 0]
       /\ SetMover(w, [m EXCEPT !.left = @ \ {f}])
    /\ UNCHANGED <<links, cache, bytes, meta, hot, landed, jobs, starter, stopping, read, raced, excused, spare>>

\* A stage is wiped with whatever else is in it.  When that fails the
\* torrent stays marked as staged.
UnpublishEnds(w) ==
    LET m == mover[w]
    IN /\ m.pc = "unpublish" /\ m.left = {}
       /\ \/ /\ names' = IF m.clear THEN [names EXCEPT ![m.from] = [f \in Files |-> 0]] ELSE names
             /\ SetMover(w, IF m.clear THEN [m EXCEPT !.pc = "clear"] ELSE NoMove)
             /\ UNCHANGED <<excused, spare>>
          \/ /\ m.clear /\ Uses("faults")
             /\ SetMover(w, NoMove) /\ excused' = TRUE /\ names' = names
    /\ UNCHANGED <<links, cache, bytes, meta, hot, landed, jobs, starter, stopping, read, raced>>

\* set_home_root(None), whatever home_root is by now.
ClearHome(w) ==
    /\ mover[w].pc = "clear" /\ CatalogFree
    /\ meta' = [meta EXCEPT !.home = Nowhere] /\ SetMover(w, NoMove)
    /\ UNCHANGED <<links, cache, names, bytes, hot, landed, jobs, starter, stopping, read, raced, excused, spare>>

-----------------------------------------------------------------------------
(* Start, stop, boot.                                                      *)

StartCmd ==
    /\ CtlFree /\ ~hot.on /\ Uses("starts")
    /\ starter' = [starter EXCEPT !["ctl"].pc = "load"]
    /\ UNCHANGED <<links, cache, names, bytes, meta, hot, landed, jobs, mover, stopping, read, raced, excused>>

\* set_want_start and load_from_catalog, under one catalog_mu.
StartLoads(s) ==
    /\ starter[s].pc = "load" /\ CatalogFree
    /\ IF hot.on \/ meta.deleted \/ (s = "boot" /\ ~meta.want)
       THEN starter' = [starter EXCEPT ![s] = NoStart] /\ meta' = meta
       ELSE /\ starter' = [starter EXCEPT ![s] = [pc |-> "prepare", root |-> meta.root, have |-> meta.have]]
            /\ meta' = [meta EXCEPT !.want = TRUE]
    /\ UNCHANGED <<links, cache, names, bytes, hot, landed, jobs, mover, stopping, read, raced, excused, spare>>

\* ensure_storage: a file that is not there, or short, becomes zeros.
StartPrepares(s) ==
    LET r == starter[s].root
        absent == {f \in Files : names[r][f] = 0}
    IN /\ starter[s].pc = "prepare"
       /\ names' = [names EXCEPT ![r] = [f \in Files |-> IF f \in absent THEN FreeInode(f) ELSE @[f]]]
       /\ bytes' = [f \in Files |->
              IF f \in absent THEN [bytes[f] EXCEPT ![FreeInode(f)] = "zero"]
              ELSE IF Content(r, f) = "short" THEN [bytes[f] EXCEPT ![names[r][f]] = "zero"]
              ELSE bytes[f]]
       /\ raced' = (raced \/ r # meta.root)
    /\ starter' = [starter EXCEPT ![s].pc = "insert"]
    /\ UNCHANGED <<links, cache, meta, hot, landed, jobs, mover, stopping, read, excused, spare>>

\* Insert, when no other start won.
StartInserts(s) ==
    /\ starter[s].pc = "insert"
    /\ hot' = IF hot.on THEN hot
              ELSE [on |-> TRUE, root |-> starter[s].root, have |-> starter[s].have]
    /\ raced' = (raced \/ (~hot.on /\ starter[s].root # meta.root))
    /\ starter' = [starter EXCEPT ![s] = NoStart]
    /\ UNCHANGED <<links, cache, names, bytes, meta, landed, jobs, mover, stopping, read, excused, spare>>

\* stop_torrent: its flush takes the torrent's pieces, and does not look at
\* what became complete.
StopFlushes ==
    /\ CtlFree /\ CatalogFree /\ hot.on /\ Uses("stops")
    /\ meta' = [meta EXCEPT !.have = @ \cup landed] /\ landed' = {}
    /\ excused' = (excused \/ (Complete(meta'.have) /\ ~Complete(meta.have)))
    /\ stopping' = TRUE
    /\ UNCHANGED <<links, cache, names, bytes, hot, jobs, mover, starter, read, raced>>

\* The sessions end; what they had under way is followed in TorrentLifecycle.
StopUnhots ==
    /\ stopping /\ CatalogFree
    /\ hot' = NotHot /\ jobs' = {} /\ read' = NoRead /\ stopping' = FALSE
    /\ meta' = [meta EXCEPT !.want = FALSE]
    /\ UNCHANGED <<links, cache, names, bytes, landed, mover, starter, raced, excused, spare>>

\* soft_delete_torrent and mark_deleted: what is stopped, and its files stay.
SoftDeletes ==
    /\ CtlFree /\ CatalogFree /\ ~hot.on /\ ~meta.want /\ ~meta.deleted /\ Uses("readds")
    /\ meta' = [meta EXCEPT !.deleted = TRUE]
    /\ UNCHANGED <<links, cache, names, bytes, hot, landed, jobs, mover, starter, stopping, read, raced, excused>>

\* Added once more, by a thread that has a connection of its own:
\* choose_placement takes it for incomplete, restore_deleted keeps its bitfield.
Restores ==
    /\ meta.deleted /\ starter["boot"].pc = "idle"
    /\ meta' = [meta EXCEPT !.deleted = FALSE, !.want = TRUE,
                            !.root = IF cache THEN "stage" ELSE "home",
                            !.home = IF cache THEN "home" ELSE Nowhere]
    /\ starter' = [starter EXCEPT !["boot"].pc = "load"]     \* the next sync_want_start
    /\ UNCHANGED <<links, cache, names, bytes, hot, landed, jobs, mover, stopping, read, raced, excused, spare>>

\* check_complete_layout: length, not content.
LayoutProblem(d) == \E f \in Files : Content(d.root, f) \in {"none", "short"}
\* mark_incomplete_storage_problem
Demoted(d) == [d EXCEPT !.have = {}, !.want = FALSE]
Audited(d) == IF Complete(d.have) /\ ~d.deleted /\ LayoutProblem(d) THEN Demoted(d) ELSE d

\* The process dies and starts again: apply_startup_to_catalog, the session.
CrashAndBoot ==
    /\ Uses("crashes")
    /\ meta' = Audited(meta)
    /\ hot' = NotHot /\ landed' = {} /\ jobs' = {} /\ read' = NoRead
    /\ mover' = [m \in Movers |-> IF m = "tick" THEN [NoMove EXCEPT !.pc = "boot"] ELSE NoMove]
    /\ starter' = [s \in {"boot", "ctl"} |->
                     IF s = "boot" /\ meta'.want THEN [NoStart EXCEPT !.pc = "load"] ELSE NoStart]
    /\ stopping' = FALSE /\ excused' = FALSE
    /\ UNCHANGED <<links, cache, names, bytes, raced>>

-----------------------------------------------------------------------------
(* Disk jobs and seed reads.                                               *)

\* A verified piece takes a layout with it.
JobTakes(f) ==
    /\ hot.on /\ ~stopping /\ f \notin hot.have /\ \A j \in jobs : j.f # f
    /\ jobs' = jobs \cup {[f |-> f, root |-> hot.root, written |-> FALSE]}
    /\ UNCHANGED <<links, cache, names, bytes, meta, hot, landed, mover, starter, stopping, read, raced, excused, spare>>

\* write_piece: opens the name, and makes it when only the directory is left.
JobWrites(j) ==
    /\ j \in jobs /\ ~j.written
    /\ \/ /\ names[j.root][j.f] # 0
          /\ bytes' = [bytes EXCEPT ![j.f][names[j.root][j.f]] = "good"]
          /\ jobs' = (jobs \ {j}) \cup {[j EXCEPT !.written = TRUE]} /\ names' = names
       \/ /\ names[j.root][j.f] = 0
          /\ names' = [names EXCEPT ![j.root][j.f] = FreeInode(j.f)]
          /\ bytes' = [bytes EXCEPT ![j.f][FreeInode(j.f)] = "good"]
          /\ jobs' = (jobs \ {j}) \cup {[j EXCEPT !.written = TRUE]}
       \/ /\ names[j.root][j.f] = 0 /\ jobs' = jobs \ {j} /\ UNCHANGED <<names, bytes>>
    /\ UNCHANGED <<links, cache, meta, hot, landed, mover, starter, stopping, read, raced, excused, spare>>

\* mark_have and queue_piece_have.
JobMarks(j) ==
    /\ j \in jobs /\ j.written
    /\ jobs' = jobs \ {j}
    /\ hot' = [hot EXCEPT !.have = @ \cup {j.f}] /\ landed' = landed \cup {j.f}
    /\ UNCHANGED <<links, cache, names, bytes, meta, mover, starter, stopping, read, raced, excused, spare>>

\* pick_next_active takes the layout ...
ReadBegins(f) ==
    /\ read.pc = "idle" /\ hot.on /\ f \in hot.have
    /\ read' = [pc |-> "open", f |-> f, root |-> hot.root, tries |-> 1, switched |-> 0]
    /\ UNCHANGED <<links, cache, names, bytes, meta, hot, landed, jobs, mover, starter, stopping, raced, excused, spare>>

\* Seeded fault: the first answer is final.
NoRetry(n) == FALSE
Retries(n) == n = 1

\* ... and begin_upload opens a name; when it is not found, once more with
\* the layout of now.
ReadOpens ==
    /\ read.pc = "open"
    /\ read' = CASE Content(read.root, read.f) = "good" -> NoRead
                 [] Content(read.root, read.f) = "none" /\ Retries(read.tries) ->
                        [read EXCEPT !.root = hot.root, !.tries = 2]
                 [] Content(read.root, read.f) = "short" ->   \* the copy of one more move
                        [read EXCEPT !.pc = "failed", !.switched = @ + 1]
                 [] OTHER -> [read EXCEPT !.pc = "failed"]
    /\ UNCHANGED <<links, cache, names, bytes, meta, hot, landed, jobs, mover, starter, stopping, raced, excused, spare>>

\* push_reject, or a block of zeros.
ReadFailed ==
    /\ read.pc = "failed" /\ read' = NoRead
    /\ UNCHANGED <<links, cache, names, bytes, meta, hot, landed, jobs, mover, starter, stopping, raced, excused, spare>>

-----------------------------------------------------------------------------
TickHands == TickBoots \/ TickFlushes \/ HandoffHome \/ HandoffRoot
Moves(w) == Publish(w) \/ CopyEnds(w) \/ SwitchRow(w) \/ SwitchLive(w) \/ Unpublish(w)
            \/ UnpublishEnds(w) \/ ClearHome(w)
CtlWorks == RelocateRoot \/ RelocateRetargets \/ RelocateChooses \/ RelocateLocks
            \/ StopUnhots \/ StartLoads("ctl") \/ StartPrepares("ctl") \/ StartInserts("ctl")

MoveNext ==
    \/ TickHands \/ CtlWorks
    \/ \E w \in Movers : Moves(w) \/ PublishFails(w)
    \/ \E x \in Roots \ {"stage"} : RelocateHome(x)
    \/ StartCmd \/ StopFlushes \/ SoftDeletes \/ Restores \/ CrashAndBoot
    \/ StartLoads("boot") \/ StartPrepares("boot") \/ StartInserts("boot")
    \/ \E f \in Files : JobTakes(f) \/ ReadBegins(f)
    \/ \E j \in jobs : JobWrites(j) \/ JobMarks(j)
    \/ ReadOpens \/ ReadFailed

MoveSpec == MoveInit /\ [][MoveNext]_moveVars

\* The tick and the control worker are threads of their own.
MoveFairSpec == MoveSpec /\ WF_moveVars(TickHands \/ Moves("tick"))
                         /\ WF_moveVars(CtlWorks \/ Moves("ctl"))

-----------------------------------------------------------------------------
MoveTypeOK ==
    /\ names \in [Roots -> [Files -> {0} \cup Inodes]]
    /\ bytes \in [Files -> [Inodes -> {"short", "zero", "good"}]]
    /\ meta \in [root : Roots, home : Roots \cup {Nowhere}, have : SUBSET Files,
             want : BOOLEAN, deleted : BOOLEAN]
    /\ hot \in [on : BOOLEAN, root : Roots \cup {Nowhere}, have : SUBSET Files]
    /\ landed \subseteq Files /\ jobs \subseteq [f : Files, root : Roots, written : BOOLEAN]
    /\ mover["ctl"].pc # "idle" => starter["ctl"].pc = "idle" /\ ~stopping

\* relocate.rs: "publish dest before unpublishing source".  The pieces the
\* catalog has are in the directory it names, whole, at every moment and after
\* a crash at any moment; unless an activation or the other task used a layout
\* that a move had left, or the user moved a torrent that was downloading.
PayloadFollows == raced \/ \A f \in meta.have : Content(meta.root, f) = "good"

\* design.md: "ENOENT retries once with a fresh layout".  A seed read finds
\* its bytes while the torrent moves, unless a second move begins in between.
ReadsThroughMoves == read.pc = "failed" => raced \/ read.switched > 1

\* domains.md: "handoff to permanent data_root when wanted complete".  A staged
\* torrent that the catalog has as complete comes home, also when the process
\* dies on the way; unless the move failed, or a stop took the completion or
\* came before the last piece was marked, or a layout was used that a move left,
\* or a relocate named a new home for a torrent that had come home in between.
ComesHome == meta.home # Nowhere /\ Complete(meta.have) /\ ~meta.deleted ~> meta.home = Nowhere \/ excused \/ raced

\* design.md: "wipe the tree only for {leech_cache}/{infohash}".  A tree that
\* unpublish_payload_files has wiped was the stage.
WipesOnlyTheStage == \A w \in Movers : mover[w].pc = "clear" => mover[w].from = "stage"

\* storage.rs: "so we never seed after empty ensure_storage recreation".
NeverSeedsEmpty == hot.on => \A f \in hot.have : Content(hot.root, f) # "zero"

\* relocate.rs: the layout of the HotTorrent is the catalog's between moves.
LayoutAgrees ==
    hot.on /\ (\A w \in Movers : mover[w].pc \in {"idle", "boot", "home", "root", "retarget", "choose", "cold"})
        => hot.root = meta.root
=============================================================================
