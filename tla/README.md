# seedchamp in TLA+

This directory is a verification development for **seedchamp**, a BitTorrent
client in Rust (`src/crates/engine`, `src/crates/tui`, `src/crates/import`,
`src/src/main.rs`). It holds TLA+ modules translated from the source, TLC
configurations that check them on small instances, and proofs of their main
invariants for every value of the constants (TLAPS 1.4.5).

Paths below are relative to `src/crates/engine/src/` unless they begin with
`src/`. `PROJECT.json` maps each definition to the lines it models and lists
runs, seeded faults, findings, hazards and theorems.

## 1. The system

One process, one `SessionRuntime`. Threads: `peer_workers` I/O threads that each
run many peer-session tasks (single-threaded async), a pool of hash threads, one
disk backend (thread, io_uring or AIO), an accept/tick runtime, the serial
**mutation worker**, a catalog reader, one detached thread per recheck. They
share the hot registry (`Arc<HotTorrent>` per started torrent, a lock per
field), the catalog (SQLite under `catalog_mu`), and a dozen session maps.

| Component | State | Operations | Talks to | Hard because | Correct when |
|---|---|---|---|---|---|
| `hot/` in-memory torrent | possession, wanted set, `download_missing`, `in_flight` claims, availability, HAVE hub, hash table, staging pool slot | `mark_have`, `try_claim_piece`, `release_piece_claim`, `set_file_priority`, `pick_rarest_piece`, `should_endgame` | called by every session and by the mutation worker | one lock per field, no operation atomic across them | counter and sets agree; claims are exclusive and returned |
| `peer/` session | `PeerDownload` (staging slots, claims held, hashing count, endgame latch), interest, choke, request queue, outbound queue | reader loop, writer loop, message handlers, idle close, teardown | hot, hash pool, wire | results return on a channel while the torrent changes under it | no lost piece, no leaked claim, useless sessions end |
| `staging/` | per-session slots; per-torrent buffer freelist with a budget | `try_start`, `ingest`, `take_for_hash`, `reclaim`, `clear` | peer, hot | buffers cross threads and pool replacements | budget kept, no slot stuck |
| `runtime/` hash pool and disk worker | job queues, backend, restart budget | `submit`, `handle_verify`, `submit_write`, `try_restart` | peer, disk | backend death, cooldown and concurrent restarts | write only verified bytes; a reply for each job |
| `session/lifecycle` | registry, cancel flags | `start_torrent`, `stop_torrent`, `sync_want_start`, delete, remove | catalog, registry, announce | two threads start and stop torrents | a stop takes; deleted is not running |
| `session/catalog_io` | `PieceHaveBuffer`, byte counters, announce baselines | `queue_piece_have`, `flush_piece_haves` | sessions, tick, mutation worker, catalog | crash and failed commit between RAM and catalog | catalog never ahead of disk; nothing buffered is lost |
| `control/` | command, mutation and reader channels | `mutation_worker`, control loop | TUI, session, recheck threads | jobs that queue more jobs | commands take effect in order |
| recheck (`hash/recheck`, `runtime/recheck_pool`) | recheck-in-flight set, verdicts | prepare, check pieces, finish | catalog, hash pool, mutation worker | runs beside downloads and commands | verdicts reach catalog and hot set |
| `catalog/` | SQLite rows | row, bitfield and file transactions, insert, restore, purge | everybody | one batch for many torrents; several connections | transactions all or nothing; possession follows the payload |
| `session/relocate`, `disk/relocate` | data root, home root, live layout | handoff, transfer, switch, unpublish, resume | disk, catalog, hot | payload moves while pieces are written and read | no piece left behind |
| `session/accept`, `dial`, `peer_policy`, `limits` | peers, outbound keys, dial cooldown | accept, plan, dial, end, change the limit | peer, tracker | several dialers; counters at limits | limit kept; one connection per endpoint; dials go on |
| `session/announce`, `tracker/` | schedules, baselines, host limiter | announce, completed event, stop | network | answers applied to a schedule that changed | completed once, and in the end |
| `peer/establish`, `crypto/` | handshake and MSE state | handshake, policy, retry in the other mode | wire | fallbacks | ends agree on the cipher |
| `peer/established`, `out_queue`, `upload/` | control and piece queues, cipher position, reads | push, cancel, choke, fill, publish HAVE | peer writer, disk | cancels racing reads | each request answered once or taken back |
| `peer/download`, `staging`, `rate_limit`, `pipeline` | blocks, outstanding requests, tokens, buffers | issue, receive, reject, stall, endgame | hot, wire | a remote that loses, repeats and refuses | what is counted can still come; tokens pay for it |
| `net`, `wire/` | receive buffer, low-water mark | read, decrypt, frame, compact, park | peer reader | reads cut anywhere, cancelled or timed | every message heard |
| `runtime/pool` | counts, queues, threads | spawn, end, panic, shutdown | sessions | threads that die or are stuck | counts true; shutdown returns |
| `library/` | watch directory, leech cache | scan, add, place, restore | control, catalog | concurrent adders; files that do not parse | each file lands; cache not exceeded |
| `tui`, `activity_log` | list, tombstones, log window | keys, events, filters | control | answers older than what is shown | deleted rows stay away; pages stay put |
| `import`, `config`, `main`, `process_metrics`, `bench`, `bencode`, `metainfo` | | conversion and display | | sequential | round trips |

`PROJECT.json` "components" repeats this list with its modelling status, and
"hazards" lists the places, by line, where this code is hard to test.

## 2. Modules

| Module | Models | Extends |
|---|---|---|
| `HotTorrent` | `HotTorrent`: every operator is one critical section of `hot/pieces.rs` or `hot/have.rs` | |
| `LeechPath` | sessions that claim, assemble, hash, write and mark pieces of one torrent, beside a change of file priorities | `HotTorrent` |
| `LeechPathProofs` | theorems about `LeechPath` | `LeechPath` |
| `MCLeechPath` | instances | `LeechPath` |
| `TorrentLifecycle` | commands, sync tasks, rechecks, piece-have durability, catalog, crash | |
| `TorrentLifecycleProofs` | theorems about `TorrentLifecycle` | `TorrentLifecycle` |
| `MCTorrentLifecycle` | instances | `TorrentLifecycle` |
| `StagingMemory` | the piece-buffer freelists of a torrent; every operator is one critical section of `staging/piece_pool.rs` or of the slot in `hot/have.rs` | |
| `DiskWorker` | hash threads, their two queues, the restartable disk worker and its backends | |
| `WritePath` | sessions that assemble pieces in staged buffers and send them through the hash threads and the disk worker | `StagingMemory`, `DiskWorker` |
| `WritePathProofs` | theorems about `WritePath` | `WritePath` |
| `MCWritePath` | instances | `WritePath` |
| `RequestLedger` | abstract: what a serving peer owes for each request | |
| `UploadPath` | one session that serves: reader, channel, out-queue, writer, cipher, HAVE; implements `RequestLedger` | |
| `BlockPipeline` | one session that fetches: blocks, requests, tokens, buffers, and the remote | |
| `AnnounceSchedule` | announce schedules beside boot, tick and mutation worker | |
| `PeerSlots` | accept, dial, limits, cooldown, cancel flags | |
| `Handshake` | plain and encrypted establishment of both ends | |
| `WireRead` | the byte stream, the receive buffer and the low-water mark | |
| `UdpTracker` | one announce over UDP | |
| `WorkerPool` | threads of peer sessions, their counts and shutdown | |
| `SpanWrite` | the spans of a piece in the io_uring and AIO threads (one step of `DiskWorker`) | |
| `Console` | interface, control thread, mutation worker, catalog reader | |
| `LogView` | the log ring and the screen that scrolls over it | |
| `PayloadMove` | files that move between two roots beside writes, reads, start, stop, crash | |
| `Library` | watch directory, adders, reserved cache, catalog rows | |
| `UploadPathProofs`, `BlockPipelineProofs` | theorems about these | each its module |
| `PeerSlotsProofs` | theorems about `PeerSlots`, `Handshake`, `WorkerPool` and `WireRead`: a connection's slot, its establishment, the thread that runs it, its stream | these |
| `AnnounceScheduleProofs` | theorems about `AnnounceSchedule` and `UdpTracker` | these |
| `ServicesProofs` | theorems about `SpanWrite`, `Library`, `PayloadMove`, `Console` and `LogView` | these |
| `MCUploadPath`, `MCBlockPipeline`, `MCAnnounceSchedule`, `MCPeerSlots` | instances | each its module |
| `MCServices` | the nine modules from `Handshake` to `Library`, one at a time (`part`), and their instances | these |

Operators whose comment begins "Seeded fault" are wrong on purpose: each is an
operation as a plausible mistake would have it. No specification uses them; each
property is shown to fail when one of them replaces the real operation
(`PROJECT.json` "mutants").

### LeechPath and the code

A session is one task; what it does between two locks of `HotTorrent` is one
action, and `pc[p]`, `cur[p]` say before which lock it stands and about which
piece.

| Variable | Code |
|---|---|
| `have`, `wanted`, `missing`, `inFlight`, `hashes` | `PieceState.bitfield`, `wanted_bf`, `download_missing`, `in_flight`, `piece_hashes` |
| `rebuild` | the mutation worker inside `rebuild_wanted_and_missing` |
| `slot[p]`, `held[p]`, `endgame[p]`, `hasPool[p]` | `StagingPool.slots`, `PeerPieceClaims.held`, `PeerDownload.endgame`, `StagingPool.pool` |
| `job[p][i]` | the `HashJob`, `DiskWriteJob` or `HashOutcome` of the piece, wherever it is queued |
| `written` | pieces whose bytes on disk are verified bytes |
| `orphans` | jobs of sessions that ended; the disk worker still writes them |

Actions are named for the code: `StartPiece` .. `AbortRelease` are
`take_requests` with `start_piece`, `try_claim` and `abort_start`;
`PieceComplete`, `SubmitHash`, `HashTableGone` are `handle_piece`; `HashVerify`,
`WriteDone`, `WriteFailed` the pool and the disk worker; `ApplyOk`, `ApplyFail`
are `apply_hash_outcome`; `MarkRelease`, `MarkWants`, `MarkPieces` the three
critical sections of `mark_have`; `SetFilePriority`, `StoreWanted`,
`StoreMissing` those of `set_file_priority`. Abstracted: blocks (a staged piece
completes in one step), choking and the remote's bitfield (`RemoteHas`), the
order in which pieces are picked, staging memory (a start may be refused).

### TorrentLifecycle and the code

| Variable | Code |
|---|---|
| `row` | `torrent` and `bitfield` rows: exists, `want_start`, `deleted`, bits |
| `ram` | hot registry with each torrent's bitfield, or `Cold` |
| `disk` | pieces whose verified bytes are in the payload |
| `jobs` | one record per piece on its way through a leech session; `live` is false when the session still holds an instance that was taken out of the registry |
| `pending` | `PieceHaveBuffer.pending` |
| `queue`, `mut` | the mutation channel and where its worker stands |
| `task` | the tick and bootstrap tasks: flush, `sync_want_start` |
| `rck` | a detached recheck thread per torrent |
| `asked` | history: the user's last wish |

`Issue` is a command; `TakeStart` .. `StartPublish` are `start_torrent`,
`TakeStop` .. `StopUnwant` are `stop_torrent`, `TakeSync` is
`SyncAfterRecheck`, `TakeErase`, `EraseRow` are soft delete and remove;
`TickFlush`, `TickFlushWrite` are `flush_piece_haves`; `SyncList` ..
`SyncPublish` are `sync_want_start`; `CheckPiece` .. `SendSync` the recheck
thread. `Crash` keeps `row` and `disk`. Every use of the catalog may fail once
per `MaxFaults`.

The constant `Syncing` says which of the two tasks runs `sync_want_start`, `Ops`
which commands the user gives. Both exist in every run of the program; an
instance without one of them isolates what the rest does by itself, because the
sync task breaks some promises the rest keeps (section 4).

### WritePath and the code

`LeechPath` knows which piece a job is about and nothing of the machinery below;
`WritePath` is that machinery: memory, threads, channels, restarts, with the
download reduced to "complete or not".

| Variable | Code |
|---|---|
| `pools`, `shared`, `pool[p]` | `PieceBufferPool.inner` of each freelist, `HotTorrent.staging_pool`, the `Arc` in the session's `StagingPool` |
| `slot[p]`, `leech[p]`, `pc[p]`, `done` | `StagingPool.slots`, `am_interested`, where the session's task stands, `is_download_complete` |
| `leechQ`, `recheckQ`, `hasher[h]` | the queues of `HashPool`, a thread in `hash_worker_main` with its job |
| `backend[g]`, `cur` | the g-th backend spawned (state of its thread, channel, pieces in flight), `DiskState.backend` |
| `restarts`, `cooling`, `deadPermanent` | the fields of `DiskState`; `cooling` is `last_restart` against the clock |
| `outcome` | the reply channel of the session; "lost" when the sender was dropped unanswered |
| `passed` | history: recheck jobs a thread began while a piece was queued |

`TryLeech` .. `Rechecked` are `hash_worker_main`; `Verify` is `handle_verify`
up to the clone of the backend in `submit_write`; `Send`, `SendFails` its send;
`TryRestart`, `Spawn`, `SpawnFails`, `Join` are `try_restart`; `Setup` ..
`CloseChannel` are `uring_main` with `fatal_drain_and_exit` (the thread backend
is one that never fails). `EnsureCheck`, `EnsureCreate`, `ReleaseShared` are
`ensure_staging_pool` and `release_staging_pool`; `StartPiece`,
`PieceComplete`, `HashTableGone`, `ApplyOutcome`, `ClearOne`, `Ended` move one
buffer each. Abstracted: bytes and spans, blocks, the clock (the cooldown ends
at any time), `discard_writes`, process shutdown, and the overlap of a
session's late jobs with the next session on the same connection slot
(`Connect` waits for them; two sessions stand for such an overlap).

### The session that serves and the session that fetches

`UploadPath`: `reader` and `writer` are the two tasks of `run_duplex`, `cmd` the
channel between them, `ctrl`, `pieces`, `active`, `keepalive` the fields of
`OutQueue`, `pending` the shared count of uploads, `haveRx` the receiver of the
HAVE hub, `hello` the possession message written before both tasks begin. A
frame is what it says; RC4 is the order in which frames are encrypted, and `gap`
counts those encrypted and never written. `PushPiece`, `CancelPiece`,
`ClearAll`, `FillOk`, `FillFails`, `RateLimited` are the operations of
`out_queue.rs`; `TakeHaves` the drain of the hub; `ReaderDone`, `Stop`, the ends.
`KeepsLedger` is `INSTANCE RequestLedger WITH owed <- ..., revoked <- ...`: what
is owed is computed from the queues, the channel and the answers written.

`BlockPipeline` opens the step "a staged piece completes" of `LeechPath`: `slot`
holds each piece's blocks (had, asked), `issue` is a call of `take_requests`
with the tokens it has reserved, `tokens` the bucket, `fromRemote` and
`toRemote` the wire, `remoteQ` what the remote will answer. Actions are named
for `take_requests`, `refund_download`, `set_caps`, `ingest`, `on_reject`,
`requeue_timed_out`, `adapt_pipeline`, and the endgame.

### Announces and connections

`AnnounceSchedule`: `sched`, `baseline` are `announce_sched`,
`announce_baseline`; `tasks` the announces under way, each of which claims
(`Claim`), asks the host limiter, talks, and applies its answer to the entry it
then finds (`AfterOk`, `AfterFailure`); `worker`, `boot`, `tick` the callers.

`PeerSlots`: `flag` is the cancel flag in `torrent_cancel`, `hotObj` the
registry's instance, `connected_out`, `cooling`, `max_peers` the session maps;
`conn` the peer tasks (inbound and outbound), `dialer` the tasks inside
`refill_peers_with_cache`.

### The services

| Module | Variables and code |
|---|---|
| `Handshake` | `dial`, `accept`: `run_outbound_peer`, `establish_inbound`; `toAcc`, `toDial`: the two directions; `dmode`, `amode`: `EncryptionMode` |
| `WireRead` | `buf`, `cur`: `ReadCursor`; `parked`, `due`: `RecvLowatGuard` and the stall deadline; `keyed`: bytes the RC4 state has gone through; `heard`: messages handled; `lost`: history, a dropped read had taken bytes |
| `UdpTracker` | `stage`, `conn`, `addr`: locals of `announce_udp`; `asked`, `answers`: datagrams |
| `WorkerPool` | `count`, `active`, `queue`, `thread`: `PeerWorkerPool`; `spawner`: `spawn_peer` between choice, count and send; `closer`: `shutdown` |
| `SpanWrite` | `inbox`, `waiting`, `fly`: the queues of `uring_main` and `aio_main`; `cut`: `start_piece`; `sq`, `kernel`, `finished`: the rings; `answer`: `complete_write_job` |
| `Console` | `row`: catalog; `commands`, `mutations`, `reads`, `events`: the channels; `shown`, `tomb`, `sent`: the app's list, `DeleteTombstones`; `control`, `quit`: the end |
| `LogView` | `ring`, `seq`: `ActivityLog`; `view`: the log fields of `App`; `pin`: history, the line left on top |
| `PayloadMove` | `names`, `bytes`: the file system as links to inodes; `meta`: `meta_path`, bitfield, flags; `hot`: the `HotTorrent` with its layout; `mover`: handoff and relocate, whose steps `RelocateHome`, `RelocateRoot`, `RelocateRetargets`, `RelocateChooses` and `RelocateLocks` are the reads and writes of `relocate_data_root` under one lock each; `starter`, `stopping`: activation and stop; `jobs`, `read`: disk work that holds a layout |
| `Library` | `dropped`, `scan`: directory; `adder`: `add_torrent_bytes` at each step, for the watch thread and a second adder (`AdderFails`: a statement that fails; `AdderPlaces` also stages after a probe that failed); `rowOf`: catalog; `started`: start requests |

## 3. Runs

The instances are two sessions and two pieces, or one torrent with one or two
pieces, or one session over two hash threads, or one connection. Deadlock
checking is off because a bounded model stops when its commands and faults are
spent and nothing is left to download; a real stop is one of these states, and
the liveness properties say which stops are wrong.

| Run | Question | Instance | States |
|---|---|---|---|
| `MCLeechSafety` | safety of the leech path | any wanted set; 1 fault of any kind, or 1 priority change | 0.9 M |
| `MCLeechLive` | does the download end? | 2 faults, one remote has both pieces and the other only one; no priority change, backend does not die | 0.25 M |
| `MCLifeRecheck` | start, stop, recheck with damage, fault, crash; no sync task | 3 commands, 2 pieces | 2.0 M |
| `MCLifeLive` | start, stop, delete, remove with sync tasks, fault, crash; durability and liveness | 2 commands, 1 piece | 0.25 M |
| `MCWriteSafety` | memory, hash threads and disk worker | 1 session, 3 pieces, 2 buffers, 2 hash threads, 2 restarts, 2 failures or 2 rechecks or 2 priority changes | 1.9 M |
| `MCWriteLive` | is each piece answered? | 1 session, 2 pieces, 2 hash threads, 2 restarts, 1 failure: a thread may replace, and wait for, a backend that still works | 0.17 M |
| `MCUpload` | does a session that serves keep its promises? | 2 pieces of 1 block, queue of 2, up to 4 messages, 1 trouble; with Fast and RC4, with neither, with Fast and no uploading | 0.4 M |
| `MCBlocks` | do the requests of a session that fetches add up? | a piece of 2 blocks and one of half a block, depths 2 and 3, bucket of 3, 2 buffers, 1 trouble; plain, Fast, limited, or a remote that makes data up | 0.33 M |
| `MCAnnounce` | is the completion announced once, and in the end? | 1 torrent, 2 tasks, 1 announce per host; stop and start, stop and failure, or start and failure | 0.56 M |
| `MCPeers` | slots, keys and dials | 2 connections, 2 dialers, limits 1 and 2; one start, one visitor, one change of the limit, or two endpoints; a stop at any time | 0.19 M |
| `MCServices` | each of the nine services by itself | see `MCServices.tla`: profiles that spend two or three of stop, start, move, fault, crash, key, error | 0.29 M |
| `MCMovesReadd` | a counterexample, section 4 | | |

What they show:

- `HaveIsOnDisk`: what is announced and served was verified and written, also
  when two sessions write the same piece in endgame and one of them fails.
- `NoOrphanClaim`: a reservation of a missing piece always has a session that
  will give it back, at every point of start, abort, failure and teardown.
- `NothingLostToTheDrop`: `handle_piece` looks its hash up after others may have
  dropped the table (`HashTableGone`), and the session ends. When that can happen,
  nothing it has reserved, assembled or sent for hashing is still missing. (That it
  does happen, without any fault, is `DropsUnneededHashes` in section 4.)
- `MissingExactUntilReprioritised`: the O(1) counter is exact under concurrent
  `mark_have` calls as long as priorities stay. (The theorem `TypeCorrect` says in
  addition that it never wraps, also when they change.)
- `DownloadEnds`: exclusive claims that wait on each other are broken by
  endgame; sessions whose slots hold pieces that somebody else finished are
  closed; the wanted set arrives.
- `CatalogBehindDisk`: the durable bitfield never names a piece that is not on
  disk, while nobody else touches the payload.
- `PossessionCovered`: the reverse across RAM and catalog: what a running
  torrent offers is in the catalog or still on its way there.
- `HavesLand`, `WantedRuns`: failed flushes are retried until they land; a
  torrent that wants to run is started by a later sync.
- `Budgeted`: each freelist stays within the staging budget and its counter is
  the number of pieces assembled in it, although buffers leave the budget for
  hash and disk, come back when others took their place, and outlive a freelist
  the torrent has replaced.
- `OnePlace`: a piece handed over, and its only buffer, is at any time in one
  queue, thread, channel, ring or reply; retry after a restart does not double
  it, the fatal drain answers it once.
- `LeechFirst`: rechecks of a whole torrent delay a waiting piece by at most one
  job of each thread.
- `Answers`: blocked senders, the thread that joins a dying backend, and the
  backend itself never wait for each other for good.
- `CipherInStep`, `CancelledIsGone`: a frame once encrypted is written, and a
  block that was taken back before it was encrypted is not, whichever of cancel,
  token wait and failed read comes first.
- `RemoteLearns`: a piece verified at any moment of the greeting, between the
  snapshot and the subscription too, is announced to a remote that stays.
- `PendingWhileWaiting`: the count the idle timer trusts is not 0 while a
  request waits in the writer.
- `KeepsLedger`: the refinement: each request is answered once, refused, or
  taken back, across doubles, full queues, failed reads and the end.
- `RequestsAgree`: a block marked as requested has a request or an answer under
  way, or one the remote dropped in silence, for which there is the stall timer;
  none is asked for twice at one time outside endgame.
- `BufferIsFresh`: no byte of an earlier piece in a reused buffer is taken for a
  block that has come. `PaidFor`: tokens go down by what is asked for, no more.
  `Arrives`: the pieces arrive, through chokes, rejects, losses and endgame.
- `CompletedOnce`, `CompletedIsHeard`: between tick, kick, stop, restart and
  failures a tracker hears "completed" once per run, and does hear it.
- `SlotsHold`, `OneConnPerEndpoint`, `DialsGoOn`: the limit holds for visitors
  and dialers together; one outbound connection per endpoint unless its key was
  taken away by the end of an older one; a torrent with room keeps dialling.
- `PayloadFollows`: at rest every piece the catalog claims is readable where the
  catalog says the payload is, across copy or hard link, switch, unpublish,
  failure, crash and resume, while no layout is used that a move has left (`raced`);
  a torrent that is relocated while it downloads can lose a piece (section 4).
  `ReadsThroughMoves`: a seed read that loses its file to a move finds it at the
  second try. `ComesHome`: a complete staged torrent reaches its home, with the
  reads and writes of `relocate_data_root` one by one beside the handoff. Its
  excuses (`excused`): the move failed, a stop took the completion, or the user's
  new home was written when the torrent had come home since its directory was read
  (`RelocateRetargets`); such a home stays until the next boot.
- `DropsFit`: dropped files that parse land in the catalog (`DropsLand`), and what
  is staged fits the cache (`CapKept`), unless two adders ran at once, a probe of
  the reserved bytes failed and was taken as 0, or a restore was cut or failed
  between its two statements. A cache of size 0 has no cap.
- `ListIsTrue`: a row on the screen is in the catalog or a newer answer is on its
  way; a hidden one is being deleted. `PinHolds`: a page scrolled to stays.
- `OkIsCounted`: an announce taken for done was counted by the tracker asked.
- `CountsAreTrue`, `ShutdownEnds`: counts match sessions through panics;
  quitting ends with a stuck worker and with queues that are not empty.
- `BufferOutlivesWrites`: no buffer is handed back while the kernel may read it.
- `CipherAgreed`: an end that is up uses a cipher that its policy allows, and two
  ends that are up the same; `Connects`: two policies that share one come to a
  connection.
- `AllIsHeard`: no read parks on bytes that never come; compaction, decryption in
  place, the remains of the handshake and reads that are given up lose, double or
  reorder no frame. (A wrong frame stays wrong: the property implies
  `HearsTheStream`, which section 5 proves.)

Type invariants: those of `LeechPath`, `TorrentLifecycle`, `WritePath`,
`UploadPath`, `BlockPipeline`, `AnnounceSchedule`, `PeerSlots`, `UdpTracker`,
`WorkerPool` and `SpanWrite` are theorems or part of the inductive invariant of
one (section 5) and not checked again; those of the other modules were checked on
the instances above and can be added to their configurations.

Why the bounds are enough: claims, slots and counters are about pairs (two
sessions on a piece, a session and the mutation worker), and two pieces separate
"last piece" from "some piece" and let endgame begin in the middle. In the
lifecycle the interesting schedules have one thread pausing between two of its
steps while another command or task runs whole: two or three commands, one fault
and one crash put something at each point. In the write path three pieces
overfill two buffers and a channel of one place, two hash threads meet at a dead
backend, and two restarts let the second backend die as well. `SafetySpec` in
`MCWritePath` and `OneTrouble` in `MCLeechPath` let a behaviour have faults or
priority changes, not both; the theorems on `Spec` have no such limit. A session
that serves meets its hard cases with a queue of two and one trouble (a full
queue, a double, a cancel of the second while the first is written); one that
fetches when limiter, pipeline and freelist each run out in the middle of a
piece. The services have budgets per kind of event, and `MCServices` starts them
from profiles that combine two or three kinds. The run has one session, the theorems any number. What is proved (section 5) holds
without the bounds.

**Fairness.** `LeechPath!Fairness`: the executor polls every ready task, so each
step a session, a hash thread, the disk worker or the mutation worker stands
before is weakly fair; a remote that offers a piece delivers it; the dial loop
refills a free slot (`session.rs` tick, `refill_peers`). Faults and priority
changes are never owed. `TorrentLifecycle!Fairness`: mutation worker, recheck
threads and steps within a flush or sync are weakly fair; `TickFlush` and
`SyncList` are strongly fair, because `tick_loop` does one after the other and
comes round to each (1 s and 5 s), though each disables the other while it runs.
`WritePath!Fairness`: hash and backend threads run (weak); `Send` and
`ApplyOutcome` are strongly fair, because a sender blocked on a full channel is
woken in its turn and a session's loop comes round to the outcomes that wait.
Failures, disconnects, pieces and rechecks are never owed.
`MCUploadPath!MCSpec`: the greeting and the writer run. `BlockPipeline!FairSpec`:
the session issues, receives and times out; the bucket refills; a remote answers
what it has accepted, unchokes again, and a rival that has reserved a piece ends.
`AnnounceFairness`: worker, boot and tick run; a task that waits at the host
limiter gets its turn (strong: the semaphore is fair), time passes.
`PeersFairness`: tasks run; planning picks every endpoint again and again
(strong: the candidates are shuffled), cooldowns end. `ServicesFairSpec`: the
steps of the service that runs (in `PayloadMove` the two movers, in `Library` the
watch thread, in `Console` the control threads, in `WorkerPool` the shutdown, in
`WireRead` the reader and the network); keys, crashes and faults are never owed.

## 4. Where the code and its documentation disagree

One run is refuted by TLC, and quoted in `PROJECT.json` "findings".

`MCMovesReadd` (`NeverSeedsEmpty`): a torrent that is complete, deleted and added again with the leech
cache on keeps its bitfield (`catalog/torrent.rs:502`) and gets a new stage
directory. The start makes files of zeros there and seeds them; at the next boot
the handoff publishes them over the payload in the library. `catalog/storage.rs:80`
says "Clear HAVE so we never seed after empty ensure_storage recreation."

The other disagreements are properties of the modules that no run checks, since
they fail. Each is replayed by changing a configuration as below (and checking
the named property alone, without symmetry or constraint):

| Configuration | Changed | Property | What happens |
|---|---|---|---|
| `MCLeechSafety` | `MaxFaults = 0`, `BackendMayDie = FALSE` | `DownloadCompleteMeansAllWanted` | a `mark_have` that read the old wanted set decrements the new counter; leeching stops one piece early |
| `MCLeechSafety` | as before, `MaxPrio = 0`, `WantedSets <- AllWanted` | `ReservedIsMissing` | `mark_have` releases before it sets the bit; a claim in between stays (`hot.rs:90` "not yet have") |
| `MCLeechSafety` | `MaxFaults = 2`, `MaxPrio = 0`, `WantedSets <- AllWanted` | `ExclusiveOutsideEndgame` | a failed piece's claim is returned and kept; its session releases another's at its end (`hot/pieces.rs:228` "exclusive") |
| `MCLeechSafety` | `MaxFaults = 0`, `MaxPrio = 0`, `WantedSets <- AllWanted` | `DropsUnneededHashes` | one session stores the last piece while another, let in by `mark_have`'s early release of the reservation, assembles it; `mark_have` drops the hashes (`hot/have.rs:62` "once we no longer need to verify downloads"), the other's `piece_hash` fails, and its connection to a healthy peer ends (`peer/download.rs:261`) |
| `MCLeechSafety` | `MaxFaults = 0` | `CompleteStoresZero` | a stale count is stored over the 0 of a complete torrent (`hot/have.rs:173`) |
| `MCLifeRecheck` | no faults, crashes, damage; `Pieces <- OnePiece` | `StopTakes` | a stop during a recheck is undone by the reload it has queued |
| `MCLifeRecheck` | as before, `Ops <- Stopping`, `Syncing <- TickTask` | `StopTakes`, `DeletedNotHot` | `sync_want_start` acts on a list from before a stop or removal (`control/plane.rs:74`, `session/lifecycle.rs:105`, `:169`) |
| `MCLifeRecheck` | `Torrents <- TwoTorrents`, `Pieces <- OnePiece`, `Ops <- Stopping`, `Syncing <- BootTask`, `MaxCmds = 2`, no faults, crashes, damage; `FairSpec` | `HavesLand` | a piece-have of a removed torrent makes every later batch roll back (`catalog/pieces.rs:142`) |
| `MCLifeRecheck` | `Syncing <- TickTask`, `Pieces <- OnePiece`, `MaxCmds = 1`, damage 1, `MaxCrashes = 1`, no faults | `ReloadedAfterRecheck` | a load from before the commit is published first and kept (`control/mutation.rs:257`); `PossessionCovered` fails with it, so that the theorem about it has a hypothesis (section 5) |
| `MCWriteSafety` | `Sessions = {s1, s2}`, `Slots = {1}`, `Spec`, `MaxRestarts = 1`, `MaxAssembling = 1`, `MaxRechecks = 0`; `MaxFailures = 1`, `MaxPrio = 0` | `LastRestartCounts` | the second of two threads at a dead backend gives the worker up while the last restart is under way |
| `MCWriteSafety` | the same, `MaxFailures = 0`, `MaxPrio = 0` or `2` | `SeedsWithoutStaging`, `TorrentBudget` | a freelist made just after completion stays; old and new freelists together exceed the budget (`src/docs/design.md:201`) |
| `MCBlocks` | `Modes <- Limited`, `Capacity = 1`, `MaxTrouble = 0` | `TokensComeBack` | a limit whose bucket is smaller than a block (about 10.9 kB/s) never grants one (`rate_limit.rs`, `peer/download.rs:156`) |
| `MCAnnounce` | `Torrents = {t1, t2}`, `Had = 1`, `MaxInflight = 1`, `PerHost = 0`, `Budgets <- OneStop` | `AnnouncesGoOn` | the poll claims a torrent that was stopped since its snapshot; the task ends at once and the claim stays, so under a limit on announces the others never get their turn |
| `MCAnnounce` | `Pieces = 2`, `Had = 1`, `Tasks = {1}`, `PerHost = 0`, `Budgets <- OneStop` | `ReportsThisRun` | the boot publishes a torrent before its baseline is written (`session/catalog_io.rs:258-264`); an announce claimed in between reports all it had as downloaded in this run |
| `MCPeers` | `Quotas <- StopQuota` | `WorksOnTheHotTorrent` | a visitor that found the torrent before a stop takes its slot after it (`session/accept.rs:182`); `session/lifecycle.rs:169` says that a stop always "takes" |
| `MCPeers` | `Manual <- NamedPeer`, `Limits = {2}`, `Quotas <- TwoEndpoints` | `DialsGoOn` | a connected manual peer takes the only place in every plan (`session/dial.rs:19`) |
| `MCServices` | `MoveStarts <- Redirected` | `PayloadFollows` | two moves cross: a handoff whose cleanup failed is taken up again at the next boot while the user moves the torrent from that home to another. `run_leech_cache_handoff` read its destination before the second move and its source after (`session/relocate.rs:33`, `:59`), finds the files where that move is about to remove them, and switches the catalog back to the directory it has emptied (against `disk/relocate.rs:3`: "publish dest before unpublishing source") |
| `MCServices` | `MoveStarts <- Downloading` | `PayloadFollows` | a torrent is relocated while it is downloading: a disk job that took the old layout (`peer/download.rs:268`) writes its piece there after that file was copied or after its name was removed (the write makes the name anew), and the piece is marked, flushed and claimed by the catalog of the new directory, which lacks it (`session/relocate.rs:202`, against `disk/relocate.rs:3`) |
| `MCServices` | `MoveStarts <- Retargeted` | `WipesOnlyTheStage` | a handoff clears what it leaves, whatever directory that is (`session/relocate.rs:76`). When the user names a new home during the handoff to the first one and the process dies before `set_home_root(None)`, or the new home is written just after that handoff ended (`:111`), the handoff of the next boot removes the tree of the first home, the library (`disk/relocate.rs:110` "`wipe_root` is for a dedicated stage (`{leech_cache}/{infohash}`) only.", and `src/docs/design.md:295`) |
| `MCServices` | | `LayoutAgrees` | an activation that loaded the old root publishes after a move has switched it |
| `MCServices` | `LibraryStarts <- StoppedByUser` | `StopsStick` | the watch thread starts again what the user stopped (`library/watch.rs:99` "already-in-catalog is a no-op") |
| `MCServices` | `CacheCap = 4`, `LibraryStarts <- TwoAdders` | `CacheBounded` | two adders probe the cache before either inserts |
| `MCServices` | `CacheCap = 4` | `CacheBounded` | one adder, whose probe of the reserved bytes fails, stages into a cache that is full (`library/add.rs:133`; against `config.rs:1011` "soft max committed bytes under the cache") |
| `MCServices` | `ConsoleStarts <- TypedTwice` | `RowsExist` | of two removes of one id the second fails and its tombstone is lifted: a row that does not exist |
| `MCServices` | | `PinStays`, `NumberTells` | near the end of the buffer a copy brings the offset of a page to 0, so that the view follows again and the page moves, although the user left a line on top; a number seen before its line is in the ring is not looked at again |
| `MCServices` | `CancelSafe = FALSE` | `HearsTheStream` | a timed read that is dropped after it completed loses its bytes (`peer/duplex.rs:721`, if the driver does not give them back) |
| `MCServices` | | `StraysAreHarmless` | a late datagram fails an attempt that was still waiting for its own (`tracker/udp.rs:169`) |

Seen in the code while modelling, and not in a property: `issue_requests` gives
back whole blocks and keeps the rest of what it took, beside the comment "Refund
full pre-consume when limited."; the doc of `should_endgame` and its caller
(`peer/duplex.rs:638`) name different conditions; io_uring treats an interrupted
wait as fatal and AIO retries it (`runtime/disk_worker/aio.rs:3` "Parity"); the
log cuts a line at a byte offset that may fall inside a character
(`activity_log.rs:316`); the batch of upload counters fails for all when one
torrent was removed.

## 5. Proofs

`LeechPathProofs` proves, for any finite set of pieces, any sessions and any
bounds:

- `TypeCorrect`: `Spec => []TypeOK`.
- `HaveIsAlwaysOnDisk`: `have \subseteq written` is not inductive, since
  `mark_have` acts on an outcome computed long before. `DiskInv` adds: a job that
  passed verification is good; an outcome `ok`, and a session inside
  `mark_have`, are about a written piece; orphans are good. Only verified jobs
  reach `WriteDone`, and a good write never takes a piece out of `written`.
- `ClaimsAreOwned`: `NoOrphanClaim` is inductive by itself, because ownership
  counts the session that stands before `release_piece_claim` with the piece
  already out of `held`.
- `DroppedSessionsLoseNothing`: `NothingLostToTheDrop`, from the invariant that a
  table that is gone means a complete torrent (`HashesUntilComplete`), which
  `mark_have` keeps by dropping it behind the bit and not before.
- `CountsUntilReprioritised`: `CountInv` adds that no rebuild is under way while
  no priority change has been made, and that the wanted bit a session carries is
  the current one; the step that sets a bit is the only one that decrements.

`TorrentLifecycleProofs` proves, for any torrents, pieces, commands and bounds:

- `TypeCorrect`: `Spec => []TypeOK`.
- `CatalogNeverAhead`: `CatalogBehindDisk` needs every way a piece takes into a
  bitfield: `VerifiedInv` says that rows, `pending`, the worker's and the tasks'
  batches, the sessions' written outcomes and the verdicts of a running recheck
  name only pieces on disk, while `used.damage = 0`.

`WritePathProofs` proves, for any finite set of sessions, slots and hash threads,
any capacity, depth and limits, failures, rechecks and priority changes together:

- `WriteTypeCorrect`: `Spec => []TypeOK`, which bounds `restarts`. `DiskInv` adds
  that a thread past `handle_verify`'s start has a piece, and that only such a
  thread has a recheck job put aside.
- `StaysInBudget`: `StagingInv` says of each freelist that its counter is the
  number of slots that assemble in it (`Held`), that whoever assembles has a
  freelist (`AssemblesInPool`), and that a session that is still to read the
  torrent's freelist has started nothing (`Unstarted`), so that no counted slot
  ever moves to another freelist. That `ensure_staging_pool` finds a fresh
  identity (`FreshPool`) is the pigeonhole.
- `LeechGoesFirst`: `LeechInv` adds that the count is 0 for a piece that is not
  queued and for a thread between its look at an empty leech queue and its next
  recheck job, or with a recheck job put aside (`Aside`).

- `EachInOnePlace`: `PlaceInv` adds to the two invariants above, for every job,
  that it is nowhere or in one place and not in another (`One`: queued once, in
  one hash thread, in one channel once, in flight in one backend, or answered),
  that a queue holds nothing twice, that only a thread past its queue has a piece
  (`JobsHeld`), that a backend that has ended or is still to be spawned is empty,
  that a restart spawns a backend of its own, and that a slot that hashes is somewhere.

`TorrentLifecycleProofs` also proves `PossessionIsCovered`, where nobody rechecks
or no task runs `sync_want_start`. `CoverInv` follows each set of pieces that may
become a started torrent's: the hot bitfield, and those the worker or a task has
loaded and not yet published (`AllKnown`), each within row, buffer, batches and
outcomes under way; only a thread that flushes has a batch (`BatchesFlush`). The
hypothesis is needed: where the two meet, a load from before a recheck's commit is
published after it, and TLC refutes the property (section 4, the last line on
`MCLifeRecheck`). `MCLifeLive` checks it, with the sync task and no recheck.

`PeerSlotsProofs`, for any endpoints, dialers, connections, limits and quotas:

- `PeersTypeCorrect`, with the places a task's fields go together (`GoodConn`,
  `GoodDial`).
- `SlotsNeverOverfilled`: `SlotInv` bounds the limit each task has read by the
  highest limit so far; the count is compared with it under the lock.
- `OneOutboundPerEndpoint`: `KeyInv` says that whoever is past the claim of an
  endpoint in the present run is the only one (`Fresh`), and that its key is in
  `connected_out` unless an older connection's end took it (`keyLost`).
- `CiphersAlwaysAgree`: `ShakeInv` says, for the place each end of an attempt is
  at, what may be under way to it and how far the other end is (`DialTogether`,
  `AcceptTogether`): a handshake reaches the dialer only from an acceptor that is
  up, in its cipher, behind a response that selects what the dialer provides. The
  dialer does not check that selection (`establish.rs`, `pe_initiate`): its policy
  is kept because the acceptor selects from what it was offered.
- `LeastPeersIsTrue`: `CountsAreTrue` is inductive with the types, when the count
  is taken apart into sessions running, queued and being handed over.
- `ReaderHearsTheStream` (`HearsUntilLost`), whether or not the driver gives the
  bytes of a dropped read back (`CancelSafe`): until such a read has taken bytes
  with it (`lost`), which where it happens loses them for good (section 4).
  `StreamInv` gives
  each byte its place in the stream, counted from the lengths of the frames before
  it (`Before`), and says that the bytes under way, in the socket and in the buffer
  follow each other there without a gap (`ComingInPlace`, `QueueInPlace`,
  `BufferInPlace`); that what is behind the cursor is clear text, so that the cipher
  stood at each byte's own place when it went through; and that cursor, cipher and
  the frames handled count the same units (`UnitsAddUp`). So the cursor is always
  at the first byte of the next frame (`ParserIsAligned`), also behind a handshake
  that read beyond itself.

`UploadPathProofs`, for any pieces, blocks, queue lengths, messages and troubles:

- `UploadTypeCorrect`: `UploadShape` adds what each task may assume of the other
  (`Together`): the writer starts with empty queues when the greeting is out, reads
  a block only with nothing in hand, and that block still has its place in the queue.
- `CipherNeverOutOfStep`: from the type invariant; only a chunk that is written
  was encrypted.
- `IdleTimerSeesTheQueue`: `PendingInv`, wherever the writer waits or gathers.
- `CancelledStaysGone`: `NoDoubles`; a cancel removes one entry, so that a block
  queued twice would survive it.
- `EveryPieceIsHeard`: `HeardInv` says what the remote knows after reading what
  the writer has in hand, the control queue and the channel in this order
  (`After`), and that the hub's receiver holds the rest, from the greeting on: the
  session subscribes before it takes the snapshot it greets with.
- `SessionKeepsItsLedger`: the refinement of `RequestLedger`. For each block the
  debt is counted place by place (`Due`: asked in the channel, queued, being read,
  in hand, refused in the control queue), and each action moves, pays, revokes or
  forgets it as a step of the ledger.

`BlockPipelineProofs`, for any pieces, block size, depths, capacity and buffers:

- `BlocksTypeCorrect`: `BlockInv` is types, slots that are sound (a buffer's
  bytes are those of blocks that have come), wires on which only blocks of the
  torrent are asked for, the issue under way (distinct blocks, each marked), the
  bucket between 0 and its size, and buffers that add up (`Room`).
- `NoStaleBytes`: from `Sound`; a slot that is full was written from end to end,
  by counting cells of blocks that lie apart, also when a remote sends ranges
  that are no blocks.
- `RequestsArePaid`: `IssueInv`: what one call of `take_requests` has collected
  is within what it reserved.
- `BothSidesAgree`: `LiveInv` says that a marked block is under way, was dropped in
  silence or has come. `OnceInv` says, while no Cancel has crossed an answer, that a block
  is in at most one of four places (the issue, the wire, what the remote will
  answer, the way back), that a block in a place is marked or nothing more will be asked, and
  that no Cancel travels behind a request for the same block.

`AnnounceScheduleProofs`, for any torrents, tasks, limits, budgets and addresses:

- `AnnouncesTypeCorrect`: with the host limiter's count (`HostOK`).
- `CompletedIsSentOnce`: `SentInv`: of each torrent at most one task carries
  "completed" for the present entry, or one was accepted and the entry is marked;
  unless a task that outlived its entry writes to the next one (`crossed`).
- `OkWasCounted`: `UdpInv` says what each datagram under way proves: its
  transaction id tells address and question apart, a connect answer carries the
  connection of its sender, and an announce that is answered was counted.

`ServicesProofs`:

- `BuffersOutliveWrites`: `SpanInv` places every piece (ahead of the thread, being
  cut, in flight, answered), says for each which operations are pending
  (`remaining` of one in flight, a prefix of one being cut, none otherwise), and
  that rings hold operations of no other piece and none twice.
- `StagedFitsTheCache`, the safety half of `DropsFit`: `CapInv` says, unless there
  is no cap, or adds overlapped, a probe failed, or a restore was cut or failed
  half-way (`loose`), that an adder between its look at the cache and its row is the
  only one, that what it is to stage has room beside what is staged (`HasRoom`),
  and that a restored row whose path is still to be set is the only one that may be
  too much. The bytes of a set of torrents are a fold (`TotalSize`), of which the
  proof needs that fewer torrents have no more of them and that one adds its own.
- `PayloadFollowsTheCatalog` and `ReadsFindTheirBytes`, where moves do not meet
  (`MovesOneAtATime`: nothing is added again, and the only moves are handoffs, or
  the user moves a complete torrent that no handoff waits for), with failures of
  every file operation, stops, starts, reads, writes and crashes in between.
  `MoveSound` says: one mover at most; every file of the catalog's directory is at
  its length and holds what is claimed, and no directory a file of zeros for it; a
  move that has begun is of a complete torrent; the hot layout is the catalog's, or
  that of a move about to say so; a job that writes elsewhere changes nothing; and
  a read under way has the present layout or that from before the switch, whose
  files are at the new place by then. Both properties claim nothing once an
  activation or the other task used or installed a layout that a move had left; the
  model records that (`raced`) and never takes it back. The
  hypothesis is needed: TLC refutes the first property where two moves cross and
  where a torrent is moved while it downloads (section 4, `Redirected` and
  `Downloading`), and adding it again is `NeverSeedsEmpty`.
- `ListTellsTheTruth`, when nobody types an id that is not shown (`TypedTwice` in
  section 4 is the reason), and `HiddenIsAnswered`, its second half, for everybody.
  `ConsoleInv` says that the generations of lists rise along their way, answers
  before the reader's before the requests (`ListsRise`); that a row has one delete
  under way at a time, hides meanwhile, and is in the catalog until the worker has
  done it (`DeletesHide`); and that a list which has a row that is gone is one that
  the row's tombstone hides, or will when the answer is polled (`ListsTrue`). Each
  needs the others: a tombstone may expire only because no older list is left.
- `PinnedLineStays`: `LogInv` says that what was appended has a number that no
  thread holds any more, each once (`Numbered`); that the ring is the screen's copy
  without some of its first lines and with new ones behind (`RingMoves`), however the
  threads overtake each other between number and lock; that a pinned line is in the
  ring only if it is in the copy (`PinIsOld`); and that it is in the window and on
  the page that begins at the anchor (`PinOnPage`). The filter keeps `RingMoves`
  (`PassingMoved`), so a poll finds anchor and pin where they were, as far apart, or
  the anchor has fallen out and the pin is on the page of the oldest lines.

Assumptions: the proofs use the named assumption of each module on its
constants: `HotAssumption`, `LeechAssumption`, `LifecycleAssumption`,
`StagingAssumption`, `DiskAssumption`, `WritePathAssumption`, `PeersAssumption`,
`UploadAssumption`, `BlockAssumption`, `AnnounceAssumption`, `UdpAssumption`,
`PoolAssumption`, `SpanAssumption`, `MoveAssumption`, `ConsoleAssumption`,
`HandshakeAssumption`, `LogAssumption`, `LibraryAssumption`, `WireAssumption`.
They are types and finiteness (of pieces, tasks, torrents, depths: all come from
configuration or the torrent), and that there is something to do (a piece, a
thread, a torrent); TLC evaluates them in every run.

Every invariant the runs check is stated by a theorem. Model-checked only: the
liveness properties (liveness under fairness and `ENABLED` are beyond the prover)
and the counterexamples. The library's induction theorems take an operator, which no
installed prover instantiates; where a proof needs induction it takes a least
counterexample instead (`LeastOf`, from the well-foundedness of the naturals).
`RECURSIVE` operators are beyond the prover too; the modules with theorems use
none.

## 6. Plan

1. *(done)* `HotTorrent`, `LeechPath`: claims, counters, hash and write path.
2. *(done)* `TorrentLifecycle`: start, stop, sync, recheck, durability, crash.
3. *(done)* `StagingMemory`, `DiskWorker`, `WritePath`, `SpanWrite`.
4. *(done)* `PayloadMove`, `Library`: relocation, handoff, cache, watch.
5. *(done)* `UploadPath` refining `RequestLedger`; `BlockPipeline`; `WireRead`.
6. *(done)* `AnnounceSchedule`, `PeerSlots`, `Handshake`, `UdpTracker`,
   `WorkerPool`.
7. *(done)* `Console`, `LogView`.
8. *(done)* Proofs of the inductive invariants behind the runs' safety properties
   in `LeechPath`, `TorrentLifecycle`, `WritePath`, `UploadPath`, `BlockPipeline`,
   `AnnounceSchedule`, `PeerSlots` and the nine services, and of the safety part of
   the refinement `KeepsLedger`.
9. Pure parts against a reference definition: spans, allowed-fast set,
   `max_assembling_pieces`, bencode.

Abstract specifications still worth stating: a *piece store* (verified pieces, in
any order, each once) that `LeechPath` implements; a *durable possession* log for
`TorrentLifecycle`.

## 7. Not modelled

Ciphers and hash functions, SQL itself, sockets, TLS and DNS, the drawing of the
TUI, configuration merging, metrics, importers, parsers, the command line, the
benchmark scripts. They are pure I/O, formatting, or arithmetic without
interleaving. In the modules that exist: byte counters and their flush,
availability, the catalog's `state` column, the extension handshake, path
templates, the eviction of open files, and time itself (a timer may fire
whenever its condition holds). The lock order between registry and catalog is a
convention the models do not show: each of their steps holds one lock.
