# fan-video: specifications of the media server

fan-video is a media server in Go (`src/cmd/server-lite`, `src/internal`) with a
web client. This directory holds TLA+ modules of the parts of it that are
concurrent or have to survive a crash (playback and streaming, media analysis,
the library index and its watcher, backup and restore), the TLC configurations
that check them, and proofs that TLAPS checks.

## 1. The system

| Component | State it keeps | Operations | What makes it hard |
|---|---|---|---|
| Playback session manager (`playback/session`) | a table of sessions; per session its generations, current and pending timeline, gates that count readers and the encoder, directories on disk | Create, BeginGeneration (restart), ActivateGeneration, Heartbeat, Touch, AcquireReader, Close, janitor, Shutdown, orphan cleanup | five kinds of goroutine work on one session and its files; drains with timeouts; suspended processes; crash and restart |
| Playback runner (`playback/transcode`) | the attempt it is in, the first-segment watcher | run, publishReady, fallback from hardware to software | the watcher and the end of FFmpeg both publish; a fallback empties the directory |
| Playback service (`service/playback_session.go`) | nothing of its own | Create, Restart, Heartbeat, Close, media files | calls manager and runner in an order that must leave no pending generation behind |
| Governor and runtime (`transcode/governor`, `transcode/runtime`) | a semaphore channel and three counters per kind | Acquire, Release, Snapshot | `select` against a context; counters beside the channel |
| WebSocket hub (`service/ws_hub.go`) | the table of clients, bounded channels | register, unregister, broadcast, two pumps per client | closing a channel once; slow clients; connections that die on either side |
| Media compute workers (`service/media_analysis_worker*.go`) | tasks, claims with leases, workers | register, claim, progress, complete, fail, fall back to the server | claims checked in one critical section and used in another |
| First-frame covers (`service/stream.go`, `nfo.go`, `scanner.go`) | frames in a cache directory, the rows that show them, a bounded channel and a de-duplication mark | poster requests, extraction, queue, worker, merged notification, the passes at the end of a scan, collection | the mark and the channel are not changed together; scans remove frames while requests make them |
| Library index and scanning (`service/library.go`, `scanner_movie.go`, `scanner.go`, `media_cleanup.go`, `handler/admin_media.go`, `file_manager.go`) | the records of a library's files, its row, a mark that it is being scanned | Scan, Reindex, incremental scan, Delete, Update, DeleteMedia, edits and imports of records, cleanup of residues, CleanOrphanedData at a start | only Scan and Reindex exclude one another; a scan works for minutes on a list it made at its start |
| Library file watcher (`service/file_watcher.go`) | the directories watched, one debounce entry per library, timers | events, timers, incremental scans, UnwatchLibrary | a timer that has fired cannot be stopped; a scan's end deletes whatever entry it finds |
| System backup and restore (`service/system_backup.go`, `handler/admin_backup.go`) | archives, a staging directory with a marker, the database file and its log | Create, Delete, Restore, ApplyPendingDatabaseRestore at the next start | nothing serialises requests; the process may exit between any two writes |
| Transcode job store (`repository/repo_transcode_execution.go`, `_queue.go`, `_storage_reservation.go`) | jobs with leases and fencing tokens, a ledger of reserved bytes | claim, renew, requeue, complete, reserve | processes that outlive their lease |
| Artifacts (`repository/repo_transcode_artifact*.go`, `service/transcode_cleanup_state.go`) | artifacts on disk and in the database, cleanup leases | recover, claim, retry, complete (publication has no caller on the server: only the certification harness publishes) | a removal outlives its lease |
| Disk pressure (`transcode/diskpressure`) | a level with hysteresis | evaluate, reclaim | oscillation at the thresholds |
| WebDAV cache (`service/webdav_cache.go`) | blocks of one opened file | fetch, release | none: one goroutine reads each opened file (`vfs.go:343`) |
| Probe warm-up (`service/media_probe_warmup.go`) | a bounded queue and a mark per library | submit, worker, shutdown | the mark and the queue are not changed together |
| Planner, series and NFO scanning, metadata, file manager, users, HTTP, web client | database rows | request handlers | sequential; not modelled |
| Preprocessing, smart renaming, lazy ingestion, scan post-processing | | | `service.go:3-9`: never constructed in this build; not modelled |

The service calls the manager and the runner; the runner calls the manager back
(`MarkGenerationStarted`, `MarkFirstSegmentReady`, `ActivateGeneration`,
`MarkGenerationFailed`) and takes a lease of the governor for each attempt. The
manager starts a goroutine for each retirement and for each close, and one
janitor. Everything that reports progress to the browser goes through the hub.
The server's `main` shuts down HTTP (10 s), then the sessions (15 s), then
artifact maintenance (30 s). The watcher's timers and the library handlers start
scans of one library independently of each other, and both write the records
through the same repositories. A restore does nothing to the database in use: it
leaves a staged file and a marker, and `main` applies them before the next start
opens the database.

What makes each component correct is listed with the hazards in `PROJECT.json`,
at the line where each bites, with the property that would catch it.

## 2. The modules

| Module | Models | Role |
|---|---|---|
| `ReaderGate` | `readers.go` | operators for one gate: `CanAcquire`, `Acquired`, `Released`, `ClosedGate` |
| `PlaybackSession` | `manager.go`, `execution.go`, `throttle.go`, `processes.go`, `cleanup.go`, `playback/transcode/runner.go`, `service/playback_session.go` | one session with all its goroutines |
| `SessionContract` | | what a session promises; `PlaybackSession` implements it |
| `PlaybackSessionInvariant` | | the inductive invariant of `PlaybackSession` |
| `PlaybackSessionProofs` | | proofs |
| `Governor` | `governor.go`, `runtime.go` | one pool |
| `SlotPool`, `GovernorProofs` | | what a pool promises; proofs |
| `SessionRegistry` | `manager.go`, `cleanup.go` | all sessions, the janitor, Shutdown, the process and the disk |
| `SessionLifecycle`, `SessionRegistryProofs` | | what the manager promises of every session; proofs |
| `WSHub` | `ws_hub.go` | the hub, its clients, its channels |
| `EventFeed`, `WSHubProofs` | | what the hub promises every client; proofs |
| `AnalysisTask` | `media_analysis_worker.go`, `media_analysis_worker_compute_node_v2.go`, `media_analysis.go` | a highlight task: dispatcher, claims, the server's fallback, the row |
| `TaskLease`, `AnalysisTaskProofs` | | what the claim table promises of a task; proofs |
| `DatabaseRestore` | `system_backup.go`, `admin_backup.go`, the start in `main.go` | backups, staged restores, and the start that applies them, with exits anywhere |
| `RestorableDatabase`, `DatabaseRestoreProofs` | | what users are promised of the database; proofs |
| `LibraryIndex` | `library.go`, `scanner_movie.go`, `scanner.go`, `file_watcher.go`, `media_cleanup.go`, `admin_media.go`, `metadata.go`, `file_manager.go` | the records of one movie library under scans, events, cleanups, and edits, imports, moves and removals of single records |
| `LibraryIndexProofs` | | proofs |
| `FileWatcher` | `file_watcher.go`, `Delete` in `library.go` | events, debounce timers and the scans they start |
| `FirstFrame` | `stream.go`, `nfo.go`, `scanner.go` | requests for posters, the queue's worker, the notification, the end of a scan |
| `BackgroundProofs` | | proofs of `FileWatcher` and of `FirstFrame`, whose slots are a `SlotPool` too |
| `MCPlaybackSession`, `MCFirstFrame` | | symmetry for TLC |

### PlaybackSession

One variable per field the goroutines share, and one program counter per
goroutine.

| Variable | Code |
|---|---|
| `state`, `closing`, `current`, `pending`, `counter`, `generations` | `managedSession` under `session.mu` |
| `registered` | membership in `Manager.sessions` |
| `genState`, `firstSegmentAt` | fields of `Generation` |
| `cancelled`, `attemptCancelled`, `shutdown` | which contexts have ended: the generation's, the attempt's, the manager's |
| `attempt`, `readyPublished`, `failed` | what the runner remembers of its attempts |
| `process`, `suspended` | `generation.process` is known, and the throttle has stopped it; how far the encoder leads the player is chosen freely |
| `gate`, `processGate` | `readerGate` of the readers and of the process |
| `dir`, `segment` | the generations whose directory exists, and has a listed segment |
| `encoder` | FFmpeg: none, running, stopped |
| `runner`, `watcher`, `retire`, `cleanup` | the program counters of `Runner.run`, its watcher goroutine, `retireGeneration`, `cleanupSession` |
| `reader` | which generation each HTTP response reads from |

A critical section of the code is one action; whatever happens between two of
them is a state. The steps of a runner carry the same names in the code and in
the module (`EncoderStarts`, `WatcherMarksReady`, `RunnerActivates`, ...).

Choices that a reader of the code may ask about:

- `FailGeneration` and `CancelGeneration` have no caller and are left out.
- `buildArgs` cannot fail in a run, because `Start` has validated the profile.
- Heartbeat and the `ReconcileThrottle` after it are two actions: other
  requests come between them.
- `Shutdown` cancels the manager's context before it calls `startClose`; the
  two are separate actions (`ShutdownCancels`, `ShutdownCloses`).
- Removing a directory may fail and leave some of it.
- A stopped process cannot be killed fairly: nothing is assumed of its end.
- The governor is what the runner sees of it: a slot comes at some time, or
  never. The pool itself is module `Governor`.

### Governor

Clients are goroutines in `Runtime.Run`. The counters change in separate steps
from the channel, in the order of the code. The kinds have a pool each and share
nothing but the mutex, so one pool is modelled. The check of the context before
`waiting++` is part of `Wait`.

### SessionRegistry

Time is the silence of each session, capped where no timeout can tell any more: no
clock that grows, no bound on the run. `Exit` is the end of the process at any moment,
and `Start` is `NewManager` with its cleanup of what the last process left.
`SweepDelay` bounds how long one sweep takes after it has read the clock. Three
readings of the code matter for `DirectoryOwned`: the janitor retries only what is
under `deleting/`, so that a directory whose rename and removal both failed stays
under `sessions/` until the next start (`stuck`); a rejected `Create` ignores the
failure of its own removal; and `MkdirAll` may fail when it has made `sessions/<id>`
and not yet `generations/1` in it (`manager.go:102-104`), after which `Create` returns
and leaves what there is: `stuck` as well. `ShutdownIsFinal` holds although `main.go`
comments that no session can race with the shutdown: HTTP may time out with a request
inside `Create`, and it is the second look at `accepting` that turns this one away.

### WSHub

Events are numbers in the order of their broadcast. The loop over the clients is
one step, because only the hub changes the table and a client takes from its
queue independently; closing the slow ones is the next step, as in the code. The
rendezvous on the unbuffered channels are joint steps of a pump and the hub.
Either pump may notice first that a connection is dead, and `DeadClientsLeave` has a
premise for each: a reader that is about to unregister its client, a writer that
has gone, and a channel that has been closed.
Observers inside the process run on the broadcaster and are left out.

### AnalysisTask

Two kinds of state that the code protects differently. `remote` is the entry in
`remoteTasks`, which changes under a mutex: one action per critical section.
`row` is the status of the task's row, which is read, changed and saved as a
whole with nothing held: every read and every save is an action of its own, and
the reader's `copy` may be old by the time it is saved. `dispatcher` is the
program counter of `dispatchHighlightTask` and of `runHighlightTask`, which it
calls; `request[r]` is the one of a worker's HTTP request. A token is a number
that is never used again; `delivered` are those that workers can send.

A worker may send anything at any time with a token it has got, also after its
lease has run out, and may fall silent. Of the heartbeats and worker views only
the effect remains that a claim may be refused. Left out: the preview and
chapter jobs, which share the table but have no dispatcher; a second task of the
same media; database errors.

### DatabaseRestore

A database is the archive it came from (`base`) and the transactions committed
since (`log`), so that losing one, keeping one of another database, or half a
file (`Torn`) can be told apart.

| Variable | Code |
|---|---|
| `server` | the process: down, a step of `ApplyPendingDatabaseRestore` and `openDatabase`, or up |
| `live`, `wal` | the database file, and the commits only its `-wal` holds |
| `staged`, `marker`, `rollback` | `nowen.db`, `marker.json` and `rollback-nowen.db` in `.restore/` |
| `marking`, `staged.writers`, `staged.whole` | who has these files open for writing; an interrupted or a second writer leaves half a file |
| `pc`, `name`, `snapshot`, `backup` | each request, the file name it chose, the output of `VACUUM INTO`, the published archives |
| `expected`, `before`, `installed`, `deleted`, `mishap` | history, read by the properties alone |

Every write that an exit can cut is two actions (`BeginCopy`/`EndCopy`,
`BeginMarker`/`EndMarker`); a rename is one. `Crash` is the end of the process at any
step, `RestartAfterRestore` the one that `admin_backup.go` asks for, and a start may
be cut short too. Reads, renames, writes and removals may fail where the code has a
branch for it or ignores the error, in a start's reading of the marker (`SkipMarker`)
and its removal of the `-wal` (`RemoveLog`) too. Taken to succeed are the removals
inside the staging directory alone, those of `stageDatabase` and the sweep at the end
of a start. `mishap` remembers five things for which the properties make an exception,
each at the line of a hazard:

| `mishap` | What happened | What it excuses |
|---|---|---|
| `"rename"` | the staged file could not be moved into place (`system_backup.go:655`) | the log of the old database is lost; the restore does not take effect |
| `"log"` | the removal of the `-wal`, whose error nobody looks at, failed (`:650-652`) | the database that is opened has the old `-wal` beside it |
| `"unread"` | a restore that was ready could not be read and was swept (`:618-641`) | it does not take effect; what an earlier start, cut short, had moved aside is swept too |
| `"overlap"` | two requests restored at once | half a file may be installed |
| `"name"` | two requests chose one file name | the archive of one replaces that of the other |

A request that has ended without leaving a restore behind is `over`, whatever it
was: nothing that follows tells such ends apart.

### LibraryIndex

`disk` and `rows` are the files that exist and those that have a record; `there`
is the library's own row. A scan goes through `requested`, `checking`,
`cleaning` (Reindex only), `listing`, `walking`, `healing`, `storing` and
`finishing`; `unlisted` is a walk whose list of records could not be read, which
saves what it finds and then fails. `known`, `todo`, `pending` and `updates` are
`existingPaths`, the rest of the walk, `pendingList` and `updateList`. One
record is one step, because everybody else writes between two of them.

- What a record says of its file is abstracted, so a file may always count as
  changed; records and the row are saved whole, so a save brings back what was
  deleted in between, which is what matters here.
- `editing` is whoever works on a single record outside scans and has not yet
  saved it. `BeginEdit` reads the record that it is to change
  (`admin_media.go:68-105` and `:159-197`, an uploaded poster and an image that is
  gone in `metadata.go`, scraping, `UpdateFileInfo`); `BeginImport` finds none
  and is to make one (`ImportFile`, which never looks whether the library is there;
  a record moved here from another library). `EndEdit` saves the whole record,
  and gorm's `Save` inserts one that is gone. `DeleteMedia` removes one record, or
  moves it away.
- `excused[s]` holds the files that somebody other than `s` changed or recorded
  while `s` was at work, and those an error made it pass over; `raced` says that
  somebody could still write to the index (`InUse`: a scan, an edit or an import)
  when `Delete` emptied it, or began to afterwards: a scan that reads the row before
  `Delete` has removed it, an import at any time. A start clears both the records and
  `raced`. Without these exceptions neither property holds, and the hazards say where.
- A file that has been organized into a hardlink which has a record of its own
  gets none, and loses the one it had (`scanner_movie.go:114-121`, `:385-436`): one
  more outcome of `Visit`, which excuses the file.
- The two passes that repair artwork are one; merging and matching change no
  record's presence, and scraping saves records as any other edit. Files are those
  that qualify (no extras, samples, hidden or undersized ones). Left out are the
  tvshow and mixed walks, and the file manager's operations on folders, which change
  or remove the records of many files in one statement.
- A process starts with whatever files and records there are, and with no event
  pending.

### FileWatcher

Two maps under one mutex: `watching` is `fw.watching` for one library with
several roots, `entry` is its element of `fw.debounce`. An event is handled in
two critical sections (`TakeEvent`, `DebounceScan`), and the deletion of the
library may fall between them. Timers are not timed: one that is armed may fire
at any moment, and `Stopped` has no effect on one that has fired. A change may go
unreported (an overflow of fsnotify). The initial state is what `Start` has
registered; `Stop` has no caller. `orphans` are timers whose entry the end of
another timer's scan deleted, `late` those armed by a handler that had found the
library before it was unwatched. The specification is `WatcherSpec`, and what it is
made of carries the watcher's name as well, because `BackgroundProofs` extends this
module and `FirstFrame` together.

### FirstFrame

Requests, the worker and the scan are actors with one program counter each, and share
the steps of `EnsureFirstFramePoster` (`Ensure`, `Lock`, `Extract`). A frame that is
there may be unusable (damaged, or all white), as anyone may find who looks: `Ensure`
then goes for the lock, and `Lock` removes the frame, unless that fails, and makes it
again, which may fail as well (`nfo.go:673-721`). A row's poster is nothing, the
video's frame, or an image; `shown` is what an actor remembers of the row it read,
which decides whether it writes it. Whether a video has an image beside it, whether it
is cooling down after a failure and whether ffmpeg succeeds is chosen wherever the
code asks. The queue also holds videos that the model leaves out, so `Send` may find
it full at any time. The end of a scan is three passes (`healFirstFramePosters`,
`healStaleArtwork`, `firstFrameCacheGC`), each of which may be left out because a
query fails; the last reads the directory first and the rows afterwards (`BeginPass`,
`ReadReferences`), and a query that fails counts as an empty one, as in the code.
`lost`, `silent`, `unknown`, `made` and `redone` are history; `redone` holds the
frames that the collection has listed (`Listed`) and that somebody has found unusable,
and is making again or has made again since. `CoversKept` needs both exceptions: such
a frame is removed under the row that shows it by whoever makes it again, and a
collection that has listed the unusable one removes the good one in its place.

Left out: a video whose file changes and so leaves its old frame behind, series
rows that borrow a frame, two scans that end at once, and the frames that the walk
of a scan makes before it saves their rows. The next broadcast's timer fires only
after the last callback is over, 1.5 seconds later.

## 3. The runs

| Run | Instance | What it shows |
|---|---|---|
| `restart` | 2 generations, 1 attempt, 2 readers (1.4 million states) | `ProcessBoundary`, `QuietAfterCleanup`, `CurrentReadable`, `PendingIsOwned`, `ReaderBoundary`, `ClosingProcessResumed`, and that a session implements `SessionContract` |
| `close` | 1 generation, hardware then software, 1 reader | `CloseCompletes`: every close ends, the fallback attempt included |
| `retire` | 2 generations | `RestartResolves`, `RetireCompletes`: every restart is resolved; every replaced generation goes, with its encoder |
| `governor` | 3 clients, 2 slots | `Accounted`, `WaitEnds`, and that the governor implements `SlotPool` |
| `registry` | 1 session (about 11,000 states) | `DirectoryOwned`, `ShutdownIsFinal`, `CloseIsComplete`, `SilentIsClosed`, `DeletingDrains` across crashes, and that the manager implements `SessionLifecycle` |
| `hub` | 2 clients, channels of 2 and 1, 3 events (about 32,000 states) | `ClosedWithTheTable`, `DeadClientsLeave`, and that the hub implements `EventFeed` |
| `analysis` | 2 requests, 2 claims (about 770,000 states) | `CompletedHasResult`, `EntryIsWatched`, `AutoFallsBack`, and that the claim table implements `TaskLease` |
| `restore` | 2 requests, 2 file names, 1 commit, 1 exit nobody asked for (about 2.5 million states) | `LiveIsWhole`, `CommittedKept`, `SafetyNet`, `RestoreTakesEffect`, and that users see a `RestorableDatabase` |
| `putback` (violation) | 1 request, 1 commit, 1 exit | a failed restore serves the old database without its log |
| `library` | 2 scans, 1 file, 1 change on disk, edit or import (about 300,000 states) | `ScanIsExact`, `DeletedIsEmpty`, `ScanIsReleased` |
| `watcher` | 2 roots, 4 changes (about 330,000 states) | `OneTimerWaits`, `QuietAfterUnwatch`, `EventsAreScanned` |
| `firstframe` | 1 video, 2 requests, 1 slot (about 3.2 million states) | `MarkIsOwned`, `CoversAreDue`, `CoversKept` |

`TypeOK` (`WatcherTypeOK` in `FileWatcher`) served while the modules were written and
is in no run: it is proved for every module with a proof, by itself or within the
inductive invariant. The same goes for four properties whose place in a run a
refinement has taken: `ClosedOnce`, `ClaimIsFenced`, `InstalledOnce` and `NoGap` are
proved, and the runs check `LifecycleSpec`, `LeaseSpec`, `DurableSpec` and `FeedSpec`.
`SlotsSpec` (`FirstFrame` implements `SlotPool`) is proved without a run.

### Why the bounds are enough

- *Generations.* A session has one current and one pending generation, and a
  restart is refused while one is pending, so two generations make every pair
  that can interfere: the old one is retired while the new one is active, fails,
  or is closed. The proofs cover any number.
- *Attempts.* The runner makes at most two, and the second differs only in
  having no successor.
- *Readers.* One reader makes a gate non-empty; two let one leave and the other
  come late.
- *Clients and slots of the governor.* Three and two: a slot can be handed over
  while another is being returned. The proofs cover any number.
- *Sessions.* Sessions share only the table, and the janitor and Shutdown go
  through it one session after another. One session meets its client, the janitor,
  Shutdown and the next start in every order. The proofs of the safety properties
  cover any number of sessions, one created while another is swept included.
- *Timeouts.* 1 and 2: all that the code compares is which is reached first.
- *Hub.* The channels hold 256 events; with two and one they fill up, which is
  the only thing their size is for. Three events let a client join late, fall
  behind and be dropped.
- *Analysis.* Two claims are an old holder and a new one; two requests are a late
  report of the one against whatever the other does. The proofs cover any number.
- *Restore.* Two requests are a restore that replaces another, races it, or takes
  its file name; with one commit, one falls before, between and after any two
  steps, and one exit can cut any start or any write. The proofs cover any number.
- *Library.* Two calls are any two of Scan, Reindex and an incremental scan, and
  Delete, Update, events and the cleanup come beside them. Records of different
  files do not depend on each other. `MaxChanges` = 1 lets, at any moment of a scan
  or of `Delete`, a file come or go once, or one edit or import begin, which ends at any
  later moment. The proofs cover any number of them together.
- *Watcher.* Four changes are a timer that waits, two that have lost their entry
  and an event in the handler's hands; two roots are one that is already
  unwatched and one that is not.

- *First frames.* Videos share the lock, the slots and the queue. With one slot and
  two requests for one video, the second request finds the slot taken, goes through
  the queue, and meets the first one's frame at every moment. Other videos can only
  keep the queue full, which `Send` allows at any time, or hold the lock, which is
  a delay.

### Fairness

Goroutines run, so a step of a goroutine that stays possible is taken
(`WF`). Timers fire. In `PlaybackSession` a killed process ends unless it is
stopped; nothing is assumed of clients, readers, the governor, an encoder that
nobody cancels, or a stopped process. `EncoderEnds` is fair only once the
runner's context is done, because `exec.CommandContext` kills the process.
In `Governor` the waiters of a Go channel are served in order of arrival, so
`Grant` is strongly fair; that encoders end is the premise of `WaitEnds`,
because a player that pauses and keeps sending heartbeats may keep a suspended
encoder, and its slot, forever. In `SessionRegistry` main returns after
Shutdown, a stopped server is started again, and a removal that is tried again
and again succeeds. In `WSHub` the `select` of the hub takes each ready case
again and again (`SF`), and pumps notice a connection that is closed. In
`AnalysisTask` the dispatcher's ticker ticks, the server's analysis ends (each of
its stages has a time budget) and its grace period passes; nothing is assumed of
workers, and not even that their leases expire: a worker that keeps reporting
keeps its lease, which is what the right-hand side of `AutoFallsBack` allows.
In `DatabaseRestore` a start runs to its end, and an accepted restore ends the
process: so it is with `app.restart_after_restore`, and without it the
administrator restarts the server. In `LibraryIndex` a scan that has begun runs
on, and nobody else has to do anything. In `FileWatcher` the event loop runs and
armed timers fire; nothing is assumed of the disk or of `Delete`.

### Where the program and its comments disagree

One has a run:

- `system_backup.go:645-646` calls the file that a start moves aside a rollback
  copy of the current database. Its `-wal` is removed before the staged database
  is renamed into place, and a database whose process exited without a checkpoint
  keeps its last commits there. When the rename fails, the copy that is moved
  back lacks them (`putback`).

Without a run:

- `readers.go:8-9` promises that no directory is removed while a response reads
  from it. `closeAndWait` gives up after the drain timeout, and both callers go
  on. What holds, and is checked, is `ReaderBoundary`: never before the timeout.
- `manager.go:503-528` decides that a session is expired, unlocks, and closes
  it. A heartbeat or a segment request in between is accepted and refreshes
  `lastSeen`, the "liveness" of the comment on `Touch` (`:334-336`); the session
  is closed all the same.
- `ClaimComputeTask` saves the row as running some time after it has made the
  claim (`media_analysis_worker_compute_node_v2.go:382-389`). If an administrator
  switches the mode off in between, the dispatcher has taken the task out and
  saved it as failed, and the claim's save makes it active again. Every later
  request for that media is refused as in progress, until the next restart marks
  the row interrupted.
- `execution.go:99-101` promises that a complete playlist is deleted only when
  its session closes, but a restart retires it earlier.
- Scan, Reindex and the watcher save the whole library row they read before the
  scan (`library.go:336`, `:815`, `file_watcher.go:393`): settings changed
  meanwhile are reverted, and a library deleted meanwhile has a row again. In
  `LibraryIndex` this is `StoreLibrary`, which sets `there`.
- `library.go:200-203` says that a library with file watching enabled is
  registered when it is created. The handler sets `EnableFileWatch` only after
  `Create` has returned, so the library is watched from the next start on.
- `stream.go:98` and `:699` say that a video dropped by the full queue is queued by
  its next request. Its mark was set before (`:694`) and nobody takes it back: until
  the process ends, only a request that finds a free slot makes its cover
  (`lost` in `FirstFrame`).
- `scanner.go:786-788` says that only frames nothing refers to are collected. A row
  that is written between `ListAllImagePaths` and the removal loses its frame, and
  when that query fails every frame is removed. So is, under a row that was read, a
  frame made again in the place of an unusable one that the listing has. What holds is
  `CoversKept`. The next request for the poster makes the frame again.
- `CleanupResidualData` deletes the related rows of every media that was not in
  the list it made at its start (`media_cleanup.go:301`), those of media that a
  scan has added meanwhile included.

## 4. The proofs

Checked by TLAPS for every value of the constants that satisfies the assumptions of
the modules (`PlaybackSessionAssumption`: at least one generation, one or two
attempts, and 0 is not a reader; `GovernorAssumption`: finitely many clients, at least
one slot; `AnalysisTaskAssumption`: `MaxClaims` is a natural number;
`DatabaseRestoreAssumption`: the names of the model's databases are no requests, and
`None` is no database or file name; `LibraryIndexAssumption`: `None` is no scan;
`SessionRegistryAssumption`: timeouts of at least one unit; `WSHubAssumption`:
capacities are natural numbers, a client's at least one; `FileWatcherAssumption`:
`MaxChanges` is a natural number; `FirstFrameAssumption`: `MaxSync` is a natural
number, there are finitely many requests, the worker and the scan are two actors and
no requests, and `None` is no video and no actor).

**PlaybackSession.** `SessionInv` in `PlaybackSessionInvariant` is inductive. It
has four parts, proved in this order in `PlaybackSessionProofs`:

1. `TypeOK`: a lemma per group of actions, and
   `TypeCorrect`.
2. `StoreInv`: a process gate counts exactly the runner
   that is active, and a generation that has left the table or the disk has a
   drained gate, which lets nobody in again. `ProcessBoundary` and
   `QuietAfterCleanup` follow. Neither is inductive: that a directory is in
   place depends on who has waited for which gate, and cleanup's copy of the
   table is complete only because what it misses was retired, hence waited for,
   before.
3. `TimelineInv`: the pending generation is the
   newest and has a runner that has not published; a published runner makes no
   further attempt; whoever publishes has seen a segment and recorded it; only
   generations older than the current one are retired. `CurrentReadable` and
   `PendingIsOwned` follow.
4. `ThrottleInv`: what is stopped is marked as such, so that `resumeIfSuspended`
   finds it, and a gate is closed only by a goroutine that has resumed.
   `ClosingProcessResumed` is one of its conjuncts.

`ReaderInv` comes on top of these: the gate counts the readers of its
generation (`GateCountsReaders`, a cardinality), a generation that has left the
table was retired, and whoever removes a directory has waited for its gate or
for the timeout. A drained gate counts nobody, hence `ReaderBoundary`.

`ImplementsContract`: every step is a step of
`SessionContract` or changes nothing that it speaks of. A removal is its
`Reclaim`, whose guard (nobody writes) is where `StoreInv` is needed.

**Governor.** `GovernorInv` ties the slots and the counters to the sets of
clients in each program location. `NotOversubscribed` is not inductive without
it: a client counted out still has its slot. `ImplementsPool` maps the grant,
the cancelled wait and the return of a slot to the steps of `SlotPool`.

**AnalysisTask.** Three invariants, each inductive with the types. `TypeCorrect` needs
`HasToken`: a request that has got past the claim has a token to deliver. `TableInv`
adds to `EntryIsWatched` that only a registered task has a token;
`EntryIsWatchedHolds` and, as an action property from the same invariant,
`ClaimIsFencedHolds` follow: of all steps only a release changes the token of a
running lease, and it compares tokens first. `Issued` bounds every token in use by the
number of those issued, so that the next one is new; with it `ImplementsLease` maps
each step of the dispatcher and of a request to one of `TaskLease`. An expired claim
is forgotten wherever the code happens to look (`ForgetsExpired`), and a release is a
request's own wish (`Leaving`) that finds its claim or finds another. `TruthInv` says
of every copy of the row what `CompletedHasResult` says of the row: stale saves can
bring back an old status, but no copy ever says completed before the highlights are
published.

**DatabaseRestore.** `IInv` (theorem `Invariant`) has six parts, and each property
follows from one of them. `Phases` ties the steps of a start to the files:
past the marker there is a staged database, past `RemoveLog` there is no log, unless
its removal has failed. `Complete`: until a rename or the removal of a log fails, or a
restore that is ready cannot be read, what is on disk is what users expect, or a
pending restore is about to replace it (`NothingLost`). `Whole`: while no two
requests restore at once, a pending marker stands beside a whole database,
because the marker is cleared before the first byte is copied and written after
the last (`LiveWhole`). `Once`: what has been installed is no longer staged, and
a request stages once (`NoSecondInstall`, an action property). `Net` follows the
backup from the choice of its name over the snapshot to the archive
(`BackupCovers`); it needs that no other request in `Create` has the name, which
is what the exception `"name"` is about. Most steps leave `Net`'s variables
alone, and `FrameKeepsNet` says so once. `ImplementsDurable` is the sum of these: what
users find when the server is up, and what they are to find while it is down
(`Served`), changes by a commit, by the installation of one accepted restore as a
whole, and by nothing else. `RestorableDatabase` knows the mishaps by their names,
but for `"name"`: that two requests chose one file name harms archives alone.

**LibraryIndex.** `ScanIsExact` says something only of the end of a scan.
`ScanInv` says for every file that nobody disturbed what the scan knows of it
before, during and after its visit (`FileInv`, `Exactly`): the listing still
tells the truth, what is to be saved is on disk, what is dealt with is right.
`Bystander` shows that any step that leaves a scan alone and excuses it from the
files it touches keeps `ScanInv`, which covers every other scan, Delete, the
watcher, the cleanup, edits and imports; what remains is the scan's own steps
(`OwnStep`). `Emptied` strengthens `DeletedIsEmpty` to the time between the deletion
of the records and that of the row, and says that meanwhile, unless `raced`, nobody is
at work who could save one (`~InUse`).

**SessionRegistry.** `RegistryInv` adds two things to the types. `Life` follows
one session from its Create to the end of its cleanup: whoever has copied it from
the table knows a session that was registered, and it leaves the table only
through its own cleanup, after the move of its directory. `Process` says what is
left of a process that is down, and that Shutdown has copied every session that
is still registered: no session is registered later, because Create looks at
`accepting` again. `DirectoryOwned`, `ShutdownIsFinal` and `CloseIsComplete`
follow, and `ClosedOnce` as an action property: `startClose` looks at `closing`
under the session's mutex, and a cleanup only moves on. `ImplementsLifecycle` maps
the program counters of Create and of the cleanup to one `Phase` of a session; what
has to be proved is that the steps of the janitor, of Shutdown and of a client that
close it are one `Close`, whoever comes first, that the steps of a cleanup between
its start and its end are `Remove` or invisible, and that the cleanup at a start
touches what was left and nothing else.

**WSHub.** `Fresh` says that a client has nothing, the hub included, before it
registers, so that its one registration and its one departure are what
`ClosedWithTheTable` counts. `GapInv` states `NoGap` for single events, by their
place in `dispatched`: what is received, then what is queued, and for a client
that keeps up nothing after that. Sequences come in only at the end. `ImplementsFeed`
is what `GapInv` means step by step: a message extends what the client has by the
next events of the feed, to its end while the hub keeps the client, and a client is
given up by being found full, by leaving, or by its writer.

**FileWatcher.** `OneTimerWaits` and `QuietAfterUnwatch` are inductive together
with the types. The second needs the first: UnwatchLibrary stops the listed
timer, and the first says that no other one waits.

**FirstFrame.** `CoverInv` consists of the types and of one invariant for each
protocol that the actors share, each kept by every step on its own or with those
before it:

1. `Exclusive`: whoever extracts has the lock, and its video has no frame, or one
   it has found unusable, because it has looked again under the lock.
2. `Due`: a broadcast that is pending has an armed timer, and `CoversAreDue`.
3. `Owned`, for every video: the mark has one owner, who is the request about to
   send, one place of the queue, the worker, or nobody ever again (`lost`). This is
   `MarkIsOwned` with sets in place of cardinalities: what a send, a receive or a
   full queue does to a count is not visible in the count.
4. `Knows`: in the pass that heals, every row that shows a frame was read or has
   changed since; in the collection, what is left to remove was there before the
   rows were read, and is shown by no row but those (`unknown`); of what was made
   later it holds only what has taken the place of an unusable frame (`redone`).
   `CoversKept` follows: `Exclusive` says that what is made is new, or `redone`.

`SlotsCounted` counts: `firstFrameSync` is the number of requests that have a slot
or, refused, must give one back, and at most `MaxSync` have one. So a request that
is refused raises the counter beyond the limit for a moment and takes nothing.
`ImplementsSlots` concludes that requests share the slots as clients share the
governor's: the same `SlotPool`, in which those who are refused abandon.

**Only model-checked.** The properties that need fairness, hence `ENABLED`:
`CloseCompletes`, `RestartResolves`, `RetireCompletes`, `WaitEnds`, `SilentIsClosed`,
`DeletingDrains`, `AutoFallsBack`, `DeadClientsLeave`, `RestoreTakesEffect`,
`ScanIsReleased` and `EventsAreScanned`. Every safety property that the passing runs
check is proved, and so is every refinement. `RollbackIsComplete` is refuted.

## 5. Not modelled, and the plan

Left out for good: FFmpeg's own behaviour beyond writing segments and ending;
process IDs (`MarkGenerationStarted` finds the process by PID, so that a PID
that is reused at once would be throttled in its stead); the services that this
build never constructs (`service.go:3-9`: preprocessing, smart renaming, lazy
ingestion, scan post-processing), no operation of which can run; the planner,
probing, NFO and naming, metadata providers, users, HTTP and the web client,
which are sequential or data. The models cover a small part of the lines of the
repository: most of them are handlers, parsing, providers and storage in which
one request reads and writes rows, with no order of events to get wrong.

To prove next: that `PlaybackSession` is closed as `SessionLifecycle` says of every
session of `SessionRegistry`, so that the two models of `manager.go` rest on one
contract; an abstract index that `LibraryIndex` implements.

To model next, in this order:

1. Around `LibraryIndex`: rows that refer to a record (history, favourites), whose
   cleanup works on an old list; the settings in the library's row; the tvshow and
   mixed scans.
2. Around `AnalysisTask`: two tasks of one media, whose check and creation are
   not one step; the preview and chapter jobs.
3. Around `FirstFrame`: videos that change; several scans that end at once.
4. `SessionPool`: two sessions over one governor pool. A restart waits behind
   its own session's old encoder, and a suspended one holds its slot.
5. `JobLease` and `ArtifactStore`: leases, fencing tokens, reservations; leased
   removal of artifacts; crash at every step.
6. `DiskPressure` (a pure operator against a reference definition), and the
   queue of the probe warm-up.
