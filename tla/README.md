# HanFontManager: a TLA+ development

HanFontManager is an Electron desktop program for managing fonts on Windows: a
renderer (`src/src/renderer`), a main process (`src/src/main`) and a Rust
worker (`src/native-src/hfm-core-worker`) that runs as a daemon behind the main
process. The modules here specify the parts of it in which the *order* of things
decides whether the program is right, check them with TLC on small instances and
prove the main invariants for every value of the constants with TLAPS.

## 1. The system

| Component | State it keeps | Operations | Talks to |
|---|---|---|---|
| Temporary activation (`main/activation`) | `temporary-active-fonts.json`, `pending-temporary-font-deletes.json`, font copies, HKCU values, GDI table | activate, deactivate, both in batches; delayed file deletion; clean-up | renderer (IPC), life cycle, worker (files, registry, GDI), save queue |
| Install-status save queue (`main/activation`) | pending results, timer, save in flight | schedule, flush | activation, install-status database, life cycle |
| Life cycle (`main/app`) | quit flags | start-up clean-up, before-quit, abort, will-quit | all of the above |
| Renderer activation actions | active fonts, busy fonts | the four buttons | activation |
| Core daemon (`core_daemon`) | queued, running, sequence, cancel set, one thread per lane | submit, cancel, status, shutdown | daemon client over stdin/stdout |
| Core daemon client (`main/rust-core`) | pending jobs, child process | submit with timeout and abort, fallback to one-shot workers | daemon, every caller of a Rust command |
| Rust scheduler (`main/rust-core`) | lanes of queued tasks, running tasks, calls in flight, result cache | run, drain, invalidate, cancel a scope | one-shot workers, query caches |
| Root index on a share (`main/indexing`) | lock file, snapshots, pointer, directory signatures | adopt, save changes, sign, clean up | scanning, other machines, merged index |
| Write queue and closing (`renderer/src`, `main/app/windowRuntime.ts`) | queue, running flush, timers, close request | edit tags, favorite, protection; flush; close the window | metadata calls of the main process, life cycle |
| Metadata and tags (`main/tags`, `main/library`, `main/indexing/shared-metadata`) | serial queue, revision barrier, shared database, lease lock, tag operations | edit tags and names, replay, sync | daemon, merged index, other machines |
| Scanning and watching (`main/indexing`, `main/watcher`) | active jobs, pending change events, root indexes, snapshots | scan, cancel, incremental refresh | daemon, merged index |
| Merged index, query caches (`main/indexing/merged-page`, `main/library`) | merged database, cached pages and metrics | sync, validate, query | scanning, metadata, renderer |
| I/O queue, background tasks, font refresh, previews | queues, timers, caches | run with priority, claim, broadcast, render | everywhere |
| Permanent install (`main/install`) | install status database, managed files | install, uninstall, refresh status | activation (through the status) |
| Library and databases, license, security, logging, IPC | files and tables | load, save, check | everywhere |

What makes them hard, and what makes them right:

* **Activation** touches five places outside the process, one `await` at a time,
  and each operation writes back the record list it read first. Right means:
  a font shown as active is on disk, loaded and recorded; quit and start-up can
  take everything back; a record disappears only with its file; one record per font.
* **Save queue**: re-entrant `flush` called by timer and quit, failing saves,
  newer statuses arriving during a save. Right means: one save at a time, the
  newest status is never lost nor overtaken, and it reaches the database.
* **Daemon**: seven threads and a reader over two shared lists. Right means:
  metadata reads see earlier writes, lanes keep order and bounds, every accepted
  job gets exactly one answer, shutdown ends.
* **Client**: timeouts racing answers, an old process's exit event after a new one
  was started, a fallback that may repeat a write. Right means: a change that was
  submitted is made at most once, success is claimed only for what was done, and
  every caller is answered.
* **Scheduler**: throttling that depends on what is queued, running, recent and
  slow; answers shared between calls; changes that make them stale. Right means:
  no answer dates from before a change that its call follows, interactive work does
  not wait for background work, and nothing queued is forgotten.
* **Root index**: several computers on one share, with a lock that is a file,
  heartbeats, and holders that die or stand still. Right means: one writer at a
  time, what was saved stays in the index, and the lock never stays closed.
* **Write queue**: edits appear at once and are written later, by passes that fail in
  part, are retried and overlap with newer edits; the window closes after a flush, or
  after twelve seconds. Right means: what the user did last is neither lost nor covered
  by an older write, "saved" means saved, and a request to close always ends.
* **Metadata and scanning**: operations of several machines in different orders,
  cached pages older than the write their reader has seen, scans superseded while
  they run.

`PROJECT.json` lists the components with their files, and under `hazards` each of
these dangers at the line where it bites.

## 2. Modules

| Module | Models |
|---|---|
| `TemporaryActivation` | the four operations, delete queue, clean-up, quit, crash and restart |
| `InstallStatusSaveQueue` | the queue, its flushes, and the flush that quit waits for |
| `CoreDaemon` | reader, lanes, workers, write barrier, cancel set, panic, shutdown |
| `JobService` | what the daemon promises: the abstract specification of `CoreDaemon` |
| `RustCommand` | a command from its caller through daemon, one-shot worker and fallback |
| `RustScheduler` | the scheduler of the one-shot workers, its throttling and caches |
| `SharedRootIndex` | lock, snapshots and pointer of a root's index, written by several machines |
| `FontWriteQueue` | the renderer's queue of edits, its flushes, and the closing of the window |
| `MC...` | values of the constants for TLC |
| `...Proofs` | type correctness and the main invariants of each, proved |

### TemporaryActivation

State and code: `files`, `registry`, `loaded` are the operating system's side;
`store` and `pendingDel` the two JSON files; `call[c]` an IPC handler between two
awaits, with the snapshot `snap` it read, the records it has prepared (`prep`),
those it refreshes (`again`) and those it must undo (`undo`); `flush` is
`deleteInFlight`, `timer` is `deleteTimer`; `cl` the clean-up loop with the
records of its pass; `shown` the managed path the window holds for an active
font; `phase` and `session` the life of the process. One action is one stretch
of code between two awaits that touch shared state:

* `StartActivate`, `ActLoad`, `Item...`, `Migrate...`, `ActRegistry`,
  `ActReadd`, `ActAdd`, `ActUndo`, `ActSave`: the single activation and the batch,
  which differ in what a failure does (the single one throws, the batch undoes).
* `StartDeactivate`, `DeLoad`, `DeRemove`, `DeRegistry`, `DeQueueLoad`,
  `DeQueueSave`, `DeSave`: both deactivations.
* `FlushFire`, `FlushLoad`, `FlushDelete`, `FlushSave`: the delete queue.
* `CleanLoad`, then for each record `CleanUnload`, `CleanUnregister`, `CleanDelete`
  (the three awaits of `removeTemporaryActiveRecord`, between which calls still open
  go on) and `CleanVerify`, then `CleanSave`: the passes of the clean-up; `CleanFlush`
  the flush after them, `CleanDecide` the verdict of start-up or quit.
* `RequestQuit`, `Crash`, `Relaunch`: the life of the process.

Left out or simplified: a deactivation also takes records with the font's source
path (same font here); whether a font is already installed is a free choice;
paths outside the font directory, errors of the JSON writes other than a crash,
the cap of 1000 fonts per batch, counters, texts and the optimistic marking
between click and answer (the busy set covers that interval); the order of the
fonts within a batch is free; quitting during the start-up clean-up. A window
that is opened again after an aborted quit shows nothing as active here; the real
one reads its flags from the database, so the guards on what is shown are left as
weak as that allows. A batch activation shows and saves in one step, since no
other code runs in between that depends on it.

### InstallStatusSaveQueue

A status is a version number per font. `call[c]` is a `flush()` in progress;
`waiting` are those at `await saveInFlight`; the continuations of a settled save
run in one go, the owner first, as promise reactions do (`Resume`). A save writes
one database per root: a failing attempt leaves any part of its rows written
(`Wrote`). `QuitFlush`, `Answer` and `Exit` are the part of `before-quit` that
depends on the queue. The delays are not modelled; that a timer is set is.
The database here is written by the queue alone: the install-status refresh and
the comparison made on a cache miss also write it (a hazard with its own entry),
so the claims about `saved` are claims about the queue's writes.

### CoreDaemon

`queued`, `running`, `seq`, `nextSeq` are `DaemonState`; `channel` the mpsc
channels; `worker[l]` the thread of a lane, `late` recording that its barrier
timed out; `cancelled` the cancel set; `answer` and `ran` record the terminal
event and the execution of a job. A step is one critical section or one channel
operation; a worker's `take_cancelled`, the section that depends on it and its
event are one step, because only that worker removes the job's id. Poisoned
locks cannot occur (a panic aborts the process). `Shutdown` stands for a shutdown
request and for the end of stdin; a killed process just stops, which every safety
property allows for. What the commands do is not part of this module: `RunEnds`
says that one returned.

### JobService

A job is new, refused, or accepted at its place in the order; an accepted one is
executed in its lane's turn or skipped if it was cancelled, and answered in
agreement with that. `CoreDaemon!PhaseOf` reads this off the answer, the set of
executed jobs and the sequence numbers; queues, channels, lists and the barrier are
internal. `KeepsPromise` says that every step of the daemon is a step of the service
or a stutter. It is the part of the daemon that its client may rely on, and
`RustCommand` relies on no more: a job is executed at most once, and its answer
comes after that.

### RustCommand

`child` is the client's variable of that name, with its line reader; `proc[p]` what
has become of each process that was started: alive, dead with its exit event still
to come, gone, or never started (`stillborn`, then `failed` after its error event).
`pending` is the map of that name, `job[r]` the line written to a process, `event[r]`
a terminal event on its way back, `call[r]` and `told[r]` the caller.

* `StartFails`, `Spawn`, `Submit`, `WriteFails` are `tryRun`; `ReadEvent` is
  `handleLine`; `ExitEvent`, `StdinError`, `ProcessError` the handlers of the child;
  `Timeout`, `Abort`, `Stop` the other ways a job ends. `Reject` is what a rejected
  promise leads to: rethrown for a guarded command, a one-shot worker for the rest.
* `OneShot`, `NativeFallback` and `RemoveInput` are the rest of a wrapper: the
  caller's own way of doing it, and the removal of the temporary input file, without
  which a job still queued in the daemon fails.
* `Start`, `Refuse`, `Finish`, `Crash` are the daemon, as weak as `JobService` allows:
  a cancel may or may not reach a job in time, so a job may be refused or reported as
  cancelled at any time.

A line written to a dead process is lost. Simplified: one daemon binary (a changed
path stops the old process as `Stop` does); lines that are not JSON; `Guarded` stands
for a wrapper that rethrows the error of a submitted command, which all but the
font-parse batch do.

### RustScheduler

Calls are numbered; call `i` becomes task `i` when it is not answered from the cache
(`ReadCache`) or joined to one in flight (`Join`). `generation` counts the
invalidations of a command; `since[i]` is the one a call belongs to and `began[t]`
the one in which the worker of a task started, which is what `FreshAfterInvalidation`
compares. `latest` stands for the generations of a scope, each of which one command
uses. `Drain` computes the whole synchronous function on a record of its local state:
`TryLane` is what it does with one lane, within the limits and the throttling of
`shouldThrottleTask`; `Tried` goes through the lanes of a pass in the order of their
first tasks, `Passes` through the passes until one starts nothing. Both loops are
recursive functions on the naturals, which a proof can use and a `RECURSIVE` operator
it cannot. Profiles are parameters: the fields the code reads, by their names.

There is no clock: a quiet window, a back-off, a cache entry, a queued task or a timer
may end at any moment, so every length of the delays is covered, and a queued task
may expire in the same step in which a drain starts others. Expired tasks of one
command are the oldest ones. Not modelled: `applyProfiles` while tasks are queued (the
profiles of the worker arrive once, at start-up), and the mode in which the scheduler
is disabled.

### SharedRootIndex

A process is one save, preceded by a scan's adoption of the index and followed by its
directory signatures if it is a scanner. `lock` is the lock file with its age,
`beating` the heartbeat writes under way; `files`, `mtime` and `content` the databases
in `db/`, `latest` the pointer, `snap[p]` and `path[p]` what a process has made and
what its scan has adopted. An index is a set of entries; a save inserts `Put[p]` and
deletes `Drop[p]`. Each file operation is a step:

* `ScanResolve`, `ScanPoint`, `ScanRead`: `ensureRootScanCacheStorage` and the read of
  the signatures. No lock is held.
* `Open`, `OpenFails`, `Stat`, `RemoveStale`, `GiveUp`, `Release`, `HeartbeatStarts`,
  `HeartbeatLands`, `LockAges`: the lock. That `open` with `wx` is exclusive is assumed
  of the share. `OpenFails` is another error than an existing file, or the write of the
  payload that fails after the open (`rootIndexLockRuntime.ts:67`): that write is outside
  of the `try` with the `finally`, so the lock file stays. The `rm` of `Release` may fail
  (`LockRemoved`, line 90 swallows it), and so may the `stat` and the `rm` of a stale lock.
* `ReadBase`, `Build`, `Point`, `Cleanup`, `FailSave`: a save, with the check that
  refuses an empty index in place of one that is not. `DropPointer` is the removal of
  the pointer in `writeJsonAtomic` when a rename is refused, after which the second
  rename happens or fails. `Sign`: the signatures.
* `Crash`: the end of a process or of its connection.

`faults` is a history variable: it names what has gone wrong in the sense of the
properties' exceptions. `LockLeft` are the three ways in which the code leaves a lock file
that nobody holds: a late heartbeat, an unwritten payload, a removal that failed.
`NoLockLeft` excepts these three and nothing else. The rename of a snapshot and the writing of it are one step,
since a `.tmp` file is nobody's candidate; a scan that reads a snapshot deleted
meanwhile makes the file anew (`"remade"`); manifest and pointer are one file, since
the manifest is read only when there is no database at all. Modification times are in
the order of the writes: ties and clocks that differ between the share and the
machines are left out. A save in the code does nothing when there is nothing to
change; the savers here have changes.

### FontWriteQueue

A cell is a kind of metadata and a font, its value a set of marks: tags, or one `Flag`.
`view` is what the window shows, `stored` the databases, `asked` (history) what the
edits make of the cell. `queue` is `queueRef`; `pass` and `again` the entries of the
running `flush` still to be answered and its `retryQueue`; `timer`, `retryTimer`, `soon`
the timers. `handler[r]` is how far the renderer is with close request `r`; `request`
and `dialogs` the pending request and the open warnings in the main process.

* `Edit` is an optimistic edit with its queueing (tags flush at once, the rest with a
  delay, `ScheduleFlush`); `Refresh` the reload of a font from the database, which
  overrides the shown value once a tag's protection of 20 seconds is over.
* `WriteTimerFires`, `RetryTimerFires`, `SoonFires`, `PauseOver`: the event loop.
* `AnswerSome(k)`: the answer to a call, with any part of its entries reported as failed
  and any part of those written. `Answer` goes on with the pass, or ends it by
  `PassFailed` (pause, or background retry) or `PassSaved` (next pass, or done).
* `RequestClose`, `BeginCloseFlush`, `Acknowledge`, `CloseTimesOut`, `AnswerDialog`: the
  close handshake of `windowRuntime.ts` and `useAppFlushOnUnloadRuntime.ts`. Whether
  the rest of the library is saved too is a free choice.

The continuation of an await runs until the next one, so all callers of a flush are
told its result in the step that ends it. Left out: the delays and the choice among
them, status texts and counters, exceptions outside of a call, renaming and deleting a
tag everywhere (which wait for the same flush), `unmount` and `beforeunload` (their
flush is not waited for), a window that is closed before its renderer is ready, and the
close of several windows for quit. The marks of an entry written by `Written` are the
answer of the main process to one client; other machines do not write here.

## 3. Runs

| Run | Question | Result |
|---|---|---|
| `activation_serial` | Does what the window shows hold, and does quit always decide, one call at a time, with reading, copying and registry failures? | holds |
| `activation_crash` | Does the clean-up keep what it could not remove, across crashes and restarts? | holds |
| `activation_quit` | Can quit clean everything when calls overlap? | **violated** |
| `save_queue` | Nothing lost, no regression, pending is scheduled, eventual save | holds |
| `save_queue_quit` | Is everything saved when the flush of quit returns? | **violated** |
| `core_daemon` | Barrier, order, answers, drained exit; does the daemon implement `JobService`? | holds |
| `rust_command` | Is a submitted change made at most once, is success true, is every caller answered? | holds |
| `scheduler` | Fresh answers, single flight, slots, no lost wake-up, interactive work first | holds |
| `shared_index` | One holder, saved is served, adopted snapshots kept, no lock left but in three named ways, saves return | holds |
| `shared_index_writer` | Does the index have one writer at a time? | **violated** |
| `write_queue` | Is the last edit kept and written, is "saved" true, does every close request end? | holds |
| `write_queue_tags` | Is no shared tag forgotten when a call fails? | **violated** |

The violated runs check one statement of the sources each; `findings` quotes it.

* *Overlap.* Two activations of different fonts both load the record list before
  either saves it. The second save drops the first record; the file is on no list.
* *Quit flush.* The owner of a save takes newly scheduled statuses for its
  follow-up save before the waiting flush of quit resumes; that one finds nothing
  pending and returns while the follow-up is under way.
* *Writer.* A scan resolves the index in use and writes the pointer to it back, without
  the lock. A save of another machine between the two is undone: its snapshot is there
  but nothing points at it, and the next save starts from the old one. `SavedIsServed`
  holds in `shared_index` because it excludes just this (`"overwritten"`), lock robbery,
  and a pointer that was removed and not written again.
* *Shared tags.* An entry of shared tags carries the intent for one tag. A failed entry
  is dropped when a newer one of the same font is queued: right for a value, which the
  newer one replaces, wrong for an intent. Add `t`; add `u` while the call runs; the call
  fails; the retry writes `u`, the flush ends as saved, and `t` is gone. Two intents that
  meet in the queue without any failure have the same fate. `LastEditKept` holds for the
  kinds whose calls write the whole value.

Eight more things were met while modelling that no run states:

* A temporary font is copied before its record is saved (`fontActivationSessionRuntime.ts:125`
  and 155). After a crash in between nothing names the copy, and the next start leaves it,
  though the message at line 47 promises that it is cleaned up.
* A clean-up at quit deletes a font's HKCU value, fails to delete the file (in use) and
  keeps the record. Quit is aborted; activating the font again finds the record and
  reports the value as written (`fontActivationVerifyRuntime.ts:40`) without writing it.
* A daemon process that cannot be started raises `error` and no `exit`
  (`rustCoreDaemonRuntime.ts:395`). The client keeps it as its child; every later write
  fails, and a guarded command is refused with "already submitted to Rust daemon"
  (`rustCoreDaemonWriteBoundaryRuntime.ts:6`) although it was never written to one.
* A one-shot worker that has made its change and is then killed by its timeout counts as
  unavailable: the caller repeats the change by its fallback. The plan in
  `docs/plans/HFM_REMEDIATION_MASTER_TASKBOOK.md:164` asks for the distinction that the
  daemon's route makes and this one does not. `SubmittedRunsOnce` is about the former.
* In the scheduler, background work at the head of a lane is throttled while interactive
  work is queued, even if that work is behind it in the same lane:
  `--watcher-batch-preflight` (priority 38) before `--physical-folder-tree` (36). No
  timer is set in that branch, so when nothing runs both wait until a new call comes or
  the prune timer removes the first. `InteractiveNotHeld` and `NoLostWakeup` except
  exactly this (`HeldForItself`); the proofs show that there is no other such case.
* The lock file of a root index stays behind when its payload cannot be written
  (`rootIndexLockRuntime.ts:67`), when it cannot be removed (90), or when a heartbeat
  lands after the release (69). Nobody holds it, and every save of every machine waits
  its 30 seconds in vain until the file is two minutes old. `NoLockLeft` excepts these
  (`LockLeft`), and its proof shows that there is no fourth way for a live process;
  `OneHolderUnlessRobbed` holds with them.
* A batch activation whose undo cannot delete a copy, and a single one that throws after
  the copy was made, leave a file that is on no list, like the crash above.
* Snapshots are not immutable, as the message at `rootIndexLatestRuntime.ts:73` calls
  them: signatures are written into the adopted one after the save has superseded it.
  It is then the newest by time, which recovery goes by, and the snapshot in use never
  gets the signatures. Deleted meanwhile, it is made again without entries, by the scan
  that reads its signatures or by the one that writes them. As one of the newest files it
  then takes a place among those the clean-up keeps, and another scan loses its snapshot
  one save too early. `KeptForScans` excepts this (`"remade"`); it takes more processes
  than the run has, and was found when the proof of the unconditional claim failed.

**Bounds.** Activation: one or two fonts, up to three value names (one font's
metadata may change between two activations), one call slot in the passing runs,
two in `activation_quit`; `MaxCopies` 2 (a font activated, deactivated and
activated again), `MaxAttempts` 2 (a retried pass and giving up), `MaxSessions`
1 or 2 (a crash or an exit and what the next session makes of it); `Faults` names
which calls may fail, so that each run has the failures its question is about.
`activation_serial` has no failing `AddFontResource` because refreshing an active
font has no compensation for it (see the hazard at `fontActivationSessionRuntime.ts:79`).
A single slot is what keeps `ActiveFontIsReal` true: two overlapping calls break
it, which is the finding of `activation_quit`. A deletion that fails breaks it too: a
deactivation that is cut off (by a crash, or overtaken by quit) before it saves the list
leaves a path both pending and recorded; when the clean-up cannot delete the file, the
record is kept, the font can be shown again, and a later flush deletes it. Save queue: two fonts with two
statuses each, three flush calls (an owner and two waiting), one retry. Daemon:
two writes and two metadata reads in two lanes with queue bounds 2 and 1, so that
a queue fills, a read waits for a queued and for a running write, and one job may
panic; a job id is used once, as the client's `randomUUID` guarantees.
`rust_command`: a guarded command with a fallback and an abort signal and a query
with a fallback, and three processes, so that an old process's exit event
meets a newer process with a pending job; three requests were explored once as well
(10 million states). `scheduler`: three calls of four keys, which include two pages of
one scope, the same page twice, a save and a backup whose queue holds one; two slots
with one reserved; one invalidation before, between or after. `shared_index`: a
scanner and a saver, one crash and one stalled holder, one snapshot kept besides the
one in use (`Keep = 1`, three in the code), so that the clean-up of the second save
already deletes. Its safety was explored with three savers and two scanners up to 19
million states besides. `shared_index_writer` has neither crashes nor stalls.
`write_queue`: one font with a local tag (flushed at once) and a favorite (delayed), two
edits, two close requests, one foreground retry (three in the code; what matters is
that a pass is retried and that retries run out). Two edits are enough for a newer entry
to meet an older one in the pass, among the failed or in the queue, and two kinds for a
pass of several calls that fails in part. Its safety was explored with two fonts as
well (530,730 states), where a call fails in part. `write_queue_tags` needs
one font and two tags.

**Fairness.** Activation: weak fairness of the flush and the clean-up, which the
event loop keeps running once started; none of calls, quit or crashes. Save queue:
weak fairness of timers and of the steps of a save, strong fairness of a save's
success: a database that fails forever is excluded, every finite run of failures
is not. Daemon: weak fairness of the reader's steps and of every lane; commands
return or panic; the barrier is bounded by its timeout. Nothing is assumed of the
client.
`RustCommand`: a call is made, a timeout fires, a worker process ends or is
killed by its timeout, a fallback returns; nothing is assumed of the daemon, so
`EveryCallReturns` rests on the timeouts. `RustScheduler`: a scheduled drain runs, a
timer that is set fires, windows end, a running task ends; not that anything expires,
since a policy may switch the pruning off. `SharedRootIndex`: file operations return
and a waiting process reaches its 30 seconds (strong fairness, since the wait is left
for every attempt); nothing is assumed of the lock. `FontWriteQueue`: timers fire,
calls are answered, the renderer handles its messages, the user answers a dialog
(weak fairness); a call of a kind that is made again and again succeeds at some time
(strong fairness of `AnswerWell`), for an outage that lasts forever excludes any claim.
`CloseRequestEnds` does not rest on the latter: the timeout is what ends the wait.
The `write_queue` runs do not check for deadlock, since the program waits for its user.

## 4. Proofs

Each proof module extends its component; every theorem is for all values of the
constants that satisfy the named assumptions (types, and that the null values are
not in the sets). No assumption is made about sizes; only `ActiveIsReal` has further
conditions, which it states.

* `TemporaryActivationProofs`: `TypeCorrect`, `OneRecordSafe`, `CleanupVerdictSafe`,
  `StartupKeeps`, `ActiveIsReal`. That the record
  list has one record per font is not inductive: a save writes a snapshot joined
  with what the call prepared. The invariant adds that every call's snapshot, its
  prepared and refreshed records (`UniqueCalls`) and the clean-up's lists
  (`UniqueClean`) are one per font, and that a call has prepared nothing yet for a
  font still to be treated. `Types` adds to `TypeOK` which stage of the clean-up
  has a current record and that a pass has attempts left. For the clean-up (`CInv`)
  `CleanedSoFar` says that a record of the pass whose file exists is still to be
  treated or among those left. It is kept although calls still in progress copy files:
  those get a new path (`Aged`: no record is made later than the clock). At start-up no
  call runs, so that the list is the one the pass has read (`StartupAlone`).
  `ActiveIsReal` proves `ActiveFontIsReal` under the two conditions it needs (section 3):
  calls do not overlap (`Solo`), and adding a font and deleting a file do not fail
  (`Sure`); crashes, sessions, the other failures and calls that outlive their window are
  all in. What is shown is in the list, so it must be shown that nothing takes it from
  there or deletes its file: no path that somebody still knows is marked for deletion,
  but those that a deactivation is taking back (`Doom`), for start-up leaves nothing
  behind (`Removal`) and paths are never used again; and the list is the snapshot of the
  call in progress (`InStep`), so that what it writes back keeps the others. Its GDI entry
  is missing at one stage of a refresh only, in a call that is busy with it (`Shown`). The
  lemmas have one step of the program each. TLC checked this invariant first, with
  two sessions and two fonts (11 million states).
* `InstallStatusSaveQueueProofs`: `TypeCorrect`, `OneSaveSafe`, `PendingSafe`,
  `NewestSafe`, and the action property `NoRegression`. The invariant `Current`
  says that a pending status is the newest one, and that a status being saved is
  not older than the saved one and is the newest unless a newer one is pending.
* `CoreDaemonProofs`: `TypeCorrect`, `BarrierSafe`. The barrier's promise rests on
  sequence numbers being distinct and bounded by the counter (`SeqInv`), on a
  numbered job being in one of the lists, executed or answered (`Accounted`), and
  on what a worker's stage says of its job (`WorkInv`).
* `CoreDaemonLaneProofs`: `QueuesStayBounded`, `LanesInOrder`, `DrainsBeforeExit`,
  `AnsweredOnce`, and the refinement `ImplementsJobService`. A channel is sorted by
  sequence number and holds what is queued for its lane, except the job that the
  reader is about to send and the one its worker has taken; every accepted job is in
  one of these places or answered. From that the order, the bound and the drained exit
  follow, and each step is one of the abstract service.
* `RustCommandProofs`: `TypeCorrect`, `SubmittedOnce`, `OkIsTrue`, `PendingHeard`. The
  invariant relates four views of a call: where its caller waits, whether it is
  pending, how far its job came, and how often it was executed, with the processes:
  a pending job is one of a process that is alive and current, or whose end is still
  to be heard.
* `RustSchedulerProofs`: `TypeCorrect`, `AnswersFresh`, `OneInFlight`, `SlotsKept`,
  `WakeupsKept`, `InteractiveFirst`. What `inFlight`
  and `cache` hold belongs to a generation that the code checks before it is used, a
  task starts in a generation no older than its call's, and an unsettled keyed task of
  the current generation is the one in `inFlight`.
  The other three are about what a drain comes to, for any profiles and any number of
  slots: an induction over the lanes of a pass and the passes of a drain (`Iterates`).
  `SlotsRespected` is not kept by a drain as it stands: commands of one lane may allow
  different numbers, and the task that allows the most may end first. `Fit` asks it of
  every set of running tasks, as in Hall's condition. `WakeInv` says what a drain leaves
  behind: each lane's first task is held back by a slot, by a timer that is set, or by
  interactive work that is itself held back by a slot; since some interactive lane is
  first (`Before`), someone will wake the scheduler, but for `HeldForItself`.
* `SharedRootIndexProofs`: `TypeCorrect`, `OneHolder`, `SavesServed`, `LockIsReleased`,
  `ScansAreSpared`.
  `SoleHolder` and `LockHeld`: without robbery one process is in a section and the lock
  file is there while it is; only a process about to remove a lock it saw stale can
  take it away. `Kept`: the entries a holder has read or built contain every finished
  save's changes, and so does the database pointed at. `Sparing`: the clean-up counts
  the databases other than the saver's own, the property all of them; the two agree
  because a holder's snapshot is the newest of all from its writing to the clean-up
  (`OwnIsNewest`), for nobody else writes an existing snapshot without the lock.
  `LockIsReleased` has no condition on robbery: whoever got the lock and is alive is in a
  section and will remove the file, so what is left is a heartbeat's, an unwritten or an
  unremoved one (`LockLeft`).
* `FontWriteQueueProofs`: `TypeCorrect`, `LastEditSafe`, and the action property
  `SavedIsTrue`. `Placed` says that outside of the calls of a pass only the queue holds
  entries, and that no cell is both in the pass and among its failed ones; with it, each
  step leaves the newest entry of a cell where the next one looks for it. `CloseOK` says
  that a timer that is set is that of the pending request and that this request has no
  dialog yet.

`QueuesBounded`, `OneAnswer` and `OneSaveInFlight` are proved (`QueuesStayBounded`,
`AnsweredOnce`, `OneSaveSafe`) and listed in no run: the second is part of
`KeepsPromise`, the others say less than the properties that are.

Induction over data: the library's theorems take an operator as a parameter, which the
installed provers do not instantiate. The drain's loops are counted by naturals, and
for those `RustSchedulerProofs` states induction for a *set* of naturals (`Inductive`,
from the well-foundedness of strict subsets of a finite set), which can be instantiated
with a set comprehension.

Only model-checked: liveness (`QuitDecides`, `EventuallySaved` of both queues,
`EveryJobAnswered`, `EveryCallReturns`, `EveryCallAnswered`, `EverySaveEnds`,
`CloseRequestEnds`), which TLAPS does not reach with fairness and ENABLED.

## 5. Not modelled, and the plan

Next, in this order:

1. Install status: the refresh and the comparison on a cache miss, which write the same
   rows as the save queue; registry names that collide.
2. Metadata behind the write queue: the tag queue with the revision barrier; replay of tag operations of
   several machines. `sharedMetadataLockRuntime.ts` follows the lock of
   `SharedRootIndex` step by step, so its holders share what is shown there;
   `sharedLeaseLockRuntime.ts` and the build lease (a token that expires after 30
   seconds and is not renewed) differ and have no module yet.
3. Scanning: jobs superseded and cancelled, the watcher's coalescing; the merged index
   and the page cache above it.

Of the modelled components, left out are: full saves and saves without snapshots, the
root's identity files, automatic maintenance of snapshots; `applyProfiles`; what the
single commands and their wrappers compute; window creation; of the write queue, what
its section lists.

Not planned: SQL, font parsing, hashing, rendering, licensing and window code, whose
state is data or pixels, not protocol.
