# A TLA+ model of Salidium

Salidium is a local daemon that follows the sessions of coding agents. It reads what the providers
write (transcript files, hook events, a database), turns it into events of a session, stores them in
SQLite, and shows them to a web interface, a command line and other consumers. What it must never
do is lose an event it has accepted, tell a provider's relay that an event is safe when it is not,
show a state that its own log does not give, or bring back a session that a person removed.

This directory holds TLA+ modules translated from the source, TLC configurations that check them on
small instances, and theorems proved with TLAPS. `PROJECT.json` lists the components, the runs, the
hazards, the theorems, and for every definition the lines of code it stands for.

Paths below are relative to the repository; `daemon/` stands for `packages/daemon/src/`.

## 1. The system

| Component | State it keeps | Operations | Hard behaviour |
| --- | --- | --- | --- |
| Session registry (`daemon/sessions/sessionRegistry.ts`) | the loaded coordinators, when each was touched, subscribers | get, ingest, flush, evict idle, forget, apply retention, close | forgetting or evicting while a queue is not durable; a flush of a session that is not loaded |
| Session coordinator (`daemon/sessions/sessionCoordinator.ts`) | run state, write-behind queue, seen ids, next seq, last checkpoint, timers, the explanation in flight | load, ingest, flush, checkpoint, close, explain | failed flush and its retry; timers that outlive close; throw in the middle of ingest |
| Session store (`daemon/storage/sqliteStore.ts`) | events, changes, checkpoints, sessions, tombstones, sources, re-ingest jobs, usage | open and migrate; one transaction per flush; checkpoint; forget; retention; backfill | a transaction fails as a whole; a crash between two statements of the constructor; a second writer holds the lock |
| Transcript tailer (`daemon/ingest/transcriptTailer.ts`) | per file: offset, inode, parser, dirty flag; durable cursor; jobs | track, read in chunks, scan, sweep, re-ingest, evict, pause, stop | asynchronous reads, rotation, half-written records, pokes during a read, skip of finished files |
| Hook ingress (`daemon/ingest/hookIngress.ts`) | files of the spool, quarantine, pressure markers | handle a request, drain the spool and the orphans, recover pressure | two holders of one spool file, deletion only after durability |
| Hook relay (`daemon/daemon.ts:1139-1359`, a shell script) | one spool file per event, the quota lock | spool, post, publish or shed, release | killed anywhere; a lock whose owner died |
| Pause and gaps (`daemon/ingest/collectionState.ts`, `collectionGaps.ts`) | pause marker with a lease, ledger of gaps | pause, resume, expire, record a gap | writers in several processes |
| Daemon and its commands (`daemon/daemon.ts`, `packages/cli/src/main.ts`) | the port, `daemon.json`, the store's connection | start, stop, restart, supervise, replace, write the store while nothing serves | everything changes between a probe and what is done on its answer; pids are used again |
| Always-on service (`packages/cli/src/macosService.ts`) | runtime directories, a manifest, LaunchAgents | install, replace, enable, disable, uninstall | each step may fail; a command may be killed between two |
| Store tailer (`daemon/ingest/storeTailer.ts`) | cursors per session of a provider database, backoff | poll in rounds, re-ingest | rows that change in place, a job suspended between rounds, a replaced database |
| Retention (`daemon/daemon.ts`, `sqliteStore.ts`) | a policy in the configuration and one in the store, pins | sweep, apply offline, choose a policy | a sweep before what was missed is read; two places for one choice |
| Explainer (`daemon/enrich/`) | two slots, an abort handle per session | explain, personalize, abort | an answer after more events, after an abort, after close |
| Project map (`daemon/projectMap/`) | grants, a queue, maps in memory and on disk | allow, revoke, map, check a commit | a grant revoked, or given for another directory, while a build reads |
| HTTP and streams (`daemon/server/httpServer.ts`) | one subscription per stream | snapshot, replay, live events | replay and subscription overlap |
| Consumer interface (`daemon/consumer/`) | a change feed, the cache of the list, credentials | connect, list, read, follow | announcements later than what they announce; sessions removed meanwhile |
| Web interface (`packages/ui/src/`) | a run state folded from a snapshot and a stream; settings | load, fold a frame of events, reload; ask, save | late frames of an older generation; answers out of order |
| Credential lock (`daemon/consumer/credentialLock.ts`) | a directory with an owner and claims | take, reclaim, release | several reclaimers of a dead holder |
| Maintenance (`daemon/operations/maintenance.ts`, `daemon/storage/optimizeStore.ts`) | a lock directory, a phase file, the swapped store | drain, compact, optimize, recover | two reclaimers; a writer during the copy; a crash during the swap |
| Alerts, configuration (`daemon/operations/`) | a ledger file, a versioned file | evaluate, acknowledge; update, reset | read-modify-write without a lock |
| Warm-up and backfill (`daemon/sessions/historyWarmup.ts`, `sqliteStore.ts:1847-1976`) | a cursor | replay in slices; account a page | the session grows or opens between slices |
| Sync outbox (`packages/sync/src/sqliteSyncOutbox.ts`) | two lanes of positions, generations, consents, tombstones | enqueue, acknowledge, refuse, begin a generation | delayed or repeated acknowledgements; a restored backup |
| Reducer, report, redaction, claims (`packages/core/src/`) | none | pure functions | two channels tell the same facts in any order |
| Adapters (`packages/adapters/`) | parsers that live as long as a file is read | parse a record into events | equal records must give equal event ids, read in pieces of any size |

Events flow in one direction. A provider's hook runs the relay, which posts the event or leaves it
in the spool for a later drain; a provider's file is read by the transcript tailer; a provider's
database by the store tailer. All three call `SessionRegistry.ingest`, which loads the session's
`SessionCoordinator`. The coordinator drops what it has seen, numbers the rest, folds it into the
state, and puts it into a queue that a timer, a threshold or a caller flushes into SQLite. Streams
and summaries leave from there: pages follow one session, a consumer follows the list, and the
explainer is asked at the ends of turns. Each producer keeps its own evidence (spool file, file
offset, database row) until `flush` says that the session's queue is durable: that is the promise on
which recovery rests, and the first thing modelled here. Around this flow stand the processes
that come and go (daemons, commands, LaunchAgents) and those that rewrite or delete what is
stored (migrations, maintenance, retention, the outbox).

What makes each component correct:

- *Registry, coordinator, store*: the durable log of a session is dense, append-only and without
  duplicates; the state in memory is its replay plus the queue; a checkpoint is a prefix; a removed
  session stays removed; an opened store has the current schema and nothing derived from older rows.
- *Tailers*: a cursor never passes a record that is not durable; records are stored in file order; no
  record is taken from a parser that missed earlier bytes; a job that says "completed" has
  made its file durable; every record is found eventually.
- *Adapters, reducer, report*: what is told is what the provider recorded, however the record was
  cut into readings; the state is the same whichever channel was faster.
- *Hook path*: the relay's copy goes only when the event is durable; what is shed shows in a gap.
- *Streams, feed, interface*: the folded state is that of a prefix of the log, and it catches up; a
  consumer that has read what it was sent holds what there is; an older answer replaces nothing.
- *Locks* (credentials, maintenance, quota): one holder, and a dead holder is replaced.
- *Commands*: they signal only the daemon they found and tell the truth about what they did.
- *Explainer*: at most two calls, none paid for twice, none applied after an abort.
- *Retention, maintenance*: nothing live is swept, no committed row is lost.
- *Sync outbox*: a cursor covers only operations that the destination has seen; control operations are
  never skipped.

## 2. The modules

The daemon is one event loop and SQLite calls are synchronous, so a handler that does not `await` is
one action, and one that does is cut at each `await`. Where processes share files, an action is one
system call or one command of the script, and a process may die between any two.

| Module | Models |
| --- | --- |
| `EventLog` | Abstract: one session's durable log, a sequence of distinct events that is only extended until the session is forgotten for good. |
| `SessionLog` | Registry, coordinator and the session tables of the store; its actions have no client. |
| `Ingest` | The transcript tailer, the hook channel, pause, stop, crash and restart, over `SessionLog`: the complete specification of the core. |
| `StoreTailer` | The tailer of a provider database and its source, over rows that change in place. |
| `QuotaLock`, `HookSpool` | The relay script's lock, and the spool between relay and daemon. |
| `LiveSession` | The event stream of one session and the page that folds it. |
| `CredentialFile`, `CredentialLock` | Abstract: each credential command changes the list once, as a whole, or not at all; and the lock directory and commands that implement it. |
| `Maintenance`, `Retention`, `StoreUpgrade` | What rewrites or deletes stored sessions: optimization, retention, opening and migrating the store. |
| `HistoryWarmup`, `UsageBackfill` | What is derived again after an upgrade: change logs and checkpoints, and the accounting of usage. |
| `Reducer`, `SessionReport` | The fold of two channels into a run state, and the report drawn from it. |
| `RolloutParser`, `RolloutTurns`, `TranscriptParser`, `OpencodeMapping` | What the adapters tell of a Codex command, of Codex turns, agents and patches, of a Claude Code transcript, and of the rows of an OpenCode session. |
| `Explainer`, `ProjectMap`, `PageSettings`, `ConsumerFeed` | What a daemon answers: explanations, maps, settings of a page, the change feed with its consumer. |
| `Lifecycle`, `MacService`, `Alerts` | Daemons and commands of a state directory, the files of always-on mode, local alerts. |
| `SyncOutbox` | The two lanes of decisions to one destination. |
| `MCIngest`, `MCCredentialLock` | Instances for TLC. |
| `MCDelivery`, `MCRecovery`, `MCDerived`, `MCOperation` | Several specifications side by side, for TLC (section 3). |
| `IngestProofs`, `CredentialLockProofs`, `DeliveryProofs`, `RecoveryProofs`, `ServerProofs`, `OperationProofs`, `KeepingProofs`, `DerivedProofs` | The theorems (section 4). |

### The core: `SessionLog` and `Ingest`

`co[s]` is the coordinator the registry holds for session `s` (or `NotLoaded`); `orphans[s]` are
coordinators that were closed while their flush failed and whose timers still run; `rows`, `cp`,
`sess`, `tomb` are the tables `events`, `checkpoints` (the newest row), `sessions`,
`session_tombstones`. A run state is a fold of the events it has applied and is represented by the
set of rows folded, so "the state equals the replay of the log" is equality of sets.

`Accept` is the whole of `registry.ingest` (load, dedupe, number, apply, queue, arm timers, flush at
the threshold), `Persist` is the transaction of a flush with its failure path, `Evict` is `close()` as
`evictIdle` calls it, `Forget` has one disjunct for each way `close()` and `forgetSession` can go,
`ApplyRetention` flushes everything and deletes any subset of the sessions that are not loaded. A
write of a kind in `FaultyWrites` may fail; a transaction fails as a whole.

In `Ingest`, `file[f]` is a provider's file: inode, number of its first record, records, and whether
half a record is at its end. A record takes two bytes, so a read can end inside a record. `src[f]` is
the tailer's `TrackedSource`; `base` is the offset its parser was created at and `synced` says whether
a file that was skipped as already ingested has since been parsed from the beginning. `rd[f]` is a
read in progress, with the file as `fstat` saw it: reads `await`, so other handlers run between
`BeginRead`, each `ReadChunk` and `FinishRead`, and the provider may append to or replace the file.
`cursor[f]` and `job[f]` are rows of `sources` and `reingest_jobs`. `hook[h]` counts events fired and
remembers those whose delivery succeeded, after which the relay deletes its copy. `covered` and
`torn` are history variables that no guard reads. `ReadChunk` may throw in the middle, as
`registry.ingest` may; `FinishRead` flushes and then, in the same turn of the loop, stores the cursor,
either of which may fail. `RestartDaemon` stands for a crash at any time and for the end of a stop;
a graceful stop is a sequence of `Evict` steps and then `RestartDaemon`.

### Delivery: `QuotaLock`, `HookSpool`, `LiveSession`

`QuotaLock` has one action per command of the script: `step[s]` is the command sender `s` runs next,
`owner` the lock file, `reaper` the guard directory of whoever removes a dead owner's file. `Kill` ends
a sender between any two; `ExpireGuard` is the daemon's removal of a stale guard.

`HookSpool` takes the lock as given (`inside`), and has the senders (`Capture`, `Post`, `Enter`, two
counts of the queue, then `Publish`, or `Mark` and `Discard`; `KillSender` at any of them) against
the daemon's drain (`StartPass`, `ClaimFile`, `FlushBatch`, `Unlink`, `ReleaseMarker`, `EndPass`) with
`CrashDaemon` between any two. `place[h]` is the name the envelope's file has, `counted[h]` what
its sender counted, `dropped[h]` the marker under which it was shed, `markers` and `gaps` the
markers in place and in the ledger.

`LiveSession` has the log as it is published, `flushed` of which is stored; `AnswerSnapshot`,
`OpenStream` (replay, then subscription, as one turn of the loop), the `wire`, and the page: `Reload`,
`ReceiveSnapshot`, `FailSnapshot`, `ReceiveFrame`, `Fold`, each under a generation. `Crash` and `Drop`
end the daemon and the connection.

### Reading a database: `StoreTailer`

The provider adds steps, ends them, reverts them and may replace the whole database (`Add`,
`EndStep`, `Revert`, `Replace`). `Poll` is one round: signature, read under `RowBudget`,
ingest, flush, cursor, continuation or end of the re-ingest job; between rounds everyone else may act,
and each write may fail while `faults` lasts. `cursor` is the tailer's, `saved` the stored one;
`remembered` is what the source keeps of its last read. `owed` is a history variable: what a job
had to read, has not read and was not made to wait for.

### What is told and folded: adapters, `Reducer`, `SessionReport`

The four adapter modules have a provider that writes records in any legal order and a parser that
reads each as it comes; the log keeps the first event of an id. `RolloutParser` decides which exit code
and output a command gets whose call yields, is polled, or runs beside others in a code cell
(`calls`, `pending`, `chunks`, `openCells`, `callExits`). `RolloutTurns` has turns with and without ids,
agents named by thread and by path, and patches. `TranscriptParser` reads a transcript whose
records repeat the usage of their response, from its beginning again at any time (`Reread`).
`OpencodeMapping` polls rows that are still being written in pieces of any size and meets them again.

`Reducer` folds a transcript (complete, in order, late: `ReadRecord`) and hooks (less, in any
order, or never: `HookArrives`) into one `run`: turns, calls, results, file changes, checks with their
review item. `SessionReport` has the report: review items, kept in the order of the log, and verdict,
coverage and status, computed from times.

### Derived again: `HistoryWarmup`, `UsageBackfill`

`HistoryWarmup` replays stored sessions whose checkpoint an upgrade made stale: `Pick`, `Slice` by
slice, `Conclude` or `GiveUp`; between two slices a session may be opened, ingested into, flushed,
checkpointed or removed, work paused, and the version upgraded again. `changeLog[s][n]` is the reducer that
derived event `n`'s rows. `UsageBackfill` has workers that read a page (`ReadPage`) and account it later
(`CommitPage`), while usage is stored, and sessions are forgotten or retained; a worker may be killed.

### Stored sessions: `Maintenance`, `Retention`, `StoreUpgrade`

`Maintenance`: `doing[o]` is the step of operation `o`, from the preflight over the lock directory,
pause, copy, verification, probe, rollback link and rename to reopening and release; most steps may
throw (`Throw`, `Undo`), a process may be killed at each (`KillOperation`), and daemons start, write
and stop. `fileRows` are the rows of each file, `path` the one under the store's name.

`Retention`: `settings` is the configured policy, `policy` the store's. A daemon starts (`StartKeeper`
writes the configured policy over the stored one), reads what was missed, prepares the usage rollup,
and sweeps in batches; `ApplyOffline`, `ConfigSet`, `RetentionSet`, `ConfigReset`, `Pin`, `ForgetKept`
are commands; providers write in days past and present.

`StoreUpgrade`: `OpenStore` finds a store of any version, `CreateTables`, `CreateRest`, `AddColumn`,
`Migrate`, `MarkVersion` are the statements of the constructor in order, with a crash or failure
between any two (each migration is one transaction, which may fail); `Record`, `Replay`, `Backfill` are
what an opened store is used for. Rows are records of what migrations ask of them.

### What a daemon answers: `Explainer`, `ProjectMap`, `PageSettings`, `ConsumerFeed`

`Explainer`: coordinators load, get events, fall silent, are evicted; a call is made at the boundaries
the chosen stop names, takes a slot, may time out or be aborted (`Close`), delivers later or never;
`Present` is the personalization that shares the slots. `ProjectMap`: `Allow` and `Revoke` are
commands of another process, requests wait in `queue`, and its head reads in steps (`TakeTurn`,
`Locate`, `FinishMap`, `FinishCheck`) between which grants, directories and objects change.
`PageSettings`: a page has `requests` under way that are served at once and answered in any order or
never, while others change the configuration, the alerts and the page's token. `ConsumerFeed`: what coordinators
announce (`Ingest`, `StartCall`, `CallAnswers`, `SummaryTimer`, `LateSummary`), what a connection was
told, the list's cache, and a consumer that reads again what it is told has changed.

### Processes and alerts: `Lifecycle`, `MacService`, `Alerts`

`Lifecycle`: `process[p]` is what runs under a pid: a daemon at a step of its start (`Bind`, `Publish`)
or stop (`CloseServer`, `CloseStore`, `LookAtJson`, `Unlink`), another program that got the pid
(`Reuse`), or nothing. `command[c]` is a command between a look and what it does next (`Find`, `Kill`,
`Wait`, `Ensure`, `Launch…`, `Await…`, the steps of the service, `GuardStore`, `WriteStore`).
`MacService` has the procedures that `Lifecycle` takes as one step, file by file, with `Fail` and
`Finally` at each and `KillInstaller` between them. `Alerts` samples health, raises, acknowledges,
recovers and announces; a restart forgets what was not announced.

### `CredentialLock` and `SyncOutbox`

Processes of `CredentialLock` share nothing but a directory, so an action is one system call. `at[p]` is
the call that process `p` makes next. `lock` is the directory at the lock's path: an inode number (a
freed one may be used again), the owner, and for each holder the process that linked the file
`reclaimed-<holder>`. A command takes the lock with one ticket and then exits, so the identity of a
ticket (inode and mtime) is the process. `Chains(dir)` is what `readLockState` returns: the claims
followed from the owner to the last; a directory that changes under five readings in a row counts as no lock
(`MayBeUnread`). `MakeDirectory`, `NameOwner` and `CheckClaim` are `tryTakeFree`; `LookAgain` and `Judge`
decide whether the lock is abandoned; `Claim`, `Confirm` and `Own` take it over. A link lands in whatever
directory is at the path by then. `ReadFile` and `WriteFile` are the commands; `Release` and
`SetAside` the release; `GiveUp` a process without attempts left; `Die` a crash anywhere. A
holder whose pid is known is gone exactly when its process is dead; a lock that nobody has named may be judged
abandoned at any time, since a creator may stall for longer than the five seconds of grace.

`SyncOutbox`: every method is one transaction and so one action on the record `db`, which `Backup` copies
whole and `Restore` puts back; the destination is external and may answer what it decided at any time, any
number of times.

## 3. The runs

| Run | Specification | What is asked |
| --- | --- | --- |
| `stored` | `Ingest` (two records, a hook event, a rotation, a restart, a forget) | Typing; cursors and acknowledgements are boundaries of recovery; removed stays removed; order of a file; no torn record; honest jobs. |
| `derived` | `Ingest` with every write failing, `Reducer`, `HistoryWarmup`, `UsageBackfill`, `SessionReport`, the adapters | State is replay, refinement of `EventLog`; channels agree; replays are current; usage is counted once; adapters tell what was recorded; a report does not contradict itself. |
| `recovers` | `CredentialLock`, `StoreTailer` | Exclusion, refinement of `CredentialFile`, revoked stays revoked; a dead holder is replaced; a database cursor passes nothing over; rows arrive. |
| `delivers` | `QuotaLock`, `HookSpool`, `LiveSession`, `Ingest` | One holder and a bounded queue; nothing lost unrecorded; a page shows a prefix; dead owners are removed, every file settles, a page catches up, records become durable. |
| `operates` | `Lifecycle`, `MacService`, `Alerts`, `ConsumerFeed`, `StoreUpgrade`, `Retention`, `SyncOutbox`, `Maintenance`, `PageSettings`, `Explainer`, `ProjectMap` | The safety properties of each. |
| `evicted`, `forgotten`, `zombie` | `Ingest`, closing writes fail | *Violations*, section 5. |
| `owners` | `Maintenance` | *Violation*, section 5. |
| `reordered` | `Reducer` in `MCDerived` | *Violation*, section 5. |
| `announced` | `Alerts` in `MCOperation` | *Violation*, section 5. |
| `chosen` | `Retention` | *Violation*, section 5. |

**Specifications side by side.** `MCDelivery`, `MCRecovery`, `MCDerived` and `MCOperation` put
specifications together that share neither variables nor steps: `part` is chosen at the start and only
the actions of that part are taken, so the states are the sum of the parts' states and not their
product. Every behaviour is a behaviour of one specification with the others at rest, so a property of
one part holds in the run exactly if it holds of that part's own specification (its initial state
satisfies it everywhere else). Fairness is each part's own, restricted to its behaviours. Parts that
choose something at their start choose it once where they are at rest.

**Bounds** (`Max…`, `…Budget`, `LastTurn`) limit the environment (providers, crashes, commands,
people), never the program: timers, retries, reads, evictions, scans and rounds are not counted.

- `stored`: two records are enough for a cursor to pass one and not the other, for a read to end between
  them, inside one, or after both, and for them to be stored in the wrong order. One restart is enough for
  every "before and after a crash" pair, because nothing in memory survives it. Calls from outside (a hook
  event, a forget) and repeated reading (a rotation, a job) each get behaviours of their own
  (`ApartSpec`), which keeps the run in its time; the theorems have no such limit. One session: each action touches
  one session, except retention, whose steps are independent per session. `FlushThreshold` is 2
  (250 in the code), so that the threshold, the timer and the caller each get to flush first.
- `recovers`: two commands that create and one that revokes let a second creation read the list that a
  revocation changes; three row numbers, one removal and two rows per round let a job be suspended
  between rounds and a row be taken back meanwhile. Exclusion with four processes, in which a dead owner, a
  stalled reclaimer, its successor and a fresh creator meet, is what the theorem is for.
- `delivers`: three contenders are an owner that dies and two that reclaim; two envelopes with one
  place in the queue meet the limit, shedding and pressure markers; three live events and a replay of two
  reach the reload that a gap asks for.
- `derived`: two calls that may share an output and a handle, three responses of which the second is an
  agent's, three rows, an old session on both sides of a new one.
- `operates`: two pids and two commands of every kind with two starts and a crash; two operations of
  maintenance; three requests of a page; two items, a backup and a restore; three store rows and two
  mishaps of an upgrade; `HistoryDays` 1 below the only period 2 keeps the order of the code's 7 and 30
  days. Pids and commands are interchangeable, and the run has safety properties only, so
  `SYMMETRY` is sound.

`CHECK_DEADLOCK` is off in every run: a provider may stop writing, a command that is done takes no more
steps, and once the bounds are used up nothing has to happen.

**Fairness**, in `delivers` and `recovers` only. The scan runs every minute and the sweep every two
seconds, so a file whose size or inode differs from what the tailer or the cursor knows is read again:
`WF(Changed /\ ReadNow)`. A read in progress is a chain of promises that the event loop continues:
`WF(ReadChunk)`, `WF(FinishRead)`. A pause has a lease that the daemon expires: `WF(Resume)`. A stop
that has begun ends and the service manager starts the daemon again: `WF(stopping /\ RestartDaemon)`.
A failed flush is retried for ever with a backoff; the run assumes that SQLite does not refuse it for
ever: `WF(FlushSucceeds)`. The drain and the polls are timers that are armed again:
`WF(Drain)`, `WF(Poll)`, `WF(FlushQueue)`; a file that the drain meets again and again is claimed and
stored at last: `SF(ClaimFile)`, `SF(Stores)`, where `SF` says that neither the disk nor the store refuses
each time. A sender or command that is not killed goes on to its next command or system call:
`WF(Contend)`, `WF(Take(p))`, `WF(Work(p))`; the daemon removes stale guards: `WF(ExpireGuard)`. A page
whose connection is open reads and folds, and one whose load failed loads again: `WF(PageStep)`,
`WF(Reload /\ mode = "failed")`. Nothing is assumed of watch events, hooks, providers, deaths, giving up.

`Recovers` asks that the last holder be dead and named. A lock that its creator never named is recovered too, but
only after the five seconds of grace, and a command gives up after three, so one attempt does not promise it.

## 4. What is proved

Every theorem holds for every value of the constants that satisfies the modules' named assumptions:
any number of sessions, files, commands, senders, rows, any bounds. Some are under a hypothesis that
closes a hole of the code found on the way; for each, flipping the constant shows TLC the violation
(section 5), so the hypothesis says how far the code keeps its promise, and is no convenience:

| Hypothesis | Says |
| --- | --- |
| `Healthy`: `FaultyWrites \subseteq {"flush", "cursor", "forget"}` | closing writes, checkpoints and fingerprints do not fail (violated otherwise: `evicted`, `forgotten`, `zombie`) |
| `~GuardExpires` | the daemon removes no reclaim guard whose maker is still at work |
| `~LosesTail` | a crash loses no event that a page has been sent |
| `~NumbersRepeat` | a replaced database does not use the sequence numbers of the old one |
| `~RowsReturn` | a session that was forgotten is not stored again under its id |
| `~ReusesBackups` | no backup older than the present generation is restored |
| `~Downgrades` | no older daemon replaces a newer one |
| `~CommandsRace` | no configuration command writes what it read before another write |
| `~UnlinkRaces` | no daemon publishes between another's last look at `daemon.json` and its removal |
| `~LocksRace`, `~DaemonsRace` | reclaiming a stale maintenance lock is one step; no daemon opens the store between the probe and the swap |
| `[](Len(ledger.alerts) < MaxRetained)` | the ledger of alerts never drops one for want of room |
| `PrintsAll` | a cell of Codex that prints results prints those of all the commands it ran |
| `NamesPrompts`, `~ResumesMidFile` | a prompt of Claude Code has an id; a transcript is parsed from its start after a restart |
| `~Ties`, `MaxLag = 0` | in a session, each change of a file and each check has a time of its own, after those before it in the log |

Nothing beyond the assumptions is needed for retention, the spool, maps, explanations, the consumer feed, the
upgrade of a store, always-on mode, the credential lock, the turns of Codex and the rows of OpenCode.

None of the properties is inductive. What each proof adds, and the argument:

**`IngestProofs`** (`[]TypeOK`, `[]CursorCoversDurable`, `[]AckedIsDurable`, `[]LogIsDense`,
`[]StateIsReplay`, `[]CheckpointIsPrefix`, `[]ForgottenStaysGone`, `[]NothingTorn`, `JobIsHonest`, `[]FileOrder`, `KeepsPromise`). `IngestInv` is

- `SessionInv`: nothing is orphaned; the log is dense and no two rows share a seq or an id; a loaded
  coordinator *continues* its log, that is, its queue is numbered from the log's end to its own
  next seq, its state is log and queue, and every id it has seen is in one of the two; a checkpoint
  is a prefix; a removed session has nothing and is not loaded.
- `TailerInv`: a source's inode is the file's or an older one; a read in progress has a snapshot
  that the file still extends unless it was replaced; only a parser that started at byte 0 is
  `synced`; and every record before a source's offset is *safe*, that is, durable, in the
  session's queue, or of a removed session.
- `PromiseInv`: what a cursor has covered and what was acknowledged is durable.

For the cursor: `FinishRead` flushes first, and after a flush that succeeded everything safe is durable;
the records before the offset are safe; so the records that the new cursor covers are durable, and no later
step takes a row away but those that remove the session. For the log: a loaded coordinator continues
its log, so the rows of a flush collide with nothing, and `INSERT OR IGNORE` ignores nothing.
For the order of a file: log and state are *closed from* the first record that can still be read (`ClosedFrom`), that is, with a record of a
file they have those before it; a read hands records over in order and an id seen before is dropped, so nothing is stored behind a
later record. `KeepsPromise` is the refinement of `EventLog` step by step: every step appends new rows to one log, erases it for
good, or stutters.

**`CredentialLockProofs`** (`[]LockTypeOK`, `[]MutualExclusion`, `ActsAtomically`, which is `CredentialFile!Spec`, and
`[]RevokedStaysRevoked`, which follows from the refinement and a theorem about `CredentialFile` alone). `LockInv` adds
that the lock exists and names whoever is inside; that only dead holders are judged and claimed, except that anyone may
claim a lock without an owner; that a reclaimer about to rename its ticket over a dead owner still has the lock
it judged, with its own claim at the end of the chain (`ReplacingIsPinned`); and that the list a writer has
read is still the list in the file. Two chains of claims on one owner agree as far as both go (`ChainsAgree`, by the
least index at which they differ), and every process in a chain but the last is dead, so two live reclaimers with
confirmed claims are one (`OneReplaces`); a process inside is alive and the owner, so no dead owner can be there to
be replaced (`OneHolds`). Hence a step of one process leaves the lock of another alone (`LockStays`).

**`DeliveryProofs`** (`[]SpoolLimitsHold` of the composition, `[]NothingLost`, `[]ViewIsPrefix`). `QuotaInv`: the lock is
signed by the one inside; who is at the steps of reclaiming holds the guard; and whom a reclaimer is about to remove is dead
*and still the owner*, since it reads the owner again under the guard. `SpoolInv`: whoever counts is alone in
the lock, and what it counted covers the queue, because nobody else publishes and the drain only takes away; so the file it adds keeps
the ceiling. That a claimed file is counted under its other name is why the second count is never too small (`ClaimCounts`). An envelope that is
gone is durable or its drop is in a marker or a recorded gap. `LiveInv`: frames on the wire are events of the log at their position, those of the
page's generation come from the stream it follows, one snapshot at most is of that generation, and between two loads view
and pending are the start of the log up to where the stream goes on; so a frame is the next one, a duplicate, or
shows a gap.

**`RecoveryProofs`** (`[]ReplayIsCurrent`, `[]NothingPassedOver`, `[]UsageCountsOnce`). `WarmupInv`: a change log has rows for exactly the stored
events; a live coordinator is at or ahead of a log derived by its own version; a checkpoint of the running version vouches for
the whole log. The hard step is `Conclude`, which must find that nothing was stored or opened since
its last slice. `StoreInv`: numbers are not reused and no turn follows a step that runs; whatever a cursor of the present database
is past is recorded and will not change (`RecordedTo`); a job's poll owes only what is ahead of its cursor; and a session
remembered as read to its end has nothing settled after it, which is what allows a poll to skip it.
`UsageInv`: what is accounted of a session was told by its rows, and each message is accounted by the last row that tells it, as far as the
backfill came and since the upgrade; a page still under way holds rows of its session, and a session that was skipped had no old usage. What the
rows of a page add is a recursive function; it is shown without induction over data, from an explicit function that satisfies the recursion
(`LastCounted`) and the least index at which a solution would count otherwise.

**`ServerProofs`** (`[]ServedUnderGrant`, `[]NothingUnseen`, `ShownGetsNewer`, `[]SlotsAddUp`, `OffMeansOff`, `[]ConsumerConverges`).
`MapInv`: what a grant's number says of the grant in force, it says of its directory (`SameGrant`), for tasks and for maps in memory
and on disk. `SettingsInv`: a revision tells its content wherever it is held, and an answer of the newest request is no older than
what is shown. `ExplainerInv`: a session has one call under way at most, calls end with their coordinator, and
the slots are the calls that generate; `OffIsTold` says that off was told to every coordinator. `FeedInv`: of
every session, a connected consumer has read the latest evidence, or a message that makes it read is pending, or a timer that will announce it
is armed; nothing told or read is newer than the session.

**`OperationProofs`** (`[]CommandsAreRight`, `[]RuntimeSurvivesFailures`, `[]DestinationFollows`, `AcknowledgementHolds`). `LifecycleInv`: instances are numbered as they
start; one process has the port, and `daemon.json` names the one that serves and the one about to remove it; the pid a command
is about to signal belongs to the instance it found or to nobody (`StopsOne`), since a pid does not pass to another program
between the look and the signal while it is found running. `MacInv`: the marker precedes the LaunchAgents, and the marked runtime is under its name
or, between the two renames, under that of the previous one. Its theorem is about commands that are not killed.
`OutboxInv` says of the database, and of the backup, that puts of an item have rising revisions and are of one grant, that every deletion is told on the
control lane and a deleted item is not live, and that a live item is on the data lane behind every fence, under a grant that is not revoked; of the
destination, that it decided on a prefix of each lane, that what it took of the control lane keeps its effect, and
that without a restore it holds what was put of live items. For alerts: what an evaluation keeps of the ledger is a recursive
function, of which `PickedHas` says that it has every element picked and is no longer than the ledger; an acknowledged alert lapses only with its
condition, so it is kept, and with room behind it the cut does not reach it.

**`KeepingProofs`** (`[]NothingLiveIsSwept`, `[]NoRowLost`, `[]UpgradeIsComplete`; and `[]OneOwner`). `RetentionInv`: a daemon that
sweeps has read what was written while it was down, as far back as it reads; a deleted session has neither row nor coordinator
nor pin. `MaintenanceInv`: the lock names who works, and from the verification on the copy has the rows of the store in
use. `UpgradeInv`: a store satisfies the contract of the version it is *marked* with (so a crash before the mark costs
nothing), each place of the constructor has what the statements before it did, ids are distinct, and what is stored of the rows
was made of them as they are; one lemma for each migration (`To2Sound` to `To78Sound`) says that it turns the
contract of its version into the next, and drops what was derived of rows it changed.

**`DerivedProofs`** (`[]AdaptersTellTheTruth`, `[]ReportGivesOneAnswer`, of the parts together: `PartsAlone` shows that a behaviour of
`DerivedSpec` is one of each part). `RolloutInv` relates what the parser remembers of a rollout to what Codex did: an open cell has the calls the
cell printed, a command filed under a cell is one the cell ran, the exit codes filed under a text are those of the
processes of that text that have ended, and a running handle leads to the call that yielded it; so the one code or the one
candidate that is left is the command's own. `TurnsInv`: the parser's turn is the last that began, a prompt told under its turn alone is the first of
it, and a patch that waits was called. `TranscriptInv`: there is a position `h`, at or after the offset, up to which the log tells the transcript exactly
(`LogTells`) and the usage of each response is accounted to its last record (`Accounted`), whatever a reread
has told again; the parser remembers the prompt, the open calls and the last usage of what is before the offset (`Remembers`). The
usage is a sum over the responses: the lemmas on sums (`Reweighed`, `SumChanges`, `AddsToChanges`) say what a changed, new or
repeated weight does to one, for the recursion that the community module `FiniteSetsExt` folds with. `MappingInv`: every row before the position
was told whole, with true events that agree where they share an id, so a poll in pieces, a reread or an early tool changes nothing (`TrueEventsAgree`).
`ReportInv`: checks come in the order of their times, a check is stale when a file changed after it, the items of failed checks are those of the failing methods
(`FailuresListed`), and an item of unverified changes exists only while there are some, and with their number at the end of a turn (`UnverifiedListed`). Order by time and
order by log are then one, and the last covering pass is the last in the log (`LastPassIs`, `FailingIs`). The summary of a method is recursive; as for rows and alerts, an
explicit function made of steps (`StepsMakeFunction`) is shown to satisfy the recursion, and the least position at which it would be wrong (`UpToN`) gives what it computes.

`LogIsDense`, `CheckpointIsPrefix`, `LockTypeOK` and the inductive invariants are proved but no run checks them. TLC checked
each as an invariant before it was proved. Proving corrected what was stated four times:
`CommandsAreRight` asked that a restarted daemon have a *higher* number than the one it replaced, where the code
promises only another one; `SyncOutbox` had a destination that refuses a put under a grant newer than the revocation it knows, which two revisions do
not show and three do; `NothingLiveIsSwept` did not say how recent a write missed while the daemon was down must be to be read; and
`NothingPassedOver` overlooked a final row that a revert between two rounds of a job leaves waiting behind an
open step, which TLC finds only with eight sequence numbers.

**Only model-checked.** Liveness (`DeadAreReaped`, `EveryFileSettles`, `CatchesUp`, `RecordsBecomeDurable`, `Recovers`,
`RowsArrive`) needs fairness and ENABLED, which the prover does not reach. `RunAgrees` compares folds of the same events in every order and in any two channels: that the order
does not matter is an induction over permutations, with an operator as a parameter. What holds when checkpoint, fingerprint or closing writes fail (run `derived`) is model-checked only.

## 5. Where the code and its documentation disagree

Each of these has a run.

1. **An idle session whose flush fails is dropped** (`evicted`). `evictIdle` calls `close()`, which
   ignores that its flush failed, and deletes the coordinator (`sessionRegistry.ts:505-516`). `flush`
   of a session that is not loaded returns `true` (`:247-249`), so the tailer stores a cursor over
   records that are in no table, and a crash loses them. `docs/architecture.md:102-103` promises that
   "An event batch is durable before its source cursor advances".
2. **A forgotten session can come back** (`forgotten`). The retry timer that the failed closing flush
   armed is not cancelled by `close()` (`sessionCoordinator.ts:651-655`, `:670-678`) and stores the queue
   after the tombstone is written.
3. **A closed coordinator can stay registered** (`zombie`). If `close()` throws in `saveCheckpoint`,
   `forget` never reaches `live.delete`. From then on every event of the session is dropped, and each
   flush reports success, so the relay deletes its copies.
4. **Two owners of the maintenance lock** (`owners`). `acquireMaintenanceLock` judges the lock stale and
   then removes whatever directory is at its path (`maintenance.ts:163`); ADR 0004:49-50 says "An atomic directory
   lock permits one maintenance owner."
5. **The order of channels shows** (`reordered`). A turn that ends on the hook channel marks its running calls
   unknown; a result read afterwards upgrades them, but neither applies file changes nor derives the
   check (`reducer.ts:325`), where `:803-804` says that "replay order cannot change the outcome".
6. **An all-clear that nobody saw** (`announced`). A hook known as modified counts as recovered as soon as one inspection
   has no answer or the daemon restarts (`alerts.ts:202`), and the notification says "The hook file
   matches an approved version."
7. **A kept history is swept** (`chosen`). `salidium retention forever` writes the policy to the store only; a starting daemon
   writes the configured one over it and sweeps (`daemon.ts:302`), where `main.ts:917` said "Session history is kept
   forever."

The first three need a store write to fail (disk full, or the lock held longer than the busy timeout by the
backfill worker), at the moment named.

**Observations without a run of their own.** A constant in parentheses is `FALSE` (or the value named) in the runs and
shows the violation to whoever flips it; a property named with "no run" is defined in its module and is violated there.

- *Core*. `src.offset` advances before `registry.ingest` (`transcriptTailer.ts:403`): with `"fingerprint"` in
  `FaultyWrites`, a read that throws starts the next one behind the lost records (`CursorCoversDurable`).
- *Credential lock*. `credentialLock.ts:41-43` says that a claim which landed in a fresh lock is "never part of its chain". A claim
  named `reclaimed-none` does become part of the chain of a fresh lock that is not named yet; its creator then gives way
  and the lock stays until that process exits. Exclusion is not affected.
- *Quota lock* (`GuardExpires`, `OneInside`). The daemon removes a reclaim guard by age (`hookIngress.ts:499-506`), whoever is at work under it.
- *Spool*. An `mv` that fails because the drain claimed the file makes the relay write a pressure marker though nothing is full
  (`daemon.ts:1186-1187`); a drop decided between the archiving of a marker and its removal is not inside the recorded episode.
- *Live stream* (`LosesTail`, `ViewIsPrefix`): events are published before they are stored, so after a crash other events take
  their numbers. If the flush at the opening of a stream fails, the replay is short until the next event (`httpServer.ts:580`).
- *Store tailer*. `seen` is set before a batch is stored (`storeSource.ts:478-483`); a job that needs more rounds than
  `MAX_ROUNDS_PER_TICK` never completes (`MaxRounds = 1`, `RowsArrive`); `seen` has no identity of the database (`NumbersRepeat`,
  `RowsArrive`). A job does not read again the tools of a running step, nor rows that a revert between its rounds left waiting.
- *Warm-up* (`Downgrades`, `ReplayIsCurrent`): rows and checkpoint of an open are two transactions (`sessionCoordinator.ts:281`, `:293`). The
  last `isLive` check of the warm-up is redundant; the `latestSeq` check is what guards against a removal.
- *Usage backfill* (`RowsReturn`, `UsageCountsOnce`): a session that is forgotten after its page was read, and stored again before the page is
  written, is charged for what it no longer holds (`sqliteStore.ts:1926-1928`).
- *Reducer*. A hook's result with an unknown exit, then a rollout's failing one, makes the status failed without counting
  the failure; the review item `verification-failed:<method>` is keyed by method only; a Codex hook takes a patch for not applied if its text
  contains "failed" or "error"; `upgradeFailedActivity` goes on for `rejected`; `deriveStatus.ts:4` orders "waiting > working > idle >
  ended" but `ended` is returned first and `endedAt` is not cleared on resume.
- *Adapters*. A single pending result is taken as a poll's own (`PrintsAll = FALSE`, `CompletionIsItsOwn`, `toolMapping.ts:188`); turns of a transcript
  whose prompts have no id may share one (`NamesPrompts = FALSE`, `TranscriptTold`; `ResumesMidFile = TRUE` shows why a file is read again from its first byte); the last message of an
  OpenCode turn may be given to another (`LastMessageIsOfItsTurn`, no run, `MaxRows = 4`, `storeSource.ts:431-442`), and a directory listing counts as
  a read (`ListingIsNoRead`, no run).
- *Report* (`Ties = TRUE`, `MaxLag = 1`, `ReportGivesOneAnswer`): items go by the order of the log and the verdict by time
  (`reviewRules.ts:78-86`). A final-message question sets waiting without a review item (`WaitingIsListed`, no run, `reviewRules.ts:149`); a claim
  without evidence is never resolved; an open failed item keeps its old label; a turn whose end is inferred never gets the unverified rule.
- *Explainer* (`WorkDuringCallCounts`, no run). Work that ends during a call is not explained after it
  (`sessionCoordinator.ts:143-145` against `:564`, `:582`); the idle timer is armed again only by ends of turns (`:511-515`); an eviction
  soon after it aborts the call just started (`:106-111`).
- *Settings* (`CommandsRace`, `NothingUnseen`): configuration commands read, modify and write without a lock
  (`configuration.ts:353-378`; ADR 0004:71-73). Explainer settings have no generation, a profile loaded before a save may be shown after it,
  a save's answer is painted whatever the token, and a recovery from the previous copy uses revisions again.
- *Maps*. `commitExists` does not look at the grant again after its awaits; a revocation deletes the cache of the record it listed before
  it took the lock (`mapCommand.ts:134-145`).
- *Consumer feed* (`AnnouncedAreServed`, no run, with `CallsOutlive = TRUE`). A summary that a closed coordinator announces late names a session that is
  no longer served (`sessionCoordinator.ts:587-592`; ADR 0005:138). In the page's list, a reconnection only adds, so what was forgotten meanwhile stays, and
  late list or search answers put a removed session back; the case named at `appStore.ts:289-293` cannot arise.
- *Lifecycle* (`UnlinkRaces`, `FoundWhereServing`, `daemon.ts:899-901`). A daemon that has opened the store but not yet published is invisible to
  offline commands (`OfflineWritesAlone`, no run). A second SIGTERM exits at once, because `stop()` was already called.
- *Always-on mode* (`InterruptedIsRepairable`, no run, `macosService.ts:492`). A kill between the two renames leaves no `current`, and a later
  installation that fails deletes `previous` too.
- *Alerts*. With more alerts than are retained an acknowledgement is forgotten (`MaxRetained = 2`, `AcknowledgementHolds`).
- *Upgrade* (`QuarantinedAreReadAgain`, no run). From schema 3, migration 4 takes the file from the rows it quarantines, and migration
  5 reads again only files that rows name.
- *Retention*. A daemon that starts while collection is paused sweeps though it read nothing (`NothingUnseenIsSwept`, no run;
  `transcriptTailer.ts:152-155`, comment near `daemon.ts:950`); it reads back 7 days, periods are 30 and more; `retention apply` offline trusts the
  stored status (`NothingLiveIsApplied`, no run; `docs/architecture.md:180`); `config reset` keeps the policy (`Resets`;
  `docs/using-salidium.md:198`).
- *Maintenance* (`DaemonsRace`, `NoRowLost`): the copy is verified before the daemons are excluded, and they are let in before the
  rename (`optimizeStore.ts:494`, `:521`, `:529`). A kill between pause and resume leaves collection paused until the lease expires; after
  `failure`, the warm-up stays paused until a later maintenance completes (near `daemon.ts:417`).
- *Outbox* (`ReusesBackups`, `CursorCoversDecided`): when a backup older than the present generation is restored, a generation begins that
  was there before, and positions acknowledged in it cover other operations (`sqliteSyncOutbox.ts:669-672`). After a restore, a deletion covers only the revisions that the backup knows.

## 6. What is abstracted, and what is not modelled

- *Core*: a file truncated in place and grown beyond the old offset before the tailer looks (it cannot be
  told from an append); loss of power (with `synchronous=NORMAL` the last transactions may be lost); records above the
  size limit; re-ingest jobs whose file is gone; failing writes of a job's status; a read that takes more than thirty minutes; the hour after
  which an idle source is dropped, and all other delays (a timer may fire at any time); hook events that arrive during a pause (the relay drops them by
  design). A checkpoint that fails in a timer ends the process, which is `RestartDaemon`.
- *Lock*: the sweep of leftovers of dead processes, which the lock never reads; earlier releases of the program, which
  remove a lock by its path (the comment at `credentialLock.ts:44` gives up on them); a reuse of pids, which delays a recovery; two takings by
  one process; the daemon's reader of the file.
- *Spool*: oversized payloads; the legacy spool of one file per day; envelopes that name no provider.
- *Store tailer*: several sessions and providers, lanes and forks, time and byte budgets, the backoff.
- *Adapters*: polls without a handle, web, MCP and plan records (Codex); titles and branches; lanes, forks, warnings for
  malformed rows (OpenCode).
- *Reducer and report*: claims, plans, git records, subagents, absorbed calls, events without a turn, summaries of output; destructive
  commands, pushes, the wording of what is next, grouping of items.
- *Warm-up, backfill, upgrade*: a `close()` that throws, the order of picking, counts; the cursor by rowid; several sessions in one upgrade,
  encodings of payloads, the repair of summaries, pragmas.
- *Retention, maintenance*: compaction; the usage rollup is in `UsageBackfill`, resurrection in `Ingest`.
- *Answers*: what a map or a prompt contains; limits per minute; eviction by size and corrupted cache entries (maps); status that ages with time,
  heartbeats, credentials, unrepresentable and internal sessions, the read cache (feed).
- *Processes*: pause and resume by stop and service commands, output, onboarding, doctor; a removal of the service is assumed not to fail; the age of
  the queue, daemon health and maintenance failures as conditions of alerts.

Text classification (redaction, claims, commands), rendering, installers other than the service, enrichers and the protocol's types are left out:
sequential functions of text, read-only observation, or types. `PROJECT.json` says it component by component.

## 7. The plan

| # | Modules | Abstract specification, properties and theorems | State |
| --- | --- | --- | --- |
| 1 | `SessionLog`, `Ingest` | `EventLog`; recovery boundaries, dense log | proved, but for liveness |
| 2 | `CredentialLock` | `CredentialFile` | proved, but for liveness |
| 3 | `LiveSession`, `ConsumerFeed` | a page shows a prefix; a consumer converges | proved, but for liveness |
| 4 | `QuotaLock`, `HookSpool` | one holder, a bounded queue, nothing lost unrecorded | proved, but for liveness |
| 5 | `StoreTailer`, `HistoryWarmup`, `UsageBackfill`, `StoreUpgrade` | a cursor passes nothing over; replays are current; usage counts once; upgrades are complete | proved, but for liveness |
| 6 | `Maintenance`, `Retention`, `Lifecycle`, `MacService` | no row lost, nothing live swept, commands tell the truth, failures keep the runtime | proved |
| 7 | `Explainer`, `ProjectMap`, `PageSettings` | slots, grants, no unseen overwrite | proved |
| 8 | `SyncOutbox` | cursors cover only what the destination decided; it follows | proved |
| 9 | `SessionReport`, `Alerts`, adapters | what is told is what was recorded; one answer; acknowledgements hold | proved |
| 10 | `Reducer` | one run from two channels in any order | checked; induction over permutations is out of the prover's reach |
| 11 | Enrichers | throttled observation of a working directory | not modelled |
