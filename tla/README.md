# Verification of dsh-opencode-go-provider

TLA+ models of the OpenCode Go provider bundle (paths below are relative to the
repository root, so `src/lifecycle.ts` is the file of that name).

## 1. Inventory

| Component | Source | State | Operations | Hard part |
|---|---|---|---|---|
| Reconciliation | `src/reconcile.ts`, `src/catalog.ts` | none (pure); carries catalog / quarantine / deprecated / generatedAt from run to run | `reconcile`, `deriveCatalogModel` | long histories: grace clocks, tombstones, resurrection, wall clock |
| Cache reader | `src/cache-parse.ts`, `src/cache-schema.ts`, `src/catalog-parse.ts`, `src/state-file.ts`, `src/snapshot.ts` | cache file | `readCache`, `loadInitial` | must accept whatever the writer may write, refuse the rest |
| Cache writer | `src/cache.ts` | temp file, target file, unsynced directory entry | `writeCacheAtomic`, detached directory fsync | abort, fs error or crash between any two operations |
| Bounded attempt | `src/sync.ts`, `src/cancellation.ts` | fused abort signal, deadline timer, five awaited seams | `attemptReconcile`, `raceCancellation` | late answers, hung seams, abort between an answer and its use |
| SWR lifecycle | `src/lifecycle.ts`, `src/scheduler.ts`, `src/control-wiring.ts` | snapshot, in-flight promise, abort controller, two timers, counters, dispose promise | `start`, `catalog`, `refresh`, `notifyConfigChanged`, `dispose`, timer callbacks | single flight, disposal racing a commit, timers re-arming, restarts |
| Host wiring | `src/service.ts`, `src/config.ts` | source thunk, registered facts, directory entry | mount, settings attach / commit / detach, unload | route and source must change together, foreign directory entry |
| Adapter | `src/adapter.ts`, `src/stream.ts`, `src/provider.ts`, `src/options.ts`, `src/context.ts` | memoised snapshot, one stream per request, idle watchdog, gathered tool-call arguments | `listModels`, `resolveModel`, `stream`, `toStreamChunks`, `toPiContext` | catalog swap / key rotation / timeout / consumer stop during a stream, interleaved blocks |
| Replay state | `src/replay.ts`, `src/replay-state.ts` | kept by the harness beside each turn | `toReplayState`, `readReplayState`, `toPiAssistant` | every turn that is kept must come back, block by block, in all later requests |
| Control seam, doctor, status | `src/control.ts`, `src/control-wiring.ts`, `src/doctor.ts`, `src/status.ts`, `src/credentials.ts` | credential store (external), the service captured at the mount | connect, disconnect, status, doctor | a check (`describe`) before the await, a write after it; hung doctor seams |
| Web routes | `src/web-routes.ts` | bounded body accumulator | four handlers | byte bound, decode after overflow |
| Connect card | `src/client/connect-card.tsx`, `src/client/connect-remote.ts` | phase, key input, busy, notice, doctor | mount read, connect, test, disconnect | the mount read answering after a connect |
| Settings migration | `src/migration.ts`, `src/migration-fs.ts`, `src/migration-fs-read.ts`, `src/migration-parse.ts` | settings file, lock, backup, temp | dry-run, apply | concurrent editor, concurrent apply, crash with the lock held |
| Catalog generator | `src/generator.ts`, `scripts/update-models.ts` | the committed `catalog/*.json` | bootstrap and live run | idempotence; an interruption between two files |
| Boundary parsers | `src/models-dev.ts`, `src/model-record.ts`, `src/urls.ts`, `src/guards.ts` | none | parse | data, not protocol |
| Client registration | `src/client/index.tsx`, `src/client/locales.ts` | none | registers the card | texts |
| Commands and bin | `src/commands.ts`, `src/commands-render.ts`, `src/bin.ts`, `src/line-input.ts` | none | argument dispatch, rendering | wording |

Interactions: the adapter and the control seam read the lifecycle's snapshot
through `catalog()` (which may arm a refresh); the lifecycle runs one attempt at
a time, the attempt reconciles against the snapshot it started from, the writer
publishes the result on disk, and only then does the lifecycle swap the snapshot;
settings commits reach the lifecycle through `notifyConfigChanged`; the plugin
fiber disposes the lifecycle; the card talks to the control seam through the web
routes; the adapter's turns come back to it as history, through the harness; the
generator's manifest is what a release ships and a host falls back to; the migration
only shares the settings file with an editor and with other migrations.

## 2. Modules

Each module models one component. `CatalogLifecycle` composes attempt, writer and
lifecycle, `CatalogHistory` the generator with the hosts its manifest is shipped to,
`ControlPlane` the card, the routes, the control seam and the doctor, `TurnReplay` the
translator with the replay of its turns. What the two halves of the host know of each
other is an abstract specification, `PluginSource`: `HostWiring` implements it and
`ControlPlane` relies on it, so the card is proved to be right over any plugin that
keeps that promise, and this one does.

| Module | Models | State and actions against the code |
|---|---|---|
| `OwnerSignal` | the `AbortController` of an owner | `aborted`: the owners whose signal has aborted |
| `SyncAttempt` | `attemptReconcile`, `raceCancellation` | `seam`: the await an attempt is at (`key`, `meta`, `metaBody`, `live`, `liveBody`); `race`: whether that await has been decided; `owed`: seams that were overtaken and may still answer; one action for a seam settling, one for the code after it, one for the deadline |
| `CacheWriter` | `writeCacheAtomic` | `write` / `landed`: the file operation awaited and whether it has taken effect; `temp`, `disk`, `lingering`: the temp file, the target and the directory entries a power loss may bring back |
| `CatalogLifecycle` | `CatalogLifecycle` class, `loadInitial`, the settings commits and the disposal of `service.ts` | `periodic` / `immediate`: the two timers; `inFlight`, `controller`, `perform`: the single flight; `snapshot`, `stats`, `lastAttempt`; `alive`, `born`: processes |
| `CommitThenServe` | what lifecycle, attempts and writer promise together | abstract: the generation published, the one served, whether a swap is owed. `CatalogLifecycle!Contract` is the refinement mapping, `CommitsThenServes` the property |
| `Reconcile` | `reconcile`, the checks of `cache-parse.ts` | operators only: one per part of the result, one per check |
| `CatalogGenerator` | `generateCatalogFiles`, `scripts/update-models.ts` | `artifacts`: the committed files, as rendered; `ReadBack`: what the parsers make of them, models without their family; `run`: the run in progress, its output and the files it has not written yet; a run may be cut off between two files |
| `CatalogHistory` | a release and a home directory over many refreshes and restarts | `shipped`: the embedded manifest; `served`, `cache`, `clock`; `Refresh(o)` for every observation `o`, restarts, a clock that moves both ways |
| `Migration` | `dryRunMigration`, `applyMigration` | `settings`, `lock`, `backups`, `temp`: the files; `phase`: the file operation a migration awaits; `approved`, `parsed`, `base`: what it has read so far |
| `AdapterStream` | `OpenCodeGoAdapter.stream`, the protocol of `toStreamChunks` | `phase`: the await or the yield a request is at; `signal`: the first reason its watchdog signal was aborted for; `events`: where the translator is; `memo`: the adapter's memoised snapshot |
| `TurnReplay` | the blocks of `toStreamChunks`, `toReplayState`, `toPiAssistant`, `toPiContext` | `rawArguments`, `blocks`: the translator's; `native`: the model's blocks; `history`: the turns the harness keeps; `origin` remembers what each was (a history variable) |
| `HostWiring` | `apply` of `service.ts` | `source`, `facts` (`registeredFacts`), `own` (`directory`); `settings`, `section`, `scoped`, `injected`, `committed`: the settings service; `scope`: what the scope attached last yields, which outlives its service; `foreign`: the other bundle's entry |
| `PluginSource` | what `apply` promises the readers of its source thunk | abstract: `mounted`, and the reference `current()` yields (`apiKeyEnv`). `HostWiring!Plugin` is the refinement mapping, `SuppliesSource` the property; `ControlPlane!Plugin` takes its actions |
| `ControlPlane` | `connect-card.tsx`, `connect-remote.ts`, `web-routes.ts`, `control.ts`, `doctor.ts` | `phase`, `input`, `doing` (`busy`), `notice`: the card's; `call`: where each of its requests is on the host; `store`: the credentials; `trusted`: whether anybody else changed them since the card last asked (a history variable) |

The modules named `..._proofs` hold the theorems (section 5), those named `MC...` the
instances. The name of an operator is that of the method or of the event it models;
`PROJECT.json` maps every one to its lines. A definition commented "Wrong variant" is
the mutated form of the definition after it: replacing the one by the other must break
a named property.

What the models abstract:

- An await is where an action ends. In `SyncAttempt` and `CatalogLifecycle` the
  settling of a promise and the code behind it are two actions, so that timers,
  aborts and other callbacks get in between; this allows more orders than the
  microtask queue does. In the other modules the code behind an await touches
  nothing another task of the process reads before it, and is merged with it.
- A catalog is its generation in the lifecycle and a function from ids in the
  reconciliation, whose models are their facts and whether `family` is there
  (`renderCatalogModel` writes it, `parseCatalogModel` drops it); a response is good,
  bad or an error; a settings document is its shape and an identity of the rest of its
  text, and its revision the document itself; a configuration is its credential reference in `HostWiring`; a text or a
  piece of arguments is known by where it came from in `TurnReplay`. A clock is read
  once at the start of an attempt.
- `freshnessHits`, `initialOrigin`, log lines and failure wording are left out. What
  throws between two awaits of an attempt (`reconcile`, a seam that throws instead of
  returning a promise, `buildSnapshot`) fails it (`ContinueThrowing`, `AttemptFails`),
  but for the first seam, the key lookup, which is an async function.
- `patches.json` is an input of the generator that a run writes back as it was parsed:
  the interruption before it is modelled, its content is not.
- The replay of a turn is modelled for the turns of this adapter: the checks of kind,
  version, api, provider and model (`src/replay.ts:57`, `readReplayState`), which those
  always pass, are left out.
- The abort controller a write listens to is that of its attempt: single flight
  (proved) makes `this.abort` that controller.
- `CleanUp` of the writer is one step for closing and removing the temp file; write,
  sync and close of a migration's file are one step each file. Modes, symbolic
  links and the identity gates of `migration-fs-read.ts` are left out.
- In `ControlPlane` there is one card at a time; what its earlier requests started on
  the host goes on after it has left, what they report concerns nobody. The outcome of
  a test and the kind of a notice are left out.
- Power loss, editors, `AbortSignal`, the idle watchdog, pi-ai, the settings and the
  credentials service, `fetch` and the harness's message store are external and
  modelled from how the code uses them: the watchdog's timer runs while a `next()`
  is pending, its signal keeps its first reason, pi-ai answers an aborted signal and
  ends every block before `done`; a write the credentials service rejects may have
  been stored; the scope of a settings service that has gone yields the last value it
  had, and the watcher of a commit is lost with the service it belongs to.

## 3. Runs

| Run | Instance | What it shows |
|---|---|---|
| `lifecycle` | 2 attempts, clock 0..2, two configurations, one of which the schema refuses, failing operations, power loss (a kill is one that loses nothing), refused caches | single flight; accounting; no attempt reconciles against a snapshot that is gone; no rename after disposal, and nothing at all once it has resolved; the served observation never goes back within a process; the refinement of `CommitThenServe` |
| `liveness` | 2 attempts, seams that answer well, badly, with an error or never; failing operations, kills | an ok attempt saw no cancellation and leaves no seam unanswered; the code of a failure names what stopped it; disposal resolves, attempts settle, a stale catalog is refreshed or has failed to be |
| `writer` | 2 processes, failing operations, kills, power loss | the cache file is whole at every instant; a write that reported a failure has published nothing; no temp residue |
| `history` | 2 ids (symmetric), 2 generator runs at the instants 1 and 3, clock to 4, grace 1, future tolerance 1 | a generator run over its own output keeps models, first detections and grace clocks, one repeated after an interruption ends where the undisturbed one would have; whatever a host writes passes the reader's consistency checks; grace ends on time; an entry keeps its clock for as long as it lasts, and only a refresh or the fall-back to the embedded manifest, which forgets all, ends it; in a refresh a deprecated id only leaves by returning; the same observation twice changes nothing |
| `migration` | 2 migrations, an editor, 2 backup timestamps, 4 documents, failing reads and operations, kills | one migration at a time; every applied one has a whole backup of the document it read last, which is the reviewed one; nothing is left behind; the lock of a living migration is always released |
| `stream` | 2 requests, 3 catalogs of which one lacks the model, one delta before the terminal event | a request keeps its catalog; every exit aborts the upstream request; a timeout is told as one; a normal end has a finish chunk; every pending `next()` settles |
| `turns` | 2 blocks, 2 pieces of arguments a call, 2 turns | each call is published with its own pieces; no turn makes a later request fail; a completed turn comes back signature by signature |
| `host` | 2 configurations and one the validation refuses | the route is registered for what requests read (until a pending watcher has run), and that is serviceable; a service that goes leaves the entry as the source; the refinement of `PluginSource`, from the mount to the end of the teardown and after it |
| `card` | 2 references, 2 calls at a time | an idle card without a notice tells the credential, unless somebody else changed it since the card last asked; its buttons always come back |
| `cache_keys` | as `history` | violated: the reader's key set lacks a key the writer writes |
| `grace_selectable` | as `history` | violated: a model that disappears is not selectable during its grace |
| `late_edit` | as `migration` | violated: an edit saved after the last comparison is overwritten |

Why the bounds are enough: the hazards are between two attempts (the second starts
while the first winds down), two processes, two migrations, two requests, two blocks of
a turn, an action and a call that was sent before it, or one of these and an editor, a
timer, a disposal; the third adds no new pair. Two ticks of the clock are a fresh and a
stale catalog and a clock set back; four give a grace of one tick a start, an inside, an
end and an after. Two generator runs are one to be interrupted and one to follow; a
third run, over what the second left, is what `RerunKeepsState` and `InterruptionHeals`
compute at every instant. One delta is a stream that has begun; two
pieces are the least that can be put in the wrong order. Two turns are a history and a
request that reads it. Each MC module and .cfg names its bounds. The two ids of
`history` are interchangeable, so symmetry is sound there: that run states no liveness.
`CHECK_DEADLOCK FALSE` stands where the system really stops: every attempt used up,
every process gone, the last turn kept, the clock and the runs at their bounds.

Fairness. Timers that are armed fire, promises that are settled continue, file
operations settle; in `ControlPlane` the network delivers a request and a reply or
fails, the credentials service settles and the doctor's deadline fires. Nothing obliges
a network seam, the key lookup or the fetch of a doctor, an attachment store, a
consumer, a user or an editor to do anything. One obligation is external: pi-ai ends or
sends an event once its signal is aborted; without it `iterator.return()`
(`src/adapter.ts:224`) waits for ever, and the idle timeout with it.

## 4. Where code and documentation disagree

With a run:

- `CATALOG_MODEL_KEYS` lacks `family`, a key `parseModelRecord` sets on every model:
  every cache that serves a model is refused at the next start, and the embedded
  catalog is served instead (`src/cache-schema.ts:8`).
- A model that leaves the live list is evicted from the catalog in the same run
  (`src/reconcile.ts:138`); README.md:99 keeps it selectable for its grace.
- README.md:137 and `src/migration.ts:190` promise that a late edit is refused; one
  that is saved between the last read and the rename is lost, and is in no backup.

Without a run, things a maintainer may want to know:

- Generator: `parseCatalogModel` drops `family`, too (`src/catalog-parse.ts:174`), so
  what a run reads back (`ReadBack`) never equals what it is about to write:
  `generatedAt` moves on every rerun with at least one model, and frozen models lose
  their family. The test `tests/generator.spec.ts:49` ("is byte-identical on reruns even
  when the clock advances") states the opposite; `Stamp` does what the code does, and
  `RerunKeepsState` says what a rerun does keep. For the same reason the embedded
  catalog is served without families.
- Catalog: the reader refuses a non-evicted deprecated id that is not in the
  catalog, a state the text of README.md:99 would need; `graceMs` of the configuration
  is never read; a negative age counts as fresh (`src/lifecycle.ts:163`); a host whose
  clock is behind the `generatedAt` of its bundle writes envelopes its own reader
  refuses (`src/cache-parse.ts:120`; the models assume a clock that is not); a
  bootstrap run of the generator empties `deprecated.json`, so the grace periods of a
  later live run start anew.
- Files: a temp file outlives a kill; `persist` is not under the attempt's deadline; two
  hosts sharing a home publish in the order of their renames, not of their
  observations; `--revision` is accepted in upper case and compared in lower case;
  every failure to create the lock file is reported as `locked`; a killed migration
  leaves its lock for ever.
- Adapter: the comment at `src/adapter.ts:168` says the snapshot is captured "at
  invocation", while an async generator runs nothing before its first `next()`, so a
  catalog swapped in between is the one used; key and attachments are awaited outside
  the idle timeout; a tool call cut short by the token limit throws `INVALID_REQUEST`
  out of the stream, and the turn has no usage.
- Wiring: the credentials service is captured once at the mount
  (`src/control-wiring.ts:69`), while adapter and doctor look it up at each use, so one
  that is mounted later leaves card and commands unconfigured and read-only; a settings
  service that attaches after the mount does not call `notifyConfigChanged`
  (`src/service.ts:228`), so the periodic timer keeps the old interval for one round; a
  foreign directory entry that disappears is replaced only at the next commit; a settings
  service that goes before the injected callback was dispatched (`src/service.ts:220`)
  leaves no fallback behind, and its last configuration stays in force until another
  service is attached.
- Card: a mount read that is still out when an action begins may overwrite its result
  (`src/client/connect-card.tsx:147`); `store-failed` is shown when only the status
  read after a successful connect failed; a disconnect keeps the outcome of an earlier
  test on display.
- Commands: `src/commands.ts` returns its rendering promises from inside `try` without
  awaiting them, so their rejections bypass the `catch`.

## 5. Proofs

tlapm proves, for every value of the constants that satisfies the named assumptions:

- `CatalogHalves_proofs`, of `SyncAttempt`: for any set of attempts and answers, the
  invariant `SyncInv` (each await is raced at most by its own seam and the signal; what
  an attempt has gathered is exactly the good answers before its await) and from it the
  outcome properties of run `liveness`, and two that no run checks: nothing is asked
  after a cancellation (`NoSeamAfterCancel`), and the deadline timer is owned by a
  running attempt (`DeadlineIsOwned`). Of `CacheWriter`: for any set of writers and
  faults, `WriterInv` (the fsync is behind every close, a rename publishes flushed
  bytes, every directory entry a power loss may bring back was published by a rename)
  and from it that the file is always whole, the report is true, nothing is left
  behind, and (no run checks it) an abort stops the write.
- `CatalogLifecycle_proofs`: for any number of attempts, clocks and configurations,
  `LifecycleInv`: the invariants of the two halves (their lemmas are cited, step by
  step, since the lifecycle's network and disk steps are steps of theirs), `Flight`
  (the attempt in flight, its controller and its `perform` phase fit together),
  `Timers`, `Publishing` (what is on disk is what memory serves, or will once the
  write in flight has returned) and `Accounting`. None of them is inductive alone:
  accounting needs single flight, single flight needs that an attempt clears only its
  own promise, agreement needs that the writer's report is true. From it follow every
  safety and action property of run `lifecycle`, and two that no run checks: the
  periodic loop stays armed, disk and memory are one generation while nothing is
  being written. With it,
  `Numbered` (attempt `n` publishes generation `n`, and generations on disk or in
  memory are attempts that were born) and `Unserved` (what is published and not served
  is the write in flight's) give the refinement of `CommitThenServe`: each action of
  the lifecycle is one of the contract or leaves the three facts alone.
- `CatalogHistory_proofs`: for any ids, models, grace period and clocks. `GeneratorInv`
  says that the files are one output, or the part of one that is written already beside
  the rest of what it was computed from (`Half`); that a quarantine and a deprecation
  record computed once more over any such mixture, as it is read back, come out the same
  (`QuarantineStable`, `DeprecationStable`) gives `InterruptionHeals` and
  `RerunKeepsState`. `HistoryInv` says that every state served or stored is `Lawful`
  (typed entries, tombstones past their grace, nothing served twice, no instant after the
  refresh) and gives the host's properties of run `history`; `ClocksKept` covers restarts
  too, and needs `Remembered`: a snapshot with entries is the one in the cache file, once there
  is a file.
- `Migration_proofs`: for any set of migrations, documents, timestamps and faults,
  `MigrationInv`: `LockIsHeld`, and for each migration `Reads` (from the first read on
  the parsed document is the reviewed one; the second read fixes what the
  removal is computed from), `Saved` (its backup holds those bytes, whole once
  written) and `Residue` (what it has created and not yet removed). A step of one migration leaves
  the others `Untouched`, so each action is a lemma about its own migration. From it
  follow all safety properties of run `migration`.
- `AdapterStream_proofs`: for any set of requests, catalogs and deltas, `StreamInv`: the
  types and, for each request, `Opening` (nothing is sent before `streamSimple`, and
  the captured snapshot is the one of the request's beginning), `Signalled` (which
  reason its signal may be aborted for at which await), `Telling` and `Finishing`
  (the finish chunk is out exactly while the translator is at its last place). The
  four safety properties of run `stream` follow; `Signalled` is what they lack to be
  inductive: without it a rejected `next()` may be told as `ABORTED` of nobody. Each
  action is a lemma about its own request, as in `Migration_proofs`.
- `TurnReplay_proofs`: for any number of blocks, pieces and turns, `TurnInv`: what an
  open call has gathered is what the wire delivered of it (`Gathered`), what is
  published is what ended and can be presented (`Published`), a stream goes on only
  while all that ended can (`Streams`), and every message in the history is worth what
  it was to a later request (`Serves`). The step that keeps a completed turn needs that
  the kept content has one entry for each native block, in their order: the harness
  numbers the ended blocks (`Rank`), and when all have ended a strictly growing numbering
  into `1 .. n` takes every value (`EveryRankIsTaken`), so the k-th entry is the k-th
  block (`ContentIsComplete`). The three properties of run `turns` follow.
- `HostWiring_proofs`: for any set of configurations, `ScopeIsRegistered` (a
  registered namespace has a service and is what a mounted plugin reads, commits are its
  own, and what a scope yields is serviceable, also when its service is gone) makes
  `TopologyFollowsSource` inductive, and gives `SourceSupplied`, the refinement of
  `PluginSource` step by step: nothing touches source or scope once the teardown has ended.
- `ControlPlane_proofs`: for any set of references and any number of calls, `CardInv`.
  `CardTellsTheCredential` says nothing of a busy card, and is lost without what is
  known of one: each handler waits for a call of the kind it began, and the mount read
  and the handler never for the same one (`Handlers`); a trusted card writes only once
  its mount read is in (`OneWriter`); what a read has seen so far on its way through
  the seam, the reference and later the answer, is still so (`ReadsAreCurrent`); and a
  test leaves phase and notice as they were, so what holds while idle holds while
  testing (`PhaseIsCurrent`). A step of the host is shown of the call that takes it
  (`HostStep`); a step of anybody else is noticed or harmless (`Bystander`).

Assumptions: the named `ASSUME`s of the modules only (sets of constants, bounds being
naturals); TLC evaluates them in the runs. Each inductive invariant was first checked
as an invariant of its run (`TurnInv` without the type of the history variable
`origin`, whose members TLC cannot compare).

Every safety invariant, action property and refinement a passing run checks is thus
the statement of a theorem. Only model-checked: all liveness (`DisposeResolves`,
`AttemptSettles`, `StaleIsRefreshed`, `LockIsFreed`, `NextSettles`, `BusyEnds`), since
the prover has no rules for fairness.

## 6. Not modelled, and the plan

Planned: the body accumulator of `src/web-routes.ts` (no decode past the bound, no chunk
after an overflow).

Left out for good: the boundary parsers (`src/models-dev.ts`, `src/model-record.ts`,
`src/catalog-parse.ts`), the request conversion beyond the assistant history, commands
and their rendering, and the texts of the client are stateless transformations of data
or wording, which their unit tests reach; the build, packaging and audit scripts are
one pass over files, before a release; `lib/` is what the build makes of `src/` (with
the YAML parser bundled, some six thousand lines of it), and the models are of `src/`.
