# Verification of the ces-importer

TLA+ models of the `ces-importer` (this repository), the TLC configurations that
check them on small instances, and theorems about them that TLAPS proves for
every value of the constants. Paths below are relative to the repository root,
`src/` in `PROJECT.json`, whose `map` names, for each definition, the lines it
is translated from.

- [The system](#the-system)
- [What is hard about it](#what-is-hard-about-it)
- [The modules](#the-modules)
- [The runs](#the-runs)
- [Fairness](#fairness)
- [The proofs](#the-proofs)
- [Where the code and its documentation differ](#where-the-code-and-its-documentation-differ)
- [What is not modelled](#what-is-not-modelled)
- [Plan](#plan)

## The system

The `ces-importer` takes over a Cloudogu EcoSystem (the *source*, also called
the exporting system) into another one (the *target*). It consists of two
programs: the *coordinator* (`cmd/ces-importer`), a Deployment with one pod,
and the *import job* (`cmd/import-job`), a Kubernetes Job that the coordinator
creates for each migration.

Most migrations are *delta* migrations. The *final* one, at a timestamp from
the configuration, puts the source into maintenance mode and lets the target
take the FQDN of the source.

    users ----ConfigMap--+                              exporter (source system)
    cron  ---------------+                               ^ HTTP        ^ HTTP, ssh
    timestamp -----------+                               |             |
                         v                               |             |
    main -> Run -> [ MigrationSchedule ] -> RunMigration [ Migrator ]  |
                                              |    |    |              |
                        [ BlueprintControl ] -+    |    +- Job ------> import job
                        [ DoguControl ] -----------+   [ JobService ]  [ ImportJob ]
                                                                       |   |   |
                                                       [ DataSync ] ---+   |   |
                                                       [ ConfigImport ] ---+   |
                                                       [ FqdnChange ] ---------+

    RunMigration, its volumes only [ VolumeMigration ]:
        [ SystemValidation ] -> [ VolumeResize ] -> ... the job ... -> [ RsyncPipe ]

### Components

| Component | Code | State it keeps | Operations | What makes it correct |
|---|---|---|---|---|
| Migration schedule | `migration/run.go`, `timestamp.go`, `manual/manual.go`, `cron/cron.go`, `cmd/ces-importer/main.go` | an `atomic.Bool` `migrationRunning`, the final timestamp, the context, the position of three goroutines | `Run`, `runDeltaMigration`, `runFinalMigration`, `WaitUntil`, `WaitUntilReady`, `WatchConfigMaps`, `startManualMigration`, signal, restart | no two migrations at once; the final one runs once, in time; no request is lost or served twice; the flag is always cleared |
| Migrator | `migration/runner.go`, `migration/context.go`, `logging/logger.go` | the error of the run, the recovered panic, the joined error | `RunMigration`, `cleanup` | while data is copied nothing runs in the target and the source is frozen; what was stopped is started again; no failure is hidden |
| Dogu control | `api/importer/doguClient.go` | `spec.stopped` of the dogus in the cluster | `StopAll` (and its wait for the pods), `StartAll` | it returns only when the pods are gone; the wait ends |
| Blueprint control | `api/importer/blueprintClient.go` | `spec.stopped` of the blueprints, the list `stoppedBlueprints` in memory | `StopBlueprint`, `StartBlueprint` | each blueprint the importer stopped is known to it |
| Job service | `migration/jobService.go` | the job, the watch on it, a goroutine that copies its log | `Run`, `watchEvents`, `createGetWatcherFunc`, `streamLogs` | nil means that the job succeeded; it returns |
| Job specification | `migration/jobProvider.go`, `pvc.go` | – | `GetImportJob` | no retry, cleaned up after its TTL, told of the FQDN change |
| Import job | `cmd/import-job/main.go`, `executer.go` | collected errors | `run`, `Start` | success means that all was imported; the FQDN changes last |
| Data sync | `migration/sync/rsync.go`, `api/exporter/exportdogu.go` | the dogu the exporter exports (one, for everybody), collected errors | `SyncData`, `SyncDoguDir`, two goroutines that read what rsync prints | each directory gets the data of its own dogu; no error is lost; it returns |
| Configuration import | `migration/config/*.go` | global config, two configs for each dogu, `local.yaml` files, backup schedules | `SyncConfig`, `importGlobalConfig`, `importDoguConfig`, `importLocalConfig`, `importBackupSchedules` | keys of the target that must stay do stay; nobody sees half a config |
| FQDN change | `migration/fqdn/*.go` | FQDN and certificate, and a backup of both in the cluster | `ChangeFQDN`, `backup`, `update`, `restore`, `deleteBackup` | all or nothing, and recoverable in between |
| Maintenance mode | `api/exporter/maintenance.go` | the mode of the source | `Enable`, `Disable` | on while the final migration copies, off after a failure |
| Mail | `mail/*.go` | – | `Send` | tells the result that was |
| Volume resizer | `systeminfo/dogu_volume_resizer.go` | the size in the spec of each dogu, the capacity of its volume, a channel of errors | `ResizeDogusIfNeeded`, `resize`, `waitForPVCResize`, a goroutine for each volume and one that closes the channel | it ends; no send on a closed channel; data finds room |
| System information and validation | `systeminfo/provider.go`, `validator.go` | – | `GetImporterSystemInfo`, `GetExporterSystemInfo`, `Validate` | refuses systems that do not fit, and no step after it meets one it cannot handle |
| Preflight check | `cmd/ces-importer/preflight.go` | the export dogu of the exporter, which its SSH test sets | `runPreflightCheck` | refuses to start when a check fails |
| Exporter API client, Kubernetes clients, configuration, logging, deployment | `api/exporter/client.go`, `api/importer/clients.go`, `configuration/*.go`, `logging/`, `k8s/helm/` | – | – | – |

### How they interact

- **Shared memory.** The three triggers share `migrationRunning` and one
  `Migrator`, which owns one `BlueprintControl` with its list. No lock is
  involved anywhere.
- **The API server.** Coordinator, import job, dogu operator, blueprint
  operator, backup operator and users act on the same resources. A call can
  fail before or after it had its effect.
- **Contexts.** One context is cancelled by SIGINT or SIGTERM. Every call with it
  fails from then on, those of the cleanup included. `main` waits five seconds
  for `Run`, not for the other goroutines.
- **Goroutines.** The cron task, the watcher, the final migration, the log
  streamer of each job, the resizers with the one that closes their channel, the
  two readers of each rsync.
- **The exporter.** HTTP calls for maintenance mode and export dogu, rsync over
  ssh. The export dogu is set by the import job and by the preflight check.
- **The specs of the dogus.** The size in a spec is written by the resizer,
  followed by the dogu operator in its own time, and read by the provider of the
  *next* migration as the size of the volume.

## What is hard about it

The hazards are listed with their lines in `PROJECT.json`. In short:

- *Interleavings* of three triggers over a flag that is loaded and stored in two
  steps, cleared by whoever ends first, and never set by the final migration.
- *Ordering*: the manual trigger deletes its ConfigMap before it looks at the flag;
  the delta trigger sets the flag before it looks at the clock.
- *Stale watches*: a job may end between `Create`, `List` and `Watch`; a watch
  may expire; its channel is closed with undelivered events.
- *Partial failure*: any step of a migration, of its cleanup, of the import job
  or of the FQDN change, before or after its effect, with errors to be collected.
- *Crashes* anywhere, with the state of the cluster left for the next process;
  what the coordinator knows of stopped blueprints is in memory only.
- *Waiting*: for pods, for jobs, for logs, for the flag, for finalizers, for
  volumes that are to grow, for a process that waits to be read.
- *State taken for another*: a size that was asked for as a size that is there, a
  simple name as a full one.

## The modules

| Module | Models | Uses |
|---|---|---|
| `MigrationSchedule` | who starts a migration and when | – |
| `Context` | the context of the process | – |
| `DoguControl`, `BlueprintControl` | stopping and starting | `Context` |
| `JobRunner` | **abstract**: what `JobService.Run` promises | `Context` |
| `Migrator` | `RunMigration` with its cleanup | `DoguControl`, `BlueprintControl`, `JobRunner` |
| `JobService` | `JobService.Run` in detail; implements `JobRunner` | `Context`, `INSTANCE JobRunner` |
| `AtomicChange` | **abstract**: what `ChangeFQDN` promises | – |
| `FqdnChange` | `ChangeFQDN` call by call; implements `AtomicChange` | `INSTANCE AtomicChange` |
| `DataSync`, `ConfigImport` | `SyncData`, `SyncConfig` | – |
| `ImportJob` | the import job as a whole | `DataSync`, `ConfigImport`, `INSTANCE AtomicChange` |
| `SystemValidation` | `Validate`, as operators over two systems | – |
| `VolumeResize` | `ResizeDogusIfNeeded` with its goroutines | `SystemValidation` |
| `RsyncPipe` | `SyncDoguDir`: rsync, its pipes and their readers | – |
| `VolumeMigration` | the volumes over several migrations: validated, resized, copied into | `VolumeResize`, `RsyncPipe` |
| `MC…` | the values of constants for TLC | the module of that name |
| `…Proofs` | theorems | the module of that name |

The composition goes through the two abstract modules: `Migrator` is built on
`JobRunner`, `ImportJob` on `AtomicChange`, and the detailed modules are shown
to implement these. The users of the two use them only as they allow, which is proved as
well: `RunnerIsUsedAsPromised`, also for panics and the end of the process, and
`ChangeIsUsedAsPromised`, for which the import must leave the FQDN in the global config alone. So the product of a job watcher with a migration, or of the
calls of an FQDN change with the import of configurations, is never explored.
`VolumeMigration` is the other way to cut `RunMigration`: the steps that read and
write sizes of volumes in detail, and the rest as one choice.

### MigrationSchedule

`run`, `delta`, `final` and `manual` are the positions of `Run` and of the three
goroutines; each action is one step between two operations on shared state, so
`DeltaLoads` (`run.go:92`) and `DeltaStores` (97) are two actions, as are
`ManualLoads` and `ManualStores`. `running` is the flag, `holders` (history)
who stored true since it was last cleared. A migration is one long stay in the
state `migrating`. `starters` are the ConfigMaps in the API server, `events`
those that the open watch has still to report. The clock `now` ticks up to
`MaxTime`; `finalTs = 0` is the zero `time.Time`. When the cron expression fires is left
open: it may at any time, which includes every expression. `Signal` cancels the
context, `Exit` and `Crash` end the process, `Restart` starts the pod again.

### Migrator

`step` is the step of `RunMigration` or of `cleanup` under way. `runErr` is
`runError`, `retErr` the set of steps whose errors are joined in the result,
`failed` (history) the set of those that did fail; that the two are the same set
up to emptiness is a property, and not one that holds by construction, because
a cleanup error is joined with `runError` and not with those before it. Each call is a
begin action, steps of its own in the component's module, and an end action.
`Panics` may take any step of the run. `faults` and `finalResult` (history)
let properties speak of causes. A final migration may follow one that failed, as
one that began early in a shutdown does; that a proper one is never repeated is a
matter of `MigrationSchedule`.

In `DoguControl` the dogu operator (`OperatorActs`) is external: it follows
`spec.stopped` with the pods, in its own time, and nothing requires it to.
`BlueprintControl` keeps who stopped a blueprint (`stoppedBy`) and which stops
the importer never learned of, or forgot (`forgotten`), as history.

### JobService and JobRunner

`queue` holds what the RetryWatcher of client-go, modelled from how
`jobService.go` uses it, has still to deliver; it begins with the first change
after the `List`. `streamer` and `attempts` belong to the goroutines that copy
logs, which may outlive their `Run`. The job controller, the TTL controller and
users who delete jobs are external. `JobRunner` says: at most one job for each call,
nil only if it succeeded or the context is done; it has no fairness.

### FqdnChange and AtomicChange

One action per call to the cluster, each with the outcomes *applied and
returned*, *applied and failed*, *not applied and failed*, the retries folded
in. `at` is where `ChangeFQDN` is, `saved` (history) what FQDN and certificate were when
it began. A `restoreError` is the phase `broken`, a killed job goes back to
`idle`. `AtomicChange` maps all of it to one phase `changing`.

### ImportJob, DataSync and ConfigImport

`step` is the part of `ImportExecuter.Start` under way. `DataSync` keeps the
dogu that the exporter exports, which every client of it shares, and for each
directory *whose* data was copied into it. `ConfigImport` keeps configs as
functions from keys to values and follows the code in when it reads a config,
what it merges, and when it writes; a write is one update of the registry, so
that what may be seen in between is what the code makes visible. A local config
file is `old`, `cut` (truncated), `new`, or its directory is missing; a backup
schedule is deleted, terminates until its finalizers are done, and is created
again. The next job starts with what the last one left, also when it was killed.
The export dogu may be set by a job that was left behind (`OtherJobExports`) or by
the preflight check of a coordinator that is started again beside its job
(`CoordinatorRestarts`); `overlapped` (history) marks the jobs this happens to.

The FQDN is part of `globalConfig`, the key `FqdnKey`, which stands for `fqdn`,
`alternativeFQDNs` and `certificate/type`: `ChangeFQDN` writes the three together
(`fqdn.go:166-206`), and all are in `globalConfigKeysToKeep`. So the import and the
change of the FQDN write the same config, and `Change`, the instance of `AtomicChange`,
has `Fqdn`, an expression over `globalConfig`, for its variable `config`. A target without an FQDN has
none after the import either, and `ChangeFQDN` fails at its backup before it writes.
An `alternativeFQDNs` that is missing is the same as an empty one, which a rollback leaves.

### SystemValidation, VolumeResize, RsyncPipe and VolumeMigration

A system is a function from simple names to what is installed under them, a
namespace with a version, and from components to versions. `Missing`,
`OtherVersion` and `Extra` are the three errors of `validateDogus`. The resizer
gets two lists of dogus with their sizes: `needed` is what the exporter told,
`known` what the specs of the target's dogus ask for (`wanted`), which need not
be what the volumes have (`actual`). `worker` is the position of the goroutine
of each dogu; the loop of `ResizeDogusIfNeeded` starts them, then one more
goroutine waits for all of them and closes `errorsChan`, which the caller drains.
A goroutine may fail at its `Get`, at its `Update` (also after the effect), or
give up after `MaxRetries` reads of the volume. `abandoned` (history) are the
dogus whose spec was written without anybody seeing the volume follow.

`RsyncPipe` has rsync write lines to one of two pipes of `PipeSize` lines, and
block on a full one; a reader takes line by line and ends with the pipe, or at a
line that is too long. `VolumeMigration` puts them in the order of
`RunMigration`, with migrations that fail before or after the resize, die
anywhere, and are followed by others while the source system grows.

## The runs

`tlc -config <cfg> <module>`; the five that expect a violation are in
[a section of their own](#where-the-code-and-its-documentation-differ).

| Run | cfg | Instance | Distinct states |
|---|---|---|---|
| `schedule` | `MCMigrationSchedule.cfg` | two ConfigMaps, timestamp unset, 1 (passes while the pod runs) or 2 (is waited for), clock to 2, two starts of the pod | 536 000 |
| `migrator` | `MCMigrator.cfg` | two dogus, one blueprint, one migration | 203 000 |
| `migrator_twice` | `MCMigratorTwice.cfg` | one dogu, one blueprint, two migrations, two jobs | 6 338 000 |
| `job_service` | `MCJobService.cfg` | two jobs, two attempts to read a log | 240 000 |
| `fqdn` | `MCFqdnChange.cfg` | three FQDNs, any number of jobs | 1 416 |
| `import_job` | `MCImportJob.cfg` | two dogus with data (one excluded), two with a config (one of them nginx), one schedule, two jobs | 1 087 000 |
| `volumes` | `MCVolumeMigration.cfg` | four dogus (nginx and one without a volume to back up among them), one component, 120 pairs of systems, two sizes, two migrations | 353 500 |

What they show:

- **`schedule`.** `FlagNeverLeaks`: the flag is set exactly while somebody who set
  it is on the way to clear it. `FinalNotEarly`: the final migration starts
  early in a shutdown only. `DeltaFinalExclusive`: a delta never overlaps the final
  migration although the latter does not set the flag, because the cron task
  stores the flag *before* it looks at the clock; the exceptions (the very
  instant of the timestamp, a shutdown, a manual migration that cleared the
  delta's flag) are stated and each of them occurs. `FinalAtMostOnce`: over
  restarts. `DeletedNeverTakenUp`: over reconnects and restarts.
  `FinalGetsItsTurn`, `FlagIsReleased`, `EventsAreHandled`: progress of the
  triggers, over a restart too; see [Fairness](#fairness).
- **`migrator`.** `SyncIsolated`: while the job of the migration copies, no dogu has a pod, no
  blueprint is active, and in a final migration the source is frozen.
  `ReturnTellsFailure`: nil is returned only if nothing failed. `CleanupIsComplete`: when
  `RunMigration` returns, after a panic or in a shutdown too, everything that was stopped
  is started again and the source is not frozen by a final migration that failed, but for
  the parts of the cleanup whose failure was logged. `MigrationsEnd`
  and `DogusComeBack`: a migration ends, and once it has begun to stop dogus
  all are wanted running again, or `StartAll` failed, or the process died.
- **`migrator_twice`.** What one migration leaves to the next. `BlueprintsAccounted`:
  a blueprint the importer has stopped is one it remembers, or one of the stated
  ways to lose it happened. `MaintenanceAccounted`: why the source is still in
  maintenance mode between migrations. `MailTellsOfJob`: what a mail of success does say.
- **`job_service`.** `RunKeepsPromise`: `JobService` implements `JobRunner`, which
  is what makes the results of `Migrator` hold for the code. `ReturnLeavesNoJob`: the only
  ways to leave a job running. `EndIsToCome`: whatever happened to the job between `Create`,
  `List` and `Watch`, the event that ends the loop of `Run` is on its way or still possible:
  the safety half of `RunEnds`. `RunEnds`: `Run` returns after the end of the
  job, whichever order `List`, `Watch`, the end of the job, its clean-up and the
  log came in.
- **`fqdn`.** `BackupCoversChange`: at each moment the old state is in place, or
  the change is complete, or the backup in the cluster is the old state.
  `ChangeIsAtomic`: `FqdnChange` implements `AtomicChange`.
- **`import_job`.** `OkMeansImported`: success means that everything was imported.
  `FqdnFollowsImport`: the FQDN in the global config and the certificate change only when asked
  for and after everything was imported. `KeptKeysKept`: the keys of the target that must stay
  do, at every moment of every job; the FQDN, one of them, is what it was until the job comes to
  change it, and again when the job fails, unless it could not be restored. `ConfigsAreWhole`: the dogu operator never
  finds half a config, over failures and kills. `ExcludedKeysStay`: a key that the user
  excludes never takes the value of the source, and one that both systems have is not
  lost; the finding `excluded_keys` is about the others.
- **`volumes`.** `NoSendOnClosed`: the channel of errors is closed after the last
  goroutine that may send on it. `VolumesHaveRoom`: when data is copied, its
  volume is large enough, *unless* an earlier migration had written the new
  size into the spec and had given up or died; that exception occurs.
  `ValidatedIsFound`: what the validator lets pass the resizer finds, except for a
  dogu in another namespace; that occurs too. `CopiedIsInstalled`: data is copied only into a dogu
  of the same version and namespace, although the validator checks the one and the resizer the
  other, nginx apart. `ResizeComesToEnd`: also when a volume
  never grows or cannot be read. `OutputIsLogged`, `SyncReturns`: rsync neither
  loses output nor hangs, whichever stream it prints to, except at a line that is too long.

Each property was also seen to fail: for each of them a mutant of a modelled
definition, kept next to it under a comment `Mutation:`, is named in `PROJECT.json`.

### Bounds, and why they are enough

- `Requests` (2): one request that is being served and one that arrives meanwhile;
  more of them behave like the second one.
- `Timestamps {0, 1, 2}`, `MaxTime` 2: the timestamp unset, ahead, reached and past.
- `MaxStarts` 2: before and after a restart. The clock moves with each restart,
  so a third start sees nothing that the second did not.
- `Dogus` (2): one behind and one before the position of a loop. `migrator_twice` has
  one, as nothing that it checks depends on dogus.
- `MaxMigrations`, `MaxJobs` (2): the one before and the one after; a job of the
  first one that still runs beside the second.
- `Names` (4) of `volumes`: two with a volume to be resized, so that one goroutine is
  done while the other waits, one without, and nginx. The target differs from the
  source in namespace, version, absence, and by an additional dogu.
- `MaxSize` 2: large enough or not. `MaxRetries` 1, 60 in the code: the try that
  sees the volume grown and the limit. `PipeSize` 1, `MaxLines` 2: a full pipe, and a line more.
- `MaxAttempts` (2), 100 in the code: the first failure and the last.
- `Values` (3): target, source, and another value to tell a second change from the first.
- Keys (the FQDN, kept, excluded, plain, old): one for each treatment.

`CHECK_DEADLOCK FALSE` stands where the system may stop: a process that was not
started again (bound `MaxStarts`), a `RunMigration` that threw its panic again,
and runs where the bounds on migrations or jobs are used up.

## Fairness

- *Schedule*: weak fairness of each goroutine's steps, of the clock, and of the
  exit after a signal. It includes that a migration ends, which `MigrationsEnd`
  and `RunEnds` show below under their own assumptions. None is asked of the cron expression, of users, of crashes,
  or of a watch: that it breaks, and that it can be opened again, may or may not happen. `WaitUntilReady`
  polls without a queue, so `FinalGetsItsTurn` has to exclude that deltas and
  manual migrations set the flag infinitely often; with an expression of
  realistic period they cannot, but that is not a matter of the code.
- *Migrator*: weak fairness of the calls and of the job: a call returns
  (clients have timeouts), a job ends. None of the dogu operator: a pod may stay
  forever, and the timeout of `StopAll` is what ends the wait. One call has no
  timeout, SMTP: that it returns is an assumption.
- *Job service*: weak fairness of `Run`, of each log streamer, of the end and
  clean-up of jobs (TTL), and of the closing of the channel once the context is
  done. A log stream ends with its pod or with the context.

- *Volumes*: weak fairness of each goroutine of the resizer, of the two readers, of
  `SyncDoguDir`, and of rsync, which writes or exits. None of the dogu operator: a
  volume may never grow.

The other specifications have no fairness: nothing about them is a liveness property.

## The proofs

TLAPS proves, for every value of the constants that the named assumptions admit
(that bounds are numbers, that "none" is not one of the values, that a bound on
migrations does not exceed that on jobs; for `ImportJob`, that configs are functions
from keys to values; for the volumes, that sizes are numbers and that there are finitely
many names. Nothing else is assumed about the size of any set):

| Module | Theorem | States |
|---|---|---|
| `MigrationScheduleProofs` | `TypeCorrect` | `TypeOK` |
| | `FlagSafe`, `FinalOnTime`, `Exclusion` | `FlagNeverLeaks`, `FinalNotEarly`, `DeltaFinalExclusive` |
| | `OneFinal` | `FinalAtMostOnce` |
| | `NoReplay` | `DeletedNeverTakenUp` (an action property) |
| `MigratorProofs` | `MigratorTypeCorrect` | `MigratorTypeOK` |
| | `JobIsIsolated` | `SyncIsolated` |
| | `NothingStaysStopped` | `CleanupIsComplete` |
| | `RunnerIsUsedAsPromised` | `RunnerSpec`: the use of `JobRunner` |
| | `NoBlueprintIsLost` | `BlueprintsAccounted` |
| | `NoFailureIsHidden`, `MailIsRight` | `ReturnTellsFailure`, `MailTellsOfJob` |
| | `SourceIsGivenBack` | `MaintenanceAccounted` |
| `FqdnChangeProofs` | `FqdnTypeCorrect` | `FqdnTypeOK` |
| | `OldStateIsKept` | `BackupCoversChange` |
| | `ResultIsTrue` | `ReturnIsTrue` * |
| | `ChangeImplementsAtomic` | `ChangeIsAtomic` (the refinement) |
| `JobServiceProofs` | `JobServiceTypeCorrect` | `JobServiceTypeOK` |
| | `ReturnIsExplained`, `NoEndIsMissed` | `ReturnLeavesNoJob`, `EndIsToCome` |
| | `RunImplementsRunner` | `RunKeepsPromise` (the refinement) |
| `ImportJobProofs` | `ImportTypeCorrect` | `ImportTypeOK` |
| | `OkIsTrue`, `FqdnComesLast` | `OkMeansImported`, `FqdnFollowsImport` (an action property) |
| | `KeysAreKept`, `NoHalfConfig` | `KeptKeysKept`, `ConfigsAreWhole` |
| | `ExcludedKeysAreSafe` | `ExcludedKeysStay` |
| | `NoDataIsMixedUp` | `OwnDataOnly` * |
| | `ChangeIsUsedAsPromised` | `Change!AtomicSpec`: the use of `AtomicChange` |
| `VolumeMigrationProofs` | `VolumeTypeCorrect` | `VolumeTypeOK` |
| | `ChannelIsOpen`, `ChannelHasRoom` | `NoSendOnClosed`, `SendNeverBlocks` * |
| | `ValidMeansSame` | what the three lists of the validator mean, name by name * |
| | `ValidatedDogusAreFound`, `CopiesFit` | `ValidatedIsFound`, `CopiedIsInstalled` |
| | `NoVolumeShrinks` | `SpecsOnlyGrow` * (an action property) |
| | `DataHasRoom`, `LogIsComplete` | `VolumesHaveRoom`, `OutputIsLogged` |

The statements marked with * are defined in the proof modules and are no property of a
run. `OwnDataOnly`: no volume receives another dogu's data, whatever calls fail, while
nobody else sets the export dogu. `ReturnIsTrue`: what `ChangeFQDN` returns is what is in
the cluster. `SendNeverBlocks`: a goroutine of the resizer with an error finds room in the
channel, so that none waits for the loop that drains it only later. `SpecsOnlyGrow`: no migration asks
for a smaller volume than the one before; like the rest of `VolumeMigration` it is about
migrations one after the other, with nobody else writing the sizes.

Every safety property that a passing run checks, and both refinements, are
theorems: the results of `Migrator` rest on `JobRunner`, which
`RunImplementsRunner` gives for the code, those of `ImportJob` on `AtomicChange`,
which `ChangeImplementsAtomic` does. The arguments:

- **`IInv`** (schedule). `DeltaFinalExclusive` is not inductive: in a state where
  the final goroutine polls an unset flag while a delta runs, the next step
  would break it. `FlagNeverLeaks` excludes that state, since a delta that runs
  has set the flag and only the end of a manual migration takes it away;
  `FinalNotEarly` gives that the clock had reached the timestamp when the final
  goroutine began to poll, so that a delta which then looks at the clock turns
  back, except in the very instant.
- **`OnceInv`**. After a start at or after the timestamp the goroutine is past its
  start, or the process is gone, or a new process stands before
  `RunParsesTimestamp` with a clock that is *later*, as a restart takes time:
  it will find the timestamp expired.
- **`ReplayInv`**. The ConfigMaps in the API server and in the open watch are
  created and not deleted ones, and the one being handled is in the watch no more.
- **`BlueprintsStop`, `DogusStop`, `SourceIsFrozen`** (migrator). Each describes the
  loop of a call (what is behind its position is stopped; pods remain only
  before the position of the wait) and what stays true from its return to the cleanup; together
  they give `SyncIsolated`.
- **`AccountInv`**. While `StartBlueprint` works, what is behind its position is
  started, so that clearing the list in the end loses nothing.
- **`DogusStart`, `BlueprintsStart`, `SourceThaws`**. The counterparts of the three before for the
  cleanup: what is behind the position of `StartAll` is wanted running, unless its failure
  is remembered, and stays so to the return, as nobody but the importer stops dogus in between; a blueprint
  that was stopped is in the list, is started, or was lost in one of the ways `AccountInv` knows.
- **`ErrorsInv`, `MailInv`, `MaintenanceInv`**. No step has failed before the
  first error ends the run; what is known of the job at the begin of the cleanup
  stays known; each way out of the final migration leads over `disable` or over success.
- **`FqdnInv`**. Nothing is written before the backup is complete; from then on
  the backup is that of this change; it is deleted only when all is done or taken
  back. The refinement maps each call to `Begin`, `Work`, an end of the abstract
  change, or a stutter.
- **`JobServiceInv`**. `QueueInv` is what makes the result of the watch true: each
  event that is still to be delivered says of the job what holds now and stays,
  since a job that has ended does not run again. An `Error` in the queue is an
  expired watch. `WaitInv` carries the success over the wait for the log, and the
  end of `Run` maps to `RunReturnsNil` of `JobRunner` only from there. `NoEndIsMissed` needs the
  watch to begin at the version of the `List`: the job that `Run` has found active there
  is still in the cluster while no end of it is in the queue, and an end is added behind what is there.
- **`ImportInv`**. `SyncCopyInv`: a dogu that `SyncData` has left has its data or
  is among the errors, and the exporter exports the dogu `SyncData` is at, while
  nobody else uses it. `ImportedInv` says the same of the four parts of
  `SyncConfig`, each behind its position. With both, a `Start` that comes to its end
  without an error has imported everything. `WholeInv`: what is about to be written
  was merged with what was read, and what was read is what the job found.
  `StepInv` keeps data, configuration and FQDN in their order. `KeptKeysKept` is not inductive
  by itself: that a failed job leaves the old FQDN needs `ChangeInv`, that `ChangeFQDN` began with the FQDN
  from before the job (which the import has kept, `GlobalKeeps`) and is back at it when it returns an
  error. Two lemmas, `GlobalIsMerged` and
  `DoguIsMerged`, say what the merge of two configs holds for each key; `ExcludedKeysAreSafe`
  is `ConfigsAreWhole` with the second.
- **`ChannelInv`**. The channel is closed in the phase in which the loop starts no
  more goroutines, so that all being done is not undone.
- **`FitInv`**. From the validation on the two systems fit, in the sense of the validator;
  an error of the loop is then about a dogu that has another namespace. With `LookedUpInv`, that
  the loop has passed no dogu without looking it up, a resize without error means that
  all were found under their full names, which is `CopiesFit`.
- **`SendersInv`**. Each goroutine sends at most one error and is done then, so that the errors in
  the channel are fewer than the dogus while one still has to send.
- **`SpecIsAsRead`**. Where a goroutine has not written the size yet, the spec is what the
  migration has read, which the loop has compared with the size that it will write.
- **`RoomInv`**. A spec asks for at most what its volume has, or the dogu is
  waited for, or it is abandoned (`SpecsInv`); a volume has at least the size that the
  provider read, or is abandoned (`KnownInv`); a dogu the loop has passed without error has
  room, or is being waited for, or was abandoned before (`ResizeInv`).
- **`PipeInv`**. A reader that has seen the end has emptied its pipe, and nobody
  writes to it any more.

What stays with TLC is liveness (`FinalGetsItsTurn`, `FlagIsReleased`,
`EventsAreHandled`, `MigrationsEnd`, `DogusComeBack`, `RunEnds`,
`ResizeComesToEnd`, `SyncReturns`), as TLAPS does not handle `ENABLED`.

## Where the code and its documentation differ

Each has a run that expects TLC to find the violation, and an entry under
`findings` that quotes the line.

| Run | What |
|---|---|
| `simultaneous` | The flag is loaded and stored in two steps, and not at all by the final migration: two migrations may run at once. `CompareAndSwap` would close the first gap. |
| `added_config_map` | A ConfigMap that is added during a migration is deleted and never served. |
| `dogu_during_sync` | A `Run` that returns an error, as one whose watch breaks does, may leave its job running, and the cleanup starts the dogus while the job replaces their files. The property exempts panics, shutdowns and crashes, which lead to the same. |
| `mail_after_panic` | After a panic a mail of success is sent. |
| `excluded_keys` | An excluded key that only the target has is wiped from the config of a dogu. |

Observed in the code, without a promise it would break:

- A cleanup error replaces those before it in the joined error; only the log has all.
- After a signal the cleanup uses the cancelled context: dogus and blueprints
  stay stopped, the source stays in maintenance mode.
- `StartAll` also starts dogus that a user had stopped before.
- A logger that cannot be opened ends a migration without cleanup and mail.
- A crash during the final migration ends it for good: the next process finds
  the timestamp expired. A cancelled context lets the final migration start
  early, with that context.
- When the watch cannot be opened again, manual migrations are off until the
  next start of the pod.
- A later FQDN change overwrites the backup that a failed restore has kept. When
  the certificate cannot be restored, the FQDN is not tried.
- The export dogu is one setting for all clients of the exporter: `import_job`
  exempts jobs during which somebody else sets it.
- The configuration of a dogu that is excluded from the import is imported.
- A backup schedule whose deletion takes too long is gone afterwards, with a warning.
- The validator's comment (`validator.go:28-31`) lists "pvcs are large enough (a
  resize is attempted)"; the validator looks at no sizes, and the resizer looks at the
  size in the *spec* of the dogu (`provider.go:48`). After a resize that timed out, or
  whose migration died, the spec has the new size: the next migration neither resizes nor
  waits, and copies into a volume that may be too small (`VolumesHaveRoom`, `abandoned`).
- A dogu that the target has in another namespace passes the validation and makes
  every resize, and so every migration, fail (`ValidatedIsFound`).
- nginx in the target system is reported as a dogu the source does not have,
  unless it is excluded, as the source's nginx is passed over without its entry being removed.
- The wait for a volume, 10 minutes, looks at no context: a shutdown ends it with the
  process, when the size is already in the spec.
- After a line of more than 64 KiB rsync blocks on its pipe and `SyncDoguDir` does not return
  (`SyncReturns` exempts it); the job has no deadline.
- A directory that only the source has is not copied, without an error.
- The preflight check of every start sets the export dogu to `cas`, also while a job of
  the process before still copies (`CoordinatorRestarts`).
- With implicit TLS the credentials of the mail server are not used (`tlsSender.go:24-46`),
  although the log says so; one recipient that is refused keeps the mail from all others.

## What is not modelled

- **The exporter client, the Kubernetes clients, the configuration**, and the
  reading checks of the preflight: requests, parsing and validation without state
  or order that anything depends on. Their outcomes are choices of the modules that use them.
- **Texts**: mails, logs, names. That a job is named after the second of its
  creation is therefore not covered; that `Create` fails is.
- **The pod of the job**: mounts, image, resources, environment but for the trigger of the FQDN change.
- **rsync** itself and its options: a process that prints lines and exits.
- **Two migrators at once.** That it can happen is the finding `simultaneous`;
  what it does to the list of stopped blueprints, a slice that two goroutines append to
  without a lock, is not modelled.
- **Two coordinators at once**, during an update of the Deployment.
- **Dogus installed, upgraded or removed during a migration.** The coordinator validates what the
  exporter tells at the begin, the job asks it again (`rsync.go:83`) and copies what is there then. `ValidatedIsFound`,
  `CopiedIsInstalled` and `VolumesHaveRoom` hold for systems that do not change in between.
- **Watch events of other jobs** and of objects that are no jobs (`jobService.go:250-260`), which the field selector keeps away.
- **Other writers** of the same configs during an import; what a conflict does is
  decided by the registry library.

## Plan

The order of the modules was: the triggers (`MigrationSchedule`), the migration
(`Migrator` with its parts), what it waits for (`JobService`), what the job does
(`FqdnChange`, then `DataSync`, `ConfigImport`, `ImportJob`), and what comes before
the job and inside one copy (`SystemValidation`, `VolumeResize`, `RsyncPipe`,
`VolumeMigration`). What is left:

1. **Two migrations at once**, which share one `BlueprintControl` and one
   exporter: what each may do to the other.
2. **Two coordinators** in a rolling update, over `MigrationSchedule`.
3. **Larger instances** where TLC allows: three dogus in `migrator`, a third
   migration in `volumes`, whose source may then grow twice.
