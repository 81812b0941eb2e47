# MyCRT in TLA+

MyCRT captures the queries and metrics of a MySQL database on RDS, stores them in S3 and replays them
against other databases. One service (`service/`) accepts requests and spawns one Node process per
capture (`capture/`), replay (`replay/`) or mimic (`capture/src/mimic`); service and processes share a
MySQL database of rows, a storage backend, and sockets of `node-ipc`. Nothing else coordinates them: no
transaction, no lock and no supervisor. What makes the program correct is therefore the *order* in which
single-threaded but asynchronous processes do things, which is what these modules are about.

## Inventory

| Component | State | Operations | Talks to |
|---|---|---|---|
| Capture lifecycle (`capture/src/capture.ts`, `common/src/capture-replay/subprocess.ts`) | `startTime`, `done`, the interval, pending metrics promises, in memory of the process; `status`, `start`, `end` of its row | setup, loop, stop, teardown, selfDestruct | rows (`CaptureDao`), general log, storage, ipc |
| General log (`capture/src/workload/*-logger.ts`) | the RDS parameter `general_log`, shared by all captures of an environment; `logging` of each process | setLogging, getWorkloadFragment | RDS, `getRunningCapturesForEnv` |
| ipc (`common/src/ipc`) | the listening sockets; the pending reply of a request (5 s) | start, stop, stopCapture, stopReplay, applyHandlers | service and processes |
| Capture routes (`service/src/routes/capture.ts`, `service/src/common/capture-creator.ts`) | the jobs scheduled in memory (start, end) | create, stop, timed stop, delete, workload, metrics | rows, ipc, storage |
| Fragmented storage (`common/src/storage/fragmented-storage.ts`, metrics and workload storage) | depot fragments, one in-progress file, one done file per capture and kind | put, read (live or final) | S3 or local files; read by service and process at the same time |
| Replay process (`replay/src`) | workload, `workloadIndex`, the interval, connections | setup, loop, processQuery, logMetrics, teardown | rows, storage, target database |
| Mimic (`capture/src/mimic`) | a capture and one replay manager per replay, with their pending commands | prepare, start, processWorkload, finish | as capture and replay |
| Admission of replays and mimics (`service/src/middleware/replay.ts`, `service/src/common/*-creator.ts`) | the scheduled jobs; of its own nothing: it looks at the rows | noReplaysOnTargetDb, noMimicReplaysOnSameDb, create, delete | rows, spawn |
| Service start (`service/src/main.ts`, `service/src/management`) | the jobs it schedules again | rescheduleCaptures, markAbandonedReplaysAsFailed | rows, spawn |
| Environments (`service/src/routes/environment*.ts`, the DAOs) | environments, keys, database and S3 references, members, invitations | create, edit, delete, invite, accept, promote | rows |
| Users and sessions (`service/src/auth`, `routes/users.ts`) | one token, its last check, the password and one reset token per user | login, sessionMiddleware, logout, changePassword, forgotPassword, resetPassword | rows, the pages |
| Slack bot (`service/src/routes/slack.ts`) | a configuration per environment | get, connect, turn on and off, delete | rows, Slack |
| Web client (`gui/src/pages`, `cli/src/mycrt-client`) | what each page has been told, its form and the requests it waits for | wizards for environments, captures, mimics and replays; dashboard; the page of a capture | the routes |
| Metrics backends and merging (`common/src/metrics`) | none | getMetricsForType, merge | CloudWatch |
| Command line client, logging, TLS | none of the system's | | the routes |

### What is hard

* **One shared log, many owners.** A capture that ends turns the general log off only if no other capture
  of its environment is in progress. The look at the rows and the change of the parameter are separate
  awaits of one process, and the rows are written by others.
* **Stops from everywhere.** Users, a scheduled job and a deletion send the same message. It can arrive
  during setup, twice, or at a process that is no longer (or not yet) listening. `Subprocess.stop` runs an
  extra loop and `teardown`, which returns while its timer callback has minutes to go, and `onStop` writes
  the row concurrently with both.
* **Errors that nobody sees.** A rejection in `stop(true)`, in the timer callback of `teardown`, or in a
  tick of the interval is handled by no one.
* **Late data.** Metrics of a window are fetched `metricsDelay` after it; the final files are built
  `filePrepDelay` after the last loop; a done file is never reopened.
* **Timeouts that are not failures.** Five seconds without an answer make the service write FAILED, while
  the process carries on.
* **Restarts.** Scheduled starts and ends live in the memory of the service, and what it does about the rows
  it finds runs next to the requests it already accepts.
* **Check, then act.** Whether a database, a name, a token or a configuration is free is looked up in one
  query, and acted on awaits later, by every component of the service.
* **Pages that go on.** A click runs a handler over several requests, and nothing is locked meanwhile: the
  form changes, a second click runs the same handler, the wizard is closed and opened again, answers come in
  another order. An error is answered with `null`, which some handlers take for "no".

### What makes each component correct

* *Capture*: a capture in progress has its log; the log is not left on for ever; at most one stop finishes a
  capture; what is DONE is complete; a status that no longer needs the log is never followed by one that
  does; a capture that was stopped becomes DONE.
* *Storage*: the final file holds every fragment that was put before it was built, each once and in order,
  whoever reads meanwhile.
* *Replay*: every command is run once, in order and none is skipped; the replay ends; metrics cover the
  whole replay.
* *Mimic*: every command captured before the end is handed to every replay, and the mimic ends.
* *Admission*: two replays hold one database only if neither could see the other; who is told that a replay
  or capture was created gets it.
* *Service start*: a restart settles the rows it finds, and no replay that goes on.
* *Environments*: rows that belong together are there together, and an owner sees his environment.
* *Sessions*: a request acts with a session that is on, changes the password only knowing it, and ends only
  its own; a reset token works once.
* *Web client*: what a wizard sends is what was checked; what is shown is what was told and asked for.

`PROJECT.json` lists the hazards behind these, each at its line.

## Modules

| Module | Models |
|---|---|
| `Capture.tla` | the captures of one environment, their processes, rows, general log and stops, with the service's handlers |
| `CaptureStatus.tla` | what the readers of the rows and of the results are promised: the abstract specification `Capture` implements |
| `Capture_proofs.tla` | theorems about `Capture` and their proofs |
| `MCCapture.tla` | the module TLC runs |
| `FragmentedStorage.tla` | the files of one capture or replay and of one kind: depot, in-progress files, done file; the process that stores samples and builds the done file, the service's live reads, the deletions nobody awaits |
| `FragmentedStorage_proofs.tla` | theorems about `FragmentedStorage` and their proofs |
| `MCFragmentedStorage.tla` | the instances of four actors TLC runs, one of whom never begins |
| `Replay.tla` | one replay: its process, the timers of its commands, its interval, its metrics, its row |
| `Replay_proofs.tla` | theorems about `Replay` and their proofs |
| `MCReplay.tla` | the module TLC runs |
| `Mimic.tla` | one mimic: the process of a capture with its replay managers, their commands and metrics, the rows of the replays |
| `Mimic_proofs.tla` | theorems about `Mimic` and their proofs |
| `MCMimic.tla` | the module TLC runs |
| `Service.tla` | the service between its requests, its rows and the processes: admission, insertion, launch, jobs, its own stop and start |
| `Service_proofs.tla` | theorems about `Service` and their proofs |
| `MCService.tla` | the pairs of requests TLC runs it with |
| `Environments.tla` | environments with the rows they refer to, their members and invites |
| `Environments_proofs.tla` | theorems about `Environments` and their proofs |
| `Sessions.tla` | session, password and reset token of one user, and the requests that use them |
| `MCAccess.tla` | both of these for TLC |
| `Access_proofs.tla` | theorems about both together, and so about `Sessions` |
| `EnvironmentWizard.tla`, `CaptureWizard.tla`, `ReplayWizard.tla` | the three wizards of the web client |
| `CapturePage.tla` | the page of a capture: boxes, metrics and the lines of its graphs |
| `Dashboard.tla` | the lists of an environment, their search, pages and panels, and the refreshes that fill them |
| `Notifications.tla` | the Slack bot: its routes and its tab in the browsers of the administrators |
| `MCClient.tla` | these six for TLC, one at a time |
| `Client_proofs.tla` | theorems about the six |

### Capture

The state, and what it is in the code:

| Variable | Code |
|---|---|
| `row` | `Capture.status`; "absent" before the insert, "deleted" after the delete |
| `generalLog` | the RDS parameter |
| `proc` | the spawned process: "dying" from the call of `selfDestruct`, "exiting" once `dontPanic` has returned, "gone" after `process.exit(42)` or a kill |
| `setup` | the await of `Capture.setup` the process is at; "startTime" and "ready" have `this.startTime` set |
| `logging`, `ipc` | `WorkloadLogger.logging`, and whether the `IpcNode` listens |
| `loop` | each activation of `Capture.loop`: "query" until its workload fragment is stored, "metrics" until its delayed metrics are |
| `final`, `stray` | which done files exist; which kinds of sample came later than theirs |
| `target`, `svc`, `msg` | a request of the service, where its handler is and what became of its message |
| `note` | `Capture.onStop`: the STOPPING update, the end time, the reply |
| `stop`, `wait` | `Subprocess.stop(true)`, `teardown` and its timer callback, and the metrics promises `Promise.all` waits for |
| `late`, `exposed` | history: the captures that came into progress after a stop looked at the rows; those among them that lost the log |

An action is the code between two awaits. `Deliver` is the start of `onStop`: `stop(true)` sets `done`,
clears the interval and begins the extra loop synchronously, and only then is the STOPPING update issued.
From there three coroutines (`note`, `loop`, `stop`) run concurrently in one process, and any number of
requests can start them. `IsDone` reads `done` off them. The rows are read where the code reads them
(`Validate`, `Decide`, the handlers' guards) and written where it writes them (`SetRow`, which like an
UPDATE does nothing to a row that is gone).

Windows of time, contents of fragments and formats are abstracted: a sample is a workload fragment or the
metrics of one window, and all a property asks is whether it came before the final file of its kind.

### Faults

The constant `Faults` names what the world around the code may do, so that a property can be asked with
the exact assumptions it needs:

| Fault | Meaning |
|---|---|
| `op` | an awaited call (rows, RDS, S3, ipc) rejects |
| `crash` | a capture process is killed |
| `slowRow` | the STOPPING update takes longer than the extra loop |
| `slowLoop` | a loop takes longer than `filePrepDelay` |
| `slowReply` | the reply takes more than five seconds |
| `lateAck` | a stop arrives before the process has set `startTime`: anywhere in its setup, or between the RUNNING update and its acknowledgement |
| `double` | a capture gets more than one stop or deletion |

### CaptureStatus

The abstract specification has two variables, the rows and the results, and three kinds of step: a row
moves along `Move` (what the comments of `ChildProgramStatus` in `common/src/data.ts` say of the statuses),
the results of a capture are sealed while it is STOPPING, and only sealed results become DONE. Its fairness
says that a STOPPING capture gets to DONE. `Capture` maps `results` to "sealed" when both done files exist
and to "torn" when a sample came too late for one, a value no abstract step reaches.

### FragmentedStorage

`Capture` knows of the files only which of the two done files exist. What happens below that is this module:
one `FragmentedStorage` (workload or metrics, chosen by `kind` in the initial state), whose operations are
several awaited calls of the backend each, without a lock, from two programs.

| Variable | Code |
|---|---|
| `depot` | the single-sample files (`getSingleSampleKey`), each known by the time in its key |
| `inProgress` | the in-progress files, a function from the time in the key to what was merged in the file |
| `isDone`, `done` | the done file and its content |
| `deleting` | `deleteJson` calls issued in a `forEach` and awaited by nobody; each lands at any later time |
| `at` | the call of `FragmentedStorage.read` an actor is at |
| `lastTime`, `todo`, `result` | its locals: the time of the in-progress file found, the keys listed in the depot that are later, the merged object |
| `stored`, `begun`, `listed`, `overtaken`, `builders` | history: what was ever put; what was stored when a reader began; what live reads have listed; the samples that came too late to be merged; the teardowns that found no done file |

The actors are `Readers`, the requests for metrics (`live = true`: `ListOld`, `WriteInProgress`), and
`Finalisers`, the teardowns (`live = false`: `WriteDone`, `CleanRoot`, `CleanDepot`, and for a workload
`Rewrite`, the second write of `buildFinalWorkloadFile`). A content is the set of samples merged in it:
merging is a union, since samples are keyed by time (metrics) or by the hash of a command (workload).
`Put` stores a sample whenever it likes, before, during or after a read: the windows' samples travel
concurrently. `Failing` names the actors whose operations may reject.

### Replay

A replay is a matter of time, so its module has a clock. `now` counts from `startTime`, and a command is the
time of its `event_time` after the start of the workload.

| Variable | Code |
|---|---|
| `workload` | `Replay.workload`: the sorted times of its commands |
| `row` | `Replay.status` in the database |
| `setup`, `ipc` | the await of `Replay.setup` the process is at, up to `process.exit(42)`; whether the ipc node listens |
| `nextTick`, `cleared` | the interval of `Subprocess.run`, `isDone` |
| `index` | `workloadIndex` |
| `command` | per command: waiting, with a timer set, or its timer fired |
| `loop`, `finished`, `due`, `end` | each activation of `loop`: the await it is at (through `logMetrics`, `onStop` and the timer of `teardown`), its local `finished`, the timer it waits for, the end of its window |
| `sending`, `samples` | the calls of `sendMetricsToS3` under way, and those that have stored their metrics |
| `isBuilt`, `final` | the final metrics file |
| `now`, `slow`, `rejects` | the clock, the time lost so far, the operations that have rejected |
| `firstLook`, `gaps` | history: when a loop first looked at the commands; the times between the end of what a tick looked at and the next tick |

`LoopBegins` is a loop up to its first await: the while loop over the commands (`Taken`, `Schedule`), the test
for the end, and either the STOPPING update or the first part of `logMetrics`. It is part of two actions, the
end of `setup` (`WriteRunning`) and `Tick`, which may come while setup is still under way: before the end time
is known, `shouldWeContinue` throws (`Throws`). `DelayOver` is the end of `metricsDelay`, where the metrics
are sent and not awaited, and a finished loop goes on to `onStop`, `stop(false)` and `teardown`.

Timers fire in any order, at most `MaxLate` late. `Advance` lets time pass; while an operation is awaited or
a timer is due, that time counts as lost in `slow`. So a property can say how slow the world may be, and the
model has no separate notion of fast and slow operations.

### Mimic

`Mimic` extends `Capture` in the code and overrides `setup`, `loop`, `teardown` and `dontPanic`, each calling
the one it overrides first. The module has of the capture what the replays depend on: whether the log is on,
whether `startTime` is set, which operation fails. The capture's row, files, ipc and timer are `Capture`'s.

| Variable | Code |
|---|---|
| `setup`, `loading`, `loaded` | the await of `Capture.setup` or `Mimic.setup`; the replay being loaded; `Mimic.replays` |
| `refused` | replays that failed to load and whose `dontPanic`, not awaited, is under way |
| `panics`, `gone` | activations of `selfDestruct`, each at the row it writes next; `process.exit` |
| `row` | `Replay.status` of each replay |
| `logging`, `startTime` | `WorkloadLogger.logging`; is `Capture.startTime` set |
| `logged`, `seen`, `fragment` | the commands in the general log; those before the last loop; what each loop has captured |
| `count`, `extra`, `loop`, `at`, `first` | the activations of `loop`, those of a `stop(true)`, the await each is at (a stop's goes on through `teardown` and its timer), the replay it is at, its local `first` |
| `started`, `job` | `ReplayManager.hasStarted`; `commandPromises` and `metricsPromises` |
| `awaited` | the promises a `Promise.all` of a teardown has taken |
| `early`, `present`, `looked`, `overtaken`, `late` | history: a stop came before setup was over; the replays there were when a loop began; a teardown has taken the promises, while another loop was starting a replay; the loops that handed out commands afterwards |

Every `for ... of this.replays` with an await in it is a sequence of actions, and other loops, the loading of
further replays and a stop come between them (`GoesThrough`, `NextOr`). `JobFails` is where the two kinds of
promise differ: a failed command leaves its promise pending for ever (the rejection is that of the timer's
`async` callback), a failed measurement rejects, and `TeardownFails` then destroys the process.

### Service

A request is POST /captures, POST /replays or POST /captures/mimic; `load` says of each what it asks for.

| Variable | Code |
|---|---|
| `at`, `made`, `pending`, `answer` | the await the handler is at; how many replay rows it has inserted; the checks `noMimicReplaysOnSameDb` has started and does not wait for; the response, of which the first counts |
| `row`, `cap`, `capId` | the rows of replays (a mimic has one per database) and captures |
| `due`, `jobs`, `capJobs` | which scheduled starts have passed; the jobs of `node-schedule`: those of the handlers, and those of `doReschedule`, which launch captures only |
| `proc`, `said` | the spawned process, which checks its rows, writes statuses in order and may die; what it has written |
| `service`, `resched`, `passed`, `marking`, `abandoned` | is it up; the queries of `rescheduleCaptures` and `markAbandonedReplaysAsFailed`, which run at the same time and next to requests |
| `blind`, `before`, `writtenOff`, `missed` | history: the pairs of requests that could not see each other; the rows at the start; the rows a start has marked; those a failed query or update of the start has left |

`Check` reads the rows and goes on; the insertion is an action of its own, and so is every query of a handler.
`Meets` collects in `blind` exactly the pairs for which one was already admitted, but not inserted, when the
other was looked at, and those a mimic ignores since it goes ahead of its checks. `Found` is the query of
`getScheduledCaptures` as it is written: its join compares the owner's id with the capture's and yields a
capture once for every user.

Every query of the start may fail. `getScheduledCaptures` and `getAbandonedReplays` catch what fails and answer
`null`; the start logs that and goes on to its next query, so that captures to come are left without a job, past
ones SCHEDULED and abandoned replays in progress. An update that fails (`markFailed`, `updateReplayStatus`) rejects
the whole of `rescheduleCaptures` or `markAbandonedReplaysAsFailed`; nobody catches that, and what comes after it in
the loop is left too. `missed` notes exactly those.

### Environments and Sessions

Both are a matter of rows that are written one query after the other without a transaction. In
`Environments` the request `e` creates environment `e` with references of the same id, or takes the keys of
another; `at` and `deleting` are the queries that creation and `deleteEnvironment` are at; `invite` and `stage`
are the rows of `EnvironmentUser`. What the foreign keys of `mycrt.sql` do is part of the actions (`Cascade`,
`owner'` in `DeleteUser`), and `TypeOK` says they hold.

In `Sessions` one user's row (`token`, `pass`, `reset` and what goes with them) meets the requests of several
browsers. A request comes with the token and the password its page has, maybe from long ago (`sent`, `given`),
reads the row and writes it by the user's id. `seen` is `request.user`: the row as the middleware read it. The
history variables say who was under way when a session began (`under`), who had found the session in time when it
expired (`early`), who had read the row when the password was set (`behind`), and who had found the reset token
unused when it was used (`together`).

### The web client

A handler of a page is a sequence of actions, one per answer it waits for, and reads `this.state` where it
does in the code: before the first request, or after the last. `Go` moves a click from one request to the next.
In all six modules a request that fails is `null`, since `makeRequest` catches everything.

| Module | State | What it is about |
|---|---|---|
| `ReplayWizard` | the form; each click with what it has asked for and the body it has made | `validateReplayName` is asked with the form of the click, the replay is made of the form three requests later |
| `CaptureWizard` | the form; `replays`, one array for the life of the page, with the object of each entry; each click | what is pushed after the await of `validateDatabase`, and onto what |
| `EnvironmentWizard` | the form, the requests that are out with what they ask, and `keysId`, the stored keys chosen last, next to the keys in the form | an answer turns the page whatever the form has become; an id that outlives what is typed over it |
| `CapturePage` | boxes, metrics known and asked for, `line`: whose value each key of each graph has | metrics that come after the box was unchecked; replays of one name |
| `Dashboard` | `listed` (captures and replays of the state), `panel` (the object each panel was mounted with), whether the environment, the user and the users are there, the refreshes | refreshes that overlap; answers that are `null`; panels that live longer than the objects of the list; a render that throws |
| `Notifications` | `configs` (the rows), and what each page shows | answers that cross; two administrators |

The button of a wizard is a guard (`disabled`, `Buttons`, `Button`), and so are the inputs each page shows
(`Inputs`, `Options`). `Render` of `Dashboard` is what React does with a new state: panels stay as long as
their key stays in the list, keep the object they were constructed with, and a panel that cannot be rendered
takes the page with it (`crashed`). A refresh that overlaps another, or misses an answer, leaves lists that need
not fit each other, and a later one starts from those lists: it does not mend what the page does with them until
its first answer. So the history `broken` is carried from a refresh to the next until a loop goes through.

## Runs

A run is named after its configuration.

| Run | Instance | Shows |
|---|---|---|
| `CaptureFaults` | one capture, a user's stop and a timed stop, every fault | `TypeOK`; `OneFinish`: of two interleaved stops at most one gets to DONE; `NeverReopened`: a status that needs the log follows one that does not in one case only, the STOPPING of a timed stop (or a deletion) that met the process in its setup and failed there |
| `CaptureShared` | two captures of one database, one timed stop, one deletion, a late STOPPING update and stops during setup | `LogLostOnlyInWindow`: a running capture without its log is one that entered the rows between another's look and that other's turning the log off; `DoneIsComplete` |
| `CaptureFinish` | two captures, a user's stop and a timed stop, no faults, with fairness | `LogHasOwner`: as long as the log is on, somebody uses it or is about to turn it off; `ImplementsStatus`: safety and liveness of `CaptureStatus` |
| `CaptureLogLost` | two captures, one stop | violation: the log is turned off while another capture is in progress (comment in `workload-logger.ts`) |
| `CaptureDeleted` | one capture, a deletion that may come during setup, with fairness | violation: a deleted capture's process stays for ever (comment in `routes/capture.ts`) |
| `Storage` | a live read that may fail anywhere, and another live read and a teardown, or two teardowns; two samples, with fairness | `TypeOK`; `OnlyOvertakenLost`: the done file holds every sample but those stored too late; `DoneUnchanged`: teardowns that do not overlap never change a done file; `CacheStandsForDepot`: an in-progress file stands for all of the depot up to its time, which is what the filter `time > lastTime` relies on; `LiveReadIsCurrent`; `FinalFileBuilt`: a teardown builds the done file unless a live read comes in between |
| `ReplayEnds` | every workload of up to two commands in three units of time, ticks every two units, a unit late or slow, one rejection, with fairness | `TypeOK`; `DoneRanAll`: DONE only after all commands were started; `OverdueInGap`: which commands are never run; `MetricsCover`: the final metrics cover the replay; `ReplaySettles`: the replay gets to DONE and stays there, though several loops may find it finished |
| `MimicEnds` | two replays, one command, a stop and a tick or a stop alone, one failure anywhere, with fairness | `TypeOK`; `DoneRanAll`: a DONE replay has executed every command it was to be given; `StatusForward`; `MimicSettles`: a stopped mimic ends all its replays |
| `Service` | two requests: replays, mimics, captures, now, later or for a time that has passed, on databases they share; one stop of the service, dead process, failed query or deletion; with fairness | `TypeOK`; `TwoOnOneDatabase`: how two replays get to hold one database; `RestartSettles`: what a start does with abandoned replays and scheduled captures, when any query and update of its own may fail; `CreatedRuns`: what was answered with "created" before its time is launched |
| `ServiceReschedule` | the same | violation: a restart leaves a scheduled capture SCHEDULED and without a job (comment over `rescheduleCaptures`) |
| `Access` | two environments, users and names and an invitation, one failed query or deleted user; three requests of one user, two tokens and passwords | `AccessTypeOK`; `ReferencesFit`: an environment has its references, and no reference is left alone; `OwnerSees`; `ResetOnce`; `ClearedByItsOwn`; `ChangeKnowsPassword`; `RevivedByItsOwn`: who revives a session that expired |
| `Client` | one of the six modules of the web client; three clicks, two names, two databases, one request that fails; two replays and two types of metrics; a capture with a replay and a second capture, two refreshes and one change of a row; two administrators and three requests | `TypeOK`; `NamesDistinct`, `DistinctDatabases`, `SavedIsValidated`: what the wizards send was checked as it is sent; `LinesMatch`: the graphs show what is checked; `DashboardTells`; `NotificationsTell` |

**Bounds of the captures.** Captures interact through the rows and the log only, so the pattern is one that turns the
log off and one that needs it. Stops of one capture interact through `loop`, `logging` and `ipc`; two of them
show every order in which they can overtake each other, and a third would meet what the second meets.
`Ticking` captures run one tick of the interval at a time, any number of times: the extra loops and the tick
already give several overlapping activations of `loop`. Nothing else is counted, so no bound truncates a
behaviour. `LogHasOwner` was also checked with three captures and two stops.

**Bounds of the storage.** A sample is lost to another one (it comes late, or its file hides it), so two
samples show every order. A live read interferes with another by its file and by its deletions: two readers.
A teardown meets a cache (one reader), and another teardown (two). `MCFragmentedStorage` chooses which of the four
never begins. What is excluded is really violated: with `overtaken` left out of `OnlyOvertakenLost`, `Overlap`
out of `DoneUnchanged`, `builders` out of `LiveReadIsCurrent` or `Quiet` out of `FinalFileBuilt`, TLC finds a
counterexample on the same instance.

**Bounds of the replay.** The workload is longer than an interval, so that a tick comes between the commands and
two windows meet; two commands give one that is scheduled and one that waits, and two due at once.
`metricsDelay` and `filePrepDelay` are as long as the interval, so a finished loop meets the next tick before it
clears the interval, as in the configuration of the service (`metricsDelay` = `interval`): two teardowns do
happen. One unit may be lost, to a late timer or to an operation, and one operation may reject: each is enough
to violate the property that excludes it (`OverdueInGap` without `gaps` or without `firstLook`; `MetricsCover`
without its limits on lost time or on rejections; `ReplaySettles` without `Overdue` or rejections).
`Horizon` and `MaxLoops` cut nothing off: no replay that can still go on gets there, except one that waits for
ever for an overdue command. `DoneRanAll` needs `MaxLate < FilePrepDelay`; this is an assumption of the module
(`ReplayAssumption`), since the code's margin is minutes.

**Bounds of the mimic.** Two replays are the least for a loop, a loading or a teardown to be between them, and the
second may be refused or come late. Two loops, of which one is a stop's, overlap in every order, and a command
may be in both windows (`Overlap`). One failure is enough for every error path. Two stops of one mimic, or three
loops, were checked with one replay (`N = 1`, `MaxLoops = 2`, `MaxStops = 2`, and `MaxLoops = 3`,
`MaxStops = 1`); with two replays they are too large for a run of minutes. Each exception of the properties is
needed: without any one of them TLC finds a counterexample, on this instance or on the one with two stops.
What they say of the code is this. A stop during the loading of the replays leaves some in STARTING, or DONE
without having run (`early`). A loop that is slow to start a replay writes RUNNING over what a teardown has
written (`overtaken`). One command that a target rejects keeps all replays of the mimic from ending, and the
capture is DONE all the same (`rejects`). A tick that is slow to capture hands out its commands when the
teardown no longer looks (`late`), and one that began before a replay was loaded may have handed them out
already (`present`).

**Bounds of the service.** Two requests compete for a database; a third would be the second for one of them.
`MCLoads` pairs the kinds that can meet: two replays, a mimic and a replay, a mimic that names a database twice,
and two captures whose owners have the id of the capture or have not. One fault (`MaxFaults`) is a stop of the
service, a handler's query that fails, a process that dies or a deletion; the queries and updates of the start fail
on top of that, as often as they like. What the exceptions stand for: what they leave is left (`missed`); requests admitted at the same time share the database (`blind`); a restart marks a replay
FAILED whose process goes on (`writtenOff`, `before.alive`); a capture that comes due while the rows are read
keeps its SCHEDULED for ever (`before.due`); a job for a time that has passed never runs (`due` in
`CreatedRuns`).

**Bounds of Access.** A creation meets another one of the same name, or whose keys it uses, or a deletion of
that one: two environments, one of which has keys of its own. Owner and guest are two users. In a session's life
the request that is overtaken, the one that ends the session and the one that begins the next are three, and
two tokens are the one before and the one after. `ReferencesFit` excepts an environment whose keys went
with another one that shares them (`torn`), and `OwnerSees` of one whose creation broke off (`failed`).

**Bounds of the client.** A handler is overtaken by a second click, which a third may overtake; one request that
fails reaches every `null`. `MaxPicks`, `MaxEdits`, `MaxSaved`, `MaxLoads`, `MaxOut`, `MaxChanges`, `MaxTurns` and
`MaxRequests` bound what the user does: a selection more than a form needs, one edit or cancel over a request,
one change of a row under a refresh. A page of the dashboard holds one item, so that two captures make two pages.
The exceptions of the properties are what the code does: a name whose check failed, or was made before another
replay of this name was inserted, is used twice (`unchecked`, `unaware`), and a wizard reset over a click gives it
the next form (`cut`). A replay entered in an earlier opening of the wizard, or clicked twice, goes along
(`clickedIn`, `together`). Keys entered over a request that is out are saved unvalidated (`over`), and so are stored keys
that were chosen, typed over and gone back to by the radio button alone (`shadowed`): the wizard validates what is in
the form, and the service takes the keys of `keysId`. The dashboard is lost when the environment or the list of users
was answered with `null` (`env`, `users`): render reads both without a look. A box
unchecked while its metrics load is drawn (`unheeded`), one replay's line goes with another's of its name
(`cleared`), and the default replay's failed load keeps the capture's own lines away (`lost`).

**Deadlock** is not checked: captures end, and a system whose captures have all ended stops.

**Symmetry** is used in two runs that check safety properties only: users, names and environments are
interchangeable in `Access.cfg`, clicks and databases in `Client.cfg`. There, sets no two modules have in common
share their values, which makes fewer permutations.

**Fairness.** Weak fairness for every coroutine of a process, every handler of the service, the delivery of
a message to a listening socket and the spawn: Node runs every callback whose operation has settled, and
without the fault `op` every awaited operation settles. Users' requests, the creation of captures and the
interval have none. Weak fairness is enough because a coroutine's step, once enabled, is disabled by
nothing but itself or the end of its process. In `FragmentedStorage` an actor's next operation is weakly
fair, and neither the puts nor the landing of a deletion are. In `Replay` setup, timers, operations and the clock
are weakly fair, and rejections are not. In `Mimic` the steps of setup, of each loop and of each job that ends well
are weakly fair; ticks, stops, failures and the steps of `selfDestruct` are not. In `Service` the handlers'
queries, the timers and what the start of the service has to do are weakly fair, as one action; requests,
processes and the stop and start of the service are not. `Environments`, `Sessions` and the modules of the web
client have safety properties only: a user owes nothing.

## Proofs

`Capture_proofs.tla` proves for any sets of captures and requests and any faults:

* `Typing`: `Spec => []TypeOK`.
* `LogLost`: `Spec => []LogLostOnlyInWindow`.
* `FinishedOnce`: `Spec => []OneFinish`.
* `NotReopened`: `Spec => NeverReopened`, for any requests and any faults. A timed stop, or the one a deletion sends,
  asks nothing about the status, so it may come before setup has got to `startTime`. `loop()` then throws and the
  stop is over, but `onStop` writes STOPPING, over which setup writes STARTING or RUNNING. `SetupInv` says that
  nothing else takes a capture back: a row in the middle of setup is as setup left it, deleted, or STOPPING with such
  a failed stop (`SetupInOrder`), because a stop that goes on has found `startTime` set (`StopsStarted`), a stop that
  has failed stays so (`ExtraLoops`, `FailedStays`), a process ends itself after its setup only
  (`DyingAfterSetup`), and a user's stop finds RUNNING.

None of these is inductive. `IInv` adds what the code relies on silently:

* `StopsBegun`, `LoopsOwned`: a stop belongs to a request that was delivered, and an extra loop to a stop.
* `SetupOrder`: `logging` is set after the log was turned on, and setup is past that point.
* `StopsAfterSetup`: a stop that got to `teardown` belongs to a capture whose setup had got to `startTime`
  (otherwise `loop` throws on the null start and `teardown` never runs).
* `SetupVisible`: a capture with its log turned on and no stop of its own has a row in `Needs`, or a row
  that says it has failed or is deleted: it is visible to the query of the others.
* `LateComplete`: every capture in progress that a stop about to turn the log off does not know of is in
  its `late`.
* `LogKept`: the log is on for each of them but the exposed.
* `FinishClosesIpc`: a stop that is at "done" has closed the ipc node, so that the next one fails there.

The proof is a lemma per conjunct and step group: `Init => IInv`, `TypeOK /\ IInv /\ [Next]_vars => IInv'`,
and temporal steps by PTL.

Three more theorems are about what the code promises when less goes wrong; their hypotheses name the faults:

* `DoneComplete`: without `slowLoop` and `double`, `Spec => []DoneIsComplete`. A loop that outlasts
  `filePrepDelay` stores after the final file is built; and so does the extra loop of a second stop that arrives
  when the first has turned to its files (TLC finds that with `double` and `slowRow`, or `double` and `op`).
  `ResultsInv` says which file there is when: the workload's only once the capture is done and no fragment is on
  its way (`WorkloadLast`), the metrics' when no loop is left (`MetricsLast`), because a stop waits for its extra loop (`ExtraLoops`) and then for the metrics of all others
  (`WaitsForAll`).
* `LogOwned`: with `Faults \subseteq {"slowLoop", "double"}` and nothing deleted, `Spec => []LogHasOwner`. A late
  acknowledgement, a late STOPPING (`lateAck`, `slowRow`), a slow reply, a crash or one rejection breaks it (TLC, one fault at a time). `ProgressInv` says that a capture
  whose row is pending logs, listens and lives once it has begun to (`InProgress`), and that one which stopped,
  was marked as failed or exits is not pending (`StoppedIsOver`, `MarkedIsOver`, `EndingIsOver`). So a stop that
  looks at the rows, sees another and leaves the log on leaves it to one that will stop, too.
* `StatusImplemented`: with no fault and no deletion `Spec => Status!Spec`, the safety part of `ImplementsStatus`:
  every step maps to a step of `CaptureStatus` or to a stutter. `StatusInv` says which row goes with the await of
  setup (`RowOfSetup`) and with that of the stop (`RowOfStop`), and that the stop finds the log and the socket as
  it needs them (`KeptOpen`), so none fails.

The only assumption on the constants is `RequestsDisjoint` (the kinds of request are disjoint, and the names "tick" and "none" are none of theirs), and TLC evaluates it on every run.

`FragmentedStorage_proofs.tla` proves, for any number of samples and any actors, failing or not:

* `StorageTyped`: `Spec => []TypeOK`, and `FinalFileWhole`, `CacheSound`, `ReadCurrent`:
  `OnlyOvertakenLost`, `CacheStandsForDepot` and `LiveReadIsCurrent` are invariants.
* `DoneForEver`: `Spec => DoneUnchanged`.

`CacheStandsForDepot` is the heart: a live read makes a new cache out of an old one and of a listing of the
depot, and between its operations samples arrive and other reads replace the cache. The invariant adds what
each actor holds at each operation:

* `TimesListed`: the time of a cached file, and the one an actor has found, is a sample some live read has
  listed, so a sample put later with an earlier time is overtaken.
* `MergeSound`: what an actor has merged, with what it has listed, covers every time it may give to it (for a
  teardown: everything).
* `DepotWhole`: until the done file exists the depot is complete and no deletion in it is under way, whatever
  deletions of in-progress files are.
* `ReadsCurrent`, `DoneWhole`, `Roles`, `Builders`: the same for what a read returns and for the done file, and
  who may be where.

The assumption is `StorageAssumption`: readers are not finalisers, `LastSample` is a natural number.

`Replay_proofs.tla` proves, for any workload, any configuration and any lateness below `filePrepDelay`:

* `ReplayTyped`: `Spec => []TypeOK`.
* `DoneAfterAll`: `DoneRanAll` is an invariant. Nothing in the code connects the row with the timers of the
  commands, so the invariant goes through time: a loop is `finished` only with the index at the end and the
  workload's time over (`FinishedAtEnd`), so the teardown's timer is due at `Length + FilePrepDelay` or later
  (`TeardownLast`), while a timer of a command that has not fired is at most `MaxLate` behind
  (`IndexCounts`). When the teardown's fires, no other is left (`RanAll`).
* `LostInGap`: `OverdueInGap` is an invariant. `NextIsAhead` says of the command at the index that the next
  tick comes before it, or that it is already in a gap or was over at the first look. A look keeps that
  because the workload is sorted and the index stops at the first command not in the interval.

* `MetricsCovered`: `MetricsCover` is an invariant. The windows of two loops must meet, and nothing measures that
  they do: they meet because a tick is late by no more than the time that was lost, which is less than the overlap.
  `NextReaches` says that the next window, of the next tick or of a loop that writes STOPPING, reaches back to
  what the loops so far have covered, and that it comes before the time lost is used up. A finished loop that has
  measured completes the replay (`FinishedCovers`); the metrics it relies on are due when its own are
  (`DelaysInOrder`), and while one of them is missing from the depot, `filePrepDelay` is being lost
  (`TeardownWaits`). So the file that the first teardown builds has them all (`BuiltCovers`).

An attempt at `MetricsCovered` showed that the property was false for a replay no longer than `IntervalOverlap`: it
may have no window at all, since `logMetrics` skips one that short. TLC confirms it with `Length = 1` and
`IntervalOverlap = 1`; the property now says so (`IntervalOverlap < Length`).

`Mimic_proofs.tla` proves, for any number of replays, commands, loops, stops and failures:

* `MimicTyped`: `Spec => []TypeOK`, with `LoadingInRange` (fewer replays are loaded than setup has gone
  through) and `AtLoaded` (a
  loop is at a replay that is loaded).
* `DoneAfterCommands`: `DoneRanAll` is an invariant. `Handed` says that a loop past its hand-out has given
  every command to every replay it knew; `AwaitsAll` that a stop's `Promise.all` has all of those promises but
  the late loops'; `PastRan` and `DoneRan` carry the end of that wait to the DONE rows. Most steps are *calm*
  (`Calm`, `CalmKeeps`): the three that are not are a loop that begins, a stop that looks at the promises and
  the end of its wait, each with a lemma of its own.

* `StatusGoesForward`: `Spec => StatusForward`. `Placed` says of any behaviour where setup and the loops are: what
  is loaded comes before what is being loaded, a loop that starts a replay has found those before it started, and
  only loops of stops tear down, at loaded replays. `Orderly` holds as long as the property makes no exception
  (`Disturbed`): the row of a loaded replay is STARTING or RUNNING until a stop looks, then all have started and
  no loop starts one any more (`AllStarted`), that stop is the only one (`OneLook`), and no replay is DONE before
  all are STOPPING (`NoneDone`). A disturbance stays (`DisturbedStays`).

The first attempt at `StatusGoesForward` failed, and showed an error of the model, not of the code: the loop of a
stop that had itself started a replay went on to the teardown with its place in the list of replays instead of
the first one, so it skipped STOPPING for those before. `GoesThrough` now begins the teardown at the first replay,
as `mimic.ts:101` does. TLC had not told, since fewer writes violate nothing.

The assumption is `MimicAssumption`: the constants are natural numbers and there is a replay.

`Service_proofs.tla` proves, for any requests, databases, users and number of faults:

* `Typed`, `OneOnOneDatabase`, `StartSettles`: `TypeOK`, `TwoOnOneDatabase` and `RestartSettles` are invariants.

`TwoOnOneDatabase` speaks of two rows, and the code checks a row when there is none of the other yet. The
invariant says it of handlers first: `ComingKnows` is about a replay past its check and not inserted, and
whoever holds its database or has passed the same check. `RowsAreMade` and `HandlerOrder` tie a row to the
place of its handler. `EndedHasSaid` is what keeps the set of holders from growing after that look: a row that
is over has a process with nothing left to write, or was written off. For `RestartSettles`, `FoundRowsAreLeft`
says that no handler and no job of the service that starts touches a row the service before it left,
`MarkedAreRead` and `LooksAtFound` what is true between the queries of the start, and `DownIsStill` what a stop
has cleared. The assumption is `ServiceAssumption`: a request asks for at most `MaxMimic` databases, a replay for
one and a capture for none.

`Environments_proofs.tla` proves, for any environments, users, invitations and failing queries:

* `Fit` and `Sees`: `ReferencesFit` and `OwnerSees` are invariants.
* `Typed`: so are the types, with the foreign keys: an owner and the two ends of an invite are rows there are.

`CreationOrder` and `DeletionOrder` say which rows there are at each query of the two handlers; `KeysKept` that
keys looked up are still there when the environment is inserted, unless one that shares them was deleted
meanwhile; `LeftNothing` that a deletion that came to its end left no reference. The assumption is
`EnvironmentsAssumption`.

`Access_proofs.tla` is about the composition of environments and sessions, as TLC runs it:

* `IsEnvironments`: `MCSpec => Spec`, so that the theorems above hold of it, and `AccessTyped`: `AccessTypeOK`.
* `ResetsTogether`: `ResetOnce` is an invariant, for any number of tokens.
* `ClearedByOwner`, `ChangeKnows`, `RevivedByOwner`: the action properties `ClearedByItsOwn`,
  `ChangeKnowsPassword` and `RevivedByItsOwn`.

An action property of a request's last await is proved from what was so at its earlier ones: `ClearsOwn`,
`SeenOrBehind` and `ResetTogether` say of a request between its read and its write what the write relies on,
or that the histories `under`, `early`, `behind` and `together` have noted the step in between that took it away
(`EarlyKeeps`: who is about to keep a session that has expired had found it in time). The
assumption is `AccessAssumption` (`MaxTokens` is a natural number).

`Client_proofs.tla` proves, for any names, databases, clicks, replays, administrators and bounds:

* `Typed`, `Distinct`, `OneReplayADatabase`, `Lines`, `Validated`, `BotSays` and `DashboardSays`: the seven
  invariants of the run `Client`.

A step of `MCClient` is one of the program there is or of none (`StepOfPart`), and each program has its own
inductive invariant:

* `ReplayInv`: on its second page the form has the name and the capture a click has asked for
  (`AskedIsForm`), so the replay is made as asked (`MadeAsAsked`), unless the wizard was reset over the click;
  a name found free is free but for replays inserted since (`FoundFree`).
* `CaptureInv`: what was pushed in this opening is not there to select any more (`PushedGone`), what a click is
  about to push is new or was validated together with the other (`NewHere`, `WaitTogether`), so the list has no
  database twice without an excuse (`DistinctHere`), and neither has what is sent.
* `PageInv`: `LinesMatch` is about a page at rest; `LinesHeeded`, `CheckedDrawn` and `CaptureDrawn` say it of one
  whose requests are out, and `NothingYet` of one before the capture's metrics are there.
* `EnvironmentInv`: what is past its page is vouched for (`PagesVouched`), and so is what a validation that is
  out was asked for, unless it is still in the form (`AskedVouched`).
* `BotInv`: a page not in doubt has one request out at most (`OneOut`), and shows after its answer what there is
  (`WillTell`); whoever is past the check has found no configuration, unless two raced (`CheckedRace`).
* `DashboardInv`: what a refresh that overlaps no other holds between its answers (`CapturesRead`,
  `RefreshTells`), that the lists fit each other between refreshes (`NamedBetween`), and that the service's rows
  do (`RowsFit`, `SinceFit`).

The assumptions are `BoundsAssumption` (the bounds are natural numbers) and `NamesAssumption` (the page has a
name for the capture, keys are no databases, and the words for "there is none" are no values). `DashboardSays` is
about the two captures and the replay of `MCClient`, since a refresh goes through its list in order, which is an
induction over data for lists of any length; its refreshes, statuses, changes and clicks are any.

An attempt to prove `LossExplained` found that it does not hold for three refreshes, when `broken` was reset by
every refresh: the lists one refresh leaves unfit can lose the page in the next, before its answers are there.
The history was wrong, not the code's model, and is now kept until a loop goes through; TLC, with two refreshes,
could not tell.

**Only model-checked.** Every invariant and every action property of a passing run is stated by a theorem, and
`ImplementsStatus` by its safety part; `DoneComplete` and `LogOwned` have the hypotheses above. What stays with TLC:

* liveness under fairness: `FinalFileBuilt`, `ReplaySettles`, `MimicSettles`, `CreatedRuns` and the fairness of
  `CaptureStatus` in `ImplementsStatus` (the prover has no rule for `ENABLED`);
* lists of any length in the dashboard, which would take an induction over data;
* the three violations.

## Not modelled

* `node-ipc`: a message to a socket nobody listens on is lost, or delivered once the listener is there
  (the connection is retried five times). RDS changes a parameter atomically. Both are external.
* A process whose event loop empties, and which therefore exits by itself; the rejection of the query in
  `validCapture`; the deletion of stored files (`deleteLogs`); renaming.
* Of the storage: `deletePrefix`, and the 1000 keys after which `listObjects` of S3 stops. A backend's single
  operation is atomic and seen by all at once.
* Of the replay: what `main.ts` reads before it runs; the filter and the seven hours of a mock replay; what
  the target database does with a command, and in which order (each has a connection of its own); the
  deletion of the row while the process runs. The time before `startTime` does not pass: ticks then throw on
  the missing workload and change nothing but the phase of the interval, which is any (`Load`).
* Of the mimic: `mimic-creator.ts` and `main.ts`; the capture's own row, files, ipc and timer; when a command is
  due, what it does to its database, and the two rejections of `processCommand` for negative offsets (a window
  starts at `startTime` at the earliest, and a replay has started in the past). A window reaches at least to
  the one before: the model has no ticks so late that they leave a gap. That commands in the overlap of two
  windows are handed to a replay twice (`WorkloadStorage` removes duplicates, `ReplayManager` does not) is in
  the model, and no property speaks of it.
* Two environments that describe the same database (`getRunningCapturesForEnv` sees only one of them).
* Of the service: `PUT /replays/:id`, which refuses every rename, since it does not wait for the names it
  compares; the second process of a capture that `doReschedule` launches once for every user; the validation of
  bodies, which decides by the body alone.
* Of environments and users: the expiry of an invite (one may stay unanswered for ever), what an edit
  changes besides the name, the mocked environments, signup and the administration of users, the mail with a
  reset token, hashing.
* Of the web client: the modals to share, leave and delete, signup, the lists of environments and the pages that
  show one object; wording and layout. The order of answers is any; what React does with `setState` is modelled
  as one render per handler step. The two times a form compares (`start` and now) are a choice of the model.
* `metrics-merger.ts` and the metrics backends: no state and no order of their own.
* What the code does not promise: a complete capture with `slowLoop` or `double` (a fragment stored after the final
  file is lost), an owner of the log with any other fault or with deletions (a crash leaves the log on), and
  `CaptureStatus` with any of them. The runs and the theorems about them are without.

## Plan

Proved so far: the safety of every module (see above). What is left, in this order:

1. The dashboard for any lists, with the loop of a refresh as a recursive function of its place.
2. `DoneIsComplete` with `double`, for stops of which the second arrives before the first has built a file.
3. To model: the windows of `Capture.loop` and their gaps, several environments on one database, the second
   process of a capture that was rescheduled twice.
