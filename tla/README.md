# PALM4Umadeeasy: a TLA+ verification project

PALM4Umadeeasy is a web front end for urban-climate simulations with PALM-4U:
a FastAPI backend (`backend/src`), a Next.js frontend (`frontend/src`), and a
small service that runs PALM on a Linux host (`linux_worker`). Users edit
scenarios (buildings, trees, surfaces, meteorology), submit jobs, and read
classified results.

This directory holds TLA+ models of the parts in which steps of several actors
meet, TLC configurations that check them on small instances, and TLAPS proofs
for every value of the constants. `PROJECT.json` ties each definition to the
lines it was translated from, lists the hazards of the code with the properties
that watch them, and holds one deliberate bug ("mutant") per checked property.

    tlc -workers 2 -config MCQueueRaces.cfg MCJobQueue     # one run
    tlapm JobQueueProofs.tla                               # one module's proofs

## 1. Inventory

### The components

| Component | State | Operations | Model |
|---|---|---|---|
| **Job queue and workers** `workers/queue.py`, `workers/worker.py` | table `jobs`; per worker the job in hand, the session's identity map, `_running` | claim, heartbeat, complete, fail, recover at start, stop | `JobQueue`, promise in `JobLifecycle` |
| **Stale-job checker** `workers/stale_checker.py`, `queue.requeue_stale_jobs` | the rows its session loaded | scan, requeue or fail, commit | `JobQueue` |
| **Job routes** of `api/main.py` | request-scoped session | submit, compare, cancel, retry | `JobQueue` |
| **Embedded worker** `workers/executor.py`, `lifespan` | per API process a module variable and a thread | `ensure_embedded_worker`, recovery, the process's end | `EmbeddedWorker` over `JobQueue` |
| **Linux PALM worker** `linux_worker/main.py`, `runner.py` | `_JOBS` in memory, job directories, thread pool | POST /runs, GET /runs/{id}, GET /runs/{id}/output, `_run_job` | `LinuxWorker` |
| **Remote runner client** `execution/remote_client.py`, `runner._run_remote` | one call's progress, its deadline | submit, poll, download, classify | `RemoteRun` |
| **Runner configuration** `execution/settings.py`, admin route, `runner._resolve_mode` | table `palm_runner_config`, environment | fetch, save, merge, resolve, dispatch | `RunnerConfig` |
| **Building edits** `validation/buildings.py`, edit routes, PUT scenario | the edit chain inside `scenario_json` | append, delete, reorder, replace, resolve, validate, run | `BuildingEdits` |
| **Scenario validation, tiers** `validation/engine.py`, `models/scenario.py`, `confidence/engine.py` | none | grid, blocking issues, comparability, effective and downgraded tier | `ScenarioRules` |
| **Spine** `spine.py`, `worker._execute_job` | one attempt's results, `jobs.result_json` | validate, translate, run, report, compare, serialize | `Spine` |
| **Project data and access** routes of `api/main.py`, `db/models.py` | tables `users` (flags), `projects`, `project_members`, `scenario_records`, `jobs` | create, share, change role, delete, submit, compare, patch a user | `ProjectData` |
| **Forcing files** routes of `api/main.py` | table `forcing_files`, files in the upload directory | upload, delete | `ForcingFiles` over `ProjectData` |
| **Editor page** `projects/[id]/page.tsx` | the copy of the scenario, the list, undo | draw, change, remove, undo, select, Save | `EditorPage` over `BuildingEdits` |
| **Results page** `results/[jobId]/page.tsx` | component state, interval, requests under way | open, poll, load results, leave | `ResultsPage` over `JobLifecycle` |
| **Comparison and PET classes** `postprocessing`, `catalogues/loader.py` | none | classify, compare, rank regions | `Comparison` over `Spine` |
| Authentication and rate limiting `security`, `api/auth.py` | bucket per address, tokens | login, register, limit | plan |
| Job monitor and progress socket `JobMonitor.tsx`, `/api/ws/jobs/{id}` | socket, poll timer, last status | open, message, close, poll, finish | left out: no page renders the component, the socket only reads a row |
| Wind comfort, facade advisory | none | pure functions | left out |
| Drivers and namelist, report generator, catalogues, snapshots, monitoring and audit, other pages, migrations | files, rendered text, counters | I/O and formatting | left out |

### How they meet

```
 editor ─── PUT scenario / edit routes ──> API ──┐            (EditorPage,
    │                                            │ rows        BuildingEdits)
    ├── projects, members, scenarios, users ────>│            (ProjectData,
    ├── forcing files ──> files on disk          │             ForcingFiles)
    ├── run, cancel, retry ───────────> API ──> jobs table <── stale checker
    │                                            │            (JobQueue,
 results page ─── poll <─────────────────────────┤             EmbeddedWorker;
                                          worker │ claim ...   ResultsPage)
                                                 v
                                 validate, translate, compare (Spine, Comparison,
                                                 │             ScenarioRules)
             admin PUT ──> palm_runner_config ──> run_palm    (RunnerConfig)
                                                 │ HTTP
                                                 v
                                        Linux PALM worker     (RemoteRun,
                                        POST, poll, download   LinuxWorker)
```

* API, workers and stale checker share nothing but the `jobs` table. A worker is
  a process, or a thread that the API starts with itself and never again.
* A session of SQLAlchemy keeps what it read (identity map). At a flush it
  writes only the columns that differ from what it *loaded*, by primary key.
  Several handlers thus write decisions made on rows that have changed since.
* `run_palm` executes in a worker's thread. It reads the runner configuration
  twice and, in remote mode, talks HTTP with the Linux worker until a deadline.
* The Linux worker keeps its runs in memory; endpoints and background tasks
  share one pool of threads.

### What is hard here

1. *Who owns a running job.* Claims race (SQLite ignores `FOR UPDATE SKIP
   LOCKED`); a heartbeat can be stale while the worker is alive; recovery at a
   worker's start has no condition on the owner; cancel and retry write at the
   commit what they checked at the read.
2. *Decisions on old copies.* `mark_failed` uses the `retry_count` of the claim,
   `requeue_stale_jobs` commits rows it read before, `save_config` writes the
   columns that differ from what it loaded, an edit route replaces the whole
   chain it read.
3. *Torn reads and half-written files.* `get_run` reads a record field by field
   without its lock while `_run_job` sets the fields; an archive is on disk
   before it is complete.
4. *Ends.* Orphaned jobs, calls to a host that hangs, a pool with no free thread.
5. *Ids that come back.* SQLite gives a new row the largest id plus one and the
   engine does not enforce foreign keys: after a deletion an old id means
   another row, to a request in flight as well as to a row that refers to it.
6. *Three readers of one list.* The validator and the resolver each replay the edit
   chain in their own way, and PALM sees the resolver's buildings, as the rasteriser
   reads their geometries and heights.
7. *A rule that rests on another one.* A comparison is meaningful only on one
   grid, but validation compares boxes and resolutions, not coordinate systems; and it
   skips a field without a word.
8. *Clients with copies.* The editor saves a scenario that it loaded long ago while
   its building edits go through other routes; the results page has polls that
   overtake one another.
9. *Effects outside of the transaction.* A forcing file is written, and unlinked,
   before the commit of the request, which may yet be rolled back.
10. *Two tables of one scale.* The classes of PET and the thresholds of a
   comparison come from different tables with different ends of their intervals.

`PROJECT.json` lists each hazard at its line with the properties that cover it;
those without one yet carry the reason and belong to the plan below.

### What makes each component correct

* Queue: a job starts only from the queue and by one claim; a running row is
  owned and has a heartbeat; retries stay in budget; a completed row has a
  result, the newest one; a job settles, whichever process dies; the whole is the
  lifecycle a user sees.
* Remote run: COMPLETED means the finished output of one's own run; a failure is
  reported only for a reason that holds; PALM does not work for a client that has
  gone without need; every call ends.
* Configuration: a URL is used only with a token that was in force together with it
  at one moment; a quiet save takes effect.
* Edits: the static driver is written only from chains that replay without a
  skipped edit, an overlap of an added building, or an impossible height, and it shows
  what was added, under heights that are numbers; the quality tier never improves by
  editing; the editor loses no edit that it loaded.
* Project data: the creator of a project stays its owner; rows do not outlive
  their project; somebody can always administer the system; a forcing record
  describes the file on disk.
* Spine: a reported comparison has a difference for every field in which both runs have
  a value at some cell; a completed job
  shows all of its results or none; its confidence is not above any source of the
  scenarios that ran; where surface changes overlap the last one counts.
* Comparison: classes, threshold impacts and regions of one report do not contradict
  one another.
* Results page: a page that shows the spinner polls, one that does not does not; who
  stays sees the results.

## 2. Modules

### `JobLifecycle` and `JobQueue`

`JobLifecycle` is what a user may rely on, with one variable `life`: absent,
waiting, handed to *one* worker, settled; only failed and cancelled jobs return.

`JobQueue` models the table and everything that writes it. One action is one
committed transaction or one step of a program between two transactions:

| Code | Actions |
|---|---|
| `run_job`, `compare_job` | `Submit` |
| `cancel_job`, `retry_job` | `CancelChecked` / `RetryChecked` (read and check), `RequestCommits` (the flush after the handler), `RequestAborts` |
| `Worker.start` with `recover_interrupted_jobs` | `Start` |
| `claim_next_job` | `Poll` (SELECT), `Claim` / `LoseClaim` (guarded UPDATE), `Load` / `LoadFails` (refresh) |
| `_execute_job`, `mark_completed`, `mark_failed` | `Complete`, `Raise`, `MarkFailed`, and `CompleteFails`, `MarkFailedFails` for database errors |
| heartbeat thread | `Beat` (reads the loop's job id), `Heartbeat` (the UPDATE, any time later), `HeartbeatFails`; `Expire` is the passing of `heartbeat_timeout` |
| signals, `kill` | `Stop`, `Stopped`, `Crash` |
| `requeue_stale_jobs` | `StaleScan`, `StaleCommit`, `StaleCommitFails` |

`Flush` is the ORM's UPDATE of changed columns. `loaded`, `request` and `scan`
are the identity maps. A result is named by the attempt that made it, so that
"the newest result" can be said. Three switches choose the deployment:
`StaleCheckerRuns` (nothing in the code instantiates `StaleChecker`, so FALSE is
the program as it ships), `TimelyHeartbeats` (may a living worker's heartbeat
expire?), `StartsOverlapWork` (may a worker start while another one works?).

Properties under every schedule: `TypeOK`, `RowsAreWhole` (`RunningIsOwned` and
`CompletedHasResult`), `RetryBudget`, `StartsOnlyFromQueue`, `LeaseRenewedByOwner`. The last
is about a heartbeat thread that lags behind: the loop may have left the job that the
thread read, lost it to the checker, or got it again under a new claim. An expired lease
is still renewed only for the worker that the row names, and this worker has the job in
hand, unless a database error made it let go of a running row. In a disciplined
deployment (`Disciplined`: workers start while none works, no cancellations, one retry
request at a time, no stale checker) also
`NoDuplicateExecution`, `ResultIsNewest`, `AttemptsAccounted` and
`ImplementsLifecycle`. Those do fail outside of it:

* a late start requeues a job in execution (run `queue_late_start`), and the job
  is executed twice, the older outcome possibly overwriting the newer one;
* a cancellation racing a claim cancels a running job, although the message at
  main.py:1363 says "Only queued jobs can be cancelled", and the worker's
  completion then turns *cancelled* into *completed* (`queue_races` has these
  schedules, and its properties hold in them);
* with a checker and late heartbeats a slow worker's job is given away likewise.

### `EmbeddedWorker`

Who starts the worker. A process is named as its worker; `thread` is the pair of
`_embedded_worker` (None while the thread is "none") and the thread's own state.
`Ensure` is `ensure_embedded_worker`: it asks for the variable, not for the thread.
`Boot` is the lifespan, which ensures the worker whatever `PALM4U_EXTERNAL_WORKERS`
says; `Submitting` and `SubmissionEnds` split a submission at its commit, since
`run_job_background` comes before it; `Requesting` / `RequestEnds` do the same for
retries; `Starting` and `RecoveryRaises` are the two ends of the recovery in the
thread; `Dies` takes thread, submission and requests along. Everything else is the
`WorkerStep` of `JobQueue`.

`EveryJobSettles` is the promise with its two exceptions. One is a dead thread in a
process that lives on. The other is a database error of a loop that lives on: when the
refresh after the claim (queue.py:52) or `mark_failed` (worker.py:85-94) raises, the row
stays running in nobody's hand (`Orphaned`), and only the next start of a worker finds
it. `CompleteFails` is no exception, since the loop then fails the job. The run
`queue_restart` has all of these errors. `JobsExecuteAutomatically` is the promise
without exceptions, which the run `queue_embedded` refutes.

### `LinuxWorker` and `RemoteRun`

`LinuxWorker` has the endpoints, the background task of each run and the process
with its in-memory registry. Recording an end is one step per field, in the
order of the code, and so is reading a record: all torn reads are explored. The message
is the one field that is set after the status (main.py:206-207) and read after it
(147-148), so a report can say completed with an empty message, and `_run_remote` hands
this message on (remote_client.py:102). `CompletedReportIsTimed` says what a completed
report does have, the wall time of its run, and the archive is there.
`Arrives` needs a free thread because the token check, the endpoints and the
tasks share the pool. `Crash` forgets registry and tasks and keeps the files.

`RemoteRun` composes it with `RemoteRunnerClient.run` and `_run_remote`: submit,
poll, the deadline (an action of time, `DeadlinePasses`), download, refusals,
and the transport errors that nothing catches (`TransportError`).
The run identifier is a fresh uuid, so a run is named by its call. There is no
request that cancels a run: `WorkIsWanted` says when the Linux worker can be left
with a run that nobody waits for, after a deadline or a broken connection and in no
other case. A retry of the job then has PALM run a second time.

### `RunnerConfig`

The table, the environment, an admin's save split at `await` into `Fetch` and
`Commit` (or `Rollback`), and `run_palm`, which resolves the mode
(`Resolve`) and reads once more before it posts (`Dispatch`). `Readable` covers
the silent fall-back to the environment of `load_config_sync`. Validation of the
mode by the route shows in `Payloads`.

### `BuildingEdits`

The chain in the scenario's JSON; `AppendEdit`, `DeleteEdit`, `ReorderEdits`
(read, validate, build) and `Upload` (PUT, which parses and does not validate),
each with its `Commit` or `Rollback`; `Run` writes the static driver from a
scenario that validates. `Applied` is the resolver's step and
`CheckedAdd` / `CheckedModify` / `CheckedRemove` the validator's; the soundness
of a chain (`Sound`) is said of the resolver, and `KnowsWhatStands` relates the two.
A PUT that leaves the chain alone and brings trees or surfaces still writes the whole of
`scenario_json`, a stale chain included (the second disjunct of `Commit`).

The three programs read a geometry each in its own way, and a shape has a part for each:
`inside` are the places within the outer ring, which the rasteriser tests; `core` is what
is left when the ring is shrunk by the overlap tolerance of 0.5 m, which the validator
intersects; `readable` is the validator's test (a closed ring of four coordinates or
more), and `drawing` is what `_write_buildings` makes of it by its laxer one: it draws an
open ring, skips a multi-polygon, raises on what has no coordinates. A height is the
number that `float()` makes of it, and whether it came as a text: the validator converts,
the resolver stores what came, and the rasteriser fails where it compares a text with a
number (`Writable`), so that such a run ends in an error and writes no driver.

`Raster` is `_write_buildings`: of the drawn buildings over the centre of a cell the
tallest is written. `DriverIsSound` has every height on the grid a number, and every added
building drawn at each centre in its core. Two exceptions are part of it, as dropping
either makes the run fail: another building may be there instead if the validator could
not read it, or if the centre is within the tolerance of its edge.

Left out: a literal `NaN` in a body, which is no JSON although Python's parser takes it,
and other attributes of a *modify* (a roof type of a wrong type stops the writer, which
is an attempt that ends in an error, as in `Spine`).

`DriverIsSound` speaks of overlaps only for chains that move nothing
(`MovesNothing`): a *modify* that replaces the geometry is not checked against
the other buildings, which is the finding of run `building_overlap`.

### `EditorPage`

The page as one client among others of the building routes. It keeps a copy of the
scenario, and its edits go through the routes, which do not touch the copy; `Save`
PUTs the copy. The first drawing in a scenario without building edits PUTs an empty
chain first (`Initialise`), and a release of FastAPI that answers before the commit
makes `Initialised` early. `LoadedEditsStay` is as much as holds: edits made since the
page was loaded are lost at the next Save, edits that were loaded are not. Trees and
surfaces change only the copy and are left out, as is more than one drawing at a time.

### `ProjectData`

The rows that refer to one another by id and the routes that insert, change and
delete them. Each route is a check (`CreateProject`, `DeleteProject`,
`AddMember`, `UpdateMember`, `RemoveMember`, `CreateScenario`,
`DeleteScenario`, `SubmitJob`, `PatchUser`) and, in `Write`, the commit of its
session or a `Rollback`. `RoleOf` and `May` are the access helpers of the API.

* The database is SQLite, the default: `NewId` is the largest id plus one,
  foreign keys are not enforced, NOT NULL and UNIQUE are. PostgreSQL has
  sequences and foreign keys, hence fewer behaviours.
* `db.delete(project)` takes along the members that the session loaded, and sets
  `project_id` of scenarios and jobs to NULL, which the schema refuses: a project
  that has any stays. `ProjectDeleted` has this as its guard.
* A worker reads the scenarios of a job by id when it executes it (`Execute`); the
  rest of a job's life is in `JobQueue`.
* `clashed` remembers that the deletion of a project or of a member (`Removes`)
  overlapped another request. Without it `CreatorOwnsProject` and
  `NothingOutlivesItsProject` are claimed; with it they fail, as the schedules without
  the premise show: a role is written to a membership whose id another project's owner
  has got.
* `crossed` remembers that an administrator was put out (demoted or deactivated) while a
  patch that he himself had sent was under way. `AdministratorRemains` is claimed for every
  other schedule, overlapping patches of one account or by one administrator among them,
  where flags are written column by column from rows read long ago. With it the
  property fails: two administrators demote each other.

Login and registration are not in it.

### `ForcingFiles`

Rows and disk of the forcing files, on top of all routes of `ProjectData`
(`OtherStep`). `UploadForcing` is the handler with its file operation. A deletion has an
await between the SELECT and the unlink (main.py:1658, 1668), so it is three steps:
`DeleteForcing` reads the row, `UnlinkForcing` removes the file, `ForcingDeleted` commits.
`ForcingUploaded` is the commit of an upload and `ForcingUndone` the rollback, which
undoes the row and not the file. The stored name is made of the project and the name of
the file, and rows of a deleted project stay. `ForcingDescribesDisk` excludes, by the
history variable `past`, three histories after each of which it fails: a second upload
under a name (`shared`), a deletion that is rolled back after the unlink (`undone`), and two
overlapping deletions of one record (`twice`), the later of which unlinks a file uploaded
since.

### `ScenarioRules` and `Spine`

`ScenarioRules` holds the pure rules: the grid of a domain (`Nx`, `Ny` with
Python's rounding, in metres or in degrees), one operator per check of
`validate_scenario` that can block, `Comparable`, and the tiers. Lengths are in
hundredths of a unit, and the cosine of the latitude in tenths. How a tree or a
polygon lies in the domain, and what an edit chain amounts to, are inputs.

`Spine` is one job in a worker's hands. `Begin` is a claim with the queries for
the scenarios (any two that the rows may hold by then), then one action per stage
of `run_comparison` and `run_single_scenario`: `ValidateComparison`, `Validate`,
`Translate`, `Run`, `Report` for each side, `CompareSides`, `Serialize`. At any
stage an exception may end the attempt (`Raise`) and the next attempt starts in a
directory of its own. Workers always pass `stub=True`, so `Run` is the stub, which
takes its grid from the driver. An early return with `.error` is an outcome like
any other: the worker completes the job. `compare_scenarios` leaves a field out
without a word twice: when the shapes differ (comparison.py:118-119), and when no cell has
a value in both runs (127-128). The runs therefore come with the cells at which each field
has a value (`Masks`), and `DeltasCoverEveryField` says that a report has a difference for
every field of `CommonFields`, those with a common cell: the first skip never takes one
away, and the second takes those only.

### `Comparison`

`Spine` with its numbers: the temperature fields of the runs (`Running`), and what
`classify_pet` and `compare_scenarios` make of them (`Comparing`). Fields are in tenths
of a degree, NaN is `Fill`. `AnalysisAddsUp` relates three algorithms on different masks
and different tables: the cells that cross a threshold explain the change of the count
above it; the cells above a threshold fit the classes above it, but for cells at the
threshold and cells that only one run has; the regions partition what was compared and
none that is left out has cooled more. `list.sort` and the cut after three regions show
in `RankedImprovements`: the k-th region is the one with k - 1 regions before it.

Seen while translating, and not stated as properties: under a later change a cell
keeps the pavement or water type of an earlier one (its fraction is zero); in a
domain in degrees `static_driver` divides degrees by a resolution in metres, so
that trees gather in the first cell and surface changes meet no cell centre; and a
tree on the eastern or northern edge is valid and silently skipped.

### `ResultsPage`

The page of one job: load, interval, overlapping polls, results, leaving, failures of any
request. The job changes as `JobLifecycle` lets it (`JobMoves`), the promise that
`EmbeddedWorker` and `JobQueue` are shown to keep: the page is checked against every
queue that implements it. `history` records the two events after which the properties
do not hold: an answer that arrives after the polling has stopped and brings back an
older status (the spinner then stays for good), and a page left before its first answer
(its interval then has no owner).

## 3. Runs

| Run | Module / cfg | Shows |
|---|---|---|
| `queue_races` | `MCJobQueue` / `MCQueueRaces` | The unconditional queue properties under all interference at once: two workers, two requests, stale checker, heartbeats that lag behind the loop, overlapping starts, a crash or stop, a database error. |
| `queue_restart` | `MCEmbeddedWorker` / `MCQueueRestart` | Two API processes with embedded workers, deaths, a recovery that raises: no double execution, newest result, database errors of the loops: bounded attempts, lifecycle refinement, every job settles unless a dead thread stays or an error leaves its row in nobody's hand. |
| `remote_calls` | `RemoteRun` / `MCRemoteRun` | A call while the Linux worker restarts, hangs or is busy: timed reports, finished archives, justified failures, no unwanted work, and an end. |
| `runner_config` | `MCRunnerConfig` / `MCRunnerConfig` | Two admins and a run: targets and quiet saves. |
| `building_edits` | `MCBuildingEdits` / `MCBuildingEdits` | The editor page and two handlers, chains of up to three edits, all routes, and what the rasteriser draws of them. |
| `project_data` | `MCProjectData` / `MCProjectData` | Two users and two requests at a time: owners, references, administrators, forcing files. |
| `spine` | `MCSpine` / `MCSpine` | One job with a retry over 39 scenario contents and five temperature fields, with fields that no cell has in common: grids, completeness, confidence, surfaces, analysis. |
| `results_page` | `ResultsPage` / `MCResultsPage` | One job with a retry, up to three requests at once, answered in any order: polling matches the screen, a completed job is shown. |
| `queue_late_start` | violation | "Recover any jobs left running from a previous crash" (worker.py:47): recovery also takes jobs that are being executed. |
| `queue_embedded` | violation | "starts an embedded worker thread so jobs execute automatically" (executor.py:3), "if not already running" (executor.py:22): after one recovery that raises the thread is dead, and no submission starts another. |
| `project_compare` | violation | "Scenarios must belong to the same project" (main.py:1074): checked at the submission only. The intervention is deleted, its id goes to a scenario of another project, and the job compares the two. |
| `building_overlap` | violation | Buildings "shouldn't" overlap "after validation" (static_driver.py:228): a moved one can. |

Three more remarks of the sources do not describe the code; they have no run of their
own. "The data quality tier is automatically downgraded" when buildings are edited
(SCIENTIFIC_METHODOLOGY.md:84), but the lower tier is worth an informational issue of
the validation only (`downgraded_buildings_tier` is called nowhere else), and the result
keeps the confidence of the declared sources. `linux_worker/main.py:39-40` says that
jobs are "serialised via a lock", but the lock protects the registry, and `_run_job`
tasks run side by side (`remote_calls` explores this). `db/models.py:183` says "Exactly
one row (id=1)", but two first saves that overlap both insert (`runner_config` has such
states, and its properties speak of the row that is read).

### Bounds

* **Queue.** One job and two workers meet every race on a row (claim/claim,
  claim/cancel, complete/requeue, heartbeat/reassignment), as rows do not interact but
  by the order of the queue. `MaxRetries = 1` gives both branches of the budget.
  `MaxClaims = 2` in `queue_races` lets a job be taken, taken away and taken again; in
  `queue_restart` it is 11, above the `(MaxRetries + 1) * (requests + 1) + departures +
  faults` that `AttemptsAccounted` allows there (10), so the guard never blocks and
  hides no liveness failure. Requests, departures and faults are bounded by their
  counters; a third crash repeats the second. The proofs are for any number of jobs,
  workers and requests.
* **Embedded workers.** Two processes, so that one lives on while the other dies; two
  troubles (a recovery that raises, a death before the worker's loop) besides the two
  departures of workers at work.
* **Remote.** One call, two restarts. Calls meet only in the pool of threads, which can
  delay a step and nothing else, and in a crash, which takes all of them; nothing is
  assumed of the Linux worker's speed, so what a full pool does to a call is among the
  behaviours of one call. The proofs are for any set of calls and size of the pool.
* **Configuration.** Three saves: two that race on an empty table and a quiet one after
  them. Two pairs of URL and token, and one pair from the environment; the payloads
  include one that clears everything and one that sets a URL only.
* **Edits.** The centres of four cells in the domain and of one in the ghost layer;
  three base buildings (a readable one with a centre within the tolerance of its edge, a
  multi-polygon taller than the limit that neither program draws, an open ring that only
  the rasteriser draws), eleven edit bodies (among them a height as text, a geometry
  that is none and a move onto another building), five uploads, three accepted requests,
  two of them possibly in flight at once, the page's among them. Chains of three have an
  edit before and after any edit that is deleted or moved.

* **Project data.** Two users, both administrators, two requests in flight, ids up to 2,
  five requests. An id is reused after one deletion, and five requests are enough to
  create a project, give it a member or a forcing file, delete it, and create another
  one under its id while a request that saw the first one waits. One name of a file,
  which two projects may use, and two contents, one valid, tell records and files apart.
  A create that would need a larger id can only roll back. `project_compare` needs seven
  requests, one at a time.

* **Spine.** Seven domains: one box in metres at three resolutions and under the other
  coordinate system, one box in degrees likewise, with the code's own limits and
  metres per degree. Each is combined with four tier assignments that differ in
  where the weakest source is, and one sample fails each check. Every ordered pair
  is compared. Four overlapping changes put each category over another one. Two
  attempts: a third repeats the second. The temperature fields have two rows of three
  cells, so that the quadrants differ in size, with cells above, below and at each
  threshold and cells that one or both runs lack; two of the fields have no cell in common.

* **Results page.** Three requests at once: the load or a poll, one that it overtakes, and
  the results. One retry gives both moves back to the queue; a job moves as often as it
  likes.

Symmetry sets are used only in runs without liveness. Deadlock checking is off
where the bounds make the model stop, which the program does not; it is on for
`runner_config`.

### Fairness

* *Queue* (`EmbeddedFairSpec`): an API process that is down is started again (the service
  manager or the user), a thread that runs takes its next step (`Progress` of each
  worker, and `Boot` or `Starting`). Only weak fairness is
  used; nothing makes clients send requests, and nothing ends a process whose thread is
  dead. In `queue_restart` the switch `StartsOverlapWork = FALSE` delays a start until
  the other workers are idle, which fits one service that restarts its processes
  together; starts that overlap work are in `queue_races` and `queue_late_start`.
* *Results page*: the interval fires (weak), and each request is answered and its answer
  handled, or it fails (strong, as polls compete for slots). Nothing is assumed of the job.
* *Remote*: the calling thread and time. No fairness for the Linux worker or for
  PALM, so `EveryCallEnds` shows that the client alone brings a call to its end:
  every HTTP request has a timeout and the polling a deadline.

## 4. Proofs

Checked by TLAPS for every value of the constants that satisfies the named
assumptions of the modules.

**`JobQueueProofs`** (from `Spec`, no assumption on the deployment). No invariant here
is inductive by itself: the writers use copies that were read earlier, and what they
write is right only if the copy was. The strengthening is `RowInv`: `TypeOK`; every row
of the table is sound (`SoundRow`: owned if running, within budget, with a result if
completed); every copy was what its reader checked (`CheckedCopies`: queued for a
cancellation, failed or cancelled for a retry, running for a scan); and a worker with a
job in hand holds a positive attempt. With the column-wise `Flush` one then shows that
each mix of old and new columns is again sound, action by action. `RowInv` gives
`TypeCorrect`, `RunningRowsAreOwned`, `RetriesStayInBudget`, `CompletedRowsHaveResults`
and `RowsStayWhole`, and with it the action property `JobsStartOnlyFromQueue`.
`LeasesRenewedByOwners` needs `OwnedInv` (`OwnersHold`): as long as the database has
raised no error, the worker that a running row names is down or has the job in hand.

Its second part assumes `Disciplined`. The strengthening `DisciplineInv`
is `RowInv` with `HoldersOwn`: without cancellations, checker or overlapping
starts a worker with a job in hand is the one its row names, the row is running
under that worker's attempt, and the single request in flight sees the row it
read. From it: `NoJobIsExecutedTwice`, `ResultsAreNewest`, and
`QueueImplementsLifecycle`, the step simulation of `JobLifecycle` under the
mapping `LifeOf`. `AttemptsAreAccounted` needs a balance: a row *grants* attempts (a
queued one as many as its retry count leaves; a running one in a hand one less; an
orphan, which will be recovered, as many as a queued one), and an accepted request
promises a full budget. `AccountsBalance` says that claims, grants and promises together
stay below the limit: a claim only moves one attempt from the grants to the claims, a
request, a departure or a database error raises the limit by what it may add.

The third part is about `EmbeddedWorker`. `EmbeddedImplementsQueue` is the step
simulation of `JobQueue` by the deployment with embedded workers (with `SubmissionInv`: a
submission under way names a job), so that everything above carries over to it;
`EmbeddedRowsStayWhole`, `EmbeddedImplementsLifecycle` and `EmbeddedAttemptsAccounted`
say so of the forms that matter most. `LoopsAlwaysHaveThreads` ties a worker's loop to
its thread and its process.

**`RemoteRunProofs`**. What a client is handed depends on three things written by
different steps: the record, field by field, the archive and the task's progress. The
invariant says that they go through *stages* together (waiting, executing, packing,
recording with so many fields still to set, done, forgotten by a crash), one disjunct
per combination that occurs, and that the call and its request are at a point that fits
the stage: what a report has read so far is what the fields were at the time. Each
action moves a run from a stage to another one and leaves all other runs alone. It gives
`Typing`, `OutputIsFinished`, `ReportIsTimed`, `RunIsServed`, `FailuresAreJustified` and
`NoUnwantedWork`, for any calls, pool size, mode and number of crashes.

**`RunnerConfigProofs`**. `TypeInv`: the table never shrinks and a session's id
never exceeds it (`ConfigTypeCorrect`). `AloneSeesTable`: a save that has been
alone since its fetch still sees the row it read, hence `QuietSavesTakeEffect`.
`TargetInv`: every configuration in force is recorded before it can be read,
hence `PostedTargetsWereInForce`.

**`FoldFacts`** has the facts about `FoldLeft` that two components need:
`FoldOfNothing`, `FoldOfLast` (the last element is the last step) and `FoldOfPrefix`.
The library's induction theorems take the predicate as an operator, which the provers
cannot instantiate; a *set* of numbers can be handed over, so `FoldFacts` does induction
on sets, from the well-foundedness of inclusion. `Op`, what is folded, is a constant of
the module, and whoever folds something instantiates it.

**`BuildingEditsProofs`**. First the two interpreters of a chain, without any state.
`ReplaysAgree` runs the resolver's fold next to the validator's and carries `Stage`
along, edit by edit (heights come from an edit within the limits or from the snapshot;
the validator knows only buildings that stand), and, as long as nothing is moved,
`Unmoved` (it knows exactly the readable buildings, each where it stands; added ones are
inside and apart). It gives `ValidChainsAreSound` for chains of any length over any
snapshot. The rasterisation is the second half: `TallestExists` has the maximum that
`Raster` chooses, `DrawnStandsThere` that what is chosen is drawn at the cell, so that
its core lies within its ring, and `DrawnAreNumbers` follows from `Writable`; hence
`AddedBuildingsAreDrawn`. Then the routes: `RoutesInv` says that what is stored, and
what each session is about to commit, is an upload or a sound chain (`Stored`), and how
the new chain follows from the one read (`Follows`); that a new id is fresh and a
reordering loses nothing are lemmas. `EditorInv` adds the page: while nobody else
writes, every copy of the chain that can still reach the database (the page's, the
list's, a Save's, a session's) holds what was loaded and not undone. From these:
`EditorTypeCorrect`, `DriversAreSound`, `TiersNeverImprove`, `LoadedEditsAreSafe` and
the action property `StoredChainsAreSound`.

**`ProjectDataProofs`**, for any users, ids and number of requests at once, of the system
with forcing files (`ForcingSpec`). `TypeInv` types each session by its operation, since
a commit stores what the session holds. `CalmInv` is the argument for the access rules: as
long as no deletion overlapped another request (`clashed`), every session's check still
holds (`Current`), and whoever removes something is alone (`SessionsInv`); owners are the
creators and references have targets. `RightsInv` is the one for administrators, under
`crossed` alone: whoever has a patch under way is still an active administrator
(`Entitled`), and a patch cannot put out its own author, so that he remains. `FilesInv` does
the same for disk and table: unless a name was shared, a deletion undone, or one record
deleted twice at once, names are apart among rows and uploads (`NamesApart`), a record that
is being deleted is still the row that was read, by one request only (`RowsStand`), and
every file is there but those that a deletion in progress has taken (`Stored`). From these:
`DataTypeCorrect`,
`CreatorsOwnTheirProjects`, `RowsGoWithTheirProject`, `AnAdministratorRemains` and
`RecordsDescribeFiles`.

**`ResultsPageProofs`**, for any number of requests under way. `PollingMatchesPage` needs
`PageInv`: there is a single load, and nothing is polled before it is answered
(`OneLoad`); a job that has completed stays so, hence an answer that says it is never out
of date (`CompletedStays`); a page left before its first answer is remembered
(`LeftEarly`). It gives `PageTypeCorrect` and `PollingMatches`.

**`SpineProofs`**. `ComparableScenariosShareGrid` is the rule that the comparison
rests on. Rounding is bounded by `RoundBounds`; a box of at least `MinCells` cells
in metres then has more than `MaxCells` in degrees (`NoBoxInBothUnits`, from the
named assumption `DegreesAreLong` on the three constants, which the code's 111320,
10 and 500 satisfy), so that two fair domains with the same box and resolution have
the same kind of coordinate system. `SpineInv` carries it along the pipeline: what
is translated was valid, what runs has the driver of its scenario, what is compared
is on the scenarios' grids and rated by them. As all fields of a run are on its
scenario's grid, the shapes of two runs never differ, and what is compared are the fields
with a common cell. It gives `SpineTypeCorrect`,
`ComparisonsCoverEveryField` and `ConfidencesAreWeakest`, for any set of scenarios.

`OutcomeInv` follows one attempt: no part of a result has a value before its stage, a
stage is reached only by scenarios that are in order, so that where the pipeline turns to
the summary either every part is there or none (`ResultsAreAllOrNothing`). `DriverInv`
says that a driver is that of the scenario of its side; `PaintedShowsLast` is the fold
over the surface changes, of any number (`LastChangesCover`).

`ComparisonImplementsSpine` is the step simulation of `Spine` by `Comparison`, so the
theorems of the spine hold of the system with its numbers. `AnalysesAddUp` is about these,
for any grid and fields. `SumUnfolds` and `SumOfKinds` are induction on the size of a set:
a sum of areas counts the cells of all kinds. The rest is counting: `ImpactsBalanceFor`
splits the cells above a threshold into kept and crossing ones; `FitsClasses` shows, from
classes with rising ends (`ClassIsLast`), that the classes from a threshold on hold the
cells at or above it; `RegionsPartition` and `AreasAddUp` that every compared cell is in
one region; `CoolerOrders` that comparing means by cross-multiplication is an order, hence
`RankedAreCoolest`. `NumbersInv` carries the fields to the stored analysis. The proof
rests on `BandsAssumption`: the ends of the classes rise, and every threshold is one of
them. In the code's tables the ends are 4, 8, 13, 18, 23, 29, 35, 41 and the thresholds
are among these; only the side to which the end itself belongs differs.

**Only model-checked:** liveness (`EveryJobSettles`, `EveryCallEnds`,
`CompletedIsShown`), since the prover does not reason about fairness through ENABLED, and
the four statements that runs refute. Every invariant and every other action property
that a passing run checks is the statement of a theorem. Proofs are of the models, whose
bounds on requests, claims and faults are constants of any size.

## 5. Not modelled

* **Databases.** A transaction's writes are atomic and a read sees what is
  committed. A commit whose outcome is unknown to the client is not modelled.
  With PostgreSQL `SKIP LOCKED` removes schedules and adds none.
* **Content.** Error messages, timestamps, sizes and log lines.
* **Drivers, namelists, reports, maps, pages:** rendering and file formats.
* **Numerics.** Means, percentiles, interpolation, PET itself and its recomputation by
  `verify_pet`, whose outcome is only recorded.
* **Metrics, audit log, migrations, deployment scripts:** write-only or run once.

* **The job monitor.** No page renders `JobMonitor`, and the socket route reads one row in
  a loop.
* **Two devices of the editor.** One drawing at a time; trees, surfaces and meteorology are
  changed in the page's copy and reach the server by Save only.

## 6. Plan

1. Abstract specifications: an atomic scenario store that the edit routes implement while
   requests do not overlap; "one remote execution" implemented by `RemoteRun`.
2. Theorems: that `LinuxWorker` alone never reports a run before its archive, without
   `RemoteRun` around it; that the sequence of edits without overlapping requests
   implements the atomic store of item 1.
3. Registration of the first administrator, and the rate limiter's window.
4. The trees of the static driver and the profiles of the dynamic one.
