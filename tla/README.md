# TLA+ verification of ai-auto-test-all

The repository is a collection of four independent systems that generate and run
end-to-end tests with the help of coding agents:

| tree | what it is |
| --- | --- |
| `src/ai-auto-test-playwright` | TypeScript server, Python worker (`worker/server.py`), Temporal worker, dashboard. Generates test plans and code with Pi agents, runs pytest, fixes failures. |
| `src/ai-auto-test-platform` | test-server and dashboard. Runs Gherkin features through a Pi agent, audits generated code. |
| `src/ai-auto-test-monday` | API, Temporal worker, agent-core, dashboard. A seven-agent pipeline that generates Playwright tests from a front-end's sources. |
| `src/api-test-platform-python` | FastAPI and LangGraph backend with a Next.js UI. |

They share no state and no process. What is hard in all of them is the same:
handlers of one event loop that interleave at every `await`, processes that
outlive the request that started them, and database rows written by several
parties without a transaction or a condition.

Paths below are relative to `src/`. `PW` is `ai-auto-test-playwright`, `MO` is
`ai-auto-test-monday`, `PT` is `ai-auto-test-platform`.

## 1. Inventory

### 1.1 Playwright run service (modelled: `RunService`)

* **Code**: `PW/server/src/services/run-service.ts`, `PW/worker/server.py`,
  the run, job and workflow-state repositories.
* **State**: `activeRunsByProject`, `cancelled` and `abortController` in memory,
  the latter two shared by all projects; rows `runs.status`, `jobs.status`,
  `workflow_states.stage_status`; the pytest process in the worker.
* **Operations**: `startRun` (409 check, five awaits, map entry, detached
  `executeRun`), `executeRun` (fetch, NDJSON stream, verdict), `finalizeRun`
  (rows one after the other, then the slot), `cancelProjectRun` (posts to the
  worker, then raises the flag and aborts, or finalizes itself), restart.
* **Interaction**: HTTP stream from worker to server; HTTP POST for cancel;
  both rows and flags are shared by start, execute and cancel.
* **Hard**: check-then-act over awaits; flags shared by projects; a timer, a
  cancel and the last lines of the stream that race; a throw half way through
  `finalizeRun`; memory lost on restart while pytest goes on.
* **Correct when**: one project runs one pytest at a time; the slot is given
  back; run, job and stage tell the same outcome; a verdict is not overwritten;
  `passed` needs evidence; every run settles.

### 1.2 Playwright Pi jobs (modelled in part: `PiJobs`)

* **Code**: `PW/server/src/services/pi-job-runner.ts`, `plan-service.ts`,
  `codegen-service.ts`, `PW/server/src/pi/rpc-client.ts`,
  `PW/server/src/repositories/job-repository.ts`.
* **State**: the `running` map of handles (job, client, `cancelled` flag),
  `jobs.status`, `workflow_states.stage_status`, one Pi process per job.
* **Operations**: `startPlanGeneration` / `startCodeGeneration`, `execute` with
  its second prompt for plans, `cancelJob` with and without a handle, restart.
* **Hard**: `findActiveByProject` and the insert are two statements; the cancel
  flag is looked at in some places and not in others; both sides write the row
  without a condition; a dead agent is noticed only by a timer.
* **Correct when**: one generation of a type per project; no agent without a job
  that wants it; a cancelled job stays cancelled and is not prompted again;
  every job settles and its handle is released.

### 1.3 Monday pipeline (modelled: `MondayPipeline`)

* **Code**: `MO/api/src/services/pipeline-service.ts`, `pipeline-progress.ts`,
  `artifact-cleanup.ts`, `MO/worker/src/activities/index.ts`,
  `MO/worker/src/lib/db.ts`, `MO/worker/src/workflows/*.ts`.
* **State**: the `pipeline_runs` row (`status`, `execution_status`,
  `overlay_workflow_id`), up to four kinds of Temporal workflow per run, the
  artifacts, and activities nobody waits for any more.
* **Operations**: `startPipeline`, `executePipelineRun`, `resumePipelineRun`,
  `cancelPipeline`, `getPipelineRun` (which repairs the row as a side effect),
  the three workflows, the writes of their activities.
* **Hard**: the API, every poller and every activity write the row from what
  they read earlier; a cancelled workflow leaves its activity running;
  Temporal retries an attempt that has already written `failed`; database
  errors of the worker are swallowed.
* **Correct when**: one workflow of a run and one run of a project work at a
  time; a settled run stays settled however it is polled; a row left at
  `running` is repaired; a resumed run does not inherit the old outcome.

### 1.4 Playwright fix loop (modelled: `FixLoop`, `IterationLog`)

* **Code**: `PW/server/src/services/fix-service.ts`, `fix-apply-service.ts`, the
  iteration repository, `routes/fix.ts`, the fix page's selections.
* **State**: `fix_suggestions`, `fix_iterations`, the files of the workspace, the
  detached loop of `pollVerifyResult` per verify run.
* **Operations**: analysis, `applyFix` (limit check, patches file by file, insert),
  `startVerifyRun`, `pollVerifyResult` (120 polls of 5 s), restart.
* **Hard**: the iteration number is read before the patches are written and
  claimed after; a patch is a read, a hunk match and a write of a file that others
  may patch; the poller dies with the server and gives up by itself.
* **Correct when**: the rows are a log without gaps; they explain the workspace; a
  result is the verdict of its own run and is recorded while anybody polls.

### 1.5 Playwright platform pipeline (modelled: `PlatformPipeline`)

* **Code**: `PW/temporal-worker/src/workflows/playwright-platform.ts`, its
  activities, `PW/server/src/services/temporal-blocking-service.ts`,
  `platform-pipeline-service.ts`, the internal and pipeline routes.
* **State**: the `platform_pipeline_runs` row, the workflow and the activity it
  awaits, the HTTP handlers in service, jobs, runs and the project's slot.
* **Hard**: an attempt that timed out goes on in the server beside its retry;
  every handler rewrites the whole row from what it read; a cancelled workflow
  still runs its catch block.
* **Correct when**: the row tells what the workflow did; cancelled stays
  cancelled; a pipeline ends.

### 1.6 Playwright recorder (modelled: `Recorder`)

* **Code**: `PW/server/src/services/recorder-service.ts`, `routes/record-live.ts`,
  `routes/vnc-proxy.ts`, `workflow-state-repository.ts`, `workflow-service.ts`, and what
  plan, code and git services do to the row and the recordings.
* **State**: containers in Docker, `recorder_sessions`, recordings on disk, the
  workflow row's stage and `artifact_paths.recorded`.
* **Hard**: limits counted long before the insert; Docker and row are two steps
  that fail separately; the workflow row is read whole and written whole.
* **Correct when**: limits bound containers; no container is unknown; stage `recorded`
  points at a recording that was made; idle sessions are stopped.

### 1.7 Playwright run page (modelled in part: `RunPage`)

* **Code**: `PW/dashboard/src/pages/RunPage.tsx`, `hooks/useRunWebSocket.ts`,
  `PW/server/src/ws/ws-hub.ts`.
* **State**: the hook's state and its `activeRunIdRef`, the list of runs, the
  socket, list answers and events under way.
* **Hard**: two roads to the same knowledge, of which one is lost for good with
  the socket and the other may be stale; events of all projects reach all pages.
* **Correct when**: a result shown is that of the run named; the page agrees with the
  list it holds, however old; a settled run leaves the page.

### 1.8 Platform scenario runs (modelled: `ScenarioRun`)

* **Code**: `PT/test-server/src/services/run-service.ts`,
  `pi/gherkin-step-tracker.ts`, `pi/rpc-client.ts`, `pi/event-parser.ts`,
  `PT/test-dashboard/src/hooks/useRunWebSocket.ts`, `App.tsx`.
* **State**: one flag, client and snapshot for the server; step statuses; the
  agent's process; the page.
* **Hard**: step statuses are inferred from tools and text; cancel, cap and
  time-out all kill the client under `executeRun`; the page polls, reloads and
  re-hydrates while events arrive.
* **Correct when**: one run at a time; the page that follows it shows its steps and
  its end; the buttons come back.

### 1.9 Platform audit jobs (modelled: `AuditJobs`)

* **Code**: `PT/test-server/src/services/audit-job-service.ts`, `audit-service.ts`,
  `audit-merge-service.ts`, their repositories, the page's hook.
* **State**: rows, handles and save chains of jobs, partials per module, features,
  the agent's reply text.
* **Hard**: rows are saved by a promise chain a rejection poisons; the merge
  deletes what other jobs write; a reply may come after its prompt was given up.
* **Correct when**: completed means merged; a partial is about its module;
  cancelled is never completed; job and page come to an end.

### 1.10 Monday projects and clones (modelled: `MondayProjects`)

* **Code**: `MO/api/src/services/project-service.ts`, `clone-service.ts`,
  `routes/projects.ts`, `MO/dashboard/src/components/ProjectPanel.tsx`.
* **State**: project rows, working copies, clones under way, the panel's polls.
* **Hard**: a clone lasts minutes and writes its result into a row that may have
  been edited; a directory that is there is pulled, not cloned.
* **Correct when**: 'ready' means the configured code, whole; a clone ends.

### 1.11 Monday artifacts (modelled in part: `MondayArtifacts`)

* **Code**: `MO/packages/agent-core/src/artifact-store/staging.ts`,
  `MO/worker/src/lib/artifact-staging.ts`, `MO/worker/src/activities/index.ts`,
  `MO/api/src/services/artifact-cleanup.ts`, `journeys-artifact-service.ts`, what
  the agents read and write, `merge-execution-report.ts`.
* **State**: the store's files per run, the worker's staging directory, attempts
  and orphans in it, requests half way through.
* **Hard**: one directory per run for all attempts; pushes never delete; requests
  check the row and then rewrite files one by one.
* **Correct when**: specs, journeys, POMs, catalog and report belong together; what
  an activity reported is stored; a partial execution keeps the other results.

### 1.12 Monday dashboard (modelled: `MondayDashboard`)

* **Code**: `MO/dashboard/src/App.tsx`, `hooks/usePipelineWebSocket.ts`,
  `lib/merge-progress.ts`, `MO/api/src/ws/hub.ts`, `MO/api/src/index.ts`.
* **State**: selected run, its row and progress, `loading`, the socket, answers and
  events under way.
* **Hard**: an event is published once; a snapshot is read before it is sent; an
  answer may belong to a run no longer selected.
* **Correct when**: the page listens to the run it shows and stops waiting.

### 1.13 Not modelled

* **Accounts, settings, git wrappers, project and feature CRUD** of the Playwright
  and the Platform server: single-row reads and writes, no protocol.
* **`JobScheduler`, `JobQueue`, project lock**: dormant, `PW/server/src/index.ts`
  starts the queue without a handler and nothing submits to it.
* **The seven Monday agents' work itself** (prompts, code scanning, POM and spec
  generation, `pom-utils.ts`): its outcome is an input of `MondayPipeline` and
  `MondayArtifacts`.
* **Presentation**: the pages that only show the rows they fetch, journeys editor,
  report views, and the vendored chat UI of the Python system.
* **The Python backend**: one table of runs written by a thread pool; its two
  hazards are listed.
* **Which response the RPC client hands to which waiter** (`PW/server/src/pi/rpc-client.ts`):
  a job that times out ends with its client, so no command follows one that timed out.
* `tests/`, `sandbox-repos`, `reference-projects`, templates and Docker skills are
  examples or assets.

**Coverage.** The mapped definitions stand for about 7,800 of the 42,700 lines the
repository counts as implementation, some 18 %. The rest is mostly what a state
machine has nothing to say about: agent prompts and parsers, React markup, CRUD,
and the vendored UI (some 11,000 lines of TypeScript and Python in that tree). The server,
worker and workflow code that coordinates more than one actor is modelled nearly
whole.

Every component has an entry in `PROJECT.json`, and the hazards of the code are
listed there at their lines.

## 2. Modules

One convention holds in all modules: **every `await` is a step boundary**. What
the code does between two awaits is one action, and any other handler may run
between two actions. A database write takes the values computed when it is issued
and takes effect when its action fires. Bounds are CONSTANTS named `Max...` and
appear in guards. Variables called `raced` or `late` are history variables: no
guard reads them, and they name the situations a property is conditional on.

### 2.1 `RunService`

| variable | code |
| --- | --- |
| `startPc[r]` | where `startRun` of `r` is between its awaits (run-service.ts 139-264) |
| `exec[r]`, `verdict[r]` | the detached `executeRun` and the status its `finalizeRun` writes |
| `signal[r]` | which controller the fetch of `r` captured (487); `Aborted` once it fired |
| `log[r]` | the pytest summary among the streamed lines |
| `row`, `job`, `stage` | `runs.status`, `jobs.status`, `workflow_states.stage_status` |
| `active`, `cancelled`, `abort` | the service's three private fields (70-72) |
| `worker[r]` | the pytest process and what its stream still has to deliver |
| `canc[c]` | a `cancelProjectRun` call, with the `ownsStream` it computed |

Actions follow `startRun` (`StartCheck`, `StartRefused`, `InsertJob`, `InsertRun`,
`StageRunning`, `Launch`, `StartThrows`), `executeRun` (`Fetch`,
`ReceiveFinished`, `StreamEnds`, `StreamFails`, `StreamAborted`,
`StreamTimesOut`, `ExecFinalize`, `ExecThrows`), `cancelProjectRun` (`CancelRead`
... `CancelFinalize`, `CancelThrows`), the worker (`PytestSummary`, `PytestExit`)
and `Crash`. `finalizeRun` is one operator, `FinalizeEffect`, used by the executor
and by a cancel that owns no stream, one await at a time.

Abstracted: log lines are only whether a summary line was seen and whether it
reports failures; queries, log files and VNC are left out. Previous-run lookups and
project validation of `startRun` are the choice between going on and
`StartRefused`.

### 2.2 `PiJobs`

| variable | code |
| --- | --- |
| `call[j]` | the request: stage write, `findActiveByProject`, insert, registration |
| `exec[j]` | `PiJobRunner.execute` between its awaits |
| `row`, `stage` | `jobs.status`, `workflow_states.stage_status` |
| `inMap`, `flag`, `shown` | the `running` map, `handle.cancelled`, `handle.job.status` |
| `pi` | jobs whose Pi process runs |
| `canc[c]` | a cancel call |

`Start` to `Cleanup` follow `execute` (pi-job-runner.ts 118-205) including its
`catch` (`Catch`) and `finally` (`StopAgent`, `Cleanup`). `validateOutput` of the
plan and the code service is `Found` / `Missing` / `Save`. `exec = "leaked"` marks
two ways the code loses a job: `resolveForProject` or the config writer throws
before the `try` (125), or removing the agent's home throws in `finally`. The
handle then stays in the map for ever, and in the first case the row stays
`running`; the liveness properties except this state by name.

### 2.3 `MondayPipeline`

| variable | code |
| --- | --- |
| `row[r]` | `status`, `execution_status`, `overlay_workflow_id` of `pipeline_runs` |
| `specs` | runs whose generated specs and JSON artifacts exist |
| `wf[r][k]` | the workflows `pipeline-*`, `execute-*`, `resume-*` of a run: Temporal's status, where the current activity attempt is, and `executeAfterGenerate` |
| `orphans[r]` | attempts whose workflow no longer waits for them |
| `req[q]` | one API request between its awaits, with the row it read |
| `poll[p]` | one `getPipelineRun` call: the row it read, then the writes it decided on |

* Requests: `StartRun`, `ExecuteRun`, `ResumeRun`, `CancelRun` enter;
  `Select`, `Inspect`, `MarkStale`, `NotRunning` are `assertProjectNotRunning`
  with the reconciliation of stale rows; `Update`, `Launch`, `LaunchFails`,
  `Restore`, `CancelWrite` are the rest.
* Activities: one write of an attempt is a member of `Moves`. The same write may
  be made by an attempt the workflow waits for (`ActivityWrites`), by an orphan
  (`OrphanWrites`), or be lost by the worker's `catch` (`WriteLost`).
* Polls: `Decide` is the pure part of `getPipelineRun`: from the row and the two
  query answers to the sequence of statuses it writes. `PollWrite` makes those
  writes one by one, with whatever has happened to the row in between.

External, modelled from how the code uses it: Temporal's refusal to start a
workflow whose id is open, cancellation with `TRY_CANCEL` (the workflow ends
without waiting), `startToCloseTimeout`, `maximumAttempts`, and the lack of
heartbeats, so that an activity learns of a cancel only when its worker shuts
down.

Abstracted: the six generation agents are one stage `gen`, `continuityLead` is
`lead`; resuming at any generation agent is `resumeGen` (each of them deletes the
specs and resets `execution_status`). The progress object is its `status`. Writes that
only change `current_agent` are left out. Executions restricted to some journeys
(`execute-*-partial-*`) are in `MondayArtifacts`. The cancels that `cancelPipeline` sends are
one step, and so are the two `describe` calls of `reconcileStaleRunIfNeeded`.

### 2.4 `FixLoop` and `IterationLog`

| variable | code |
| --- | --- |
| `iters` | `fix_iterations` of one failed run, in order of insertion |
| `sugs`, `analysis` | suggestions and the Pi jobs that make them |
| `files` | which patches the text of each file has |
| `call[c]` | an apply or verify call: the number it read, the patches to do, the file it has open |
| `run`, `red`, `slot` | `runs.status`, runs with failing tests, the run that makes `startRun` answer 409 |
| `poll[v]` | a detached `pollVerifyResult` |

A patch is two steps, `PatchRead` and `PatchWrite`, with `PatchSkipped` (already
applied) and `PatchFails` (the hunk does not match) beside them. Which hunks stop
matching is the constant `Breaks`. `IterationLog` is the abstract specification: a log
to which rounds are added and in which they are judged; `Log == INSTANCE
IterationLog WITH log <- History, ...` is the refinement mapping and
`ImplementsLog` the claim. `History` leaves out the column that names the verify run.

### 2.5 `PlatformPipeline`

`wf` is the workflow (stage, attempt, the verdict it carries), `handler[h]` one
internal HTTP request, `row` the pipeline's row, `cancel` the cancel call. A handler
reads the row (`TouchRead`), writes it whole (`TouchWrite`), starts a job or a run
(`StartsJob`, `StartsRun`, `AppliesPatches`), waits (`RunSeen`, `WaiterGivesUp`) and
answers (`Reply`, `Fails`). `TimesOut` gives the attempt up while its handler goes on;
`AfterSuccess` and `AfterFailure` are the workflow's code after an activity. Plan,
code, run and fix services are one step to start and one to end.

### 2.6 `Recorder`

`status` and `up` are the two halves of a session: row and container. `act[a]` is where
a start, a stop or the timer stands, `upd[a]` a whole-row update of the workflow row
between its read and its write. `StopContainer` may fail and is ignored, as in the
code. `lost` names the containers a mishap (a failing call, a crash) took off the books,
`raced` the projects with two starts between count and insert, `pulled` the recordings git
took away.

`Edit` is every other caller of `WorkflowStateRepository.update`, with the columns it
patches. `GenerationPatches` are those of plan and code generation and of a plan saved by hand:
none of them ties the module to a recording, since only `startPlanGeneration` looks for one.
`Syncs` is `GitService.sync` checking out a branch, or pulling a commit, without a recording
that was there; it counts as a mishap.

### 2.7 `RunPage`

`page` is what the hook and the page keep (`ref` is `activeRunIdRef`), `wire` the events
on their way to its socket, `asked` the list answers on theirs; each answer is the list
as it was when the server read it. `Rendered` is the pair of effects React runs after
a state change; they run before the next event is handled, because every handler's
`setState` is flushed with its passive effects before the browser delivers another task
of this kind. The server is reduced to what a page can tell: rows, slot and the order of
row write and event. The hub sends every event to every page, so runs of another project
(`RunIds \ own`) are there too. `PageAgreesWithList` is about the page and the list it
holds, which may be behind the rows: a run shown as running is not settled in that list, and a
run at work in that list is shown, or its end has been heard. Left out: log lines and pulses, VNC, the pipeline panel, and
the limit of 20 rows in the list.

### 2.8 `ScenarioRun`

`tracker[r]` is `GherkinStepTracker`, whose handlers are operators from tracker to
tracker (`OnRead`, `OnPlaywrightStart`, `OnPlaywrightPassed`, `OnPlaywrightFailed`,
`OnExpectFailed`, `OnSettled`), applied by the events of the agent (`BashStarts`,
`BashPrints`, `BashEnds`, `Muses`). `running`, `client`, `snapshot` are the server's
single fields. `page.followed` is history: the page has been on the run since
`run_started`. Text and output are abstracted to what the tracker's conditions tell
apart.

### 2.9 `AuditJobs`

`handle`, `row` and `chain` are the three places that hold a job; `chain` is the promise
chain of saves with the values they were queued with, and `poisoned` says that one was
rejected. `pi[j].text` is the module the collected text is about. `counted`, `shared` and
`timedOut` are history.

### 2.10 `MondayProjects`

`row` and `tree` are the project's row and working copy, `job[c]` a clone request and the
`runCloneProject` it detaches, `edit` a PUT, `mark` a `tryMarkMountProjectReady` between
read and write, `page` and `cloningId` the panel. `CanPull` assumes of git that it
refuses to pull in a directory a clone was killed in, and that a shallow clone knows one
branch: `ReadyIsWhole` rests on the first, since this code only looks whether the directory is
there. One repository stands for front-end
and back-end: they are cloned one after the other in the same way. `mixed` marks projects
whose row and tree were changed at cross purposes.

### 2.11 `MondayArtifacts`

Files carry the number of the generation that wrote them (`gen`) and of the one they were
made from (`from`); a report carries, per journey, the specs its row is about. `store` and
`local` are the two copies, `at[s]` an attempt in its four phases (pull, work, push file by
file, remove), `promised` what the last finished activity wrote. `raced` says that
somebody was let in beside somebody at work, that a directory was left over, or that a
request failed half way; a resume that makes the files anew clears it, and with it
`promised`, since what was promised while somebody was raced binds nobody.

### 2.12 `MondayDashboard`

`srv[r]` is a run reduced to what a page can see, `page` the state of `App.tsx`, `sock` the
socket with its subscription, snapshot and queue, `calls` the requests in flight.
`Effect` and `Listen` are the page's effects, run after every action that changes what they
depend on. `Render` runs them in the step of the change itself. React does so for a
change made in an event handler; after an `await` (App.tsx:833 sets the run of a start so) it may
run them a moment later, and a message that comes in that moment is outside the model.
`SnapshotFails` is the swallowed error of `getPipelineRun` (index.ts:63-65): the socket stays
open and gets no snapshot. `missed` is history: the run's last event was published and not
received, and no snapshot told of it. Left out: runs that only generate, whose last event the
hook finds with a table of its own (usePipelineWebSocket.ts:182-197).

The `MC` modules name the model values and the constant functions; the symmetry sets
permute requests, runs or journeys and are used with safety properties only.
Eight `...Proofs` modules hold the theorems (section 4). Four of them are about two
components each, `RunServiceProofs` about `RunPage` too, `AuditJobsProofs` about `ScenarioRun`,
`MondayPipelineProofs` about `MondayDashboard` and `MondayProjectsProofs` about
`MondayArtifacts`: the second is the page that shows the first, or its neighbour in the same
server. They share no variable and no argument. To be extended
together their names must differ, hence `PageInit`, `ScenarioSpec`, `dashboardVars`,
`FilesTypeOK` and the like.

## 3. What is checked

Twelve runs, all expected to pass. Each property has a mutant in `PROJECT.json`: a
plausible bug in a modelled definition under which TLC finds it violated.

| run | instance | properties |
| --- | --- | --- |
| `run_service` | one project, two runs, one cancel call, one mishap; `FairSpec` | `SerialUnlessRaced`, `RowsAgree`, `VerdictKept`, `PassedHasEvidence`, `RunEnds` |
| `pi_jobs` | two plan requests, two cancel calls, two mishaps; `FairSpec` | `OneWorkerPerType`, `AgentIsWanted`, `GeneratingHasCause`, `CancelSticks`, `JobEnds` |
| `fix_loop` | one analysis with two patches of one file that conflict, two calls, one verify run, one poll, two iterations, one crash | `HistoryExplainsFiles`, `ResultIsVerdict`, `ImplementsLog`, `VerdictRecorded` |
| `platform_pipeline` | two handlers at once, one repair round of the workflow's, two of the server's, one mishap | `RecordsAgree`, `CancelledStays`, `PipelineEnds` |
| `recorder` | two sessions of one or two projects, one allowed, a stop, an editor, one mishap; `FairSpec` | `SessionsAccounted`, `RecordedStageHasFile`, `IdleSessionsStop` |
| `run_page` | two runs, both of the page's project or one of them, one list answer and two events under way, one loss; `PageFairSpec` | `ResultIsOfItsRun`, `PageAgreesWithList`, `SettledRunLeaves` |
| `scenario_run` | two runs of a scenario of three steps, two Playwright commands, one attempt, one loss of the page's | `OneRunShown`, `BusyEnds` |
| `audit_jobs` | two jobs, of which the page's has one of two modules, two prompts per module, one mishap | `CompletedIsMerged`, `RepliesAreOwn`, `CancelledNeverCompletes`, `AuditEnds` |
| `monday_pipeline` | two runs, two requests of any kind, a poller without limit, one retry, one mishap | `OneWorkflowAtATime`, `RunningIsRepaired`, `StaleQueriesHarmless` |
| `monday_projects` | one project with five possible sources, two clicks, an editor, two polls, one change and one mishap; `FairSpec` | `ReadyIsConfigured`, `ReadyIsWhole`, `CloneSettles` |
| `monday_artifacts` | two journeys, two requests of any kind, two attempts at once, one fault | `Coherent`, `OutputsStored`, `PartialKeepsOthers` |
| `monday_dashboard` | two runs, all buttons, two events or clicks, one reconnection; `DashboardFairSpec` | `ListensToItsRun`, `WatchEnds` |

Several properties join two that are about one thing: `RowsAgree` (run against job, project
against slot and stage), `RunEnds` and `JobEnds` (row and in-memory entry),
`OneWorkflowAtATime` (within a run, across the runs of a project), `RecordsAgree` (row and
iteration rows), `SessionsAccounted` (limits on rows, containers without a row),
`OneRunShown` (the one slot, what its follower sees), `AuditEnds` and `CloneSettles` (row
and page).

### Bounds and why they are enough

* Two runs of one project are needed for a race over the slot; a third process is the
  cancel call. A mishap is a throw or a restart.
* Two plan requests race for their type; a second cancel finds what the first has left.
* In `fix_loop` both patches change one file and one breaks the other, the smallest
  case in which files and rows may disagree. Two calls overlap; a limit of two lets the
  second be refused. One poll is enough to give up after.
* A retry beside its first attempt needs two handlers. Two server rounds against one of
  the workflow's shows which limit comes first.
* The recorder's limit of one with two starts is the smallest excess. Its one mishap may be a
  recording taken away; the editor makes one update, which may overlap with a stop's.
* `run_page`: a list answer under way may be arbitrarily old when it arrives, so one is
  enough to be stale. `MaxWire` is how many events may be under way; two let the end of
  a run and the start of the next wait together. Runs of different projects are not
  ordered, so which of the two is the page's does not matter (`Owns`); a page with no run of
  its own is left to other instances.
* `scenario_run`: with one attempt allowed the second Playwright command meets the cap. `MaxPrep` is
  one: two requests past the check of the flag were checked on smaller instances only;
  they are the case `SlotIsOwned` excepts.
* `audit_jobs`: the second job lacks a module, so it meets a partial of the first.
* `monday_pipeline`: two requests give two starts, the inspection of the other run's row
  and its repair, or a start and what overlaps with it. Pollers may poll in every state.
* `monday_artifacts`: `CanTell` is a state constraint: states are not followed from which
  `raced` cannot become false again, because the properties say nothing there. No state
  in which they say something is reached only through one of these. Journeys and requests
  are symmetric.
* `monday_dashboard`: `MaxEvents` bounds clicks, dropped sockets, failed snapshots and lost
  events together; two let a run be selected and its socket fail.

Deadlock checking is off, except in `scenario_run`, because the systems may stop: once all
run ids, requests and calls of the instance are used, nothing is left to happen.

### What the conditions on properties mean

History variables (`raced`, `late`, `torn`, `shared`, `timedOut`, `clobbered`, `crashed`,
`retried`, `lost`, `pulled`, `mixed`, `cut`, `missed`, `poisoned`) name the situations in which the code
does go wrong. A property with such a condition says that there is no other way. They are:

* `RunService`: two starts between check and map entry, or a cancel that decided it did
  not own the stream (`raced`).
* `PiJobs`: two requests between `findActiveByProject` and the insert, or a cancel that
  missed a handle about to be registered (`raced`); a cancel after the agent has settled
  (`late`). `exec = "leaked"`: `resolveForProject` or the config writer throws before the
  `try` (pi-job-runner.ts:125), or removing the agent's home throws in `finally`.
* `FixLoop`: a file two applies had open together, or an apply failed after writing (`torn`).
* `PlatformPipeline`: an UPDATE wrote a row other than the one it had read (`clobbered`);
  `fix_apply` was attempted twice (`retried`).
* `Recorder`: two starts between count and insert (`raced`); a container a failing call hid
  (`lost`); a recording git took away, after which stage and path stay as they are (`pulled`).
* `ScenarioRun`: a page that lost its socket, or took over a run whose end it had missed
  (`page.lost`).
* `AuditJobs`: another job of the project deleted all partials (`shared`); a prompt was given
  up that the agent might still answer (`timedOut`); a save was rejected (`poisoned`).
* `MondayPipeline`: a request decided while another was half way, while a workflow was at
  work that the row did not show or name, or without Temporal's answer (`raced`). A row can
  be active and name the wrong workflow: a cancelled resume has its overlay cleared, a late
  write makes the row active again, and `assertProjectNotRunning` then asks about `main` only
  and lets another run of the project in. It takes four requests and came out when the
  invariant of `OneWorkflowAtATime` was made inductive. Without `raced`
  `RunningIsRepaired` is false: of two overlapping resumes one is refused by Temporal and
  restores the row; a poll that saw the other one's overlay then writes `running` over the
  result, and no later poll repairs it.
* `MondayProjects`: the source changed under a clone, by two PUTs at once or by a POST over
  an existing row, or a directory pulled from the URL it was first cloned from (`mixed`); a
  clone cut off by a crash (`cut`: the row stays `cloning`, nothing resets it).
* `MondayArtifacts`: see 2.11.
* `MondayDashboard`: the last event was lost while the socket was open, or came before the
  socket was subscribed and the snapshot was read too early or could not be read (`missed`).

### Fairness

Weak fairness is assumed of the programs' own steps, never of users: a continuation that
is ready is run by the event loop, a timer that was set fires. In particular

* `RunService`, `PiJobs`: start, execute and cancel steps; nothing of pytest, the worker or
  the agent, so pytest may hang and an agent never settle.
* `FixLoop`: each poller goes on.
* `PlatformPipeline`: handlers, Temporal's delivery of a cancellation, and that a run or a
  job settles, which `RunEnds` and `JobEnds` show of these services.
* `Recorder`: the 60 s timer and its steps.
* `ScenarioRun`, `AuditJobs`: server steps with their time-outs; the page's poll and its
  answer. The agent need not answer.
* `MondayProjects`: server and panel steps.
* `MondayDashboard`: worker and API, calls and the socket.
* `RunPage`: the page polls and gets answers (weak), and again and again one that is
  current (strong): the interval goes on for ever and not every answer is overtaken. Nothing
  of the socket or of the runs.

`MondayPipeline` and `MondayArtifacts` have safety properties only; `RunningIsRepaired` speaks
of what the next poll would write.

### Where code and words differ

Not checked by a run, since each is a statement the code does not keep; TLC found a
counterexample to each while the modules were written, and the modules still have the
behaviour.

* PW/PRD-Phase3.md:180, "run/plan/code 同 project 串行": two `startRun` calls both pass the check
  at run-service.ts:144 before either makes the entry at 240.
* run-service.ts:521, "Cancelled by user": flag and controller are shared by all projects, so
  cancelling a run of one marks a run of another.
* PW/server/src/config.ts:36, "pytest run 总超时（Server fetch abort + Worker 进程 kill 对齐）": a pytest
  that keeps its output open is killed by nobody (worker/server.py:262).
* PW/PRD-Phase3-Implementation.md:149-151 draws `completed`, `failed` and `cancelled` as final: they
  overwrite each other (pi-job-runner.ts:176 and 89-96).
* MO/api/src/services/pipeline-service.ts:93, "True when generation or execute-only phase is actively
  in progress": a failed attempt writes `failed` (activities/index.ts:98) although Temporal
  retries it.
* pipeline-service.ts:480-482, "never let the old workflow's terminal state (failed/cancelled)
  leak into the run while the overlay is in charge": a poll between a resume's update and its
  `workflow.start` decides on `failed`.
* MO/dashboard/src/App.tsx:666, "keep loading so WS stays enabled": a page can take its run for
  active and not listen to it, when an answer to a forgotten load arrives last.
* `RunPage`: `run_started` of any project takes the page over (useRunWebSocket.ts:34); a run of
  another project is then shown as running for ever if the socket is lost, since the list
  never mentions it; `adoptActiveRun` (111) keeps the log lines of the run shown before. It
  compares with the run followed last only: when the list is behind, a settled run followed
  before that one (or any, once Start has reset the reference) is taken up again as running,
  until the next true list.
* `Recorder`: the workflow row names a module and a recording, and only at stage `recorded` need
  there be one. `startCodeGeneration` (codegen-service.ts:58-69) wants a plan file, which `savePlan`
  (plan-service.ts:172-215) makes without a recording, writes `moduleName` and leaves the stage, so
  that the module beside stage `recorded` may have none.
* MO/api/src/index.ts:64, "snapshot is best-effort": a page that connects after the last event
  of its run and whose snapshot fails waits for ever on a socket that is open.
* A resume whose workflow does not start restores `status` only (pipeline-service.ts:809-815); the
  artifacts it deleted stay deleted, and `execution_status` stays `pending`.

## 4. What is proved

Each `...Proofs` module proves about its components, for every value of the constants, from each
component's named assumption alone. Two assumptions say more than that constants have their
types: profiles are not empty (`auditProfileSchema`, `.min(1)`), which `CompletedIsMerged` needs
of the index of the module under work; and a git source has a URL, which is how `source_type` is
decided. Neither constrains the schedule.

| theorem | property |
| --- | --- |
| **`RunServiceProofs`** | |
| `TypeCorrect` | `TypeOK` |
| `SlotOwned` | `SlotHasOwner` |
| `Serial` | `SerialUnlessRaced` |
| `VerdictStable` | `VerdictKept` |
| `JobAgreement` | `SettledJobAgrees` |
| `QuietIdle` | `QuietProjectIdle` |
| `RowsConsistent` | `RowsAgree` |
| `PassedIsEvident` | `PassedHasEvidence` |
| `PageTypesHold` | `PageTypeOK` (`RunPage`) |
| `ResultsAreOwn` | `ResultIsOfItsRun` |
| `PageAgrees` | `PageAgreesWithList` |
| **`PiJobsProofs`** | |
| `TypeCorrect` | `TypeOK` |
| `AgentWanted` | `AgentIsWanted` |
| `NotPromptedAgain` | `CancelledNotPrompted` |
| `OneWorker` | `OneWorkerPerType` |
| `CancelIsFinal` | `CancelSticks` |
| `StageHasCause` | `GeneratingHasCause` |
| **`FixLoopProofs`** | |
| `Implements` | `ImplementsLog` |
| `ResultsHonest` | `ResultIsVerdict` |
| `HistoryExplains` | `HistoryExplainsFiles` |
| `TypesHold` | `TypeOK` |
| **`PlatformPipelineProofs`** | |
| `TypesHold` | `TypeOK` |
| `RecordsTell` | `RecordsAgree` |
| `CancelSticks` | `CancelledStays` |
| **`RecorderProofs`** | |
| `RecordedHasFile` | `RecordedStageHasFile` |
| `Accounted` | `SessionsAccounted` |
| `TypesHold` | `TypeOK` |
| **`AuditJobsProofs`** | |
| `RepliesAreTheirOwn` | `RepliesAreOwn` |
| `CompletedMerges` | `CompletedIsMerged` |
| `CancelIsFinal` | `CancelledNeverCompletes` |
| `TypesHold` | `TypeOK` |
| `ScenarioTypesHold` | `ScenarioTypeOK` (`ScenarioRun`) |
| `OneRunIsShown` | `OneRunShown` |
| **`MondayPipelineProofs`** | |
| `WorkIsAlone` | `OneWorkflowAtATime` |
| `PollingIsHarmless` | `StaleQueriesHarmless` |
| `RunningSettles` | `RunningIsRepaired` |
| `TypesHold` | `TypeOK` |
| `DashboardTypesHold` | `DashboardTypeOK` (`MondayDashboard`) |
| `SocketIsOfTheRun` | `ListensToItsRun` |
| **`MondayProjectsProofs`** | |
| `ClonesAreWhole` | `ReadyIsWhole` |
| `ReadyIsRight` | `ReadyIsConfigured` |
| `TypesHold` | `TypeOK` |
| `FilesTypesHold` | `FilesTypeOK` (`MondayArtifacts`) |
| `FilesBelongTogether` | `Coherent` |
| `DoneIsStored` | `OutputsStored` |
| `OthersRowsStay` | `PartialKeepsOthers` |

Every invariant and every action property that a run checks is in this list, and each module's
type invariant. The theorems have no liveness part: see the end of this section.

### 4.1 `RunServiceProofs`

The argument goes in layers, each inductive relative to those before it.

1. `Base` is `TypeOK` with `Settling` (an executor in `finalizeRun` has a terminal
   verdict, without which the row could be written with "none") and `Targeted`
   (a cancel call under way names a run).
2. `SlotHasOwner` is inductive relative to `Base`.
3. `SerialInv` strengthens `SerialUnlessRaced`: a live executor of an unraced
   project holds the slot (`OwnersHoldSlot`), a run between check and launch finds
   it free (`StartersFindFree`), there is one such run (`OneStarter`), and a cancel
   that will finalize without owning the stream has marked the project
   (`ForeignCancelsRace`). Without the last one a foreign `finalizeRun` could free
   the slot under a live run.
4. `RowInv` ties the row to the control state, which gives `VerdictStable`: the
   only writers of a row are its start and its own executor.
5. `JobInv` and `StageInv` follow `finalizeRun` await by await: what it has written
   so far agrees with the verdict. They give `JobAgreement` and `QuietIdle`.
6. `PassedIsEvident` needs the types only: no step but the end of a stream sets a
   verdict of "passed" (`EvidenceStep`).

**`RunPage`.** A page takes a result from three places: an event, a list of runs that may have
been overtaken long ago, and what it already holds. `PageInv` is therefore about all that is on
its way to the page (`Truthful`): a verdict in an event under way or in a list that was read is
one the row of that very run has held at some time, and so is one an executor or a cancel is
about to send. `PageOK` says the same of the page, and that it shows no result beside a run that
goes on; `ref` and the run shown are the same after each render, which is what makes an answer
that arrives late harmless. The two effects of a render are one lemma (`RenderedOK`)
that the steps of the page share. The run shown after a list is the newest one, `Max` of a
finite set of ids; that such a set has a largest element comes from the well-foundedness of the
order (`LargestExists`). `PageAgrees` needs no
history: after `Synced` nothing shown as running is settled in the list (`SyncedSettles`), and
`Adopted` takes up the newest run at work in it or has followed it last (`AdoptedAgrees`); that
the second render undoes neither is the point, and each step of the page ends in a render or
leaves list and page alone.

### 4.2 `PiJobsProofs`

1. `Base` is `TypeOK` with `Targeted` (a cancel under way names a job) and
   `Launched` (only a registered job is executed). `AgentIsWanted` is inductive
   relative to it, and `CancelledNotPrompted` follows step by step.
2. `Bookkeeping` ties request, handle, row and cancel together: a handle or a flag
   belongs to a request that has returned (`Registered`), a row is written only by
   its own insert (`Unwritten`), who works has a handle (`Handled`), and a cancel
   about to write has either flagged the handle (`Flagged`) or seen a written row
   (`Looked`).
3. `Exclusive` strengthens `OneWorkerPerType`. A job *claims* its type from the
   moment it passes the 409 check, not only while it works. There is one claim
   (`OneClaim`); the next check sees it because the row of a claim past its insert
   says "running" (`ClaimShown`); and that is so because a cancel that goes for the
   row without a handle names a job nobody works on (`BlindCancels`).
4. `Sticking` adds what `CancelSticks` needs: a job flagged before its agent
   settled never reaches a place from which `execute` writes an outcome.
5. `Caused` says of "generating" at any time what `GeneratingHasCause` says at rest: without a
   mishap there is a job that will still write the stage, or a cancel that names a job. It is
   `StageOwed` that makes it inductive: a job that owes the write goes on to do it.

### 4.3 `FixLoopProofs`

`Inv` is the invariant under which each step maps to a step of `IterationLog` or to a
stutter: the rows are numbered by their position and no more than the limit (`RowsInv`), a
call that may still insert a row read a number below the limit, of rows that exist
(`CallInv`), a poller points at a row (`PollInv`). A call that lost the race meets the
unique number in `InsertIteration` and adds nothing, which is why the limit check before
the patches suffices. `HistoryInit` and `HistoryStep` are the two halves of the refinement.

`ResultsHonest` is inductive once a settled status is known to stay (`SettledStays`).
`HistoryExplains` needs `TextInv`: the text a call has read is still the text of the file, and
nobody else has that file open, unless the file is torn (`TextFresh`); and at any time a file
holds what the rows name and what the calls under way have done so far (`FilesExplained`), of
which `HistoryExplainsFiles` is the case without calls.

### 4.4 `PlatformPipelineProofs`

`Inv` is `Flow`, `RowInv` and `Rounds`, in this order.

1. `Flow` is about the workflow and the requests it sends, crashes and retries included.
   `FlowInv` is the workflow's history: what its cancellation, its catch block and its end
   imply. `OneRun`: at most one request can still start a run or follow one, and until the
   workflow gives up on it that is the one it awaits; an activity timed out and sent again
   would break this, and does not, because the stages that start a run have
   `maximumAttempts` 1. `VerdictInv`: the verdict it finishes with is that of the run it names.
2. `RowInv` adds the row: "passed" stands only over the run it names, and no request is left
   that could put another run's id there (`RowPassed`); after the answer to finish the row says
   what the workflow does (`RowFinal`); after a cancellation the cancel handler is on its way or
   the row says so (`RowCancelled`).
3. `Rounds` counts: iterations used, requests that may yet use one and the one the workflow
   still owes are together no more than the rounds it has counted.

### 4.5 `RecorderProofs`

* `FilesInv`: each row, and each row an update under way *will write* (what it read with its
  patch over it, `Merge`), points at a recording that is, or was, on disk (`Seen`) if its stage is
  `recorded`. A stale read is harmless for this: a recording that was made stays one that was
  made, and a patch that sets the stage to `recorded` sets the path with it.
* `RowsTyped` says of the same merge that it is a row, which `TypesHold` needs: a patch names some
  columns, and the others come from a read that may be long out of date.
* `Container`: whoever is about to write "stopped" has stopped the container or hidden it
  (`Visited`), so that a container that runs has a row which says so, or a start that will insert
  one, or is `lost`.
* `Limits` counts sessions from the moment they pass the check, not from the insert: this
  is the number that stays within the limit, and the active rows are a part of it.

### 4.6 `AuditJobsProofs`

* `RepliesInv`: the agent works on what was asked of it last and on nothing else, unless a prompt
  was given up (`timedOut`). The reply a wait ends with is therefore about the module of the index.
* `MergingInv` follows the content a job has counted: in a partial of an earlier module while
  the loop runs, then in a partial not yet merged or in a merged list, then in the features
  written. The module under work has no partial (it was looked for), so that storing one
  overwrites nothing counted.
* `Exclusive` marks both of two jobs that execute at once (`shared`), whence the partials of an
  unmarked job are its own.
* `CancelOk`: a row that says "cancelled" has a handle that was cancelled, for as long as the job
  goes on, which keeps `CancelIsFinal` although execution is not stopped.

**`ScenarioRun`.** `OneRunShown` joins two things that need each other. `SlotIsOwned`: the
server's one flag, client and snapshot are those of the request at work; it rests on `OneWorks`, as
long as no second request passed the check of the flag before the first one set it (`raced`). And
`FollowedRunShown`: a page that has followed a run since `run_started` shows its steps. For this
each handler of the tracker is shown to be `Honest`, whatever tool or text it is called for: it
announces every step whose status it changes, and no other value than the one it leaves
(`OnReadOK` ... `OnSettledOK`, composed by `HonestTrans`). So the page's copy changes with the
tracker event by event, and `TrackOK` is one lemma for all of the agent's steps. That the
`run_finished` a page receives is that of the run it follows needs the slot.

### 4.7 `MondayPipelineProofs`

1. `ReqOk`, `PollOk`, `Fresh` say what a request or poll carries over its awaits, and that a
   run without a row has no workflow.
2. `Alone` strengthens the first half of `OneWorkflowAtATime`. A request *claims* its run from its
   first check to the start of its workflow. As long as a run is not raced there is one claim,
   or one open workflow, not both; a second claimant or a hidden workflow is what `Notice` records.
3. `Project` does the same across the runs of a project. The request past its select still has
   on its list, under its id, every open workflow that works on the shared specs: it cannot get
   through `assertProjectNotRunning` without having asked about each. The workflows it asks
   about are those the row *names* (`main` and the overlay), which is why `Hidden` has to count a
   workflow the row does not name (see "What the conditions on properties mean").
4. `StaleQueriesHarmless` follows from the types and `Decide` alone.
5. `Columns` holds of unraced runs without a mishap, and explains where each column comes from:
   the workflow the overlay names exists or is being launched (`OverlayThere`), "running" in
   `execution_status` has an attempt or a launch that will change it (`ExecRunning`),
   "pending" without an overlay a main workflow that will, or that has ended otherwise
   (`ExecPending`). Then a poll finds an answer for each workflow it asks for, and
   `RunningIsRepaired` is a computation with `Decide`.

**`MondayDashboard`.** The invariant `Listening` has two parts: a socket that is not closed is
that of the selected run while the page is loading, and only an open socket holds messages. It
is preserved because every action that changes selection or loading ends in the socket effect,
so that one lemma (`RenderOK`) about page and socket before and after a render serves all
actions. Most of the proof is types: which requests name a run wherever their answer
looks one up (`Calls`), without which an answer could select something that is no run.

### 4.8 `MondayProjectsProofs`

A clone carries what it has read of the row over its awaits. `JobOk`: that still stands, unless
the project is mixed; and what it is about to write about the directory is true. `OneClone`:
one clone at a time writes a directory. `Kept` says of each step that a whole directory stays as
it is and that the source under a clone changes only as the project becomes mixed; from it the
other clones' `JobOk` follows without looking at the step again.

**`MondayArtifacts`.** All three theorems come from one invariant, `FilesInv`, which is `Quiet`
as long as nobody is raced.

1. `FilesTyped` also counts: the generation a file is marked with is at most one more than the
   requests spent, so that a request always finds a number no file has (`SpentFinite`). Without
   it two attempts could write files that look alike.
2. `Alone`: one attempt has the staging directory, and one that waits for it is the retry of the
   orphan in it, for the same agent; a request in flight meets neither. This is what the 409
   checks and Temporal's retries are worth while nobody is let in beside somebody.
3. `AttemptOK` follows an attempt file by file. While it works its directory is the store; while
   it pushes, each file it has is in the store or on its list (`Putting`), and what it is about to
   leave belongs together (`Makes`).
4. `RequestOK` does so for a deletion: what belongs together when it is through, and that what is
   still there is still on its list.
5. `FilesKept` is `OutputsStored` without its condition: what was promised is stored under the
   generation promised. An attempt takes its promises back before it writes, a request before it
   deletes.

This proof found an error in the module. `raced` is cleared by a resume that makes everything
anew, and the step that clears it used to keep `promised`; a promise made while somebody was raced
then outlived the race. The invariant was not inductive at that step, and with a third request,
one more than `monday_artifacts` has, TLC violates `OutputsStored`. The code promises nothing
there; `AssertNotRunning` now forgets `promised` when it clears `raced`.

### Only model-checked

The liveness properties: `RunEnds`, `JobEnds`, `VerdictRecorded`, `PipelineEnds`,
`IdleSessionsStop`, `SettledRunLeaves`, `BusyEnds`, `AuditEnds`, `CloneSettles` and `WatchEnds`.
They rest on weak and, in one case, strong fairness, and fairness is stated with ENABLED, which
the prover cannot expand; the same holds of leads-to properties whose proof is an induction over
a count of polls, saves or retries. They hold of the instances of section 3 only. That deadlock
is impossible in `scenario_run` is model-checked as well.

## 5. Plan

What would come next, in this order:

1. The passive effects of `MondayDashboard`'s page as steps of their own, for the changes made
   after an `await`.
2. A composition of `MondayPipeline` and `MondayArtifacts`: the latter's `AssertNotRunning` is the
   abstraction of the former's requests, shown by inspection only.
