----------------------------- MODULE RunService -----------------------------
(***************************************************************************)
(* The pytest run service of ai-auto-test-playwright: RunService           *)
(* (server/src/services/run-service.ts) on one Node event loop, the rows   *)
(* it keeps in Postgres, and the worker process (worker/server.py) that    *)
(* executes a run and streams its output back.                             *)
(*                                                                         *)
(* Every await of the source is a step boundary: what the code does        *)
(* between two awaits is one action, and any other handler may run in      *)
(* between.  Three kinds of process interleave:                            *)
(*   - startRun of run r                       (startPc[r], one per run),  *)
(*   - the detached executeRun of r            (exec[r]),                  *)
(*   - cancelProjectRun calls                  (canc[c], c \in Cancels).   *)
(* The service's three private fields are shared by all projects.          *)
(***************************************************************************)
EXTENDS Naturals, FiniteSets

CONSTANTS
    Projects,    \* projects that have runs
    Runs,        \* run ids startRun may draw (randomUUID never repeats)
    ProjectOf,   \* the project each run belongs to
    Cancels,     \* cancelProjectRun calls that may be in flight together
    NoRun,       \* "no entry" in activeRunsByProject / null abortController
    Aborted,     \* a controller whose abort() was called
    MaxMishaps   \* bound on awaits that throw and restarts of the server

ASSUME RunServiceAssumption ==
    /\ ProjectOf \in [Runs -> Projects]
    /\ NoRun \notin Runs
    /\ Aborted \notin Runs \cup {NoRun}
    /\ MaxMishaps \in Nat

VARIABLES
    startPc,    \* [Runs -> StartPc]   progress of startRun
    exec,       \* [Runs -> ExecPc]    progress of executeRun and its finalizeRun
    verdict,    \* [Runs -> RowStatus] status finalizeRun was called with
    signal,     \* [Runs -> Controller] controller in the signal of the fetch
    log,        \* [Runs -> Summary]   pytest summary among the streamed log lines
    row,        \* [Runs -> RowStatus] runs.status
    job,        \* [Runs -> JobStatus] jobs.status of the run's job
    stage,      \* [Projects -> Stage] workflow_states.stage_status
    active,     \* [Projects -> Runs \cup {NoRun}] activeRunsByProject
    cancelled,  \* this.cancelled
    abort,      \* this.abortController, named by the run that created it
    worker,     \* [Runs -> Worker]    the pytest process of the run
    canc,       \* [Cancels -> Cancel] cancelProjectRun calls
    mishaps,    \* awaits that have thrown and restarts so far
    raced       \* history: projects where two starts overlapped, or a run was
                \* finalized by a cancel call that did not own its stream

serviceVars == <<active, cancelled, abort>>
dbVars      == <<row, job, stage>>
execVars    == <<exec, verdict, signal, log>>
vars == <<startPc, execVars, dbVars, serviceVars, worker, canc, mishaps,
          raced>>

Window    == {"checked", "jobInserted", "runInserted", "staged"}
StartPc   == {"idle", "threw", "done"} \cup Window
Finalize  == {"run", "job", "stage", "release"}
LivePc    == {"env", "streaming"} \cup Finalize
ExecPc    == {"none", "done", "threw", "dead"} \cup LivePc
Terminal  == {"passed", "failed", "cancelled"}
RowStatus == {"none", "running"} \cup Terminal
JobStatus == {"none", "running", "completed", "failed", "cancelled"}
Stage     == {"idle", "running", "failed"}
Summary   == {"none", "clean", "failing"}
\* The pytest process and what its stream still has to deliver: running; still
\* running after the server gave up on it at runTimeoutMs; the "finished" event
\* with exit code 0 or another one; a bare end of stream; nothing more.
Worker == {"none", "running", "timedOut", "exit0", "exit1", "lost", "gone"}
Controller == Runs \cup {NoRun, Aborted}
CancelPc  == {"idle", "read", "posting", "posted", "done"} \cup Finalize
Cancel == [pc : CancelPc, run : Runs \cup {NoRun}, owns : BOOLEAN]

IdleCancel == [pc |-> "idle", run |-> NoRun, owns |-> FALSE]

\* The pytest process of r exists; what is left of it in the stream when it
\* ends, which is nothing once the server stopped reading.
Alive(r) == worker[r] \in {"running", "timedOut"}
Leaves(r, how) == IF exec[r] = "streaming" THEN how ELSE "gone"

RunsOf(p) == {r \in Runs : ProjectOf[r] = p}

\* activeRunsByProject.has(projectId), and what .delete(projectId) leaves.
SlotFreeAlways(p) == TRUE
SlotFree(p) == active[p] = NoRun
SlotAfterRelease(p) == NoRun

\* ownsStream: the project's current entry is the run to cancel.
OwnsNothing(r) == FALSE
OwnsStream(r) == active[ProjectOf[r]] = r

Init ==
    /\ startPc = [r \in Runs |-> "idle"]
    /\ exec = [r \in Runs |-> "none"]
    /\ verdict = [r \in Runs |-> "none"]
    /\ signal = [r \in Runs |-> NoRun]
    /\ log = [r \in Runs |-> "none"]
    /\ row = [r \in Runs |-> "none"]
    /\ job = [r \in Runs |-> "none"]
    /\ stage = [p \in Projects |-> "idle"]
    /\ active = [p \in Projects |-> NoRun]
    /\ cancelled = FALSE
    /\ abort = NoRun
    /\ worker = [r \in Runs |-> "none"]
    /\ canc = [c \in Cancels |-> IdleCancel]
    /\ mishaps = 0
    /\ raced = {}

-----------------------------------------------------------------------------
(* startRun: the check, then four awaits before the run owns the project.  *)

\* The in-memory check.  From here to Launch the project still looks free.
StartCheck(r) ==
    /\ startPc[r] = "idle"
    /\ SlotFree(ProjectOf[r])
    /\ startPc' = [startPc EXCEPT ![r] = "checked"]
    /\ raced' = IF \E q \in RunsOf(ProjectOf[r]) : startPc[q] \in Window
                THEN raced \cup {ProjectOf[r]} ELSE raced
    /\ UNCHANGED <<execVars, dbVars, serviceVars, worker, canc, mishaps>>

\* Worker unhealthy, project or previous run missing, nothing to re-run.
StartRefused(r) ==
    /\ startPc[r] = "checked"
    /\ startPc' = [startPc EXCEPT ![r] = "idle"]
    /\ UNCHANGED <<execVars, dbVars, serviceVars, worker, canc, mishaps,
                   raced>>

InsertJob(r) ==
    /\ startPc[r] = "checked"
    /\ startPc' = [startPc EXCEPT ![r] = "jobInserted"]
    /\ job' = [job EXCEPT ![r] = "running"]
    /\ UNCHANGED <<execVars, row, stage, serviceVars, worker, canc, mishaps, raced>>

InsertRun(r) ==
    /\ startPc[r] = "jobInserted"
    /\ startPc' = [startPc EXCEPT ![r] = "runInserted"]
    /\ row' = [row EXCEPT ![r] = "running"]
    /\ UNCHANGED <<execVars, job, stage, serviceVars, worker, canc, mishaps, raced>>

StageRunning(r) ==
    /\ startPc[r] = "runInserted"
    /\ startPc' = [startPc EXCEPT ![r] = "staged"]
    /\ stage' = [stage EXCEPT ![ProjectOf[r]] = "running"]
    /\ UNCHANGED <<execVars, row, job, serviceVars, worker, canc, mishaps, raced>>

\* Reset the shared flag, take the project's slot, make a fresh controller and
\* detach executeRun.
Launch(r) ==
    /\ startPc[r] = "staged"
    /\ startPc' = [startPc EXCEPT ![r] = "done"]
    /\ cancelled' = FALSE
    /\ active' = [active EXCEPT ![ProjectOf[r]] = r]
    /\ abort' = r
    /\ exec' = [exec EXCEPT ![r] = "env"]
    /\ UNCHANGED <<verdict, signal, log, dbVars, worker, canc, mishaps, raced>>

\* One of the inserts or the workflow update throws: no rollback.
StartThrows(r) ==
    /\ startPc[r] \in {"checked", "jobInserted", "runInserted"}
    /\ mishaps < MaxMishaps
    /\ startPc' = [startPc EXCEPT ![r] = "threw"]
    /\ mishaps' = mishaps + 1
    /\ UNCHANGED <<execVars, dbVars, serviceVars, worker, canc, raced>>

-----------------------------------------------------------------------------
(* executeRun                                                              *)

\* resolveForRun returned: the fetch captures whatever controller the service
\* holds now.  An already aborted signal rejects before anything is sent.
Fetch(r) ==
    /\ exec[r] = "env"
    /\ exec' = [exec EXCEPT ![r] = "streaming"]
    /\ signal' = [signal EXCEPT ![r] = abort]
    /\ worker' = IF abort = Aborted THEN worker
                 ELSE [worker EXCEPT ![r] = "running"]
    /\ UNCHANGED <<startPc, verdict, log, dbVars, serviceVars, canc, mishaps,
                   raced>>

\* The status executeRun and finalizeRun settle on together: finalizeRun
\* re-reads the summary from the log unless the run is cancelled.
MissingExitCodeIsSuccess(code, summary) ==
    CASE cancelled            -> "cancelled"
      [] ~cancelled /\ summary # "failing" -> "passed"
      [] OTHER                -> "failed"
StreamVerdict(code, summary) ==
    CASE cancelled            -> "cancelled"
      [] ~cancelled /\ code /\ summary # "failing" -> "passed"
      [] OTHER                -> "failed"

ErrorVerdict(summary) ==
    CASE cancelled            -> "cancelled"
      [] ~cancelled /\ summary = "clean" -> "passed"
      [] OTHER                -> "failed"

\* executeRun stops reading the stream and calls finalizeRun.
BeginFinalize(r, status, left) ==
    /\ exec' = [exec EXCEPT ![r] = "run"]
    /\ verdict' = [verdict EXCEPT ![r] = status]
    /\ signal' = [signal EXCEPT ![r] = NoRun]
    /\ log' = [log EXCEPT ![r] = "none"]
    /\ worker' = [worker EXCEPT ![r] = IF @ = "running" THEN left ELSE "gone"]
    /\ UNCHANGED <<startPc, dbVars, serviceVars, canc, mishaps, raced>>

\* The worker's "finished" event, with its exit code and its own summary.
ReceiveFinished(r) ==
    /\ exec[r] = "streaming"
    /\ worker[r] \in {"exit0", "exit1"}
    /\ BeginFinalize(r, StreamVerdict(worker[r] = "exit0", log[r]), "gone")

\* The stream closed without "finished": only the log's summary counts.
StreamEnds(r) ==
    /\ exec[r] = "streaming"
    /\ worker[r] = "lost"
    /\ BeginFinalize(r, StreamVerdict(log[r] = "clean", log[r]), "gone")

\* The fetch or the stream rejects: HTTP error, reset connection, idle body.
StreamFails(r) ==
    /\ exec[r] = "streaming"
    /\ BeginFinalize(r, ErrorVerdict(log[r]), "running")

\* The captured controller was aborted by some cancelProjectRun.
StreamAborted(r) ==
    /\ exec[r] = "streaming"
    /\ signal[r] = Aborted
    /\ BeginFinalize(r, ErrorVerdict(log[r]), "running")

\* AbortSignal.timeout(runTimeoutMs) fires, whatever the worker is doing.
NoRunTimeout(r) == FALSE /\ UNCHANGED vars
StreamTimesOut(r) ==
    /\ exec[r] = "streaming"
    /\ BeginFinalize(r, ErrorVerdict(log[r]), "timedOut")

-----------------------------------------------------------------------------
(* finalizeRun, called by executeRun or by a cancel that owns no stream.   *)

JobFor(status) == CASE status = "cancelled" -> "cancelled"
                    [] status = "passed"    -> "completed"
                    [] OTHER                -> "failed"

StageFor(status) == IF status \in {"passed", "cancelled"} THEN "idle" ELSE "failed"

\* The effect of finalizeRun's await named pc, for run r and verdict status.
FinalizeEffect(pc, r, status) ==
    \/ /\ pc = "run"
       /\ row' = [row EXCEPT ![r] = status]
       /\ UNCHANGED <<job, stage, active, cancelled, abort>>
    \/ /\ pc = "job"
       /\ job' = [job EXCEPT ![r] = IF @ = "none" THEN @ ELSE JobFor(status)]
       /\ UNCHANGED <<row, stage, active, cancelled, abort>>
    \/ /\ pc = "stage"
       /\ stage' = [stage EXCEPT ![ProjectOf[r]] = StageFor(status)]
       /\ UNCHANGED <<row, job, active, cancelled, abort>>
    \/ /\ pc = "release"
       /\ active' = [active EXCEPT ![ProjectOf[r]] = SlotAfterRelease(ProjectOf[r])]
       /\ cancelled' = FALSE
       /\ abort' = NoRun
       /\ UNCHANGED dbVars

SkipJobUpdate(pc, last) == CASE pc = "run"     -> "stage"
                             [] pc = "job"     -> "stage"
                             [] pc = "stage"   -> "release"
                             [] pc = "release" -> last
NextFinalize(pc, last) == CASE pc = "run"     -> "job"
                            [] pc = "job"     -> "stage"
                            [] pc = "stage"   -> "release"
                            [] pc = "release" -> last

ExecFinalize(r) ==
    /\ exec[r] \in Finalize
    /\ FinalizeEffect(exec[r], r, verdict[r])
    /\ exec' = [exec EXCEPT ![r] = NextFinalize(@, "done")]
    /\ verdict' = [verdict EXCEPT ![r] = IF exec[r] = "release" THEN "none" ELSE @]
    /\ UNCHANGED <<startPc, signal, log, worker, canc, mishaps, raced>>

\* resolveForRun, or an await of finalizeRun, throws: executeRun's promise is
\* only logged, and whatever was not yet done is never done.
ExecThrows(r) ==
    /\ exec[r] \in {"env"} \cup Finalize
    /\ mishaps < MaxMishaps
    /\ exec' = [exec EXCEPT ![r] = "threw"]
    /\ verdict' = [verdict EXCEPT ![r] = "none"]
    /\ mishaps' = mishaps + 1
    /\ UNCHANGED <<startPc, signal, log, dbVars, serviceVars, worker, canc,
                   raced>>

-----------------------------------------------------------------------------
(* cancelProjectRun                                                        *)

CancelRead(c, r) ==
    /\ canc[c].pc = "idle"
    /\ row[r] = "running"
    /\ canc' = [canc EXCEPT ![c] = [pc |-> "read", run |-> r, owns |-> FALSE]]
    /\ UNCHANGED <<startPc, execVars, dbVars, serviceVars, worker, mishaps, raced>>

\* ownsStream is computed here and used only after the worker has answered.
CancelCheck(c) ==
    LET r == canc[c].run
    IN  /\ canc[c].pc = "read"
        /\ canc' = [canc EXCEPT ![c] = [pc |-> "posting", run |-> r,
                                         owns |-> OwnsStream(r)]]
        /\ raced' = IF active[ProjectOf[r]] = r THEN raced
                    ELSE raced \cup {ProjectOf[r]}
        /\ UNCHANGED <<startPc, execVars, dbVars, serviceVars, worker, mishaps>>

\* POST /internal/cancel: the worker terminates the shell it started, if it
\* has one; the call may also miss it (not started yet, unreachable, timed out).
CancelPost(c) ==
    LET r == canc[c].run
    IN  /\ canc[c].pc = "posting"
        /\ canc' = [canc EXCEPT ![c].pc = "posted"]
        /\ \/ Alive(r) /\ worker' = [worker EXCEPT ![r] = Leaves(r, "exit1")]
           \/ UNCHANGED worker
        /\ UNCHANGED <<startPc, execVars, dbVars, serviceVars, mishaps,
                       raced>>

\* The owner of the stream only raises the shared flag and aborts the service's
\* current controller; anyone else finalizes the run itself.
CancelReturn(c) ==
    /\ canc[c].pc = "posted"
    /\ \/ /\ canc[c].owns
          /\ canc' = [canc EXCEPT ![c].pc = "done"]
          /\ cancelled' = TRUE
          /\ abort' = IF abort = NoRun THEN NoRun ELSE Aborted
          /\ signal' = IF abort = NoRun THEN signal
                       ELSE [r \in Runs |-> IF signal[r] = abort THEN Aborted ELSE signal[r]]
       \/ /\ ~canc[c].owns
          /\ canc' = [canc EXCEPT ![c].pc = "run"]
          /\ UNCHANGED <<cancelled, abort, signal>>
    /\ UNCHANGED <<startPc, exec, verdict, log, dbVars, active, worker, mishaps,
                   raced>>

CancelFinalize(c) ==
    /\ canc[c].pc \in Finalize
    /\ FinalizeEffect(canc[c].pc, canc[c].run, "cancelled")
    /\ canc' = [canc EXCEPT ![c].pc = NextFinalize(@, "done")]
    /\ UNCHANGED <<startPc, execVars, worker, mishaps, raced>>

CancelThrows(c) ==
    /\ canc[c].pc \in Finalize
    /\ mishaps < MaxMishaps
    /\ canc' = [canc EXCEPT ![c].pc = "done"]
    /\ mishaps' = mishaps + 1
    /\ UNCHANGED <<startPc, execVars, dbVars, serviceVars, worker, raced>>

-----------------------------------------------------------------------------
(* The worker process (run_command in worker/server.py).  It goes on after *)
(* the server hangs up, and nothing in it bounds how long pytest runs.     *)

\* The summary line.  After the server has hung up nobody reads it.
PytestSummary(r, s) ==
    /\ worker[r] = "running"
    /\ exec[r] = "streaming"
    /\ log[r] = "none"
    /\ log' = [log EXCEPT ![r] = s]
    /\ UNCHANGED <<startPc, exec, verdict, signal, dbVars, serviceVars, worker,
                   canc, mishaps, raced>>

\* pytest exits 0 only when its summary reports no failure; "lost" stands for a
\* worker that dies, or refuses the request, so that the stream just ends.
PytestExit(r, how) ==
    /\ Alive(r)
    /\ how = "exit0" => log[r] # "failing"
    /\ worker' = [worker EXCEPT ![r] = Leaves(r, how)]
    /\ UNCHANGED <<startPc, execVars, dbVars, serviceVars, canc, mishaps, raced>>

\* The server restarts: memory is lost, rows stay, nothing resumes or repairs
\* a run that was in progress.
Crash ==
    /\ mishaps < MaxMishaps
    /\ mishaps' = mishaps + 1
    /\ startPc' = [r \in Runs |-> IF startPc[r] \in Window THEN "threw" ELSE startPc[r]]
    /\ exec' = [r \in Runs |-> IF exec[r] \in LivePc THEN "dead" ELSE exec[r]]
    /\ verdict' = [r \in Runs |-> "none"]
    /\ signal' = [r \in Runs |-> NoRun]
    /\ canc' = [c \in Cancels |-> IF canc[c].pc = "idle" THEN IdleCancel
                                   ELSE [canc[c] EXCEPT !.pc = "done"]]
    /\ active' = [p \in Projects |-> NoRun]
    /\ cancelled' = FALSE
    /\ abort' = NoRun
    /\ log' = [r \in Runs |-> "none"]
    /\ worker' = [r \in Runs |-> IF worker[r] \in {"exit0", "exit1", "lost"}
                                 THEN "gone" ELSE worker[r]]
    /\ UNCHANGED <<dbVars, raced>>

-----------------------------------------------------------------------------
StartStep(r) == InsertJob(r) \/ InsertRun(r) \/ StageRunning(r) \/ Launch(r)
ExecStep(r)  == \/ Fetch(r) \/ ReceiveFinished(r) \/ StreamEnds(r)
                \/ StreamAborted(r) \/ StreamTimesOut(r) \/ ExecFinalize(r)
CancelStep(c) == \/ CancelCheck(c) \/ CancelPost(c) \/ CancelReturn(c)
                 \/ CancelFinalize(c)
WorkerStep(r) == \/ \E s \in {"clean", "failing"} : PytestSummary(r, s)
                 \/ \E how \in {"exit0", "exit1", "lost"} : PytestExit(r, how)

Next ==
    \/ \E r \in Runs : \/ StartCheck(r) \/ StartRefused(r) \/ StartStep(r)
                       \/ StartThrows(r)
                       \/ StreamFails(r) \/ ExecStep(r) \/ ExecThrows(r)
                       \/ WorkerStep(r)
    \/ \E c \in Cancels : \/ \E r \in Runs : CancelRead(c, r)
                          \/ CancelStep(c) \/ CancelThrows(c)
    \/ Crash

Spec == Init /\ [][Next]_vars

\* The event loop runs every ready continuation, and AbortSignal.timeout fires:
\* the server's own steps are weakly fair.  Users, pytest and the worker are not.
Fairness ==
    /\ \A r \in Runs : WF_vars(StartStep(r)) /\ WF_vars(ExecStep(r))
    /\ \A c \in Cancels : WF_vars(CancelStep(c))

FairSpec == Spec /\ Fairness

-----------------------------------------------------------------------------
(* Properties                                                              *)

TypeOK ==
    /\ startPc \in [Runs -> StartPc]
    /\ exec \in [Runs -> ExecPc]
    /\ verdict \in [Runs -> {"none"} \cup Terminal]
    /\ signal \in [Runs -> Controller]
    /\ log \in [Runs -> Summary]
    /\ row \in [Runs -> RowStatus]
    /\ job \in [Runs -> JobStatus]
    /\ stage \in [Projects -> Stage]
    /\ active \in [Projects -> Runs \cup {NoRun}]
    /\ cancelled \in BOOLEAN
    /\ abort \in Controller
    /\ worker \in [Runs -> Worker]
    /\ canc \in [Cancels -> Cancel]
    /\ mishaps \in Nat
    /\ raced \subseteq Projects

Live(r) == exec[r] \in LivePc
Occupies(r) == startPc[r] \in Window \/ Live(r)

\* Runs of one project are serial: unless two starts overlapped between the
\* check and the launch, or a cancel finalized a run whose stream it did not
\* own, a project never has two runs starting or executing.
SerialUnlessRaced ==
    \A p \in Projects \ raced :
        \A r, q \in RunsOf(p) : Occupies(r) /\ Occupies(q) => r = q

\* A project that answers 409 "a run is already in progress" has a run whose
\* executor is still at work or died with an exception; a run that ended
\* normally never keeps the slot.
SlotHasOwner ==
    \A p \in Projects :
        active[p] # NoRun =>
            /\ active[p] \in RunsOf(p)
            /\ exec[active[p]] \in LivePc \cup {"threw"}

\* executeRun decides "passed" only on evidence from the run's own process: the
\* exit code 0, or a summary line without failures when the stream was cut off
\* before the exit code came, whoever cut it off.
PassedHasEvidence ==
    [][\A r \in Runs : verdict[r] = "none" /\ verdict'[r] = "passed" =>
            \/ log[r] = "clean"
            \/ log[r] = "none" /\ worker[r] = "exit0"]_vars

\* Once a run's executor has finished, its job and its row tell the same story,
\* unless a cancel that did not own the stream finalized over it.
SettledJobAgrees ==
    \A r \in Runs : exec[r] = "done" /\ ProjectOf[r] \notin raced =>
        row[r] \in Terminal /\ job[r] = JobFor(row[r])

\* A project none of whose runs is starting, executing, thrown or lost to a
\* restart is free again and its workflow stage is not left at "running".
QuietProjectIdle ==
    \A p \in Projects :
        (\A r \in RunsOf(p) : /\ startPc[r] \in {"idle", "done"}
                              /\ exec[r] \in {"none", "done"})
        => active[p] = NoRun /\ stage[p] # "running"

\* The three tables a run is spread over (runs, jobs, workflow_states) and the
\* in-memory slot tell one story: no job stays running beside a settled run, and no
\* project stays blocked or "running" once its runs are over.
RowsAgree == SettledJobAgrees /\ QuietProjectIdle

\* A recorded verdict is final: runs.update has no condition, yet a terminal
\* row changes only when a cancel that did not own the stream finalizes it.
VerdictKept ==
    [][\A r \in Runs : row[r] \in Terminal /\ ProjectOf[r] \notin raced
            => row'[r] = row[r]]_vars

\* A running row is eventually settled, however long pytest hangs, unless the
\* server restarted or an await of the service threw.
RunSettles ==
    \A r \in Runs : row[r] = "running" ~>
        \/ row[r] # "running"
        \/ exec[r] \in {"threw", "dead"} \/ startPc[r] = "threw"

\* The slot of a project is eventually given back under the same conditions.
SlotFreed ==
    \A r \in Runs : active[ProjectOf[r]] = r ~>
        active[ProjectOf[r]] # r \/ exec[r] = "threw"

\* A run that starts ends in both places that hold it, its row and the slot that
\* refuses the project's next run.
RunEnds == RunSettles /\ SlotFreed
=============================================================================
