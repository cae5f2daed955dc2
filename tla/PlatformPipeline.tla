-------------------------- MODULE PlatformPipeline --------------------------
(***************************************************************************)
(* The platform pipeline of ai-auto-test-playwright: one row of            *)
(* platform_pipeline_runs, the Temporal workflow playwrightPlatformWorkflow*)
(* whose activities are HTTP requests to /internal/temporal/*, the handlers*)
(* of those requests (TemporalBlockingService), and the cancel call.       *)
(*                                                                         *)
(* Temporal itself is external: an activity attempt is delivered once, it  *)
(* may time out while its handler goes on in the server, and a failed or   *)
(* timed-out attempt is retried up to maximumAttempts. Jobs and runs are   *)
(* one step to start and one to settle; PiJobs and RunService model them.  *)
(***************************************************************************)
EXTENDS Naturals, Sequences

CONSTANTS
    Handlers,       \* requests the server may be serving at once
    MaxFix,         \* maxFixIterations of the pipeline
    MaxIterations,  \* FIX_MAX_ITERATIONS of the server
    MaxMishaps      \* bound on timeouts, restarts and runs that others start

ASSUME PipelineAssumption ==
    MaxFix \in Nat /\ MaxIterations \in Nat /\ MaxMishaps \in Nat

VARIABLES
    row,        \* the platform_pipeline_runs row
    wf,         \* the workflow: where it is and the activity it awaits
    handler,    \* [Handlers -> request being served]
    cancel,     \* the cancel call: [pc, snap]
    runs,       \* statuses of the runs, in order of creation
    slot,       \* the run that makes startRun answer 409, 0 if none
    jobs,       \* [JobKinds -> "free" | "busy" | "stuck"] the running Pi job rows
    iters,      \* number of fix_iterations rows of the pipeline's first run
    mishaps,
    crashed,    \* history: the server restarted
    clobbered,  \* history: an UPDATE wrote a row other than the one it had read
    retried     \* history: fix_apply was attempted twice

vars == <<row, wf, handler, cancel, runs, slot, jobs, iters, mishaps, crashed, clobbered, retried>>

JobKinds == {"plan", "codegen", "fix_analyze"}
RunKinds == {"run", "fix_verify"}
Kinds == JobKinds \cup RunKinds \cup {"fix_apply", "finish"}
Terminal == {"passed", "failed", "cancelled"}
RowStatus == {"none", "running"} \cup Terminal
Row == [status : RowStatus, stage : Kinds \cup {"starting", "done"}, run : Nat,
        fix : 0..MaxFix]
NoRow == [status |-> "none", stage |-> "starting", run |-> 0, fix |-> 0]

MaxAttempts(kind) ==
    CASE kind \in RunKinds -> 1
      [] kind = "finish" -> 3
      [] OTHER -> 2

\* pc "act": the activity kind is awaited, sent once its request was delivered.
Workflow == [pc : {"none", "act", "closed"}, kind : Kinds, attempt : 1..3, sent : BOOLEAN,
             fix : 0..MaxFix, run : Nat, verdict : {"passed", "failed"},
             caught : BOOLEAN, autoFix : BOOLEAN,
             cancelled : BOOLEAN, stopped : Kinds \cup {"none"}]
NoWorkflow == [pc |-> "none", kind |-> "run", attempt |-> 1, sent |-> FALSE, fix |-> 0,
               run |-> 0, verdict |-> "failed", caught |-> FALSE,
               autoFix |-> TRUE, cancelled |-> FALSE, stopped |-> "none"]

HandlerPc == {"idle", "touch", "write", "start", "wait", "touchRun", "writeRun", "reply"}
Request == [pc : HandlerPc, kind : Kinds, attempt : 1..3, fix : 0..MaxFix,
            status : {"passed", "failed"}, run : Nat, snap : Row, ok : BOOLEAN]
NoRequest == [pc |-> "idle", kind |-> "run", attempt |-> 1, fix |-> 0, status |-> "failed",
              run |-> 0, snap |-> NoRow, ok |-> TRUE]

Init ==
    /\ row = NoRow
    /\ wf = NoWorkflow
    /\ handler = [h \in Handlers |-> NoRequest]
    /\ cancel = [pc |-> "idle", snap |-> NoRow]
    /\ runs = <<>>
    /\ slot = 0
    /\ jobs = [k \in JobKinds |-> "free"]
    /\ iters = 0
    /\ mishaps = 0
    /\ crashed = FALSE
    /\ clobbered = FALSE
    /\ retried = FALSE

-----------------------------------------------------------------------------
(* The row                                                                 *)

\* The UPDATE of update(): all columns, the read ones where the patch has none.
UpdateRow(snap, new) ==
    /\ row' = new
    /\ clobbered' = (clobbered \/ row # snap)

\* POST pipeline/run: the row is inserted before the workflow is started.
InsertPipeline ==
    /\ row.status = "none"
    /\ row' = [NoRow EXCEPT !.status = "running"]
    /\ UNCHANGED <<wf, handler, cancel, runs, slot, jobs, iters, mishaps, crashed, clobbered, retried>>

\* temporal.workflow.start; when it throws instead, the row is left as it is. The page
\* runs all stages or, as the defaults do, none before the run.
StartWorkflow(full, autoFix) ==
    /\ row.status = "running" /\ wf.pc = "none"
    /\ wf' = [NoWorkflow EXCEPT !.pc = "act", !.kind = IF full THEN "plan" ELSE "run",
                                !.autoFix = autoFix]
    /\ UNCHANGED <<row, handler, cancel, runs, slot, jobs, iters, mishaps, crashed, clobbered, retried>>

-----------------------------------------------------------------------------
(* The workflow                                                            *)

Await(w, kind) == [w EXCEPT !.kind = kind, !.attempt = 1, !.sent = FALSE]
Finish(w, verdict) == [Await(w, "finish") EXCEPT !.verdict = verdict]

KeepsFixing(w, status) == w.autoFix /\ status # "passed" /\ w.fix < MaxFix

\* The loop's head, with the status of the last run.
AfterRun(w, status) ==
    IF KeepsFixing(w, status) THEN Await([w EXCEPT !.fix = @ + 1], "fix_analyze")
    ELSE Finish(w, status)

\* The awaited activity returned: the code up to the next await.
AfterSuccess(w, h) ==
    CASE w.kind = "plan" -> Await(w, "codegen")
      [] w.kind = "codegen" -> Await(w, "run")
      [] w.kind \in RunKinds -> AfterRun([w EXCEPT !.run = h.run], h.status)
      [] w.kind = "fix_analyze" -> Await(w, "fix_apply")
      [] w.kind = "fix_apply" -> Await(w, "fix_verify")
      [] w.kind = "finish" -> [w EXCEPT !.pc = "closed"]

RetriesForever(w) == [w EXCEPT !.sent = FALSE]

\* An attempt failed: retry, or throw into the catch block, whose own finalize may
\* fail the workflow.
AfterFailure(w) ==
    IF w.attempt < MaxAttempts(w.kind) THEN [w EXCEPT !.attempt = @ + 1, !.sent = FALSE]
    ELSE IF w.caught THEN [w EXCEPT !.pc = "closed"]
    ELSE [Finish(w, "failed") EXCEPT !.caught = TRUE]

\* The worker posts the activity's request.
Deliver(h) ==
    /\ wf.pc = "act" /\ ~wf.sent
    /\ handler[h].pc = "idle"
    /\ handler' = [handler EXCEPT ![h] =
           [NoRequest EXCEPT !.pc = "touch", !.kind = wf.kind, !.attempt = wf.attempt,
                             !.fix = wf.fix, !.run = IF wf.kind = "finish" THEN wf.run ELSE 0,
                             !.status = wf.verdict]]
    /\ wf' = [wf EXCEPT !.sent = TRUE]
    /\ retried' = (retried \/ (wf.kind = "fix_apply" /\ wf.attempt = 2))
    /\ UNCHANGED <<row, cancel, runs, slot, jobs, iters, mishaps, crashed, clobbered>>

Mishap == mishaps < MaxMishaps /\ mishaps' = mishaps + 1

\* startToCloseTimeout: the handler is not stopped.
TimesOut ==
    /\ wf.pc = "act" /\ wf.sent
    /\ Mishap
    /\ wf' = AfterFailure(wf)
    /\ UNCHANGED <<row, handler, cancel, runs, slot, jobs, iters, crashed, clobbered, retried>>

FinalizesAnyway(w) == [Finish(w, "failed") EXCEPT !.caught = TRUE]
StopsAtOnce(w) == [w EXCEPT !.pc = "closed"]

\* The workflow sees its cancellation: the activity's promise rejects, and the catch
\* block's finalize is refused in the cancelled scope.
WorkflowCancelled ==
    /\ wf.pc = "act" /\ wf.cancelled /\ wf.stopped = "none"
    /\ wf' = [StopsAtOnce(wf) EXCEPT !.stopped = wf.kind]
    /\ UNCHANGED <<row, handler, cancel, runs, slot, jobs, iters, mishaps, crashed, clobbered, retried>>

-----------------------------------------------------------------------------
(* The handlers                                                            *)

\* update() reads the row: first thing in every handler, and all of finish.
TouchRead(h) ==
    /\ handler[h].pc \in {"touch", "touchRun"}
    /\ handler' = [handler EXCEPT ![h].snap = row,
                       ![h].pc = IF @ = "touch" THEN "write" ELSE "writeRun"]
    /\ UNCHANGED <<row, wf, cancel, runs, slot, jobs, iters, mishaps, crashed, clobbered, retried>>

FinishAlwaysPassed(r) == "passed"
FinishStatus(r) == IF r.status = "passed" THEN "passed" ELSE "failed"
Later(new, old) == IF new = 0 THEN old ELSE new          \* patch.x ?? current.x

\* ... and writes it: the stage, or the outcome for finish.
TouchWrite(h) ==
    LET r == handler[h] IN
    /\ r.pc = "write"
    /\ UpdateRow(r.snap,
           IF r.kind = "finish"
           THEN [status |-> FinishStatus(r), stage |-> "done",
                 run |-> Later(r.run, r.snap.run), fix |-> r.fix]
           ELSE [r.snap EXCEPT !.stage = r.kind,
                               !.fix = IF r.kind = "fix_analyze" THEN r.fix ELSE @])
    /\ handler' = [handler EXCEPT ![h].snap = NoRow,
                       ![h].pc = IF r.kind = "finish" THEN "reply" ELSE "start"]
    /\ UNCHANGED <<wf, cancel, runs, slot, jobs, iters, mishaps, crashed, retried>>

Fails(h) == handler' = [handler EXCEPT ![h].pc = "reply", ![h].ok = FALSE]

\* startPlanGeneration, startCodeGeneration and startFixAnalysis: one job of a type
\* at a time, by the job rows; or an error for a missing plan, log or recording.
StartsJob(h) ==
    LET k == handler[h].kind IN
    /\ handler[h].pc = "start" /\ k \in JobKinds
    /\ \/ /\ jobs[k] = "free"
          /\ jobs' = [jobs EXCEPT ![k] = "busy"]
          /\ handler' = [handler EXCEPT ![h].pc = "wait"]
       \/ Fails(h) /\ UNCHANGED jobs
    /\ UNCHANGED <<row, wf, cancel, runs, slot, iters, mishaps, crashed, clobbered, retried>>

\* startRun, for verifyFix too: one run at a time, by the slot in memory. verifyFix
\* also refuses a run that names no failed test.
StartsRun(h) ==
    /\ handler[h].pc = "start" /\ handler[h].kind \in RunKinds
    /\ \/ /\ slot = 0
          /\ runs' = Append(runs, "running")
          /\ slot' = Len(runs) + 1
          /\ handler' = [handler EXCEPT ![h].pc = "wait", ![h].run = Len(runs) + 1]
       \/ /\ slot # 0 \/ handler[h].kind = "fix_verify"
          /\ Fails(h) /\ UNCHANGED <<runs, slot>>
    /\ UNCHANGED <<row, wf, cancel, jobs, iters, mishaps, crashed, clobbered, retried>>

\* applyAllFixPatches: a row of fix_iterations, or an error at the limit or for a
\* patch that does not apply. FixLoop has its steps.
AppliesPatches(h) ==
    /\ handler[h].pc = "start" /\ handler[h].kind = "fix_apply"
    /\ \/ /\ iters < MaxIterations
          /\ iters' = iters + 1
          /\ handler' = [handler EXCEPT ![h].pc = "reply"]
       \/ Fails(h) /\ UNCHANGED iters
    /\ UNCHANGED <<row, wf, cancel, runs, slot, jobs, mishaps, crashed, clobbered, retried>>

\* A job ends, and waitForJob, if it still waits, sees how.
JobSettles(k, ok) ==
    /\ jobs[k] = "busy"
    /\ jobs' = [jobs EXCEPT ![k] = "free"]
    /\ handler' = [h \in Handlers |-> IF handler[h].pc = "wait" /\ handler[h].kind = k
                                     THEN [handler[h] EXCEPT !.pc = "reply", !.ok = ok]
                                     ELSE handler[h]]
    /\ UNCHANGED <<row, wf, cancel, runs, slot, iters, mishaps, crashed, clobbered, retried>>

RunSettles(status) ==
    /\ slot # 0
    /\ runs' = [runs EXCEPT ![slot] = status]
    /\ slot' = 0
    /\ UNCHANGED <<row, wf, handler, cancel, jobs, iters, mishaps, crashed, clobbered, retried>>

\* waitForRun returns the settled run, and the row is updated with its id.
RunSeen(h) ==
    LET r == handler[h] IN
    /\ r.pc = "wait" /\ r.kind \in RunKinds
    /\ runs[r.run] # "running"
    /\ handler' = [handler EXCEPT ![h].pc = "touchRun", ![h].status = runs[r.run]]
    /\ UNCHANGED <<row, wf, cancel, runs, slot, jobs, iters, mishaps, crashed, clobbered, retried>>

RunIdWrite(h) ==
    /\ handler[h].pc = "writeRun"
    /\ UpdateRow(handler[h].snap, [handler[h].snap EXCEPT !.run = handler[h].run])
    /\ handler' = [handler EXCEPT ![h].pc = "reply", ![h].snap = NoRow]
    /\ UNCHANGED <<wf, cancel, runs, slot, jobs, iters, mishaps, crashed, retried>>

\* waitForJob and waitForRun time out with the job or the run still going.
WaiterGivesUp(h) ==
    /\ handler[h].pc = "wait"
    /\ Mishap
    /\ handler[h].kind \in RunKinds => runs[handler[h].run] = "running"
    /\ Fails(h)
    /\ UNCHANGED <<row, wf, cancel, runs, slot, jobs, iters, crashed, clobbered, retried>>

Awaited(w, r) ==
    w.pc = "act" /\ w.sent /\ w.kind = r.kind /\ w.attempt = r.attempt /\ w.fix = r.fix

\* The response: Temporal drops the one of an attempt it no longer awaits.
Reply(h) ==
    /\ handler[h].pc = "reply"
    /\ wf' = IF ~Awaited(wf, handler[h]) THEN wf
             ELSE IF handler[h].ok THEN AfterSuccess(wf, handler[h]) ELSE AfterFailure(wf)
    /\ handler' = [handler EXCEPT ![h] = NoRequest]
    /\ UNCHANGED <<row, cancel, runs, slot, jobs, iters, mishaps, crashed, clobbered, retried>>

-----------------------------------------------------------------------------
(* Cancelling, other users of the project, crashes                         *)

\* handle.cancel(), which throws for a workflow that is closed or never started.
\* One cancel call is enough for this model.
CancelRequest ==
    /\ cancel.pc = "idle" /\ wf.pc = "act" /\ ~wf.cancelled
    /\ wf' = [wf EXCEPT !.cancelled = TRUE]
    /\ cancel' = [cancel EXCEPT !.pc = "read"]
    /\ UNCHANGED <<row, handler, runs, slot, jobs, iters, mishaps, crashed, clobbered, retried>>

CancelRead ==
    /\ cancel.pc = "read"
    /\ cancel' = [pc |-> "write", snap |-> row]
    /\ UNCHANGED <<row, wf, handler, runs, slot, jobs, iters, mishaps, crashed, clobbered, retried>>

CancelWrite ==
    /\ cancel.pc = "write"
    /\ UpdateRow(cancel.snap, [cancel.snap EXCEPT !.status = "cancelled", !.stage = "done"])
    /\ cancel' = [pc |-> "idle", snap |-> NoRow]
    /\ UNCHANGED <<wf, handler, runs, slot, jobs, iters, mishaps, crashed, retried>>

OtherRun ==
    /\ slot = 0 /\ Mishap
    /\ runs' = Append(runs, "running")
    /\ slot' = Len(runs) + 1
    /\ UNCHANGED <<row, wf, handler, cancel, jobs, iters, crashed, clobbered, retried>>

\* The server restarts: requests break off and their attempts fail, the slot is
\* forgotten, rows of running jobs stay.
Crash ==
    /\ Mishap
    /\ crashed' = TRUE
    /\ wf' = IF wf.pc = "act" /\ wf.sent THEN AfterFailure(wf) ELSE wf
    /\ handler' = [h \in Handlers |-> NoRequest]
    /\ cancel' = [pc |-> "idle", snap |-> NoRow]
    /\ slot' = 0
    /\ jobs' = [k \in JobKinds |-> IF jobs[k] = "busy" THEN "stuck" ELSE jobs[k]]
    /\ UNCHANGED <<row, runs, iters, clobbered, retried>>

HandlerStep(h) ==
    \/ TouchRead(h) \/ TouchWrite(h) \/ StartsJob(h) \/ StartsRun(h) \/ AppliesPatches(h)
    \/ RunSeen(h) \/ RunIdWrite(h) \/ Reply(h) \/ Deliver(h)

Next ==
    \/ InsertPipeline
    \/ \E full, autoFix \in BOOLEAN : StartWorkflow(full, autoFix)
    \/ TimesOut \/ WorkflowCancelled
    \/ \E h \in Handlers : HandlerStep(h) \/ WaiterGivesUp(h)
    \/ \E k \in JobKinds, ok \in BOOLEAN : JobSettles(k, ok)
    \/ \E status \in {"passed", "failed"} : RunSettles(status)
    \/ CancelRequest \/ CancelRead \/ CancelWrite
    \/ OtherRun \/ Crash

\* A live server answers its requests, jobs and runs end by their own timeouts
\* (PiJobs, RunService), and Temporal delivers activities and cancellations.
Fairness ==
    /\ \A h \in Handlers : WF_vars(HandlerStep(h))
    /\ WF_vars(\E status \in {"passed", "failed"} : RunSettles(status))
    /\ \A k \in JobKinds : WF_vars(\E ok \in BOOLEAN : JobSettles(k, ok))
    /\ WF_vars(WorkflowCancelled)
    /\ WF_vars(CancelRead \/ CancelWrite)

Spec == Init /\ [][Next]_vars /\ Fairness

-----------------------------------------------------------------------------
TypeOK ==
    /\ row \in Row /\ wf \in Workflow
    /\ handler \in [Handlers -> Request]
    /\ cancel \in [pc : {"idle", "read", "write"}, snap : Row]
    /\ runs \in Seq({"running", "passed", "failed"}) /\ slot \in 0..Len(runs)
    /\ jobs \in [JobKinds -> {"free", "busy", "stuck"}]
    /\ iters \in 0..MaxIterations

Quiet ==
    /\ wf.pc = "closed" /\ cancel.pc = "idle"
    /\ \A h \in Handlers : handler[h].pc = "idle"

\* The row reports what the workflow ended with: passed only with a run that passed,
\* whatever late handlers and cancels wrote; and once all is quiet, an undisturbed
\* pipeline whose last run passed is passed, and names that run.
OutcomeAgrees ==
    /\ row.status = "passed" /\ ~clobbered => row.run > 0 /\ runs[row.run] = "passed"
    /\ (/\ Quiet /\ ~clobbered /\ ~crashed /\ ~wf.cancelled /\ ~wf.caught)
           => /\ row.status = (IF runs[wf.run] = "passed" THEN "passed" ELSE "failed")
              /\ row.run = wf.run

\* A pipeline cancelled during a stage stays cancelled: its workflow's catch block
\* cannot finalize it, and the stage's handler, which goes on, keeps the status.
CancelledStays ==
    (Quiet /\ ~clobbered /\ ~crashed /\ wf.stopped \notin {"none", "finish"})
        => row.status = "cancelled"

\* One round, one row: unless fix_apply was attempted twice, no more fix iterations
\* are used up than the workflow counts, so its own limit is reached first.
RoundsAgree == ~retried => iters <= wf.fix

\* What the database keeps of a pipeline, its row and its fix iterations, agrees with
\* what the workflow decided and counted.
RecordsAgree == OutcomeAgrees /\ RoundsAgree

\* A started pipeline leaves "running", whichever stage fails, times out or is
\* cancelled, unless the server restarts or an update is lost.
PipelineEnds ==
    (wf.pc = "act") ~> (row.status \in Terminal \/ crashed \/ clobbered)
=============================================================================
