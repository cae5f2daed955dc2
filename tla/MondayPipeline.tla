--------------------------- MODULE MondayPipeline ---------------------------
(***************************************************************************)
(* The test-generation pipeline of ai-auto-test-monday: the API's          *)
(* pipeline-service.ts, the pipeline_runs rows, and the Temporal workflows *)
(* and activities of the worker.  One project.                             *)
(*                                                                         *)
(* Four kinds of process interleave on a row nobody locks:                 *)
(*   - requests (start, execute, resume, cancel), each used once;          *)
(*   - pollers, which call getPipelineRun again and again; it reads the    *)
(*     row, queries the workflows, and repairs the row from that snapshot; *)
(*   - the workflows, of which a run may have four kinds;                  *)
(*   - the activities of the worker, which write the row themselves and do *)
(*     not heartbeat: an activity whose workflow was cancelled or gave up  *)
(*     waiting runs on as an orphan.                                       *)
(*                                                                         *)
(* The six generation agents are one stage "gen"; continuityLead is        *)
(* "lead".  Executions restricted to some journeys are left out.           *)
(***************************************************************************)
EXTENDS Naturals, Sequences

CONSTANTS
    Runs,        \* pipeline runs of the project
    Requests,    \* API requests, each made at most once
    Pollers,     \* clients of getPipelineRun
    Ops,         \* the operations requests may ask for
    NoRun,       \* a process that has not named a run
    MaxRetries,  \* bound on activity retries (maximumAttempts per agent)
    MaxMishaps   \* bound on lost writes, failed workflow starts, activity
                 \* timeouts and restarts of the worker

ASSUME MondayPipelineAssumption ==
    /\ NoRun \notin Runs
    /\ Ops \subseteq {"start", "execute", "resume", "cancel"}
    /\ MaxRetries \in Nat /\ MaxMishaps \in Nat

VARIABLES
    row,      \* [Runs -> Row]     pipeline_runs
    specs,    \* runs with generated spec files and artifacts
    wf,       \* [Runs -> [Kinds -> Workflow]]
    orphans,  \* [Runs -> SUBSET Orphan] activities nobody waits for; two that
              \* have the same writes left to do are one
    req,      \* [Requests -> Request]
    poll,     \* [Pollers -> Poll]
    retries,  \* activity retries so far
    mishaps,  \* mishaps so far
    raced     \* history: runs a request was decided on while another request
              \* on them was half way, while a workflow their row does not show
              \* was at work, or without Temporal's answer

vars == <<row, specs, wf, orphans, req, poll, retries, mishaps, raced>>

-----------------------------------------------------------------------------
Status  == {"none", "running", "completed", "failed", "cancelled"}
Exec    == {"null", "pending", "running", "completed", "failed"}
Resumes == {"resumeGen", "resumeLead"}
Kinds   == {"main", "execute"} \cup Resumes
Row     == [status : Status, exec : Exec, overlay : {"null", "execute"} \cup Resumes]

\* Workflow execution status; "partial" is one that COMPLETED with failed
\* journeys, "cancelling" one whose cancellation is requested.
Open    == {"running", "cancelling"}
WfState == {"absent", "completed", "partial", "failed", "cancelled"} \cup Open
\* Where the current activity attempt is: before a write, or over and about to
\* be reported to the workflow.
Writing == {"gen", "begin", "run", "pass", "fail", "error", "halt"}
Reports == {"generated", "failing", "passed", "journeysFailed", "errored"}
ActPc   == {"none", "genLost", "leadLost"} \cup Writing \cup Reports
Workflow == [st : WfState, pc : ActPc, after : BOOLEAN]
Orphan   == [pc : Writing, after : BOOLEAN]

NoWorkflow == [st |-> "absent", pc |-> "none", after |-> FALSE]
NewRow == [status |-> "none", exec |-> "null", overlay |-> "null"]

\* isRunActivelyRunning
Active(r0) == \/ r0.status = "running"
              \/ r0.status = "completed" /\ r0.exec = "running"

IsOpen(r, k) == wf[r][k].st \in Open
AtWork(r) == \E k \in Kinds : IsOpen(r, k)

\* A request between two awaits: the row it read, the active rows it has still
\* to look at, and the one it found stale with the status it will be given.
ReqPc == {"idle", "select", "assert", "mark", "update", "launch", "restore",
          "write", "done"}
Seen  == [run : Runs, overlay : {"null", "execute"} \cup Resumes]
Request == [pc : ReqPc, op : Ops \cup {"none"}, run : Runs \cup {NoRun}, kind : Kinds,
            after : BOOLEAN, seen : Row, todo : SUBSET Seen,
            stale : Runs \cup {NoRun}, verdict : Status]
IdleReq == [pc |-> "idle", op |-> "none", run |-> NoRun, kind |-> "main",
            after |-> FALSE, seen |-> NewRow, todo |-> {}, stale |-> NoRun,
            verdict |-> "none"]

\* getPipelineRun: the row it read, then the writes it decided on.
Keep     == "none"
Verdicts == [1 .. 5 -> Status]
Poll     == [pc : {"idle", "query", "write"}, run : Runs \cup {NoRun}, seen : Row,
             verdicts : Verdicts]
IdlePoll == [pc |-> "idle", run |-> NoRun, seen |-> NewRow,
             verdicts |-> [i \in 1 .. 5 |-> Keep]]

Init ==
    /\ row = [r \in Runs |-> NewRow]
    /\ specs = {}
    /\ wf = [r \in Runs |-> [k \in Kinds |-> NoWorkflow]]
    /\ orphans = [r \in Runs |-> {}]
    /\ req = [q \in Requests |-> IdleReq]
    /\ poll = [p \in Pollers |-> IdlePoll]
    /\ retries = 0
    /\ mishaps = 0
    /\ raced = {}

Mishap == mishaps < MaxMishaps /\ mishaps' = mishaps + 1

-----------------------------------------------------------------------------
(* Requests                                                                *)

ReqFrame == UNCHANGED <<orphans, poll, retries>>

InFlight(q) == req[q].pc \notin {"idle", "done"}
\* The workflows a row names: the main one and that of its overlay.
Named(overlay) == {"main"} \cup ({overlay} \ {"null"})
\* A workflow is at work on r although its row does not show it.
Hidden(r) == \E k \in Kinds : IsOpen(r, k) /\ ~(Active(row[r]) /\ k \in Named(row[r].overlay))
\* What the requests' checks cannot see: another request half way, or a hidden
\* workflow.
Unseen(q, r) == Hidden(r) \/ \E o \in Requests \ {q} : InFlight(o) /\ req[o].run = r
Notice(q, r) == raced' = IF Unseen(q, r) THEN raced \cup {r} ELSE raced

Begin(q, op, r, k, a, pc) ==
    req' = [req EXCEPT ![q] = [IdleReq EXCEPT !.pc = pc, !.op = op, !.run = r,
                                               !.kind = k, !.after = a, !.seen = row[r]]]

Answered(q) == [req EXCEPT ![q] = [IdleReq EXCEPT !.pc = "done"]]

\* A start names a fresh run.  StartUnchecked forgets assertProjectNotRunning (for
\* a mutant run).
StartAt(q, r, a, pc) ==
    /\ req[q].pc = "idle" /\ "start" \in Ops
    /\ row[r].status = "none"
    /\ \A o \in Requests : req[o].op = "start" => req[o].run # r
    /\ Begin(q, "start", r, "main", a, pc)
    /\ UNCHANGED <<row, specs, wf, mishaps, raced>> /\ ReqFrame
StartUnchecked(q, r, a) == StartAt(q, r, a, "update")
StartRun(q, r, a) == StartAt(q, r, a, "select")

\* isRunActivelyRunning guards both operations, on the row as it was read; AnyRow
\* forgets it (for a mutant run).
AnyRow(r) == row[r].status # "none"
MayProceed(r) == row[r].status # "none" /\ ~Active(row[r])

ExecuteRun(q, r) ==
    /\ req[q].pc = "idle" /\ "execute" \in Ops
    /\ MayProceed(r) /\ r \in specs
    /\ Begin(q, "execute", r, "execute", TRUE, "update")
    /\ Notice(q, r)
    /\ UNCHANGED <<row, specs, wf, mishaps>> /\ ReqFrame

ResumeRun(q, r, k, a) ==
    /\ req[q].pc = "idle" /\ "resume" \in Ops
    /\ k = "resumeLead" => a
    /\ MayProceed(r)
    /\ Begin(q, "resume", r, k, a, "select")
    /\ Notice(q, r)
    /\ UNCHANGED <<row, specs, wf, mishaps>> /\ ReqFrame

\* assertProjectNotRunning: select the active rows of the project...
Select(q) ==
    /\ req[q].pc = "select"
    /\ req' = [req EXCEPT ![q].pc = "assert",
                          ![q].todo = {[run |-> r, overlay |-> row[r].overlay] :
                                          r \in {x \in Runs : Active(row[x])}}]
    /\ raced' = raced \cup {r \in Runs \ {req[q].run} : Unseen(q, r)}
    /\ UNCHANGED <<row, specs, wf, mishaps>> /\ ReqFrame

\* ...and ask Temporal about the workflows each of them names: one that is
\* running refuses the request, otherwise the row is stale.  An answer that does
\* not come counts as not running.
Inspect(q, t) ==
    LET ids == Named(t.overlay)
        st(k) == wf[t.run][k].st
    IN  /\ req[q].pc = "assert" /\ t \in req[q].todo
        /\ \E heard \in SUBSET ids :
            /\ \/ heard = ids /\ UNCHANGED <<mishaps, raced>>
               \/ heard # ids /\ Mishap /\ raced' = raced \cup {t.run}
            /\ \/ /\ \E k \in heard : st(k) \in Open
                  /\ req' = Answered(q)
               \/ /\ \A k \in heard : st(k) \notin Open
                  /\ req' = [req EXCEPT ![q].pc = "mark", ![q].stale = t.run,
                       ![q].todo = @ \ {t},
                       ![q].verdict = IF \E k \in heard : st(k) \in {"completed", "partial"}
                                      THEN "completed" ELSE "failed"]
        /\ UNCHANGED <<row, specs, wf>> /\ ReqFrame

\* markStaleRunCompleted leaves execution_status and the overlay as they are.
MarkStale(q) ==
    LET v == req[q].verdict
    IN  /\ req[q].pc = "mark"
        /\ req' = [req EXCEPT ![q].pc = "assert", ![q].stale = NoRun, ![q].verdict = "none"]
        /\ row' = [row EXCEPT ![req[q].stale] =
                     IF v = "completed" THEN [@ EXCEPT !.status = v]
                     ELSE [status |-> v, exec |-> "null", overlay |-> "null"]]
        /\ UNCHANGED <<specs, wf, mishaps, raced>> /\ ReqFrame

\* No row refuses the request; a resume then deletes the artifacts downstream of
\* its agent, for each generation agent the generated specs among them.
NotRunning(q) ==
    /\ req[q].pc = "assert" /\ req[q].todo = {}
    /\ req' = [req EXCEPT ![q].pc = "update"]
    /\ specs' = IF req[q].kind = "resumeGen" THEN specs \ {req[q].run} ELSE specs
    /\ UNCHANGED <<row, wf, mishaps, raced>> /\ ReqFrame

\* The row as the request leaves it before it starts its workflow.
Claimed(old, op, k, a) ==
    CASE op = "start"   -> [status |-> "running", exec |-> IF a THEN "pending" ELSE "null",
                            overlay |-> "null"]
      [] op = "execute" -> [old EXCEPT !.exec = "running", !.overlay = k]
      [] op = "resume"  -> [status |-> "running", overlay |-> k,
                            exec |-> CASE k = "resumeLead" -> "running"
                                       [] k # "resumeLead" /\ a -> "pending"
                                       [] OTHER -> "null"]

Update(q) ==
    LET n == req[q]
    IN  /\ n.pc = "update"
        /\ req' = [req EXCEPT ![q].pc = "launch"]
        /\ row' = [row EXCEPT ![n.run] = Claimed(@, n.op, n.kind, n.after)]
        /\ UNCHANGED <<specs, wf, mishaps, raced>> /\ ReqFrame

Started(k, a) == [st |-> "running", after |-> a,
                  pc |-> IF k \in {"main", "resumeGen"} THEN "gen" ELSE "begin"]

\* workflow.start: refused while a workflow of that id is open.
Launch(q) ==
    LET n == req[q]
    IN  /\ n.pc = "launch" /\ ~IsOpen(n.run, n.kind)
        /\ req' = Answered(q)
        /\ wf' = [wf EXCEPT ![n.run][n.kind] = Started(n.kind, n.after)]
        /\ UNCHANGED <<row, specs, mishaps, raced>> /\ ReqFrame

LaunchFails(q) ==
    LET n == req[q]
    IN  /\ n.pc = "launch"
        /\ \/ IsOpen(n.run, n.kind) /\ UNCHANGED mishaps
           \/ ~IsOpen(n.run, n.kind) /\ Mishap
        /\ req' = IF n.op = "start" THEN Answered(q) ELSE [req EXCEPT ![q].pc = "restore"]
        /\ UNCHANGED <<row, specs, wf, raced>> /\ ReqFrame

Restore(q) ==
    LET n == req[q]
    IN  /\ n.pc = "restore"
        /\ req' = Answered(q)
        /\ row' = [row EXCEPT ![n.run] =
                     IF n.op = "execute"
                     THEN [@ EXCEPT !.exec = n.seen.exec, !.overlay = "null"]
                     ELSE [@ EXCEPT !.status = n.seen.status, !.overlay = "null"]]
        /\ UNCHANGED <<specs, wf, mishaps, raced>> /\ ReqFrame

\* cancelPipeline asks Temporal to cancel every workflow the run may have...
CancelRun(q, r) ==
    /\ req[q].pc = "idle" /\ "cancel" \in Ops
    /\ row[r].status \notin {"none", "completed"}
    /\ Begin(q, "cancel", r, "main", FALSE, "write")
    /\ wf' = [wf EXCEPT ![r] = [k \in Kinds |->
                 IF @[k].st = "running" THEN [@[k] EXCEPT !.st = "cancelling"] ELSE @[k]]]
    /\ UNCHANGED <<row, specs, mishaps, raced>> /\ ReqFrame

\* ...and writes the row without waiting for any of them to end.
CancelWrite(q) ==
    /\ req[q].pc = "write"
    /\ req' = Answered(q)
    /\ row' = [row EXCEPT ![req[q].run] =
                 [status |-> "cancelled", exec |-> "null", overlay |-> "null"]]
    /\ UNCHANGED <<specs, wf, mishaps, raced>> /\ ReqFrame

-----------------------------------------------------------------------------
(* Activities and workflows                                                *)

WorkFrame == UNCHANGED <<req, poll, raced>>

\* One write of an activity attempt: from where to where, and what it makes of
\* the columns ("none" keeps the status, "keep" keeps execution_status).
Move(from, to, status, exec) == [from |-> from, to |-> to, status |-> status, exec |-> exec]
Moves(after) == {
    Move("gen",   "generated",      IF after THEN Keep ELSE "completed", "keep"),
    Move("gen",   "failing",        "failed",    "keep"),
    Move("begin", "run",            Keep,        "running"),
    Move("run",   "pass",           Keep,        "completed"),
    Move("run",   "fail",           Keep,        "failed"),
    Move("run",   "error",          Keep,        "failed"),
    Move("pass",  "passed",         "completed", "keep"),
    Move("fail",  "journeysFailed", "failed",    "keep"),
    Move("error", "errored",        "failed",    "keep"),
    Move("halt",  "errored",        "cancelled", "keep")}

Written(r0, m) == [r0 EXCEPT !.status = IF m.status = Keep THEN @ ELSE m.status,
                             !.exec = IF m.exec = "keep" THEN @ ELSE m.exec]

\* An attempt the workflow still waits for.
ActivityWrites(r, k) ==
    /\ IsOpen(r, k)
    /\ \E m \in Moves(wf[r][k].after) :
        /\ m.from = wf[r][k].pc
        /\ row' = [row EXCEPT ![r] = Written(@, m)]
        /\ wf' = [wf EXCEPT ![r][k].pc = m.to]
        /\ specs' = IF m.to = "generated" THEN specs \cup {r} ELSE specs
    /\ UNCHANGED <<orphans, retries, mishaps>> /\ WorkFrame

OrphanWrites(r) ==
    /\ \E o \in orphans[r] : \E m \in Moves(o.after) :
        /\ m.from = o.pc
        /\ row' = [row EXCEPT ![r] = Written(@, m)]
        /\ orphans' = [orphans EXCEPT ![r] = (@ \ {o}) \cup
                         (IF m.to \in Writing THEN {[o EXCEPT !.pc = m.to]} ELSE {})]
        /\ specs' = IF m.to = "generated" THEN specs \cup {r} ELSE specs
    /\ UNCHANGED <<wf, retries, mishaps>> /\ WorkFrame

\* The worker swallows database errors: the attempt goes on as if it had written.
WriteLost(r, k) ==
    /\ IsOpen(r, k) /\ Mishap
    /\ \E m \in Moves(wf[r][k].after) :
        /\ m.from = wf[r][k].pc
        /\ wf' = [wf EXCEPT ![r][k].pc = m.to]
        /\ specs' = IF m.to = "generated" THEN specs \cup {r} ELSE specs
    /\ UNCHANGED <<row, orphans, retries>> /\ WorkFrame

\* Shutting down, the worker aborts its activities: continuityLead clears
\* execution_status, a generation agent throws without a write.
Interrupted(r, k) ==
    /\ wf[r][k].pc \in {"gen", "run"} /\ IsOpen(r, k) /\ Mishap
    /\ wf' = [wf EXCEPT ![r][k].pc = IF @ = "gen" THEN "failing" ELSE "halt"]
    /\ row' = IF wf[r][k].pc = "run" THEN [row EXCEPT ![r].exec = "null"] ELSE row
    /\ UNCHANGED <<specs, orphans, retries>> /\ WorkFrame

\* The workflow goes on to the lead, or ends, with what its activity reported.
Close(r, k, st) == wf' = [wf EXCEPT ![r][k] = [NoWorkflow EXCEPT !.st = st]]
WorkflowGoesOn(r, k) ==
    LET w == wf[r][k]
    IN  /\ IsOpen(r, k)
        /\ \/ /\ w.pc = "generated" /\ w.after
              /\ wf' = [wf EXCEPT ![r][k].pc = "begin"]
           \/ w.pc = "generated" /\ ~w.after /\ Close(r, k, "completed")
           \/ w.pc = "passed" /\ Close(r, k, "completed")
           \/ w.pc = "journeysFailed" /\ Close(r, k, "partial")
           \/ w.pc \in {"failing", "errored"} /\ Close(r, k, "failed")
        /\ UNCHANGED <<row, specs, orphans, retries, mishaps>> /\ WorkFrame

\* maximumAttempts: 2 for all generation agents but the choreographer.
Retry(r, k) ==
    /\ IsOpen(r, k) /\ wf[r][k].pc = "failing"
    /\ retries < MaxRetries
    /\ retries' = retries + 1
    /\ wf' = [wf EXCEPT ![r][k].pc = "gen"]
    /\ UNCHANGED <<row, specs, orphans, mishaps>> /\ WorkFrame

Orphaned(r, k) ==
    [orphans EXCEPT ![r] = @ \cup {[pc |-> p, after |-> wf[r][k].after] :
                                       p \in {wf[r][k].pc} \cap Writing}]

\* TRY_CANCEL: the workflow ends without waiting for its activity.  The wording of
\* the error it catches decides whether its progress says cancelled or failed.
WorkflowCancelled(r, k) ==
    /\ wf[r][k].st = "cancelling"
    /\ \E st \in {"cancelled", "failed"} : Close(r, k, st)
    /\ orphans' = Orphaned(r, k)
    /\ UNCHANGED <<row, specs, retries, mishaps>> /\ WorkFrame

\* startToCloseTimeout, with the attempt still at work or lost with its worker:
\* reported as a failure of the attempt.
ActivityTimesOut(r, k) ==
    LET w == wf[r][k]
    IN  /\ IsOpen(r, k)
        /\ \/ w.pc \in Writing /\ Mishap
           \/ w.pc \in {"genLost", "leadLost"} /\ UNCHANGED mishaps
        /\ wf' = [wf EXCEPT ![r][k].pc =
                    IF w.pc \in {"gen", "genLost"} THEN "failing" ELSE "errored"]
        /\ orphans' = Orphaned(r, k)
        /\ UNCHANGED <<row, specs, retries>> /\ WorkFrame

\* The worker process dies with every attempt it was running, and with the
\* reports it has not sent.
WorkerDies ==
    /\ Mishap
    /\ orphans' = [r \in Runs |-> {}]
    /\ wf' = [r \in Runs |-> [k \in Kinds |->
                [wf[r][k] EXCEPT !.pc =
                    CASE @ \in {"gen", "generated", "failing"} -> "genLost"
                      [] @ \in (Writing \cup Reports) \ {"gen", "generated", "failing"}
                            -> "leadLost"
                      [] OTHER -> @]]]
    /\ UNCHANGED <<row, specs, retries>> /\ WorkFrame

-----------------------------------------------------------------------------
(* getPipelineRun                                                          *)

\* progress.status of a workflow; continuityLeadOnly knows no "cancelled".
Progress(r, k) ==
    LET st == wf[r][k].st
    IN  CASE st = "absent" -> "none"
          [] st \in Open -> "running"
          [] st = "completed" -> "completed"
          [] st \in {"partial", "failed"} -> "failed"
          [] st = "cancelled" -> IF k = "execute" THEN "failed" ELSE "cancelled"

\* mergeExecuteProgress, from the row, the main workflow and the execution.
Merge(r0, main, exe) ==
    CASE r0.exec = "null" -> main
      [] r0.exec \in {"completed", "failed"} -> r0.exec
      [] r0.exec \in {"pending", "running"} /\ exe # "none" -> exe
      [] r0.exec = "running" /\ exe = "none" -> IF main = "none" THEN "none" ELSE "running"
      [] r0.exec = "pending" /\ exe = "none" -> main

Resumed(r0) == r0.overlay \in Resumes
\* The second workflow that is queried besides the main one, if any.
Second(r0) == IF r0.overlay # "null" THEN r0.overlay
              ELSE IF r0.exec # "null" THEN "execute" ELSE "null"
Overall(r0, main, second) ==
    IF Resumed(r0) THEN IF second # "none" THEN second ELSE Merge(r0, main, "none")
    ELSE Merge(r0, main, second)

\* reconcileRunTerminalStatus; ReconciledByExec knows execution_status only (for a
\* mutant run).
ReconciledByExec(r0, p) ==
    IF r0.status = "running" /\ r0.exec \in {"completed", "failed"} THEN r0.exec ELSE Keep
Reconciled(r0, p) ==
    CASE r0.status # "running" -> Keep
      [] r0.status = "running" /\ r0.exec \in {"completed", "failed"} -> r0.exec
      [] r0.status = "running" /\ r0.exec \notin {"completed", "failed"} ->
            CASE p = "completed" /\ r0.exec = "null" /\ ~Resumed(r0) -> "completed"
              [] p = "failed" /\ ~Resumed(r0) -> "failed"
              [] p = "cancelled" -> "cancelled"
              [] OTHER -> Keep

\* generationFailed
FailedAnyway(r0, main, p) == p = "failed" \/ (~Resumed(r0) /\ main = "failed")
Failed(r0, main, p) == r0.status = "running" /\ FailedAnyway(r0, main, p)

\* The last write: propagate a failure, or a workflow that is running.
LastWrite(r0, main, second, p) ==
    CASE Failed(r0, main, p) -> "failed"
      [] ~Failed(r0, main, p) /\ p = "running" /\ r0.exec = "null" /\ r0.overlay = "null"
            -> "running"
      [] ~Failed(r0, main, p) /\ r0.overlay # "null" /\ second = "running" -> "running"
      [] OTHER -> Keep

\* The statuses getPipelineRun writes, in order, from what it has read.
Decide(r0, main, second) ==
    LET p == Overall(r0, main, second)
        running == r0.status = "running"
    IN  <<IF Resumed(r0) /\ second = "completed" /\ running THEN "completed" ELSE Keep,
          IF Resumed(r0) /\ second = "failed" /\ running THEN "failed" ELSE Keep,
          Reconciled(r0, p),
          IF running /\ ~Resumed(r0) /\ p = "cancelled" THEN "cancelled" ELSE Keep,
          LastWrite(r0, main, second, p)>>

PollFrame == UNCHANGED <<specs, wf, orphans, req, retries, mishaps, raced>>

PollRead(p, r) ==
    /\ poll[p].pc = "idle" /\ row[r].status # "none"
    /\ poll' = [poll EXCEPT ![p] = [IdlePoll EXCEPT !.pc = "query", !.run = r, !.seen = row[r]]]
    /\ UNCHANGED row /\ PollFrame

\* A poll with nothing (more) to write is over.
Poller(r, verdicts) ==
    IF \A i \in 1 .. 5 : verdicts[i] = Keep THEN IdlePoll
    ELSE [pc |-> "write", run |-> r, seen |-> NewRow, verdicts |-> verdicts]

\* Either query may go unanswered: no such workflow, or no worker to answer.
PollQuery(p) ==
    LET v == poll[p]
    IN  /\ v.pc = "query"
        /\ \E main \in {"none", Progress(v.run, "main")} :
           \E second \in {"none"} \cup (IF Second(v.seen) = "null" THEN {}
                                        ELSE {Progress(v.run, Second(v.seen))}) :
              poll' = [poll EXCEPT ![p] = Poller(v.run, Decide(v.seen, main, second))]
        /\ UNCHANGED row /\ PollFrame

PollWrite(p) ==
    LET v == poll[p]
    IN  /\ v.pc = "write"
        /\ \E i \in 1 .. 5 :
            /\ v.verdicts[i] # Keep /\ \A j \in 1 .. i - 1 : v.verdicts[j] = Keep
            /\ row' = [row EXCEPT ![v.run].status = v.verdicts[i]]
            /\ poll' = [poll EXCEPT ![p] = Poller(v.run, [v.verdicts EXCEPT ![i] = Keep])]
        /\ PollFrame

-----------------------------------------------------------------------------
ReqStep(q) == \/ Select(q) \/ MarkStale(q) \/ NotRunning(q) \/ Update(q)
              \/ Launch(q) \/ LaunchFails(q) \/ Restore(q) \/ CancelWrite(q)
              \/ \E t \in req[q].todo : Inspect(q, t)
WorkflowStep(r, k) == \/ ActivityWrites(r, k) \/ WriteLost(r, k) \/ Interrupted(r, k)
                      \/ WorkflowGoesOn(r, k) \/ Retry(r, k) \/ WorkflowCancelled(r, k)
                      \/ ActivityTimesOut(r, k)

Next ==
    \/ \E q \in Requests :
        \/ \E r \in Runs : \/ \E a \in BOOLEAN : StartRun(q, r, a)
                           \/ ExecuteRun(q, r) \/ CancelRun(q, r)
                           \/ \E a \in BOOLEAN, k \in Resumes : ResumeRun(q, r, k, a)
        \/ ReqStep(q)
    \/ \E r \in Runs : OrphanWrites(r) \/ \E k \in Kinds : WorkflowStep(r, k)
    \/ \E p \in Pollers : PollQuery(p) \/ PollWrite(p) \/ \E r \in Runs : PollRead(p, r)
    \/ WorkerDies

Spec == Init /\ [][Next]_vars

-----------------------------------------------------------------------------
(* Properties                                                              *)

TypeOK ==
    /\ row \in [Runs -> Row]
    /\ specs \subseteq Runs
    /\ wf \in [Runs -> [Kinds -> Workflow]]
    /\ orphans \in [Runs -> SUBSET Orphan]
    /\ req \in [Requests -> Request]
    /\ poll \in [Pollers -> Poll]
    /\ retries \in Nat /\ mishaps \in Nat
    /\ raced \subseteq Runs

\* Two workflows of one run never work on its artifacts together, unless a
\* request was decided in one of the three ways that raced records.
OneWorkflowPerRun ==
    \A r \in Runs \ raced : \A k, o \in Kinds : IsOpen(r, k) /\ IsOpen(r, o) => k = o

\* Generation and resume workflows of two runs of the project are never at work
\* together, with the same exception; executePipelineRun does not look at other runs.
OneRunPerProject ==
    raced = {} => \A r, o \in Runs :
        /\ \E k \in Kinds \ {"execute"} : IsOpen(r, k)
        /\ \E k \in Kinds \ {"execute"} : IsOpen(o, k)
        => r = o

\* The one thing the 409 checks of start, execute and resume are there for.
OneWorkflowAtATime == OneWorkflowPerRun /\ OneRunPerProject

\* What the next getPipelineRun would write if every query is answered.
NextPoll(r) ==
    LET second == Second(row[r])
        v == Decide(row[r], Progress(r, "main"),
                    IF second = "null" THEN "none" ELSE Progress(r, second))
    IN  {v[i] : i \in 1 .. 5} \ {Keep}

\* Nothing is half way: no request, no poll, no workflow and no orphan.
Quiet(r) ==
    /\ ~AtWork(r) /\ orphans[r] = {}
    /\ \A q \in Requests : ~InFlight(q)
    /\ \A p \in Pollers : poll[p].pc = "idle"

\* "Once the DB row is terminal, stale workflow queries must not resurrect
\* failures": polling a run that is over never changes its status, whichever of
\* its workflows failed or were cancelled earlier.
StaleQueriesHarmless ==
    \A r \in Runs :
        Quiet(r) /\ row[r].status \in {"completed", "failed", "cancelled"} =>
            NextPoll(r) = {}

\* A row left at "running" by whatever interleaving is repaired by the next
\* poll: it settles on one terminal status.
RunningIsRepaired ==
    \A r \in Runs :
        Quiet(r) /\ row[r].status = "running" /\ mishaps = 0 /\ r \notin raced =>
            /\ NextPoll(r) # {}
            /\ NextPoll(r) \subseteq {"completed", "failed", "cancelled"}
=============================================================================
