------------------------------ MODULE FixLoop ------------------------------
(***************************************************************************)
(* Repairing a failed run in ai-auto-test-playwright (fix-service.ts,      *)
(* fix-apply-service.ts, routes/fix.ts, the fix_suggestions and            *)
(* fix_iterations tables): an analysis job proposes patches, an apply call *)
(* writes them into the workspace and inserts an iteration row, and a      *)
(* verify run is polled for that row's result.                             *)
(*                                                                         *)
(* Starting a run or a job is one step here; its races are those of        *)
(* RunService and PiJobs.                                                  *)
(***************************************************************************)
EXTENDS Naturals, Sequences

CONSTANTS
    Analyses,       \* fix analyses, each saving at most one suggestion
    Patches,        \* patches an analysis may propose
    FileOf,         \* the file under tests/ each patch changes
    PatchesOf,      \* the patches each analysis proposes
    Breaks,         \* pairs <<p, q>>: q no longer applies to a file that has p
    Calls,          \* apply and verify calls: users' and the platform pipeline's
    Verifies,       \* runs that verify calls may start
    Original,       \* the failed run all this is about
    NoRun,
    MaxIterations,  \* FIX_MAX_ITERATIONS
    MaxPolls,       \* iterations of the loop in pollVerifyResult
    MaxCrashes      \* bound on restarts of the server

ASSUME FixLoopAssumption ==
    /\ PatchesOf \in [Analyses -> SUBSET Patches]
    /\ Breaks \subseteq Patches \X Patches
    /\ Original \notin Verifies /\ NoRun \notin Verifies \cup {Original} \cup Analyses
    /\ MaxIterations \in Nat /\ MaxPolls \in Nat /\ MaxCrashes \in Nat

VARIABLES
    run,       \* [Verifies \cup {Original} -> RunStatus] runs.status
    red,       \* runs with failed > 0, and so with failed_node_ids
    slot,      \* the run that makes startRun answer 409
    analysis,  \* [Analyses -> ...] the fix jobs
    sugs,      \* analyses whose suggestion row exists
    iters,     \* fix_iterations of the original run, in order of insertion
    call,      \* [Calls -> Call] the requests
    files,     \* [file -> patches its text has]
    poll,      \* [Verifies -> [row, left]] the detached pollVerifyResult loops
    crashes,
    torn       \* history: files two applies had open at once, or one left half way

vars == <<run, red, slot, analysis, sugs, iters, call, files, poll, crashes, torn>>

Runs == Verifies \cup {Original}
Files == {FileOf[p] : p \in Patches}
Settled == {"passed", "failed", "stopped"}     \* stopped: error or cancelled
RunStatus == {"none", "running"} \cup Settled
Results == {"null", "passed", "failed", "skipped"}
Iteration == [n : Nat, patches : SUBSET Patches, verify : Verifies \cup {NoRun},
              result : Results]
\* One apply or verify request: the suggestion, the selected patches, those still
\* to handle, the one whose file was read and the text read, the row it verifies.
CallPc == {"idle", "limit", "patch", "write", "verify"}
Call == [pc : CallPc, sug : Analyses \cup {NoRun}, sel : SUBSET Patches,
         latest : Nat, todo : SUBSET Patches, open : SUBSET Patches,
         text : SUBSET Patches, auto : BOOLEAN, row : Nat]
NoCall == [pc |-> "idle", sug |-> NoRun, sel |-> {}, latest |-> 0, todo |-> {},
           open |-> {}, text |-> {}, auto |-> FALSE, row |-> 0]
NoPoll == [row |-> 0, left |-> 0]

Init ==
    /\ run = [r \in Runs |-> IF r = Original THEN "failed" ELSE "none"]
    /\ red \in {{}, {Original}}     \* a failed run may have counted no failing test
    /\ slot = NoRun
    /\ analysis = [s \in Analyses |-> "none"]
    /\ sugs = {}
    /\ iters = <<>>
    /\ call = [c \in Calls |-> NoCall]
    /\ files = [f \in Files |-> {}]
    /\ poll = [v \in Verifies |-> NoPoll]
    /\ crashes = 0
    /\ torn = {}

-----------------------------------------------------------------------------
(* The analysis job                                                        *)

StartAnalysis(s) ==
    /\ analysis[s] = "none"
    /\ run[Original] = "failed" \/ Original \in red
    /\ \A t \in Analyses : analysis[t] # "running"
    /\ analysis' = [analysis EXCEPT ![s] = "running"]
    /\ UNCHANGED <<run, red, slot, sugs, iters, call, files, poll, crashes, torn>>

\* validateOutput reads what the agent wrote and inserts the suggestion; without
\* a usable fix-analysis.json the suggestion has no patches or the job fails.
AnalysisEnds(s) ==
    /\ analysis[s] = "running"
    /\ \/ /\ analysis' = [analysis EXCEPT ![s] = "completed"]
          /\ sugs' = sugs \cup {s}
       \/ /\ analysis' = [analysis EXCEPT ![s] = "failed"]
          /\ UNCHANGED sugs
    /\ UNCHANGED <<run, red, slot, iters, call, files, poll, crashes, torn>>

-----------------------------------------------------------------------------
(* applyFix                                                                *)

\* getLatestIteration: MAX(iteration), 0 without rows.
Latest == IF iters = <<>> THEN 0 ELSE iters[Len(iters)].n

\* The page starts from every patch and lets the user clear some; it disables the
\* button, and the route answers 422, for none.
Selections(s) == (SUBSET PatchesOf[s]) \ {{}}

\* POST fix/apply from the page, which always asks to verify.
Apply(c, s, sel) ==
    /\ call[c].pc = "idle"
    /\ s \in sugs /\ sel \in Selections(s)
    /\ call' = [call EXCEPT ![c] = [NoCall EXCEPT !.pc = "limit", !.sug = s, !.sel = sel,
                                                  !.todo = sel, !.auto = TRUE]]
    /\ UNCHANGED <<run, red, slot, analysis, sugs, iters, files, poll, crashes, torn>>

\* The platform pipeline's fix_apply. Without patches it asks for patch 0, which
\* selectPatches refuses: nothing changes.
ApplyAll(c, s) ==
    /\ call[c].pc = "idle"
    /\ s \in sugs /\ PatchesOf[s] # {}
    /\ call' = [call EXCEPT ![c] = [NoCall EXCEPT
           !.pc = "limit", !.sug = s, !.sel = PatchesOf[s], !.todo = PatchesOf[s]]]
    /\ UNCHANGED <<run, red, slot, analysis, sugs, iters, files, poll, crashes, torn>>

LimitOffByOne(n) == n > MaxIterations
LimitReached(n) == n >= MaxIterations

CheckLimit(c) ==
    /\ call[c].pc = "limit"
    /\ call' = [call EXCEPT ![c] = IF LimitReached(Latest) THEN NoCall
                                   ELSE [@ EXCEPT !.pc = "patch", !.latest = Latest]]
    /\ UNCHANGED <<run, red, slot, analysis, sugs, iters, files, poll, crashes, torn>>

\* The diff applies. An insertion may apply to a text that has it, and text stands
\* for the patches it has, however often.
Applies(p, text) == \A q \in text : <<q, p>> \notin Breaks
AlreadyApplied(p, text) == p \in text

\* Another apply has read the same file and will write it back.
OpenElsewhere(c, f) ==
    \E d \in Calls \ {c} : call[d].pc = "write" /\ \E q \in call[d].open : FileOf[q] = f

\* The next patch: its file is read ...
PatchRead(c, p) ==
    /\ call[c].pc = "patch" /\ p \in call[c].todo
    /\ LET f == FileOf[p]
       IN  /\ Applies(p, files[f])
           /\ call' = [call EXCEPT ![c].pc = "write", ![c].open = {p}, ![c].text = files[f]]
           /\ torn' = IF OpenElsewhere(c, f) THEN torn \cup {f} ELSE torn
    /\ UNCHANGED <<run, red, slot, analysis, sugs, iters, files, poll, crashes>>

PatchSkipped(c, p) ==
    /\ call[c].pc = "patch" /\ p \in call[c].todo
    /\ AlreadyApplied(p, files[FileOf[p]])
    /\ call' = [call EXCEPT ![c].todo = @ \ {p}]
    /\ UNCHANGED <<run, red, slot, analysis, sugs, iters, files, poll, crashes, torn>>

\* ... and given up for the whole call; the files already written stay written.
PatchFails(c, p) ==
    /\ call[c].pc = "patch" /\ p \in call[c].todo
    /\ ~Applies(p, files[FileOf[p]]) /\ ~AlreadyApplied(p, files[FileOf[p]])
    /\ call' = [call EXCEPT ![c] = NoCall]
    /\ torn' = torn \cup {FileOf[q] : q \in call[c].sel}
    /\ UNCHANGED <<run, red, slot, analysis, sugs, iters, files, poll, crashes>>

\* ... or written back, from the text that was read.
PatchWrite(c) ==
    /\ call[c].pc = "write"
    /\ \E p \in call[c].open :
           files' = [files EXCEPT ![FileOf[p]] = call[c].text \cup {p}]
    /\ call' = [call EXCEPT ![c].pc = "patch", ![c].todo = @ \ call[c].open,
                            ![c].open = {}, ![c].text = {}]
    /\ UNCHANGED <<run, red, slot, analysis, sugs, iters, poll, crashes, torn>>

WholeSuggestion(c) == PatchesOf[call[c].sug]
RowPatches(c) == call[c].sel
NumberFree(n) == \A i \in 1..Len(iters) : iters[i].n # n     \* UNIQUE(run_id, iteration)

InsertIteration(c) ==
    /\ call[c].pc = "patch" /\ call[c].todo = {}
    /\ LET n == call[c].latest + 1
       IN  /\ NumberFree(n)
           /\ iters' = Append(iters, [n |-> n, patches |-> RowPatches(c),
                                      verify |-> NoRun, result |-> "null"])
    /\ call' = [call EXCEPT ![c] = IF call[c].auto
                                   THEN [NoCall EXCEPT !.pc = "verify", !.row = Len(iters) + 1]
                                   ELSE NoCall]
    /\ UNCHANGED <<run, red, slot, analysis, sugs, files, poll, crashes, torn>>

\* The number is taken: the call throws and its patches stay in the workspace.
InsertRefused(c) ==
    /\ call[c].pc = "patch" /\ call[c].todo = {}
    /\ ~NumberFree(call[c].latest + 1)
    /\ call' = [call EXCEPT ![c] = NoCall]
    /\ torn' = torn \cup {FileOf[q] : q \in call[c].sel}
    /\ UNCHANGED <<run, red, slot, analysis, sugs, iters, files, poll, crashes>>

-----------------------------------------------------------------------------
(* Verifying                                                               *)

\* verifyFix takes the last row, or a random id that names none.
VerifyRequest(c) ==
    /\ call[c].pc = "idle"
    /\ call' = [call EXCEPT ![c] = [NoCall EXCEPT !.pc = "verify", !.row = Len(iters)]]
    /\ UNCHANGED <<run, red, slot, analysis, sugs, iters, files, poll, crashes, torn>>

\* startVerifyRun: a ci run of the original's failed node ids, and its poller.
StartVerify(c, v) ==
    /\ call[c].pc = "verify"
    /\ Original \in red /\ slot = NoRun /\ run[v] = "none"
    /\ run' = [run EXCEPT ![v] = "running"]
    /\ slot' = v
    /\ poll' = [poll EXCEPT ![v] = [row |-> call[c].row, left |-> MaxPolls]]
    /\ call' = [call EXCEPT ![c] = NoCall]
    /\ UNCHANGED <<red, analysis, sugs, iters, files, crashes, torn>>

\* NO_FAILED_TESTS or RUN_IN_PROGRESS: an apply with autoVerify has inserted its row.
VerifyThrows(c) ==
    /\ call[c].pc = "verify"
    /\ Original \notin red \/ slot # NoRun
    /\ call' = [call EXCEPT ![c] = NoCall]
    /\ UNCHANGED <<run, red, slot, analysis, sugs, iters, files, poll, crashes, torn>>

\* Somebody runs the project's tests.
UserRun(v) ==
    /\ slot = NoRun /\ run[v] = "none"
    /\ run' = [run EXCEPT ![v] = "running"]
    /\ slot' = v
    /\ UNCHANGED <<red, analysis, sugs, iters, call, files, poll, crashes, torn>>

\* The run service finalizes the run; only a failed or stopped one has failed > 0.
RunSettles(v, st, failures) ==
    /\ slot = v /\ run[v] = "running"
    /\ st = "passed" => ~failures
    /\ run' = [run EXCEPT ![v] = st]
    /\ red' = IF failures THEN red \cup {v} ELSE red
    /\ slot' = NoRun
    /\ UNCHANGED <<analysis, sugs, iters, call, files, poll, crashes, torn>>

IgnoresStopped(st) == st \in {"none", "running", "stopped"}
KeepsPolling(st) == st \in {"none", "running"}

FailedIfNotPassed(v) == IF run[v] = "passed" THEN "passed" ELSE "failed"
ResultOf(v) == IF run[v] = "passed" THEN "passed"
               ELSE IF v \in red THEN "failed" ELSE "skipped"

\* One iteration of pollVerifyResult.
Poll(v) ==
    /\ poll[v].left > 0
    /\ IF KeepsPolling(run[v])
       THEN /\ poll' = [poll EXCEPT ![v].left = @ - 1]
            /\ UNCHANGED iters
       ELSE /\ poll' = [poll EXCEPT ![v] = NoPoll]
            /\ iters' = IF poll[v].row = 0 THEN iters
                        ELSE [iters EXCEPT ![poll[v].row].verify = v,
                                           ![poll[v].row].result = ResultOf(v)]
    /\ UNCHANGED <<run, red, slot, analysis, sugs, call, files, crashes, torn>>

\* The process ends: requests, pollers, executors and the in-memory slot are gone,
\* rows and files stay.
Crash ==
    /\ crashes < MaxCrashes
    /\ crashes' = crashes + 1
    /\ slot' = NoRun
    /\ poll' = [v \in Verifies |-> NoPoll]
    /\ torn' = torn \cup {FileOf[q] : q \in
                   UNION {call[c].sel : c \in {d \in Calls : call[d].pc \in {"patch", "write"}}}}
    /\ call' = [c \in Calls |-> NoCall]
    /\ UNCHANGED <<run, red, analysis, sugs, iters, files>>

Next ==
    \/ \E s \in Analyses : StartAnalysis(s) \/ AnalysisEnds(s)
    \/ \E c \in Calls, s \in Analyses :
           \/ ApplyAll(c, s)
           \/ \E sel \in Selections(s) : Apply(c, s, sel)
    \/ \E c \in Calls, p \in Patches :
           PatchRead(c, p) \/ PatchSkipped(c, p) \/ PatchFails(c, p)
    \/ \E c \in Calls :
           \/ CheckLimit(c) \/ PatchWrite(c) \/ InsertIteration(c) \/ InsertRefused(c)
           \/ VerifyRequest(c) \/ VerifyThrows(c)
    \/ \E c \in Calls, v \in Verifies : StartVerify(c, v)
    \/ \E v \in Verifies, st \in Settled, failures \in BOOLEAN : RunSettles(v, st, failures)
    \/ \E v \in Verifies : UserRun(v) \/ Poll(v)
    \/ Crash

\* The timers of a poller always fire: setTimeout in a live process.
Spec == Init /\ [][Next]_vars /\ \A v \in Verifies : WF_vars(Poll(v))

-----------------------------------------------------------------------------
TypeOK ==
    /\ run \in [Runs -> RunStatus] /\ red \subseteq Runs
    /\ slot \in Verifies \cup {NoRun}
    /\ sugs \subseteq Analyses
    /\ iters \in Seq(Iteration)
    /\ call \in [Calls -> Call]
    /\ files \in [Files -> SUBSET Patches] /\ torn \subseteq Files
    /\ poll \in [Verifies -> [row : 0..Len(iters), left : 0..MaxPolls]]

\* The rows a reader sees, without the run that judged each.
History ==
    [i \in DOMAIN iters |-> [n |-> iters[i].n, patches |-> iters[i].patches,
                             result |-> iters[i].result]]

Log == INSTANCE IterationLog WITH
           log <- History, Max <- MaxIterations, Verdicts <- Results \ {"null"}

\* FIX_MAX_ITERATIONS bounds the rounds whatever applies overlap, although each
\* call checks the limit against a number it read before patching: the rows are an
\* append-only log numbered 1, 2, ... without gaps or repeats, whose patches never
\* change and whose results, once known, stay known.
ImplementsLog == Log!Spec

\* The history of a run explains the workspace: once no apply is under way, a file
\* that no two applies had open together and no failed apply touched has exactly
\* the patches the rows name.
HistoryExplainsFiles ==
    (\A c \in Calls : call[c].pc \notin {"patch", "write"}) =>
        \A f \in Files \ torn :
            files[f] = {p \in Patches : FileOf[p] = f
                           /\ \E i \in 1..Len(iters) : p \in iters[i].patches}

\* The result of an iteration is the verdict of the verify run it names: passed only
\* if that run passed, failed only if it has failing tests.
ResultIsVerdict ==
    \A i \in 1..Len(iters) :
        /\ (iters[i].verify = NoRun) = (iters[i].result = "null")
        /\ iters[i].result = "passed" => run[iters[i].verify] = "passed"
        /\ iters[i].result = "failed" => iters[i].verify \in red
        /\ iters[i].result = "skipped" => run[iters[i].verify] \in Settled \ {"passed"}

\* A poller that is still polling when its run settles records the result, whatever
\* the run's verdict, unless the process ends first.
VerdictRecorded ==
    \A v \in Verifies, n \in 0..MaxCrashes :
        (crashes = n /\ poll[v].left > 0 /\ poll[v].row > 0 /\ run[v] \in Settled)
            ~> (crashes > n \/ \E i \in 1..Len(iters) : iters[i].verify = v)
=============================================================================
