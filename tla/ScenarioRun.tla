---------------------------- MODULE ScenarioRun ----------------------------
(***************************************************************************)
(* Running one Gherkin scenario in ai-auto-test-platform: RunService of    *)
(* the test-server (one flag, one Pi client and one snapshot for the whole *)
(* server), GherkinStepTracker, which turns the agent's tool events into   *)
(* step statuses, and the test-dashboard page that follows the run by      *)
(* websocket messages and by polling GET /api/run/status.                  *)
(*                                                                         *)
(* The Pi agent is external: it answers a prompt, runs tools one at a time *)
(* and may settle, hang or be killed.  A websocket message reaches an open *)
(* page in the step that sends it; a poll response may be any time late.   *)
(***************************************************************************)
EXTENDS Naturals, Sequences, FiniteSetsExt

CONSTANTS
    Runs,          \* requests to run the scenario
    NoRun,
    Phase,         \* the phases of its steps, in order (flattenGherkinSteps)
    MaxAttempts,   \* runMaxPlaywrightAttempts
    MaxTools,      \* bound on the Playwright commands of all runs together
    MaxPrep,       \* bound on the requests between the check of the flag and the launch
    MaxLosses      \* bound on reloads and lost sockets of the page

ASSUME ScenarioAssumption ==
    /\ NoRun \notin Runs
    /\ Phase \in Seq({"given", "when", "and", "then"})
    /\ MaxAttempts \in Nat /\ MaxTools \in Nat /\ MaxPrep \in Nat /\ MaxLosses \in Nat

VARIABLES
    running, client, snapshot,   \* RunService: the flag, activeClient, activeSnapshot
    runPc,     \* [Runs -> ExecPc] runScenario and executeRun
    agent,     \* [Runs -> the Pi process and the tool it is running]
    tracker,   \* [Runs -> Tracker]
    lastOk,    \* [Runs -> BOOLEAN] lastPlaywrightOk
    byCap,     \* runs stopped at MaxAttempts
    outcome,   \* [Runs -> what run_finished said]
    dash,      \* the dashboard
    losses,
    raced      \* history: two requests were past the check of the flag at once

scenarioVars == <<running, client, snapshot, runPc, agent, tracker, lastOk, byCap,
                  outcome, dash, losses, raced>>
service == <<running, client, snapshot>>

Steps == DOMAIN Phase
LastStep == Cardinality(Steps)
StepStatus == {"pending", "running", "pass", "fail", "healing"}
Outcomes == {"none", "passed", "failed"}

\* prep: runScenario's awaits; ctx: start and loadRunPromptContext; accept, wait: the
\* prompt; persist: run_finished is out, run_history is being written.
InExecuteRun == {"ctx", "accept", "wait", "persist"}
ExecPc == {"idle", "prep", "over"} \cup InExecuteRun

-----------------------------------------------------------------------------
(* GherkinStepTracker.  Step 0 stands for index -1 and null; out collects   *)
(* the steps for which a step_update goes out.                              *)

Pending == [i \in Steps |-> "pending"]
NewTracker == [st |-> Pending, cur |-> 1, healing |-> FALSE, failedAt |-> 0,
               attempt |-> 0, out |-> {}]

SetStep(t, i, s) ==
    IF i \notin Steps THEN t
    ELSE [t EXCEPT !.st[i] = s, !.cur = i, !.out = @ \cup {i}]

\* A loop over steps in order that sets those in S to s.
SetSteps(t, S, s) ==
    IF S = {} THEN t
    ELSE [t EXCEPT !.st = [i \in Steps |-> IF i \in S THEN s ELSE @[i]],
                   !.cur = Max(S), !.out = @ \cup S]

ThenCursor == Min({i \in Steps : Phase[i] = "then"} \cup {LastStep + 1})
Thens == {i \in Steps : i >= ThenCursor /\ Phase[i] = "then"}
Unpassed(t) == {i \in Steps : t.st[i] # "pass"}

MarkAllThen(t) == SetSteps(t, Thens \cap Unpassed(t), "pass")

ActiveStep(t) ==
    LET busy == {i \in Steps : i >= t.cur /\ t.st[i] \in {"running", "healing"}}
    IN  IF t.cur \in Steps /\ t.st[t.cur] = "running" THEN t.cur
        ELSE IF busy # {} THEN Min(busy)
        ELSE IF t.failedAt # 0 THEN t.failedAt
        ELSE IF t.cur \in Steps THEN t.cur ELSE 0

Heals(i) == i \in Steps /\ Phase[i] \in {"when", "and"}

EnterHealing(t) ==
    LET h == [t EXCEPT !.healing = TRUE]
        i == IF t.failedAt # 0 THEN t.failedAt ELSE ActiveStep(t)
    IN  IF Heals(i) THEN SetStep(h, i, "healing") ELSE h

OnRunStart(t) == SetStep(t, 1, "running")

\* onToolStart for "read".
OnRead(t) == IF t.healing \/ t.failedAt # 0 THEN EnterHealing(t) ELSE t

AdvanceThroughGiven(t) ==
    LET S == {i \in Steps : i >= t.cur /\ \A j \in t.cur .. i : Phase[j] = "given"}
    IN  IF S = {} THEN t ELSE [SetSteps(t, S, "pass") EXCEPT !.cur = Max(S) + 1]

\* onToolStart for a bash command with "playwright" in it.
OnPlaywrightStart(t) ==
    LET n == [t EXCEPT !.attempt = @ + 1]
        g == AdvanceThroughGiven(n)
    IN  IF n.attempt = 1 THEN SetStep(g, g.cur, "running")
        ELSE IF t.healing THEN SetStep(n, t.failedAt, "running") ELSE n

OnPlaywrightFailed(t) ==
    LET i == ActiveStep(t)
        f == SetStep(t, i, "fail")
    IN  IF Heals(i) THEN [f EXCEPT !.failedAt = i, !.healing = TRUE] ELSE f

OnPlaywrightPassed(t) ==
    MarkAllThen(SetSteps([t EXCEPT !.healing = FALSE, !.failedAt = 0],
                         {i \in Unpassed(t) : i < ThenCursor}, "pass"))

\* onPlaywrightOutput: a failed expectation, or "n passed".
OnExpectFailed(t) ==
    LET open == Thens \cap Unpassed(t)
    IN  IF open = {} THEN t ELSE SetStep(t, Min(open), "fail")

SettledAsIs(t, success) == IF success THEN MarkAllThen(t) ELSE t
OnSettled(t, success) ==
    IF success THEN [SetSteps(MarkAllThen(t), Unpassed(MarkAllThen(t)), "pass")
                        EXCEPT !.cur = LastStep + 1]
    ELSE SetSteps(t, {i \in Unpassed(t) : i >= t.cur /\ t.st[i] # "fail"}, "fail")

-----------------------------------------------------------------------------
(* The page                                                                *)

\* poll: the answer under way of GET /api/run/status; same: the page showed its run.
FreshDash == [open |-> TRUE, run |-> NoRun, steps |-> Pending, fin |-> "none",
              busy |-> FALSE, post |-> NoRun, poll |-> "none", same |-> FALSE,
              followed |-> FALSE, lost |-> FALSE]

\* run_started: beginRun, whoever started the run.
Begun(p, r) ==
    IF ~p.open THEN p
    ELSE [p EXCEPT !.run = r, !.steps = Pending, !.fin = "none", !.followed = TRUE,
                   !.lost = FALSE]

\* step_update and run_finished of the active run; the effect on runFinished ends busy.
\* (The steps of a page that missed some are not kept: no property looks at them.)
Stepped(p, r, t) ==
    IF ~p.followed \/ p.run # r THEN p
    ELSE [p EXCEPT !.steps = [i \in Steps |-> IF i \in t.out THEN t.st[i] ELSE @[i]]]
Finished(p, r, o) ==
    IF ~p.open \/ p.run # r THEN p
    ELSE [p EXCEPT !.fin = IF o = "passed" THEN "passed" ELSE "failed", !.busy = FALSE]

\* A tracker call and the step_updates it broadcasts.
Track(r, t) ==
    /\ tracker' = [tracker EXCEPT ![r] = [t EXCEPT !.out = {}]]
    /\ dash' = Stepped(dash, r, t)

ScenarioInit ==
    /\ running = FALSE /\ client = NoRun /\ snapshot = NoRun
    /\ runPc = [r \in Runs |-> "idle"]
    /\ agent = [r \in Runs |-> [proc |-> "none", tool |-> "none"]]
    /\ tracker = [r \in Runs |-> NewTracker]
    /\ lastOk = [r \in Runs |-> FALSE]
    /\ byCap = {}
    /\ outcome = [r \in Runs |-> "none"]
    /\ dash = FreshDash
    /\ losses = 0
    /\ raced = FALSE

-----------------------------------------------------------------------------
(* Requests                                                                *)

\* POST /api/run: the flag is looked at before the awaits of runScenario.
Admitted == ~running
Request(r, mine) ==
    /\ runPc[r] = "idle" /\ Cardinality({q \in Runs : runPc[q] = "prep"}) < MaxPrep
    /\ mine => ~dash.busy /\ (dash.run = NoRun \/ dash.fin # "none")
    /\ runPc' = [runPc EXCEPT ![r] = IF Admitted THEN "prep" ELSE "over"]
    \* The page's runFeature: resetLive, busy; a 409 makes it idle again.
    /\ dash' = IF ~mine THEN dash
               ELSE [dash EXCEPT !.run = NoRun, !.steps = Pending, !.fin = "none",
                                 !.followed = FALSE, !.busy = Admitted,
                                 !.post = IF Admitted THEN r ELSE NoRun]
    /\ raced' = (raced \/ (Admitted /\ \E q \in Runs : runPc[q] = "prep"))
    /\ UNCHANGED <<service, agent, tracker, lastOk, byCap, outcome, losses>>

\* resolve, ensureTestEnv or getDocument fails: 500.
PrepFails(r) ==
    /\ runPc[r] = "prep"
    /\ runPc' = [runPc EXCEPT ![r] = "over"]
    /\ dash' = IF dash.post = r THEN [dash EXCEPT !.busy = FALSE, !.post = NoRun] ELSE dash
    /\ UNCHANGED <<service, agent, tracker, lastOk, byCap, outcome, losses, raced>>

\* The rest of runScenario, and executeRun up to loadRunPromptContext.
Launch(r) ==
    /\ runPc[r] = "prep"
    /\ runPc' = [runPc EXCEPT ![r] = "ctx"]
    /\ running' = TRUE /\ snapshot' = r /\ client' = r
    /\ agent' = [agent EXCEPT ![r].proc = "up"]
    /\ LET t == OnRunStart(tracker[r])
           p == IF dash.post = r THEN [dash EXCEPT !.post = NoRun] ELSE dash
       IN  /\ tracker' = [tracker EXCEPT ![r] = [t EXCEPT !.out = {}]]
           /\ dash' = Stepped(Begun(p, r), r, t)
    /\ UNCHANGED <<lastOk, byCap, outcome, losses, raced>>

\* PiRpcClient.stop of the active client.
Stopped == IF client = NoRun THEN agent
           ELSE [agent EXCEPT ![client].proc = IF @ = "up" THEN "killed" ELSE @]

\* The flag it sets only chooses the words of run_finished.
Cancel ==
    /\ running
    /\ agent' = Stopped
    /\ UNCHANGED <<running, client, snapshot, runPc, tracker, lastOk, byCap, outcome, dash,
                   losses, raced>>

-----------------------------------------------------------------------------
(* executeRun                                                              *)

Ends(r, success) ==
    LET t == OnSettled(tracker[r], success)
        o == IF success THEN "passed" ELSE "failed"
    IN
    /\ tracker' = [tracker EXCEPT ![r] = [t EXCEPT !.out = {}]]
    /\ outcome' = [outcome EXCEPT ![r] = o]
    /\ dash' = Finished(Stepped(dash, r, t), r, o)
    /\ runPc' = [runPc EXCEPT ![r] = "persist"]

Success(r) == r \notin byCap /\ lastOk[r]
Succeeds(r) == Ends(r, Success(r))
Throws(r) == Ends(r, FALSE)

\* A stopped client has no writer: the prompt throws, and so may the context.
Prompt(r) ==
    /\ runPc[r] = "ctx"
    /\ \/ /\ agent[r].proc = "up"
          /\ runPc' = [runPc EXCEPT ![r] = "accept"]
          /\ UNCHANGED <<tracker, outcome, dash>>
       \/ Throws(r)
    /\ UNCHANGED <<service, agent, lastOk, byCap, losses, raced>>

Accepted(r) ==
    /\ runPc[r] = "accept" /\ agent[r].proc # "gone"
    /\ runPc' = [runPc EXCEPT ![r] = "wait"]
    /\ UNCHANGED <<service, agent, tracker, lastOk, byCap, outcome, dash, losses, raced>>

\* The command's 30 s, a refused prompt, or runTimeoutMs.
NeverThrows(r) == runPc[r] = "accept"
TimesOut(r) == runPc[r] \in {"accept", "wait"}
GivesUp(r) ==
    /\ TimesOut(r)
    /\ Throws(r)
    /\ UNCHANGED <<service, agent, lastOk, byCap, losses, raced>>

PiSettles(r) ==
    /\ runPc[r] = "wait" /\ agent[r].proc # "gone" /\ agent[r].tool = "none"
    /\ Succeeds(r)
    /\ UNCHANGED <<service, agent, lastOk, byCap, losses, raced>>

\* saveRunHistoryEntry, whose failure is only logged, then both finally blocks: the
\* singletons are cleared whichever run they belong to, the run's own objects are gone.
Persist(r) ==
    /\ runPc[r] = "persist"
    /\ runPc' = [runPc EXCEPT ![r] = "over"]
    /\ agent' = [agent EXCEPT ![r].proc = "gone", ![r].tool = "none"]
    /\ running' = FALSE /\ client' = NoRun /\ snapshot' = NoRun
    /\ tracker' = [tracker EXCEPT ![r] = [NewTracker EXCEPT !.attempt = tracker[r].attempt]]
    /\ lastOk' = [lastOk EXCEPT ![r] = FALSE]
    /\ byCap' = byCap \ {r}
    /\ UNCHANGED <<outcome, dash, losses, raced>>

-----------------------------------------------------------------------------
(* The agent's events, as onProgress handles them                          *)

\* Output still buffered when the process was killed is handled too.
Talks(r) == runPc[r] \in {"accept", "wait"} /\ agent[r].proc \in {"up", "killed"}
EventFrame == UNCHANGED <<runPc, outcome, losses, raced>>

\* Text that speaks of repairs, or reading a file.
Muses(r) ==
    /\ Talks(r) /\ agent[r].tool = "none"
    /\ Track(r, EnterHealing(tracker[r])) \/ Track(r, OnRead(tracker[r]))
    /\ UNCHANGED <<service, agent, lastOk, byCap>> /\ EventFrame

\* (The model bounds the commands: an ended run's tracker keeps its count.)
Commands == MapThenSumSet(LAMBDA q : tracker[q].attempt, Runs)

\* A bash command that runs Playwright: on the run's own spec, or another one. Only
\* the former is capped, by a count of both.
CapReached(t) == t.attempt > MaxAttempts
BashStarts(r, own) ==
    LET t == OnPlaywrightStart(tracker[r])
        capped == own /\ CapReached(t)
    IN  /\ Talks(r) /\ agent[r].tool = "none" /\ Commands < MaxTools
        /\ Track(r, t)
        /\ byCap' = IF capped THEN byCap \cup {r} ELSE byCap
        /\ agent' = [(IF capped THEN Stopped ELSE agent)
                        EXCEPT ![r].tool = IF own THEN "own" ELSE "other"]
        /\ UNCHANGED <<service, lastOk>> /\ EventFrame

BashPrints(r) ==
    /\ Talks(r) /\ agent[r].tool # "none"
    /\ Track(r, OnExpectFailed(tracker[r])) \/ Track(r, MarkAllThen(tracker[r]))
    /\ UNCHANGED <<service, agent, lastOk, byCap>> /\ EventFrame

BashEnds(r, ok) ==
    /\ Talks(r) /\ agent[r].tool # "none"
    /\ Track(r, IF ok THEN OnPlaywrightPassed(tracker[r]) ELSE OnPlaywrightFailed(tracker[r]))
    /\ lastOk' = IF agent[r].tool = "own" THEN [lastOk EXCEPT ![r] = ok] ELSE lastOk
    /\ agent' = [agent EXCEPT ![r].tool = "none"]
    /\ UNCHANGED <<service, byCap>> /\ EventFrame

\* The process is gone: nothing in executeRun notices.
AgentDies(r) ==
    /\ agent[r].proc \in {"up", "killed"} /\ runPc[r] \in {"accept", "wait"}
    /\ agent' = [agent EXCEPT ![r] = [proc |-> "gone", tool |-> "none"]]
    /\ UNCHANGED <<service, runPc, tracker, lastOk, byCap, outcome, dash, losses, raced>>

-----------------------------------------------------------------------------
(* The page's timers and accidents                                         *)

DashFrame == UNCHANGED <<service, runPc, agent, tracker, lastOk, byCap, outcome, raced>>

\* syncRunStatus asks, every 5 s: the answer is that of the server's state now, and it is
\* compared with the page's state of now, however late it arrives.  An idle server says
\* nothing to a page that shows an unfinished run.
Idle(p) == p.run = NoRun \/ p.fin # "none"
Answer == IF running /\ snapshot # NoRun THEN snapshot
          ELSE IF Idle(dash) THEN "idle" ELSE "none"
SyncRunStatus ==
    /\ dash.poll = "none"
    /\ dash' = [dash EXCEPT !.poll = Answer, !.same = dash.run = Answer]
    /\ UNCHANGED losses /\ DashFrame

\* A hydrated page starts from pending steps, and forgets a run_finished it has seen.
Hydrated(p, r) ==
    [p EXCEPT !.run = r, !.steps = Pending, !.fin = "none", !.busy = TRUE, !.followed = FALSE,
              !.lost = ~p.open \/ outcome[r] # "none"]

Freed(p) == [p EXCEPT !.busy = FALSE]

\* The run the page showed already: hydrated only if the server has more lines of log
\* than the page had when it asked.
StatusAnswered ==
    LET p == [dash EXCEPT !.poll = "none", !.same = FALSE] IN
    /\ dash.poll # "none"
    /\ \/ dash.poll = "idle" /\ dash' = Freed(p)
       \/ dash.poll \in Runs /\ dash' = Hydrated(p, dash.poll)
       \/ dash.poll \in Runs /\ dash.same /\ dash' = [p EXCEPT !.busy = TRUE]
    /\ UNCHANGED losses /\ DashFrame

\* The socket is opened once and never again.
SocketCloses ==
    /\ dash.open /\ losses < MaxLosses
    /\ dash' = [dash EXCEPT !.open = FALSE, !.steps = Pending, !.followed = FALSE,
                            !.lost = TRUE]
    /\ losses' = losses + 1
    /\ DashFrame

Reload ==
    /\ losses < MaxLosses
    /\ dash' = FreshDash
    /\ losses' = losses + 1
    /\ DashFrame

ServerStep(r) ==
    \/ PrepFails(r) \/ Launch(r) \/ Prompt(r) \/ Accepted(r) \/ Persist(r)
AgentStep(r) ==
    \/ PiSettles(r) \/ Muses(r) \/ BashPrints(r) \/ AgentDies(r)
    \/ \E b \in BOOLEAN : BashStarts(r, b) \/ BashEnds(r, b)

ScenarioNext ==
    \/ \E r \in Runs, mine \in BOOLEAN : Request(r, mine)
    \/ \E r \in Runs : ServerStep(r) \/ GivesUp(r) \/ AgentStep(r)
    \/ Cancel \/ SyncRunStatus \/ StatusAnswered \/ SocketCloses \/ Reload

\* Awaits of a live server complete, its timers fire, and the page's interval runs;
\* nothing is asked of the agent.
ScenarioFairness ==
    /\ \A r \in Runs : WF_scenarioVars(ServerStep(r) \/ GivesUp(r))
    /\ WF_scenarioVars(StatusAnswered) /\ WF_scenarioVars(SyncRunStatus)

ScenarioSpec == ScenarioInit /\ [][ScenarioNext]_scenarioVars /\ ScenarioFairness

-----------------------------------------------------------------------------
ScenarioTypeOK ==
    /\ running \in BOOLEAN
    /\ client \in Runs \cup {NoRun} /\ snapshot \in Runs \cup {NoRun}
    /\ runPc \in [Runs -> ExecPc]
    /\ \A r \in Runs : /\ tracker[r].st \in [Steps -> StepStatus]
                       /\ tracker[r].cur \in 1 .. LastStep + 1 /\ tracker[r].failedAt \in 0 .. LastStep
    /\ outcome \in [Runs -> Outcomes]
    /\ dash.run \in Runs \cup {NoRun} /\ dash.fin \in {"none", "passed", "failed"}

\* The one slot of the server: unless two requests overtook each other between the
\* check of the flag and its setting, the flag, the snapshot and the client are those
\* of the run that executes, from its launch to the end of its clean-up.
SlotIsOwned ==
    ~raced => /\ \A r, q \in Runs :
                    runPc[r] \in InExecuteRun /\ runPc[q] \in InExecuteRun => r = q
              /\ \A r \in Runs : runPc[r] \in InExecuteRun <=> snapshot = r
              /\ running <=> snapshot # NoRun
              /\ client = snapshot

\* A page that has followed a run since run_started shows what the tracker has, and
\* the end of the run with it: passed and every step green, or not passed.
FollowedRunShown ==
    dash.followed /\ dash.run \in Runs =>
        /\ runPc[dash.run] # "over" => dash.steps = tracker[dash.run].st
        /\ (dash.fin = "none") = (outcome[dash.run] = "none")
        /\ dash.fin = "passed" => \A i \in Steps : dash.steps[i] = "pass"

\* The page that follows the one run the server admits shows that run's course and end.
OneRunShown == SlotIsOwned /\ FollowedRunShown

\* The page's buttons come back, whatever the agent, a cancel or the cap did, unless
\* the page lost its socket or took over a run whose end had been announced already.
BusyEnds == dash.busy ~> (~dash.busy \/ dash.lost)
=============================================================================
