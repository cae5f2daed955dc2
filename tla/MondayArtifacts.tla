-------------------------- MODULE MondayArtifacts --------------------------
(***************************************************************************)
(* The artifacts of one pipeline run of ai-auto-test-monday: the store     *)
(* (artifact-store), the worker's local copy (worker/lib/artifact-staging, *)
(* worker/activities), and the requests that rewrite them (resume and      *)
(* execute in pipeline-service, journeys-artifact-service, artifact-       *)
(* cleanup).  MondayPipeline has the row and the workflows in detail; here *)
(* they are as much as decides who may touch a file.                       *)
(*                                                                         *)
(* Every activity of a run stages its files in the one directory           *)
(* /tmp/monday-artifacts/<runId>, and an activity its workflow no longer   *)
(* waits for runs on in it.                                                *)
(***************************************************************************)
EXTENDS Naturals, Sequences, FiniteSets

CONSTANTS
    Ids,        \* journeys, and the spec files named for them
    Requests,   \* API requests, each made at most once
    Asks,       \* what they may ask for
    ResumeFrom, \* the agents a resume may start from
    Slots,      \* activity attempts at once: the workflows' and orphans
    MaxFaults  \* bound on timeouts, worker crashes and failing calls

Agents == {"scriptAnalyst", "setDesigner", "choreographer", "assistantDirector",
           "continuityLead"}

ASSUME MondayArtifactsAssumption ==
    /\ ResumeFrom \subseteq Agents
    /\ Asks \subseteq {"resume", "execute", "edit", "cancel"}
    /\ Ids \cap {"catalog", "poms", "journeys", "report"} = {}
    /\ IsFiniteSet(Requests) /\ MaxFaults \in Nat

VARIABLES
    store,    \* [Keys -> File] the run's prefix of the artifact store
    local,    \* [Keys -> File] the staging directory
    runRow,   \* the status of the pipeline_runs row; exec: execution_status
              \* is 'running'
    at,       \* [Slots -> Attempt]
    req,      \* [Requests -> Request]
    gen,      \* the latest generation: workflows and edits are numbered
    faults,
    promised, \* history: [Keys -> generation the last finished activity wrote]
    raced     \* history: somebody was let in beside somebody at work, an
              \* activity found a directory left over, or a request or its
              \* writes failed half way; since the last resume that makes the
              \* files anew

filesVars == <<store, local, runRow, at, req, gen, faults, promised, raced>>

-----------------------------------------------------------------------------
\* scriptAnalyst, stageManager and blockingCoach are one agent and their files
\* the catalog; the POM files are one, the spec files one for each journey.
Keys == {"catalog", "poms", "journeys", "report"} \cup Ids
Generations == 0 .. Cardinality(Requests) + 1
\* Which workflow or edit made the file, and from which generation of its input.
\* about has the journeys of the document, or the report's rows: the generation
\* of the journeys that was run, 0 for a skipped one.
NoRows == [i \in {} |-> 0]
File == [gen : Generations, from : Generations,
         about : UNION {[I -> Generations] : I \in SUBSET Ids}]
Absent == [gen |-> 0, from |-> 0, about |-> NoRows]
Made(g, from, about) == [gen |-> g, from |-> from, about |-> about]
Has(files, k) == files[k] # Absent
Empty == [k \in Keys |-> Absent]
Specs(files) == {i \in Ids : Has(files, i)}
Journeys(files) == DOMAIN files["journeys"].about

\* "tests" is the directory of specs.
In(k) == IF k = "tests" THEN Ids ELSE {k}

NextAgent(agent) == CASE agent = "scriptAnalyst" -> "setDesigner"
                  [] agent = "setDesigner" -> "choreographer"
                  [] agent = "choreographer" -> "assistantDirector"
                  [] OTHER -> "continuityLead"
Needs == [scriptAnalyst |-> {}, setDesigner |-> {"catalog"},
          choreographer |-> {"poms"}, assistantDirector |-> {"journeys", "catalog"},
          continuityLead |-> {"journeys"}]
Outputs == [scriptAnalyst |-> {"catalog"}, setDesigner |-> {"poms"},
            choreographer |-> {"journeys"}, assistantDirector |-> Ids,
            continuityLead |-> {"report"}]
\* maximumAttempts
Attempts(agent) == IF agent \in {"choreographer", "continuityLead"} THEN 1 ELSE 2

\* An activity attempt: at "put" it flushes, for the last time when last is
\* set; seen is the directory as it read it; live while its workflow waits; a
\* live one is "lost" when the worker died under it.
Workflows == {"main", "execute", "partial"} \cup Agents
Attempt == [pc : {"free", "pull", "work", "put", "lost"}, wf : Workflows,
            agent : Agents, gen : Generations, after : BOOLEAN, only : SUBSET Ids,
            live : BOOLEAN, left : 0 .. 2, ok : BOOLEAN, last : BOOLEAN,
            files : Seq(Keys \cup {"tests"}), seen : [Keys -> File]]
Free == [pc |-> "free", wf |-> "main", agent |-> "scriptAnalyst", gen |-> 0,
         after |-> FALSE, only |-> {}, live |-> FALSE, left |-> 0, ok |-> FALSE,
         last |-> FALSE, files |-> <<>>, seen |-> Empty]
\* A request between two awaits; status is the row's as it was first read, from
\* the generation of the POMs an edit was validated against.
Request == [pc : {"idle", "assert", "cleanup", "launch", "write", "drop", "done"},
            wf : Workflows, agent : Agents, after : BOOLEAN, only : SUBSET Ids,
            status : {"running", "completed", "failed", "cancelled"},
            todo : Seq(Keys \cup {"tests"}), from : Generations]
Idle == [pc |-> "idle", wf |-> "main", agent |-> "scriptAnalyst", after |-> FALSE,
         only |-> {}, status |-> "running", todo |-> <<>>, from |-> 0]

FilesInit ==
    /\ store = [k \in Keys |->
                 CASE k = "catalog" -> Made(1, 0, NoRows)
                   [] k = "journeys" -> Made(1, 1, [i \in Ids |-> 1])
                   [] k = "report" -> Made(1, 0, [i \in Ids |-> 1])
                   [] OTHER -> Made(1, 1, NoRows)]
    /\ local = Empty
    /\ runRow = [status |-> "completed", exec |-> FALSE, overlay |-> 0]
    /\ at = [s \in Slots |-> Free]
    /\ req = [q \in Requests |-> Idle]
    /\ gen = 1
    /\ faults = 0
    /\ promised = [k \in Keys |-> 0]
    /\ raced = FALSE

\* isRunActivelyRunning
Active == runRow.status = "running" \/ (runRow.status = "completed" /\ runRow.exec)
AtWork == {s \in Slots : at[s].pc # "free"}
Live == {s \in Slots : at[s].live}
InFlight(q) == req[q].pc \notin {"idle", "done"}
Mishap == faults < MaxFaults /\ faults' = faults + 1

-----------------------------------------------------------------------------
(* Requests                                                                *)

\* What the row does not show a request: attempts at work, other requests.
LetIn(q) == raced' = (raced \/ AtWork # {} \/ \E o \in Requests \ {q} : InFlight(o))
Becomes(q, r) == req' = [req EXCEPT ![q] = r]

ResumeRun(q, agent, after) ==
    /\ req[q].pc = "idle" /\ "resume" \in Asks /\ ~Active
    /\ Becomes(q, [Idle EXCEPT !.pc = "assert", !.wf = agent, !.agent = agent,
                               !.after = after, !.status = runRow.status])
    /\ LetIn(q)
    /\ UNCHANGED <<store, local, runRow, at, gen, faults, promised>>

\* hasGenerationArtifacts, or the row says completed; the journeys asked for
\* must have specs.
ExecuteRun(q, only) ==
    /\ req[q].pc = "idle" /\ "execute" \in Asks /\ ~Active
    /\ Specs(store) # {} /\ only \subseteq Specs(store)
    /\ \/ runRow.status = "completed"
       \/ Has(store, "catalog") /\ Has(store, "journeys")
    /\ Becomes(q, [Idle EXCEPT !.pc = "launch", !.agent = "continuityLead",
                               !.wf = IF only = {} THEN "execute" ELSE "partial",
                               !.only = only, !.status = runRow.status])
    /\ LetIn(q)
    /\ UNCHANGED <<store, local, runRow, at, gen, faults, promised>>

\* putJourneysArtifact: the body names POM classes of the catalog it read.
EditJourneys(q, ids) ==
    /\ req[q].pc = "idle" /\ "edit" \in Asks /\ ~Active
    /\ Has(store, "catalog") /\ Has(store, "poms")
    /\ Becomes(q, [Idle EXCEPT !.pc = "write", !.only = ids,
                               !.from = store["poms"].gen])
    /\ LetIn(q)
    /\ UNCHANGED <<store, local, runRow, at, gen, faults, promised>>

\* cancelPipeline.  A partial execution is only known by the row's overlay.
Cancel(q) ==
    /\ req[q].pc = "idle" /\ "cancel" \in Asks /\ runRow.status # "completed"
    /\ Becomes(q, [Idle EXCEPT !.pc = "done"])
    /\ runRow' = [status |-> "cancelled", exec |-> FALSE, overlay |-> 0]
    /\ at' = [s \in Slots |->
               IF ~at[s].live \/ (at[s].wf = "partial" /\ at[s].gen # runRow.overlay) THEN at[s]
               ELSE IF at[s].pc \in {"pull", "lost"} THEN Free
               ELSE [at[s] EXCEPT !.live = FALSE]]
    /\ UNCHANGED <<store, local, gen, faults, promised, raced>>

\* DOWNSTREAM_FILES, then DOWNSTREAM_DIRS.  KeepsSpecs forgets the choreographer's
\* directory (for a mutant run).
DownstreamFiles(agent) ==
    CASE agent = "scriptAnalyst" -> <<"catalog", "journeys", "report">>
      [] agent = "setDesigner" -> <<"journeys", "report">>
      [] OTHER -> <<"report">>
KeepsSpecs(agent) ==
    CASE agent \in {"scriptAnalyst", "setDesigner"} -> <<"poms", "tests">>
      [] agent = "assistantDirector" -> <<"tests">>
      [] OTHER -> <<>>
DownstreamDirs(agent) ==
    CASE agent \in {"scriptAnalyst", "setDesigner"} -> <<"poms", "tests">>
      [] agent \in {"choreographer", "assistantDirector"} -> <<"tests">>
      [] OTHER -> <<>>

\* A resume from the POMs on that meets nobody, and no directory left over, makes
\* all of them anew: what was promised before is forgotten.
Heals(q) == /\ req[q].wf \in {"scriptAnalyst", "setDesigner"}
            /\ AtWork = {} /\ local = Empty /\ \A o \in Requests \ {q} : ~InFlight(o)

\* markStaleRunFailed, markStaleRunCompleted: the second leaves execution_status.
Reconciled == {[runRow EXCEPT !.status = "failed", !.exec = FALSE],
               [runRow EXCEPT !.status = "completed"]}

\* assertProjectNotRunning, which repairs a stale row.
AssertNotRunning(q) ==
    /\ req[q].pc = "assert"
    /\ IF Active /\ Live # {}
       THEN Becomes(q, [Idle EXCEPT !.pc = "done"]) /\ UNCHANGED <<runRow, raced, promised>>
       ELSE /\ Becomes(q, [req[q] EXCEPT
                 !.pc = "cleanup",
                 !.todo = DownstreamFiles(req[q].agent) \o DownstreamDirs(req[q].agent)])
            /\ runRow' \in IF Active THEN Reconciled ELSE {runRow}
            /\ raced' = (raced /\ ~Heals(q))
            /\ promised' = IF raced /\ Heals(q) THEN [k \in Keys |-> 0] ELSE promised
    /\ UNCHANGED <<store, local, at, gen, faults>>

Without(files, ks) == [k \in Keys |-> IF k \in ks THEN Absent ELSE files[k]]
Broken(ks) == promised' = [k \in Keys |-> IF k \in ks THEN 0 ELSE promised[k]]

\* cleanupDownstreamArtifacts, one call to the store at a time.
Cleanup(q) ==
    /\ req[q].pc = "cleanup"
    /\ LET todo == req[q].todo IN
       /\ store' = Without(store, In(Head(todo)))
       /\ Broken(In(Head(todo)))
       /\ Becomes(q, [req[q] EXCEPT !.todo = Tail(todo),
                                    !.pc = IF Len(todo) = 1 THEN "launch" ELSE @])
    /\ UNCHANGED <<local, runRow, at, gen, faults, raced>>

\* A partial execution's id has a hash of its journeys.
IdTaken(q) == \E s \in Live : at[s].wf = req[q].wf /\ at[s].only = req[q].only

\* The row is updated and the workflow started.
Launch(q) ==
    /\ req[q].pc = "launch"
    /\ ~IdTaken(q)
    /\ \E s \in Slots :
        /\ at[s].pc = "free"
        /\ at' = [at EXCEPT ![s] = [Free EXCEPT
                    !.pc = "pull", !.wf = req[q].wf, !.agent = req[q].agent,
                    !.gen = gen + 1, !.after = req[q].after, !.only = req[q].only,
                    !.live = TRUE, !.left = Attempts(req[q].agent)]]
    /\ gen' = gen + 1
    /\ runRow' = [status |-> IF req[q].wf \in Agents THEN "running" ELSE runRow.status,
               exec |-> req[q].agent = "continuityLead", overlay |-> gen + 1]
    /\ Becomes(q, [Idle EXCEPT !.pc = "done"])
    /\ UNCHANGED <<store, local, faults, promised, raced>>

\* The start fails, or a workflow of that id is running: the row gets the status
\* that was read back, the files stay deleted.
LaunchFails(q) ==
    /\ req[q].pc = "launch"
    /\ IF IdTaken(q) THEN UNCHANGED faults ELSE Mishap
    /\ runRow' = IF req[q].wf \in Agents
              THEN [status |-> req[q].status, exec |-> req[q].wf = "continuityLead",
                    overlay |-> 0]
              ELSE [runRow EXCEPT !.overlay = 0]
    /\ raced' = TRUE
    /\ Becomes(q, [Idle EXCEPT !.pc = "done"])
    /\ UNCHANGED <<store, local, at, gen, promised>>

WriteJourneys(q) ==
    /\ req[q].pc = "write"
    /\ store' = [store EXCEPT !["journeys"] =
                  Made(gen + 1, req[q].from, [i \in req[q].only |-> gen + 1])]
    /\ gen' = gen + 1
    /\ Broken({"journeys"})
    /\ Becomes(q, [req[q] EXCEPT !.pc = "drop"])
    /\ UNCHANGED <<local, runRow, at, faults, raced>>

DropSpecs(q) ==
    /\ req[q].pc = "drop"
    /\ store' = Without(store, Ids)
    /\ Broken(Ids)
    /\ Becomes(q, [Idle EXCEPT !.pc = "done"])
    /\ UNCHANGED <<local, runRow, at, gen, faults, raced>>

\* A call to the store fails, or the API dies: what was done stays done.
RequestFails(q) ==
    /\ req[q].pc \in {"cleanup", "drop"} /\ Mishap
    /\ raced' = TRUE
    /\ Becomes(q, [Idle EXCEPT !.pc = "done"])
    /\ UNCHANGED <<store, local, runRow, at, gen, promised>>

\* getPipelineRun finds the workflows of an active row over.
RepairRow ==
    /\ Active /\ Live = {}
    /\ runRow' \in Reconciled
    /\ UNCHANGED <<store, local, at, req, gen, faults, promised, raced>>

-----------------------------------------------------------------------------
(* Activities                                                              *)

Present(files) == {k \in Keys : Has(files, k)}
Finish(status) == runRow' = [runRow EXCEPT !.status = status, !.exec = FALSE]

Listed(files, k) == IF In(k) \cap Present(files) # {} THEN <<k>> ELSE <<>>
\* listLocalFiles, in readdir's order.  TopLevelOnly does not go into poms and tests
\* (for a mutant run).
TopLevelOnly(files) ==
    Listed(files, "report") \o Listed(files, "journeys") \o Listed(files, "catalog")
ListLocalFiles(files) ==
    TopLevelOnly(files) \o Listed(files, "poms") \o Listed(files, "tests")

\* The flush the attempt goes to next, over the files there are now.
Flushes(s, files, ok, last) ==
    at' = [at EXCEPT ![s].pc = "put", ![s].ok = ok, ![s].last = last,
                     ![s].seen = Empty, ![s].files = ListLocalFiles(files)]

\* pullToLocal, and what the agent reads; continuityLead writes the row.
Pull(s) ==
    /\ at[s].pc = "pull"
    /\ local' = [k \in Keys |-> IF Has(store, k) THEN store[k] ELSE local[k]]
    /\ at' = [at EXCEPT ![s].pc = "work", ![s].seen = local']
    /\ runRow' = [runRow EXCEPT !.exec = @ \/ at[s].agent = "continuityLead"]
    /\ raced' = (raced \/ local # Empty \/ AtWork # {s})
    /\ Broken(Outputs[at[s].agent])
    /\ UNCHANGED <<store, req, gen, faults>>

\* scriptAnalyst, stageManager, blockingCoach: from the code, not from a file.
Analysed(s, files) == [files EXCEPT !["catalog"] = Made(at[s].gen, 0, NoRows)]

\* runSetDesigner, with the LLM or without.
PomsMade(s, files) ==
    [files EXCEPT !["poms"] = Made(at[s].gen, at[s].seen["catalog"].gen, NoRows)]

\* runChoreographer: the journeys the LLM thought of, one at the least.
JourneysMade(s, files, ids) ==
    [files EXCEPT !["journeys"] = Made(at[s].gen, at[s].seen["poms"].gen,
                                       [i \in ids |-> at[s].gen])]

\* What an agent may leave when all goes well.  Rewriting the journeys in the
\* normal form, and adding methods to POMs, does not change which generation they
\* are.
Designed(s, files) ==
    CASE at[s].agent = "scriptAnalyst" -> {Analysed(s, files)}
      [] at[s].agent = "setDesigner" -> {PomsMade(s, files)}
      [] at[s].agent = "choreographer" -> {JourneysMade(s, files, I) : I \in SUBSET Ids \ {{}}}
      [] OTHER -> {}

\* assistantDirector: specs of journeys that are gone are unlinked first; it may
\* fail with some of the others written.
Directed(s, files, I) ==
    [k \in Keys |->
        CASE k = "journeys" -> at[s].seen["journeys"]
          [] k \in I -> Made(at[s].gen, at[s].seen["journeys"].gen, NoRows)
          [] k \in Ids \ Journeys(at[s].seen) -> Absent
          [] OTHER -> files[k]]

\* runGenerationAgent.  Without an execution to follow, assistantDirector calls
\* the run completed before anything is flushed.
AgentSucceeds(s) ==
    /\ at[s].pc = "work" /\ at[s].agent # "continuityLead"
    /\ Needs[at[s].agent] \subseteq Present(at[s].seen)
    /\ local' \in IF at[s].agent = "assistantDirector"
                  THEN {Directed(s, local, Journeys(at[s].seen))}
                  ELSE Designed(s, local)
    /\ Flushes(s, local', TRUE, FALSE)
    /\ IF at[s].agent = "assistantDirector" /\ ~at[s].after
       THEN runRow' = [runRow EXCEPT !.status = "completed"]
       ELSE UNCHANGED runRow
    /\ UNCHANGED <<store, req, gen, faults, promised, raced>>

\* No input, no answer of the LLM, or specs that call methods no POM has.
AgentFails(s) ==
    /\ at[s].pc = "work" /\ at[s].agent # "continuityLead"
    /\ \/ local' = local
       \/ /\ at[s].agent = "assistantDirector"
          /\ Needs[at[s].agent] \subseteq Present(at[s].seen)
          /\ \E I \in SUBSET Journeys(at[s].seen) : local' = Directed(s, local, I)
    /\ Flushes(s, local', FALSE, TRUE)
    /\ runRow' = [runRow EXCEPT !.status = "failed"]
    /\ UNCHANGED <<store, req, gen, faults, promised, raced>>

Chosen(s, I) == IF at[s].only = {} THEN I ELSE I \cap at[s].only

\* runContinuityLead's rows: the platform runs the journeys, Playwright the specs;
\* without specs every journey is skipped.
Results(s) ==
    LET seen == at[s].seen
        journeys == Chosen(s, Journeys(seen))
        specs == Chosen(s, Specs(seen)) IN
    IF specs = {} THEN {[i \in journeys |-> 0]}
    ELSE {[i \in journeys |-> seen["journeys"].gen], [i \in specs |-> seen[i].from]}

\* mergeExecutionReport.  DropsOthers takes the new rows alone (for a mutant run).
DropsOthers(previous, rows, only) == rows
Merged(previous, rows, only) ==
    IF only = {} THEN rows
    ELSE [i \in DOMAIN previous.about \cup DOMAIN rows |->
            IF i \in DOMAIN rows THEN rows[i] ELSE previous.about[i]]

\* continuityLead finishes the row before it flushes the report.
LeadSucceeds(s) ==
    /\ at[s].pc = "work" /\ at[s].agent = "continuityLead"
    /\ Has(at[s].seen, "journeys")
    /\ \E rows \in Results(s) :
          local' = [local EXCEPT !["report"] =
                     Made(at[s].gen, 0, Merged(local["report"], rows, at[s].only))]
    /\ Flushes(s, local', TRUE, FALSE)
    /\ \E status \in {"completed", "failed"} : Finish(status)
    /\ UNCHANGED <<store, req, gen, faults, promised, raced>>

\* The report is replaced by a row that says so, a partial execution's too.
LeadFails(s) ==
    /\ at[s].pc = "work" /\ at[s].agent = "continuityLead"
    /\ local' = [local EXCEPT !["report"] = Made(at[s].gen, 0, NoRows)]
    /\ Flushes(s, local', FALSE, FALSE)
    /\ Finish("failed")
    /\ UNCHANGED <<store, req, gen, faults, promised, raced>>

Vanished(s) == at[s].files # <<>> /\ In(Head(at[s].files)) \cap Present(local) = {}

\* pushFromLocal, a file at a time (the specs are one step); nothing is ever
\* deleted from the store.
Put(s) ==
    /\ at[s].pc = "put" /\ at[s].files # <<>> /\ ~Vanished(s)
    /\ store' = [k \in Keys |-> IF k \in In(Head(at[s].files)) /\ Has(local, k)
                                THEN local[k] ELSE store[k]]
    /\ at' = [at EXCEPT ![s].files = Tail(@)]
    /\ UNCHANGED <<local, runRow, req, gen, faults, promised, raced>>

\* The workflow is told: the next agent, another attempt, or it is over.
GoesOn(a, ok) ==
    IF ~a.live THEN Free
    ELSE IF ~ok /\ a.left > 1
    THEN [a EXCEPT !.pc = "pull", !.left = @ - 1, !.files = <<>>, !.seen = Empty,
                   !.ok = FALSE, !.last = FALSE]
    ELSE IF ~ok \/ a.agent = "continuityLead"
            \/ (a.agent = "assistantDirector" /\ ~a.after) THEN Free
    ELSE [a EXCEPT !.pc = "pull", !.agent = NextAgent(a.agent), !.left = Attempts(NextAgent(a.agent)),
                   !.files = <<>>, !.seen = Empty, !.ok = FALSE, !.last = FALSE]

\* The first flush is followed by the one in withArtifactStaging's finally.
Flushed(s) ==
    /\ at[s].pc = "put" /\ at[s].files = <<>> /\ ~at[s].last
    /\ Flushes(s, local, at[s].ok, TRUE)
    /\ UNCHANGED <<store, local, runRow, req, gen, faults, promised, raced>>

\* removeLocalStaging, and the activity is over.
Leaves(s) ==
    /\ at[s].pc = "put" /\ at[s].files = <<>> /\ at[s].last
    /\ local' = Empty
    /\ at' = [at EXCEPT ![s] = GoesOn(at[s], at[s].ok)]
    /\ promised' = [k \in Keys |->
                     IF at[s].ok /\ k \in Outputs[at[s].agent] \cap Present(local)
                     THEN at[s].gen ELSE promised[k]]
    /\ UNCHANGED <<store, runRow, req, gen, faults, raced>>

\* The store fails, or somebody removed the directory: from the first flush on
\* to the last, from the last out of the activity with the directory left behind.
FlushFails(s) ==
    /\ at[s].pc = "put" /\ at[s].files # <<>>
    /\ IF Vanished(s) THEN UNCHANGED faults ELSE Mishap
    /\ raced' = TRUE
    /\ IF at[s].last
       THEN at' = [at EXCEPT ![s] = GoesOn(at[s], FALSE)] /\ UNCHANGED runRow
       ELSE /\ Flushes(s, local, FALSE, TRUE)
            /\ IF at[s].agent = "continuityLead" THEN UNCHANGED runRow
               ELSE runRow' = [runRow EXCEPT !.status = "failed"]
    /\ UNCHANGED <<store, local, req, gen, promised>>

\* startToCloseTimeout: the workflow tries again, the attempt runs on.
TimesOut(s) ==
    /\ at[s].live /\ at[s].pc \in {"work", "put"} /\ Mishap
    /\ LET orphan == [at EXCEPT ![s].live = FALSE] IN
       IF at[s].left > 1
       THEN \E t \in Slots : at[t].pc = "free" /\ at' = [orphan EXCEPT ![t] = GoesOn(at[s], FALSE)]
       ELSE at' = orphan
    /\ UNCHANGED <<store, local, runRow, req, gen, promised, raced>>

\* The directory is in the container's file system.
WorkerDies ==
    /\ \E s \in AtWork : at[s].pc \in {"work", "put"}
    /\ Mishap
    /\ at' = [s \in Slots |->
               IF at[s].pc \notin {"work", "put"} THEN at[s]
               ELSE IF at[s].live THEN [at[s] EXCEPT !.pc = "lost", !.files = <<>>, !.seen = Empty]
               ELSE Free]
    /\ local' \in {local, Empty}
    /\ UNCHANGED <<store, runRow, req, gen, promised, raced>>

LostTimesOut(s) ==
    /\ at[s].pc = "lost"
    /\ at' = [at EXCEPT ![s] = GoesOn(at[s], FALSE)]
    /\ UNCHANGED <<store, local, runRow, req, gen, faults, promised, raced>>

RequestStep(q) ==
    \/ \E agent \in ResumeFrom, after \in BOOLEAN : ResumeRun(q, agent, after)
    \/ \E only \in SUBSET Ids : ExecuteRun(q, only)
    \/ \E ids \in SUBSET Ids \ {{}} : EditJourneys(q, ids)
    \/ Cancel(q) \/ AssertNotRunning(q) \/ Cleanup(q) \/ Launch(q) \/ LaunchFails(q)
    \/ WriteJourneys(q) \/ DropSpecs(q) \/ RequestFails(q)
ActivityStep(s) ==
    \/ Pull(s) \/ AgentSucceeds(s) \/ AgentFails(s) \/ LeadSucceeds(s) \/ LeadFails(s)
    \/ Put(s) \/ Flushed(s) \/ Leaves(s) \/ FlushFails(s)
    \/ TimesOut(s) \/ LostTimesOut(s)

FilesNext ==
    \/ \E q \in Requests : RequestStep(q)
    \/ \E s \in Slots : ActivityStep(s)
    \/ RepairRow \/ WorkerDies

FilesSpec == FilesInit /\ [][FilesNext]_filesVars

-----------------------------------------------------------------------------
(* Properties                                                              *)

FilesTypeOK ==
    /\ store \in [Keys -> File] /\ local \in [Keys -> File]
    /\ runRow \in [status : {"running", "completed", "failed", "cancelled"},
                exec : BOOLEAN, overlay : Generations]
    /\ at \in [Slots -> Attempt] /\ req \in [Requests -> Request]
    /\ gen \in Generations /\ faults \in 0 .. MaxFaults
    /\ promised \in [Keys -> Generations] /\ raced \in BOOLEAN

HalfWay == \E q \in Requests : req[q].pc \in {"cleanup", "drop"}

\* Files belong together: each spec is of a journey of the journeys there are, those
\* of the POMs there are, and the report's rows of today's specs are of runs of
\* these specs.
Together(files) ==
    /\ \A i \in Specs(files) : /\ i \in Journeys(files)
                               /\ files[i].from = files["journeys"].gen
    /\ Has(files, "journeys") /\ Has(files, "poms") => files["journeys"].from = files["poms"].gen
    /\ Has(files, "poms") /\ Has(files, "catalog") => files["poms"].from = files["catalog"].gen
    /\ \A i \in Specs(files) \cap DOMAIN files["report"].about :
          files["report"].about[i] \in {0, files[i].from}

\* Unless attempts or requests met, or a directory was left over, the stored files
\* belong together whenever no request is half way through them.  Nothing but the
\* deletions of cleanupDownstreamArtifacts and the edit keeps it so: a push deletes
\* nothing.
Coherent == raced \/ HalfWay \/ Together(store)

\* With the same reservation, what an activity reported done is in the store,
\* until the next one begins to make it again or a request deletes it, although
\* the directory it was made in is gone.
OutputsStored == raced \/ \A k \in Keys : promised[k] # 0 => store[k].gen = promised[k]

\* With the same reservation, a partial execution that got its results changes no
\* other journey's row of the stored report.
PartialKeepsOthers ==
    [][\A s \in Slots :
        /\ at[s].agent = "continuityLead" /\ at[s].only # {} /\ at[s].pc = "put" /\ at[s].ok
        /\ store'["report"] # store["report"] /\ ~raced
        => \A i \in DOMAIN store["report"].about \ at[s].only :
              /\ i \in DOMAIN store'["report"].about
              /\ store'["report"].about[i] = store["report"].about[i]]_filesVars
=============================================================================
