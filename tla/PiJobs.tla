------------------------------- MODULE PiJobs -------------------------------
(***************************************************************************)
(* Plan and code generation in ai-auto-test-playwright for one project:    *)
(* startPlanGeneration / startCodeGeneration (plan-service.ts,             *)
(* codegen-service.ts), the PiJobRunner that drives one Pi agent process   *)
(* per job (pi-job-runner.ts), and the jobs and workflow_states rows.      *)
(*                                                                         *)
(* One action per stretch of code between two awaits.  A database write    *)
(* takes the value of handle.job when it is issued and lands later.        *)
(***************************************************************************)
EXTENDS Naturals

CONSTANTS
    Jobs,        \* generation requests, each creating at most one job
    TypeOf,      \* the type of each: "plan" or "code"
    Cancels,     \* POST /api/jobs/:jobId/cancel calls
    NoJob,       \* a cancel call that has not named a job yet
    MaxMishaps   \* bound on awaits that throw and restarts of the server

ASSUME PiJobsAssumption ==
    /\ TypeOf \in [Jobs -> {"plan", "code"}]
    /\ NoJob \notin Jobs
    /\ MaxMishaps \in Nat

VARIABLES
    call,       \* [Jobs -> CallPc]    the request that starts the job
    exec,       \* [Jobs -> ExecPc]    PiJobRunner.execute
    row,        \* [Jobs -> RowStatus] jobs.status
    inMap,      \* jobs with a handle in this.running
    flag,       \* jobs whose handle.cancelled is set
    shown,      \* [Jobs -> RowStatus] handle.job.status, what getJob answers
    pi,         \* jobs whose Pi process is running
    stage,      \* workflow_states.stage_status of the project
    canc,       \* [Cancels -> Cancel] the cancel calls
    mishaps,    \* awaits that have thrown and restarts so far
    raced,      \* history: types where two starts overlapped between their check
                \* and their insert, or a cancel found no handle for a live job
    late        \* history: jobs cancelled when the agent had already settled

rowVars == <<row, stage>>
handleVars == <<inMap, flag, shown>>
history == <<raced, late>>
vars == <<call, exec, rowVars, handleVars, pi, canc, mishaps, history>>

Window    == {"insert", "inserted"}
CallPc    == {"idle", "find", "refused", "threw", "done"} \cup Window
Asking    == {"prompt", "retry"}
Checking  == {"validate", "save", "revalidate", "resave"}
Ending    == {"record", "failRecord", "failStage", "cleanup"}
ExecPc    == {"none", "config", "done", "leaked", "dead"} \cup Asking \cup Checking \cup Ending
Terminal  == {"completed", "failed", "cancelled"}
RowStatus == {"none", "running"} \cup Terminal
Stage     == {"idle", "generating", "failed"}
CancelPc  == {"idle", "find", "writeRow", "write", "done"}
Cancel    == [pc : CancelPc, job : Jobs \cup {NoJob}]

SameType(j) == {k \in Jobs : TypeOf[k] = TypeOf[j]}

Init ==
    /\ call = [j \in Jobs |-> "idle"]
    /\ exec = [j \in Jobs |-> "none"]
    /\ row = [j \in Jobs |-> "none"]
    /\ inMap = {}
    /\ flag = {}
    /\ shown = [j \in Jobs |-> "none"]
    /\ pi = {}
    /\ stage = "idle"
    /\ canc = [c \in Cancels |-> [pc |-> "idle", job |-> NoJob]]
    /\ mishaps = 0
    /\ raced = {}
    /\ late = {}

-----------------------------------------------------------------------------
(* The request: workflow_states first, then PiJobRunner.startJob.          *)

Request(j) ==
    /\ call[j] = "idle"
    /\ call' = [call EXCEPT ![j] = "find"]
    /\ stage' = "generating"
    /\ UNCHANGED <<exec, row, handleVars, pi, canc, mishaps, history>>

\* findActiveByProject: 409 when a pending or running job of the type exists.
PendingExists(j) == \E k \in SameType(j) : row[k] = "pending"
ActiveExists(j) == \E k \in SameType(j) : row[k] = "running"

FindActive(j) ==
    /\ call[j] = "find"
    /\ \/ /\ ActiveExists(j)
          /\ call' = [call EXCEPT ![j] = "refused"]
          /\ UNCHANGED raced
       \/ /\ ~ActiveExists(j)
          /\ call' = [call EXCEPT ![j] = "insert"]
          /\ raced' = IF \E k \in SameType(j) : call[k] \in Window
                      THEN raced \cup {TypeOf[j]} ELSE raced
    /\ UNCHANGED <<exec, rowVars, handleVars, pi, canc, mishaps, late>>

InsertedAs == "running"
InsertJob(j) ==
    /\ call[j] = "insert"
    /\ call' = [call EXCEPT ![j] = "inserted"]
    /\ row' = [row EXCEPT ![j] = InsertedAs]
    /\ UNCHANGED <<exec, stage, handleVars, pi, canc, mishaps, history>>

\* Back from the insert: the handle enters the map and execute is detached.
Register(j) ==
    /\ call[j] = "inserted"
    /\ call' = [call EXCEPT ![j] = "done"]
    /\ exec' = [exec EXCEPT ![j] = "config"]
    /\ inMap' = inMap \cup {j}
    /\ shown' = [shown EXCEPT ![j] = "running"]
    /\ UNCHANGED <<rowVars, flag, pi, canc, mishaps, history>>

\* The caller's catch: whatever startJob threw, the stage becomes failed.
CallRefused(j) ==
    /\ call[j] = "refused"
    /\ call' = [call EXCEPT ![j] = "threw"]
    /\ stage' = "failed"
    /\ UNCHANGED <<exec, row, handleVars, pi, canc, mishaps, history>>

CallThrows(j) ==
    /\ call[j] \in {"find", "insert"}
    /\ mishaps < MaxMishaps
    /\ mishaps' = mishaps + 1
    /\ call' = [call EXCEPT ![j] = "refused"]
    /\ UNCHANGED <<exec, rowVars, handleVars, pi, canc, history>>

-----------------------------------------------------------------------------
(* execute                                                                 *)

ExecFrame == UNCHANGED <<call, canc, raced, late>>

\* Where execute goes when its checks of handle.cancelled let it go on.
Unless(j, pc) == IF j \in flag THEN "cleanup" ELSE pc

\* Provider and agent home are ready: the client is made and started, and the
\* first prompt sent, without giving way to any other handler.
Start(j) ==
    /\ exec[j] = "config"
    /\ exec' = [exec EXCEPT ![j] = Unless(j, "prompt")]
    /\ pi' = IF j \in flag THEN pi ELSE pi \cup {j}
    /\ UNCHANGED <<rowVars, handleVars, mishaps>> /\ ExecFrame

\* resolveForProject or the config writer throws, outside the try: the handle
\* stays in the map and the row stays running.
ConfigThrows(j) ==
    /\ exec[j] = "config"
    /\ mishaps < MaxMishaps
    /\ mishaps' = mishaps + 1
    /\ exec' = [exec EXCEPT ![j] = "leaked"]
    /\ UNCHANGED <<rowVars, handleVars, pi>> /\ ExecFrame

Settles(j) ==
    /\ exec[j] \in Asking
    /\ j \in pi
    /\ exec' = [exec EXCEPT ![j] =
                  Unless(j, IF @ = "prompt" THEN "validate" ELSE "revalidate")]
    /\ UNCHANGED <<rowVars, handleVars, pi, mishaps>> /\ ExecFrame

\* The catch block: a cancelled job leaves quietly, any other is failed.
CatchAlways(j) == TRUE
Catches(j) == j \notin flag
Catch(j) ==
    \/ /\ Catches(j)
       /\ exec' = [exec EXCEPT ![j] = "failRecord"]
       /\ shown' = [shown EXCEPT ![j] = "failed"]
    \/ /\ ~Catches(j)
       /\ exec' = [exec EXCEPT ![j] = "cleanup"]
       /\ UNCHANGED shown

\* Prompt rejected, or no agent_settled before runTimeoutMs: an agent process
\* that exits, or is stopped, is noticed only by that timeout.
NoPromptTimeout(j) == FALSE
PromptTimeout(j) == exec[j] \in Asking
PromptFails(j) ==
    /\ PromptTimeout(j)
    /\ Catch(j)
    /\ UNCHANGED <<rowVars, inMap, flag, pi, mishaps>> /\ ExecFrame

\* validateOutput finds the artifact.
Found(j) ==
    /\ exec[j] \in {"validate", "revalidate"}
    /\ exec' = [exec EXCEPT ![j] = IF @ = "validate" THEN "save" ELSE "resave"]
    /\ UNCHANGED <<rowVars, handleVars, pi, mishaps>> /\ ExecFrame

\* It does not: a plan is asked for once more, anything else fails.
Missing(j) ==
    /\ exec[j] \in {"validate", "revalidate"}
    /\ \/ /\ exec[j] = "validate" /\ TypeOf[j] = "plan" /\ j \notin flag
          /\ exec' = [exec EXCEPT ![j] = "retry"]
          /\ UNCHANGED shown
       \/ /\ ~(exec[j] = "validate" /\ TypeOf[j] = "plan" /\ j \notin flag)
          /\ Catch(j)
    /\ UNCHANGED <<rowVars, inMap, flag, pi, mishaps>> /\ ExecFrame

\* The end of validateOutput moves the stage; execute then marks the handle
\* completed and issues the update, without looking at handle.cancelled again.
Save(j) ==
    /\ exec[j] \in {"save", "resave"}
    /\ exec' = [exec EXCEPT ![j] = "record"]
    /\ stage' = "idle"
    /\ shown' = [shown EXCEPT ![j] = "completed"]
    /\ UNCHANGED <<row, inMap, flag, pi, mishaps>> /\ ExecFrame

\* finally begins by stopping the agent, however the try block was left; a
\* cancelled job's agent was stopped by cancelJob.
LeaveAgent(j) == pi
StopAgent(j) == pi \ {j}

\* The update lands.
Record(j) ==
    /\ exec[j] = "record"
    /\ exec' = [exec EXCEPT ![j] = "cleanup"]
    /\ row' = [row EXCEPT ![j] = "completed"]
    /\ pi' = StopAgent(j)
    /\ UNCHANGED <<stage, handleVars, mishaps>> /\ ExecFrame

FailRecord(j) ==
    /\ exec[j] = "failRecord"
    /\ exec' = [exec EXCEPT ![j] = "failStage"]
    /\ row' = [row EXCEPT ![j] = "failed"]
    /\ UNCHANGED <<stage, handleVars, pi, mishaps>> /\ ExecFrame

StageLeft == stage
StageOnFailure == "failed"
FailStage(j) ==
    /\ exec[j] = "failStage"
    /\ exec' = [exec EXCEPT ![j] = "cleanup"]
    /\ stage' = StageOnFailure
    /\ pi' = StopAgent(j)
    /\ UNCHANGED <<row, handleVars, mishaps>> /\ ExecFrame

\* The agent's home is removed, then the handle.
HandleDropped(j) == inMap \ {j}
Cleanup(j) ==
    /\ exec[j] = "cleanup"
    /\ exec' = [exec EXCEPT ![j] = "done"]
    /\ inMap' = HandleDropped(j)
    /\ UNCHANGED <<rowVars, flag, shown, pi, mishaps>> /\ ExecFrame

\* A database call of the try block throws into the catch; one of the catch
\* block goes straight to finally; removing the agent home may throw last.
ExecThrows(j) ==
    /\ exec[j] \in {"save", "resave", "record", "failRecord", "cleanup"}
    /\ mishaps < MaxMishaps
    /\ mishaps' = mishaps + 1
    /\ \/ exec[j] \in {"save", "resave", "record"} /\ Catch(j)
       \/ /\ exec[j] \in {"failRecord", "cleanup"}
          /\ exec' = [exec EXCEPT ![j] = IF @ = "cleanup" THEN "leaked" ELSE "cleanup"]
          /\ UNCHANGED shown
    /\ pi' = IF exec[j] = "failRecord" THEN StopAgent(j) ELSE pi
    /\ UNCHANGED <<rowVars, inMap, flag>> /\ ExecFrame

-----------------------------------------------------------------------------
(* cancelJob                                                               *)

\* The agent had settled, or the outcome was being written already.
Settled(j) == exec[j] \in Checking \cup Ending \cup {"done"}

\* With a handle: flag it, stop the agent, and issue the update.
CancelHandle(c, j) ==
    /\ canc[c].pc = "idle"
    /\ j \in inMap
    /\ canc' = [canc EXCEPT ![c] = [pc |-> "write", job |-> j]]
    /\ flag' = flag \cup {j}
    /\ shown' = [shown EXCEPT ![j] = "cancelled"]
    /\ pi' = pi \ {j}
    /\ late' = IF Settled(j) THEN late \cup {j} ELSE late
    /\ UNCHANGED <<call, exec, rowVars, inMap, mishaps, raced>>

\* Without one: read the row, and if it is still active, overwrite it.
CancelLookup(c, j) ==
    /\ canc[c].pc = "idle"
    /\ j \notin inMap
    /\ row[j] # "none"
    /\ canc' = [canc EXCEPT ![c] = [pc |-> "find", job |-> j]]
    /\ late' = late \cup {j}
    /\ raced' = IF call[j] = "inserted" THEN raced \cup {TypeOf[j]} ELSE raced
    /\ UNCHANGED <<call, exec, rowVars, handleVars, pi, mishaps>>

CancelFind(c) ==
    /\ canc[c].pc = "find"
    /\ canc' = [canc EXCEPT ![c].pc = IF row[canc[c].job] = "running"
                                      THEN "writeRow" ELSE "done"]
    /\ UNCHANGED <<call, exec, rowVars, handleVars, pi, mishaps, history>>

\* The update lands, and the handle path drops the handle.
CancelWrite(c) ==
    LET j == canc[c].job
    IN  /\ canc[c].pc \in {"write", "writeRow"}
        /\ canc' = [canc EXCEPT ![c].pc = "done"]
        /\ row' = [row EXCEPT ![j] = "cancelled"]
        /\ inMap' = IF canc[c].pc = "write" THEN inMap \ {j} ELSE inMap
        /\ UNCHANGED <<call, exec, stage, flag, shown, pi, mishaps, history>>

-----------------------------------------------------------------------------
\* The server restarts: handles and agents are gone, rows stay as they are and
\* nothing repairs them.
Crash ==
    /\ mishaps < MaxMishaps
    /\ mishaps' = mishaps + 1
    /\ call' = [j \in Jobs |-> IF call[j] \in {"find", "refused"} \cup Window
                               THEN "threw" ELSE call[j]]
    /\ exec' = [j \in Jobs |-> IF exec[j] \in {"none", "done"} THEN exec[j] ELSE "dead"]
    /\ inMap' = {}
    /\ flag' = {}
    /\ pi' = {}
    /\ canc' = [c \in Cancels |-> IF canc[c].pc = "idle" THEN canc[c]
                                  ELSE [canc[c] EXCEPT !.pc = "done"]]
    /\ UNCHANGED <<rowVars, shown, history>>

CallStep(j) == FindActive(j) \/ InsertJob(j) \/ Register(j) \/ CallRefused(j)
ExecStep(j) == \/ Start(j) \/ PromptFails(j) \/ Found(j) \/ Missing(j) \/ Save(j)
               \/ Record(j) \/ FailRecord(j) \/ FailStage(j) \/ Cleanup(j)
CancelStep(c) == CancelFind(c) \/ CancelWrite(c)

Next ==
    \/ \E j \in Jobs : \/ Request(j) \/ CallStep(j) \/ CallThrows(j)
                       \/ Settles(j) \/ ExecStep(j) \/ ConfigThrows(j) \/ ExecThrows(j)
    \/ \E c \in Cancels : \/ \E j \in Jobs : CancelHandle(c, j) \/ CancelLookup(c, j)
                          \/ CancelStep(c)
    \/ Crash

Spec == Init /\ [][Next]_vars

\* Handlers of the event loop run, and promptAndWait's timer fires; the agent
\* settling and users' requests are not assumed.
Fairness ==
    /\ \A j \in Jobs : WF_vars(CallStep(j)) /\ WF_vars(ExecStep(j))
    /\ \A c \in Cancels : WF_vars(CancelStep(c))

FairSpec == Spec /\ Fairness

-----------------------------------------------------------------------------
(* Properties                                                              *)

TypeOK ==
    /\ call \in [Jobs -> CallPc]
    /\ exec \in [Jobs -> ExecPc]
    /\ row \in [Jobs -> RowStatus]
    /\ inMap \subseteq Jobs
    /\ flag \subseteq Jobs
    /\ shown \in [Jobs -> RowStatus]
    /\ pi \subseteq Jobs
    /\ stage \in Stage
    /\ canc \in [Cancels -> Cancel]
    /\ mishaps \in Nat
    /\ raced \subseteq {"plan", "code"}
    /\ late \subseteq Jobs

\* A job that may still prompt its agent or store what the agent wrote.
Working(j) == exec[j] \in {"config"} \cup Asking \cup Checking /\ j \notin flag

\* Two jobs of one type never work on the workspace together, unless two starts
\* overlapped between the 409 check and the insert, or a cancel missed a handle
\* that was about to be registered.
OneWorkerPerType ==
    \A j, k \in Jobs :
        /\ Working(j) /\ Working(k)
        /\ TypeOf[j] = TypeOf[k] /\ TypeOf[j] \notin raced
        => j = k

\* A Pi process runs only for a job that is still being worked on and that
\* nobody cancelled: a cancel during the config step must be seen by Start, and
\* every way out of execute must stop the process.
AgentIsWanted ==
    \A j \in pi : /\ exec[j] \in Asking \cup Checking \cup {"record", "failRecord", "failStage"}
                  /\ j \notin flag

\* A job cancelled before its agent settled stays cancelled: neither the retry
\* nor the catch block nor the timeout of the stopped agent writes over it.
CancelSticks ==
    [][\A j \in Jobs : row[j] = "cancelled" /\ j \notin late
            => row'[j] = "cancelled"]_vars

\* handle.cancelled is looked at before every prompt: once it is set the agent
\* of that job is never prompted again.
CancelledNotPrompted ==
    [][\A j \in Jobs : j \in flag /\ exec[j] # exec'[j] => exec'[j] \notin Asking]_vars

\* While nothing throws and the server is up, the stage says "generating" only
\* if a request or a job that will change it is under way, or a cancelled job
\* left it behind: cancelJob itself never writes workflow_states.
GeneratingHasCause ==
    stage = "generating" /\ mishaps = 0 =>
        \E j \in Jobs :
            \/ call[j] \in {"find", "refused"} \cup Window
            \/ Working(j)
            \/ exec[j] \in {"failRecord", "failStage"}
            \/ \E c \in Cancels : canc[c].job = j

\* A running row is settled eventually, however long the agent takes, unless
\* the config step leaked the job, a write failed, or the server restarted.
JobSettles ==
    \A j \in Jobs : row[j] = "running" ~> row[j] # "running" \/ mishaps > 0

\* The map entry goes away too, so getJob stops answering from memory.
HandleReleased ==
    \A j \in Jobs : j \in inMap ~> j \notin inMap \/ exec[j] = "leaked"

\* A job that starts ends in both places that hold it, its row and the map.
JobEnds == JobSettles /\ HandleReleased
=============================================================================
