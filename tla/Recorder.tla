------------------------------ MODULE Recorder ------------------------------
(***************************************************************************)
(* Web recording in ai-auto-test-playwright (recorder-service.ts,          *)
(* routes/record-live.ts, workflow-state-repository.ts, workflow-service): *)
(* a session is a container that records into the workspace and a row of   *)
(* recorder_sessions; stopping it moves the project's workflow row on.     *)
(*                                                                         *)
(* Docker is there (the null branches of this.docker are left out).        *)
(***************************************************************************)
EXTENDS Naturals, FiniteSets

CONSTANTS
    Sessions,       \* POST record/start requests, and the sessions they make
    Projects,
    Modules,
    Asked,          \* the projects the starts may be for: functions on Sessions
    Stoppers,       \* POST record/stop requests
    Editors,        \* requests and jobs that update the workflow row otherwise
    Cleaner,        \* the 60 s timer
    None,
    MaxGlobal,      \* RECORDER_MAX_GLOBAL
    MaxPerProject,  \* RECORDER_MAX_PER_PROJECT
    MaxMishaps      \* bound on crashes, on failing Docker and database calls, and
                    \* on recordings a checkout or a pull takes away

ASSUME RecorderAssumption ==
    /\ Asked \subseteq [Sessions -> Projects]
    /\ None \notin Sessions \cup Projects \cup Modules
    /\ Cleaner \notin Sessions \cup Stoppers /\ Sessions \cap Stoppers = {}
    /\ {MaxGlobal, MaxPerProject, MaxMishaps} \subseteq Nat

VARIABLES
    project,  \* [Sessions -> Projects] what each start asks for
    module,   \* [Sessions -> Modules]
    status,   \* [Sessions -> ...] recorder_sessions.status, "none" without a row
    idle,     \* active sessions whose last_activity_at is older than RECORDER_IDLE_MS
    up,       \* sessions whose container runs
    files,    \* recordings on disk: <<project, module>>
    row,      \* [Projects -> Row] workflow_states
    act,      \* [Actors -> Act] where each request, and the timer, stands
    upd,      \* [Actors \cup Editors -> ...] a WorkflowStateRepository.update
    mishaps,
    lost,     \* history: running containers a mishap took off the books
    raced,    \* history: projects whose starts overlapped; None: two starts did
    pulled    \* history: recordings git took away

vars == <<project, module, status, idle, up, files, row, act, upd, mishaps,
          lost, raced, pulled>>

Actors == Sessions \cup Stoppers \cup {Cleaner}
\* The stage matters as far as it is 'recorded'; recorded is artifact_paths.recorded.
Row == [stage : {"recorded", "other"}, module : Modules \cup {None},
        recorded : Modules \cup {None}]
NoUpdate == [project |-> None, patch |-> None, read |-> None]
DidUpdate == [NoUpdate EXCEPT !.patch = "done"]
\* The step of the request, the rows its current loop still has to visit, and
\* the session stopSession works on with the step it is at. A stop request, and a
\* cleanup, is over at "stop" with nothing left to visit.
Act == [pc : {"idle", "reconcile", "stop", "reconcileAll", "countProject",
              "launch", "insert", "done"},
        todo : SUBSET Sessions, cur : Sessions \cup {None},
        at : {"none", "container", "row", "mark", "write"}]
NoAct == [pc |-> "idle", todo |-> {}, cur |-> None, at |-> "none"]

Active == {s \in Sessions : status[s] = "active"}
ActiveOf(p) == {s \in Active : project[s] = p}

Init ==
    /\ project \in Asked
    /\ module \in [Sessions -> Modules]
    /\ status = [s \in Sessions |-> "none"]
    /\ idle = {}
    /\ up = {}
    /\ files = {}
    /\ row = [p \in Projects |-> [stage |-> "other", module |-> None,
                                  recorded |-> None]]
    /\ act = [a \in Actors |-> NoAct]
    /\ upd = [a \in Actors \cup Editors |-> NoUpdate]
    /\ mishaps = 0
    /\ lost = {}
    /\ raced = {}
    /\ pulled = {}

Goes(a, pc, todo) == act' = [act EXCEPT ![a].pc = pc, ![a].todo = todo]
Mishap == mishaps < MaxMishaps /\ mishaps' = mishaps + 1

-----------------------------------------------------------------------------
(* startSession                                                            *)

\* POST record/start; reconcileStaleSessions(projectId) reads its rows.
Start(s) ==
    /\ act[s].pc = "idle"
    /\ Goes(s, "reconcile", ActiveOf(project[s]))
    /\ UNCHANGED <<project, module, status, idle, up, files, row, upd, mishaps, lost, raced, pulled>>

\* One turn of the loop in reconcileStaleSessions: the container is not running,
\* or inspect throws. A stopped container stays so: inspect and UPDATE are one step.
Reconcile(s) ==
    /\ act[s].pc \in {"reconcile", "reconcileAll"}
    /\ \E t \in act[s].todo :
        /\ act' = [act EXCEPT ![s].todo = @ \ {t}]
        /\ \/ t \in up /\ UNCHANGED <<status, idle, mishaps, lost>>
           \/ /\ IF t \in up THEN Mishap ELSE UNCHANGED mishaps
              /\ status' = [status EXCEPT ![t] = "stopped"]
              /\ idle' = idle \ {t}
              /\ lost' = lost \cup ({t} \cap up)
    /\ UNCHANGED <<project, module, up, files, row, upd, raced, pulled>>

\* The project's rows, read again: each is stopped.
ReadsOwn(s) ==
    /\ act[s].pc = "reconcile" /\ act[s].todo = {}
    /\ Goes(s, "stop", ActiveOf(project[s]))
    /\ UNCHANGED <<project, module, status, idle, up, files, row, upd, mishaps, lost, raced, pulled>>

ReconcileAll(s) ==
    /\ s \in Sessions
    /\ act[s].pc = "stop" /\ act[s].todo = {} /\ act[s].cur = None
    /\ Goes(s, "reconcileAll", Active)
    /\ UNCHANGED <<project, module, status, idle, up, files, row, upd, mishaps, lost, raced, pulled>>

OverLimit(n, limit) == n > limit
Full(n, limit) == n >= limit

\* Starts that have counted and not yet inserted their row.
Launching == {s \in Sessions : act[s].pc \in {"countProject", "launch", "insert"}}

CountGlobal(s) ==
    /\ act[s].pc = "reconcileAll" /\ act[s].todo = {}
    /\ Goes(s, IF Full(Cardinality(Active), MaxGlobal) THEN "done" ELSE "countProject", {})
    /\ raced' = IF Launching # {} THEN raced \cup {None} ELSE raced
    /\ UNCHANGED <<project, module, status, idle, up, files, row, upd, mishaps, lost, pulled>>

CountProject(s) ==
    /\ act[s].pc = "countProject"
    /\ Goes(s, IF Full(Cardinality(ActiveOf(project[s])), MaxPerProject)
               THEN "done" ELSE "launch", {})
    /\ raced' = IF \E t \in Launching \ {s} : project[t] = project[s]
                THEN raced \cup {project[s]} ELSE raced
    /\ UNCHANGED <<project, module, status, idle, up, files, row, upd, mishaps, lost, pulled>>

\* createContainer, start, inspect; a failing inspect leaves the container.
Launch(s) ==
    /\ act[s].pc = "launch"
    /\ \/ /\ up' = up \cup {s}
          /\ Goes(s, "insert", {})
          /\ UNCHANGED <<mishaps, lost>>
       \/ /\ Mishap
          /\ Goes(s, "done", {})
          /\ \/ UNCHANGED <<up, lost>>
             \/ up' = up \cup {s} /\ lost' = lost \cup {s}
    /\ UNCHANGED <<project, module, status, idle, files, row, upd, raced, pulled>>

Insert(s) ==
    /\ act[s].pc = "insert"
    /\ Goes(s, "done", {})
    /\ \/ status' = [status EXCEPT ![s] = "active"] /\ UNCHANGED <<mishaps, lost>>
       \/ Mishap /\ lost' = lost \cup ({s} \cap up) /\ UNCHANGED status
    /\ UNCHANGED <<project, module, idle, up, files, row, upd, raced, pulled>>

-----------------------------------------------------------------------------
(* stopSession: of a request, of a start's loop, of cleanupIdle            *)

\* POST record/stop, for a session the page or the API was told of.
Stop(a, s) ==
    /\ a \in Stoppers /\ act[a].pc = "idle" /\ status[s] # "none"
    /\ Goes(a, "stop", {s})
    /\ UNCHANGED <<project, module, status, idle, up, files, row, upd, mishaps, lost, raced, pulled>>

\* cleanupIdle: the rows that are active and idle.
CleanupIdle ==
    /\ act[Cleaner].todo = {} /\ act[Cleaner].cur = None
    /\ Active \cap idle # {}
    /\ Goes(Cleaner, "stop", Active \cap idle)
    /\ UNCHANGED <<project, module, status, idle, up, files, row, upd, mishaps, lost, raced, pulled>>

AlreadyGone(s) == s \notin up
AlreadyStopped(s) == status[s] = "stopped"

\* The callers stop one session after the other; stopSession reads the row first
\* and returns for one that is stopped.
StopRead(a) ==
    /\ act[a].pc = "stop" /\ act[a].cur = None
    /\ \E s \in act[a].todo :
        LET rest == act[a].todo \ {s} IN
        act' = [act EXCEPT ![a] =
                  IF AlreadyStopped(s) THEN [@ EXCEPT !.todo = rest]
                  ELSE [@ EXCEPT !.todo = rest, !.cur = s, !.at = "container"]]
    /\ UNCHANGED <<project, module, status, idle, up, files, row, upd, mishaps, lost, raced, pulled>>

Stopped(a) == act' = [act EXCEPT ![a].cur = None, ![a].at = "none"]

\* container.stop: whatever it throws is ignored.
StopContainer(a) ==
    /\ act[a].at = "container"
    /\ act' = [act EXCEPT ![a].at = "row"]
    /\ \/ up' = up \ {act[a].cur} /\ lost' = lost \ {act[a].cur} /\ UNCHANGED mishaps
       \/ act[a].cur \in up /\ Mishap /\ lost' = lost \cup {act[a].cur} /\ UNCHANGED up

StopsContainer(a) ==
    /\ StopContainer(a)
    /\ UNCHANGED <<project, module, status, idle, files, row, upd, raced, pulled>>

\* UPDATE ... 'stopped'; a query that fails ends this stop, and its caller goes on.
StopRow(a) ==
    /\ act[a].at = "row"
    /\ \/ /\ status' = [status EXCEPT ![act[a].cur] = "stopped"]
          /\ idle' = idle \ {act[a].cur}
          /\ act' = [act EXCEPT ![a].at = "mark"]
          /\ UNCHANGED mishaps
       \/ Mishap /\ Stopped(a) /\ UNCHANGED <<status, idle>>
    /\ UNCHANGED <<project, module, up, files, row, upd, lost, raced, pulled>>

Recorded(m) == [stage |-> "recorded", module |-> m, recorded |-> m]
Reads(a, p, patch) ==
    upd' = [upd EXCEPT ![a] = [project |-> p, patch |-> patch, read |-> row[p]]]

UnseenRecording(s) == TRUE
HasRecording(s) == <<project[s], module[s]>> \in files

\* markRecordedIfPresent: fs.access, then update's SELECT.
MarkRecorded(a) ==
    LET s == act[a].cur IN
    /\ act[a].at = "mark"
    /\ IF HasRecording(s)
       THEN /\ Reads(a, project[s], Recorded(module[s]))
            /\ act' = [act EXCEPT ![a].at = "write"]
       ELSE Stopped(a) /\ UNCHANGED upd
    /\ UNCHANGED <<project, module, status, idle, up, files, row, mishaps, lost, raced, pulled>>

-----------------------------------------------------------------------------
(* The workflow row                                                        *)

\* A generation's start names its module, and its end, or a plan saved by hand, that
\* module's recording: whether there is one is looked up for plans only
\* (plan-service.ts:52), and code wants a plan file, which may have been saved by hand.
GenerationPatches(m) == {[module |-> m], [Recorded(m) EXCEPT !.stage = "other"]}

\* The other callers of update: initTemplate and a run, which set the stage;
\* uploadRecording, which writes the file first; generations; a generation that
\* failed, whose patch has none of these fields.
Edit(e, p) ==
    /\ upd[e] = NoUpdate
    /\ \/ \E patch \in {[stage |-> "other"], <<>>} : Reads(e, p, patch) /\ UNCHANGED files
       \/ \E m \in Modules :
            \/ Reads(e, p, Recorded(m)) /\ files' = files \cup {<<p, m>>}
            \/ \E patch \in GenerationPatches(m) : Reads(e, p, patch) /\ UNCHANGED files
    /\ UNCHANGED <<project, module, status, idle, up, row, act, mishaps, lost, raced, pulled>>

\* update's UPDATE writes the row it read with the patch over it.
Write(a) ==
    LET u == upd[a] IN
    /\ u \notin {NoUpdate, DidUpdate}
    /\ row' = [row EXCEPT ![u.project] =
                 [f \in DOMAIN @ |-> IF f \in DOMAIN u.patch THEN u.patch[f] ELSE u.read[f]]]
    /\ upd' = [upd EXCEPT ![a] = IF a \in Editors THEN DidUpdate ELSE NoUpdate]
    /\ IF a \in Actors THEN Stopped(a) ELSE UNCHANGED act
    /\ UNCHANGED <<project, module, status, idle, up, files, mishaps, lost, raced, pulled>>

-----------------------------------------------------------------------------
(* The container, the VNC proxy, the process                               *)

\* codegen writes its output; a container that is gone writes no more.
Records(s) ==
    /\ s \in up /\ <<project[s], module[s]>> \notin files
    /\ files' = files \cup {<<project[s], module[s]>>}
    /\ UNCHANGED <<project, module, status, idle, up, row, act, upd, mishaps, lost, raced, pulled>>

\* GitService.sync: a branch, or a commit pulled, without a recording there was.
\* (Recordings it brings need no row, and are left out.)
Syncs(p, m) ==
    /\ <<p, m>> \in files /\ Mishap
    /\ files' = files \ {<<p, m>>}
    /\ pulled' = pulled \cup {<<p, m>>}
    /\ UNCHANGED <<project, module, status, idle, up, row, act, upd, lost, raced>>

\* The container dies, or Docker restarts.
Exits(s) ==
    /\ s \in up /\ Mishap
    /\ up' = up \ {s}
    /\ lost' = lost \ {s}
    /\ UNCHANGED <<project, module, status, idle, files, row, act, upd, raced, pulled>>

\* RECORDER_IDLE_MS pass without a proxied request ...
Idles(s) ==
    /\ status[s] = "active" /\ s \notin idle
    /\ idle' = idle \cup {s}
    /\ UNCHANGED <<project, module, status, up, files, row, act, upd, mishaps, lost, raced, pulled>>

\* ... until touchSession (a stopped session's activity no longer matters).
TouchSession(s) ==
    /\ s \in idle
    /\ idle' = idle \ {s}
    /\ UNCHANGED <<project, module, status, up, files, row, act, upd, mishaps, lost, raced, pulled>>

\* The server restarts: containers and rows stay, requests are gone. Nothing
\* reconciles at startup.
Crash ==
    /\ Mishap
    /\ lost' = lost \cup {s \in up : act[s].pc = "insert"}
    /\ act' = [a \in Actors |-> IF act[a].pc = "idle" THEN NoAct ELSE
                    [NoAct EXCEPT !.pc = IF a \in Sessions THEN "done" ELSE "stop"]]
    /\ upd' = [a \in Actors \cup Editors |->
                  IF a \in Editors /\ upd[a] # NoUpdate THEN DidUpdate ELSE NoUpdate]
    /\ UNCHANGED <<project, module, status, idle, up, files, row, raced, pulled>>

Next ==
    \/ \E s \in Sessions :
        \/ Start(s) \/ Reconcile(s) \/ ReadsOwn(s) \/ ReconcileAll(s)
        \/ CountGlobal(s) \/ CountProject(s) \/ Launch(s) \/ Insert(s)
        \/ Records(s) \/ Exits(s) \/ Idles(s) \/ TouchSession(s)
        \/ \E a \in Stoppers : Stop(a, s)
    \/ \E a \in Actors :
        \/ StopRead(a) \/ StopsContainer(a) \/ StopRow(a) \/ MarkRecorded(a)
    \/ \E a \in Actors \cup Editors : Write(a)
    \/ \E e \in Editors, p \in Projects : Edit(e, p)
    \/ \E p \in Projects, m \in Modules : Syncs(p, m)
    \/ CleanupIdle
    \/ Crash

\* The timer fires again and again, and what it calls goes on.
Fairness ==
    /\ WF_vars(CleanupIdle)
    /\ WF_vars(StopRead(Cleaner) \/ StopsContainer(Cleaner) \/ StopRow(Cleaner)
               \/ MarkRecorded(Cleaner) \/ Write(Cleaner))

Spec == Init /\ [][Next]_vars
FairSpec == Spec /\ Fairness

-----------------------------------------------------------------------------
TypeOK ==
    /\ project \in [Sessions -> Projects]
    /\ module \in [Sessions -> Modules]
    /\ status \in [Sessions -> {"none", "active", "stopped"}]
    /\ idle \in SUBSET Sessions /\ up \in SUBSET Sessions
    /\ files \in SUBSET (Projects \X Modules)
    /\ row \in [Projects -> Row]
    /\ act \in [Actors -> Act]
    /\ mishaps \in 0..MaxMishaps
    /\ lost \in SUBSET Sessions
    /\ raced \in SUBSET (Projects \cup {None})
    /\ pulled \in SUBSET (Projects \X Modules)

\* The limits hold although they are counted long before the row is inserted
\* (recorder-service.ts:104-164), as long as no two starts overlap from the
\* count to the insert: starts that do are the only way past a limit.
LimitsHold ==
    /\ None \notin raced => Cardinality(Active) <= MaxGlobal
    /\ \A p \in Projects \ raced : Cardinality(ActiveOf(p)) <= MaxPerProject

\* A container never runs unknown: its row is active or its start is about to
\* insert it, whatever stops, reconciles and cleanups overlap, unless a failing
\* call or a crash hid it (recorder-service.ts:58-77, 126-164, 186-198).
ContainersAreKnown ==
    \A s \in up \ lost : status[s] = "active" \/ act[s].pc = "insert"

\* The limits are meant for containers and counted on rows: they bound the containers,
\* since every container has its row or a start that is about to insert it.
SessionsAccounted == LimitsHold /\ ContainersAreKnown

\* A project at stage 'recorded' has the recording its row points at on disk, unless
\* git took it away: whatever stale rows overlapping updates write back, stage and
\* path come together from one recording that was there (recorder-service.ts:207-228,
\* workflow-state-repository.ts:50-83).  The module the row names beside them need
\* not have one: a code generation may have named another since.
RecordedStageHasFile ==
    \A p \in Projects :
        row[p].stage = "recorded" => <<p, row[p].recorded>> \in files \cup pulled

\* A session nobody uses is stopped in the end (cleanupIdle), although each stop
\* may fail half way and the server may restart.
IdleSessionsStop ==
    \A s \in Sessions : (status[s] = "active" /\ s \in idle)
                            ~> (status[s] = "stopped" \/ s \notin idle)
=============================================================================
