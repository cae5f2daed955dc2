-------------------------- MODULE MondayDashboard --------------------------
(***************************************************************************)
(* One page of the dashboard of ai-auto-test-monday: App.tsx, its web      *)
(* socket hook usePipelineWebSocket.ts, the API's socket hub, and the      *)
(* requests between them.                                                  *)
(*                                                                         *)
(* The page selects a run, shows its row (activeRun) and its progress, and *)
(* listens to its socket while `loading'.  A socket is subscribed to the   *)
(* run's events and, at the same time, sent a snapshot read by             *)
(* getPipelineRun.  Events are published once, to whoever is subscribed.   *)
(*                                                                         *)
(* The rows and workflows are those of MondayPipeline, reduced to what a   *)
(* page can see: a run generates, then executes its journeys.  Runs that   *)
(* only generate (usePipelineWebSocket.ts:182-197 reads their last event   *)
(* with a table of agents of its own) are left out.                        *)
(***************************************************************************)
EXTENDS Naturals, Sequences

CONSTANTS
    MaxRuns,        \* bound on the runs of the project
    Clicks,         \* what the user does: a subset of UserOps
    MaxReconnects,  \* reconnections in a row (10)
    MaxEvents       \* bound on what the user does and on events, together:
                    \* dropped sockets, events, queries and requests, failed
                    \* snapshots, and retried agents

UserOps == {"start", "execute", "resume", "cancel", "load", "clear"}

RunIds      == 1 .. MaxRuns \* numbered as they start
NoSelection == 0            \* no run is selected

ASSUME MondayDashboardAssumption ==
    /\ Clicks \subseteq UserOps
    /\ {MaxRuns, MaxReconnects, MaxEvents} \subseteq Nat

VARIABLES
    srv,      \* [RunIds -> Server]
    page,     \* what the page shows
    sock,     \* its web socket
    calls,    \* the requests in flight: getPipelineRun after an end, the
              \* loading of a run, and the posts
    events,   \* user actions and events so far
    missed    \* history: the page was told a run is at work after the run's
              \* last event was published, or that event was lost to it, or
              \* the snapshot that would have told of it could not be read

dashboardVars == <<srv, page, sock, calls, events, missed>>

-----------------------------------------------------------------------------
\* An execution that is over has completed or failed: only a cancellation
\* tells the two apart.  "failed" is the generation's.
Ended    == {"over", "failed", "cancelled"}
RunRow   == [status : {"none", "running"} \cup Ended,
             exec : {"null", "pending", "running", "over"}]
\* The workflow: generating; its agent failed, before and after the row says so;
\* executing; over but for the publication; over but for its own return.
\* A cancelled workflow halts: its activity runs on for a while.
WfAtWork == {"gen", "genTold", "genMarked", "lead", "leadDone", "leadTold", "halting"}
Server   == [row : RunRow, wf : {"none", "ended"} \cup WfAtWork]

NoServer == [row |-> [status |-> "none", exec |-> "null"], wf |-> "none"]

\* What a page can tell apart: a row that is over, however, and one that is
\* executing or about to; a progress (PipelineProgressView) that is over, and
\* the one whose current agent is continuityLead.
Act      == [status : {"none", "running", "over"}, busy : BOOLEAN]
ProgressView == {"null", "running", "lead", "over"}
NoAct    == [status |-> "none", busy |-> FALSE]
Shown(row) == [status |-> IF row.status \in Ended THEN "over" ELSE row.status,
               busy |-> row.exec \in {"pending", "running"}]
Page     == [sel : RunIds \cup {NoSelection}, loading : BOOLEAN, act : Act,
             prog : ProgressView \ {"lead"}, ws : ProgressView]

\* An answer of getPipelineRun.
SeenRun  == [act : Act, prog : ProgressView, active : BOOLEAN]
NotRead  == [act |-> NoAct, prog |-> "null", active |-> FALSE]
Message  == [type : {"snapshot", "running", "lead", "over"}, seen : SeenRun]
NoSocket == [run |-> NoSelection, st |-> "none", sub |-> FALSE, snap |-> "unread",
             seen |-> NotRead, queue |-> <<>>, tries |-> 0]

Call     == [op : {"ended"} \cup UserOps, run : RunIds \cup {NoSelection},
             pc : {"sent", "answered", "shown", "refused"}, seen : SeenRun]

\* A page is opened on a project with a run under way.
DashboardInit ==
    /\ srv = [[r \in RunIds |-> NoServer] EXCEPT ![1] =
                 [row |-> [status |-> "running", exec |-> "pending"], wf |-> "gen"]]
    /\ page = [sel |-> NoSelection, loading |-> FALSE, act |-> NoAct, prog |-> "null",
               ws |-> "null"]
    /\ sock = NoSocket
    /\ calls = {}
    /\ events = 0
    /\ missed = FALSE

Event == events < MaxEvents /\ events' = events + 1

-----------------------------------------------------------------------------
(* The server                                                              *)

RowActive(row) == row.status = "running" \/ row.exec = "running"

\* What getPipelineRun answers: the progress of the workflow, if Temporal could
\* be asked, overruled by an ended execution and by a row
\* that is active (mergeExecuteProgress, coerceActiveRunProgress).
Told(r) == srv[r].wf \in {"genTold", "genMarked", "leadTold", "halting", "ended"}
Answer(r, asked) ==
    LET row  == srv[r].row
        live == CASE ~asked -> "null"
                  [] srv[r].wf \in {"gen", "genTold", "genMarked", "halting"} -> "running"
                  [] srv[r].wf \in {"lead", "leadDone", "leadTold"} -> "lead"
                  [] OTHER -> "over"
    IN [act |-> Shown(row), active |-> RowActive(row),
        prog |-> CASE row.exec = "over" -> "over"
                   [] row.exec = "running" -> "lead"
                   [] RowActive(row) /\ live \in {"null", "over"} -> "running"
                   [] OTHER -> live]

\* mergePipelineProgress: live progress that is running or over wins.
Merged(live) == IF live = "lead" THEN "running" ELSE live

SaysActive(seen) == seen.active \/ seen.prog \in {"running", "lead"}

\* hub.ts: an event reaches the page when its socket is subscribed.
Hears(r) == sock.run = r /\ sock.st = "open" /\ sock.sub
\* A last event that only a snapshot could have announced.
Misses(r) == /\ sock.run = r /\ sock.st = "open" /\ ~sock.sub
             /\ sock.snap = "sent" \/ (sock.snap = "read" /\ SaysActive(sock.seen))

Last(t) == t = "over"
Message0(t) == [type |-> t, seen |-> NotRead]
Publish(r, t) ==
    \/ /\ sock' = IF Hears(r) THEN [sock EXCEPT !.queue = Append(@, Message0(t))]
                              ELSE sock
       /\ missed' = (missed \/ (Last(t) /\ Misses(r)))
       /\ UNCHANGED events
    \/ /\ Hears(r) /\ Event                       \* Redis does not take it
       /\ missed' = (missed \/ Last(t))
       /\ UNCHANGED sock

Set(r, status, exec, wf) ==
    srv' = [srv EXCEPT ![r] = [row |-> [status |-> status, exec |-> exec], wf |-> wf]]

\* The generation agents, as one.
GenEnds(r) ==
    /\ srv[r].wf = "gen"
    /\ \/ Set(r, srv[r].row.status, "running", "lead") /\ Publish(r, "lead")
       \/ Set(r, srv[r].row.status, srv[r].row.exec, "genTold")
          /\ Publish(r, "over")
    /\ UNCHANGED <<page, calls>>

\* The failed agent finalizes the row, and Temporal tries it again or not.
GenMarks(r) ==
    /\ srv[r].wf = "genTold"
    /\ Set(r, "failed", srv[r].row.exec, "genMarked")
    /\ UNCHANGED <<page, sock, calls, events, missed>>

GenFails(r) ==
    /\ srv[r].wf = "genMarked"
    /\ Set(r, "failed", srv[r].row.exec, "ended")
    /\ UNCHANGED <<page, sock, calls, events, missed>>

GenRetries(r) ==
    /\ srv[r].wf = "genMarked" /\ Event
    /\ Set(r, srv[r].row.status, srv[r].row.exec, "gen")
    /\ sock' = IF Hears(r) THEN [sock EXCEPT !.queue = Append(@, Message0("running"))]
                           ELSE sock
    /\ UNCHANGED <<page, calls, missed>>

\* continuityLead writes the row, publishes, and returns to its workflow.
LeadEnds(r) ==
    /\ srv[r].wf = "lead"
    /\ Set(r, "over", "over", "leadDone")
    /\ UNCHANGED <<page, sock, calls, events, missed>>

LeadTells(r) ==
    /\ srv[r].wf = "leadDone"
    /\ Set(r, srv[r].row.status, srv[r].row.exec, "leadTold")
    /\ Publish(r, "over")
    /\ UNCHANGED <<page, calls>>

LeadReturns(r) ==
    /\ srv[r].wf = "leadTold"
    /\ Set(r, srv[r].row.status, srv[r].row.exec, "ended")
    /\ UNCHANGED <<page, sock, calls, events, missed>>

\* The activity of a cancelled workflow is aborted.  MondayPipeline has what it
\* may still write.
Halts(r) ==
    /\ srv[r].wf = "halting"
    /\ Set(r, srv[r].row.status, srv[r].row.exec, "ended")
    /\ UNCHANGED <<page, sock, calls, events, missed>>

\* The handlers of the posts.
Refuse(c) ==
    /\ calls' = (calls \ {c}) \cup {[c EXCEPT !.pc = "refused"]}
    /\ UNCHANGED <<srv, sock, events, missed>>
Accept(c, r) == calls' = (calls \ {c}) \cup {[c EXCEPT !.pc = "answered", !.run = r]}

HandleStart(c) ==
    IF \E r \in RunIds : srv[r].row.status = "running"
    THEN Refuse(c)
    ELSE \E r \in RunIds :
           /\ srv[r].row.status = "none" /\ \A q \in 1 .. r - 1 : srv[q].row.status # "none"
           /\ Set(r, "running", "pending", "gen") /\ Accept(c, r)
           /\ UNCHANGED <<sock, events, missed>>

HandleExecute(c) ==
    IF RowActive(srv[c.run].row) \/ srv[c.run].wf \in WfAtWork
    THEN Refuse(c)
    ELSE /\ Set(c.run, srv[c.run].row.status, "running", "lead")
         /\ Publish(c.run, "lead") /\ Accept(c, c.run)

HandleResume(c) ==
    IF (\E r \in RunIds : RowActive(srv[r].row)) \/ srv[c.run].wf \in WfAtWork
    THEN Refuse(c)
    ELSE /\ Set(c.run, "running", "pending", "gen")
         /\ Publish(c.run, "running") /\ Accept(c, c.run)

HandleCancel(c) ==
    \/ srv[c.run].row.status = "over" /\ Refuse(c)      \* completed
    \/ /\ Set(c.run, "cancelled", "null",
              IF srv[c.run].wf \in WfAtWork THEN "halting" ELSE "ended")
       /\ Publish(c.run, "over") /\ Accept(c, c.run)

Handle(c) ==
    /\ c.pc = "sent"
    /\ \/ c.op = "start" /\ HandleStart(c)
       \/ c.op = "execute" /\ HandleExecute(c)
       \/ c.op = "resume" /\ HandleResume(c)
       \/ c.op = "cancel" /\ HandleCancel(c)
       \/ /\ c.op \in {"ended", "load"}
          /\ \E asked \in BOOLEAN : LET a == Answer(c.run, asked) IN
                /\ IF asked THEN UNCHANGED events ELSE c.op = "load" /\ Event
                /\ calls' = (calls \ {c}) \cup
                             {[c EXCEPT !.pc = "answered", !.run = NoSelection,
                                !.seen = IF c.op = "load"
                                         THEN [a EXCEPT !.prog = Merged(@), !.active = SaysActive(a)]
                                         ELSE [NotRead EXCEPT !.act = a.act]]}
          /\ UNCHANGED <<srv, sock, missed>>
    /\ UNCHANGED page

-----------------------------------------------------------------------------
(* The page                                                                *)

\* The page renders p and runs its effects, in one step: React may run them a
\* moment after a change made behind an await (App.tsx:833 sets the run so), and
\* a message that comes in that moment is not modelled.  The effect on wsProgress runs when the hook has set it
\* or another run is selected; the hook's effect closes the socket when nothing
\* is loading, and opens another when the run changes or loading begins.
EndedCall(r) == [op |-> "ended", run |-> r, pc |-> "sent", seen |-> NotRead]

Effect(p) ==
    [p EXCEPT !.prog = Merged(p.ws),
              !.act.busy = @ \/ (p.ws = "lead" /\ p.act # NoAct),
              !.loading = @ /\ ~(p.ws = "over" /\ p.sel = NoSelection)]

\* The hook's effect does not depend on the run.
KeepsOldSocket(q, s) ==
    IF q.sel = NoSelection \/ ~q.loading THEN NoSocket
    ELSE IF ~page.loading THEN [NoSocket EXCEPT !.run = q.sel, !.st = "open"] ELSE s

\* The socket the hook keeps, closes or opens for the page as rendered.
Listen(q, s) ==
    IF q.sel = NoSelection \/ ~q.loading THEN NoSocket
    ELSE IF q.sel # page.sel \/ ~page.loading
         THEN [NoSocket EXCEPT !.run = q.sel, !.st = "open"]
         ELSE s

Render(p, wsSet, s, cs) ==
    LET runs == p.ws # "null" /\ (wsSet \/ p.sel # page.sel)
        q    == IF runs THEN Effect(p) ELSE p
    IN /\ page' = q
       /\ sock' = Listen(q, s)
       /\ calls' = cs \cup (IF runs /\ p.ws = "over" /\ p.sel # NoSelection
                            THEN {EndedCall(p.sel)} ELSE {})

Show(p, cs) == Render(p, FALSE, sock, cs) /\ UNCHANGED <<srv, events, missed>>

\* What the user does.
RunFinished == page.act.status = "over" \/ page.prog = "over"
Click(op, p, cs) ==
    /\ op \in Clicks /\ Event
    /\ Render(p, FALSE, sock, cs) /\ UNCHANGED <<srv, missed>>
Post(op) == calls \cup {[op |-> op, run |-> page.sel, pc |-> "sent", seen |-> NotRead]}

StartPipeline ==
    /\ ~page.loading /\ \E r \in RunIds : srv[r].row.status = "none"
    /\ Click("start", [page EXCEPT !.loading = TRUE, !.prog = "null"], Post("start"))

RunExecuteOnly ==
    /\ page.sel # NoSelection /\ ~page.loading /\ RunFinished
    /\ ~page.act.busy
    /\ Click("execute", [page EXCEPT !.loading = TRUE], Post("execute"))

RunResumeFromAgent ==
    /\ page.sel # NoSelection /\ ~page.loading /\ RunFinished /\ page.act.status # "running"
    /\ Click("resume", [page EXCEPT !.loading = TRUE], Post("resume"))

CancelPipeline ==
    /\ page.sel # NoSelection /\ page.loading
    /\ Click("cancel", page, Post("cancel"))

LoadHistoricalRun ==
    \E r \in RunIds :
        /\ srv[r].row.status # "none"
        /\ Click("load", [page EXCEPT !.sel = r],
                 calls \cup {[op |-> "load", run |-> r, pc |-> "sent", seen |-> NotRead]})

ClearRunViewState ==
    /\ page.sel # NoSelection
    /\ Click("clear", [page EXCEPT !.sel = NoSelection, !.prog = "null", !.act = NoAct,
                                   !.loading = FALSE], calls)

\* The answers.
OnAnswer(c) ==
    LET rest == calls \ {c}
        quit == [page EXCEPT !.loading = FALSE]
        p    == page
    IN    \/ /\ c.op = "ended" /\ c.pc = "answered"
             /\ Show([quit EXCEPT !.act = c.seen.act], rest)
          \/ /\ c.op = "ended" /\ c.pc = "refused"
             /\ Show([quit EXCEPT !.act.status = IF p.act = NoAct THEN @ ELSE "over"], rest)
          \/ /\ c.op = "load" /\ c.pc = "answered"        \* then the artifact list
             /\ Show([p EXCEPT !.act = c.seen.act,
                               !.prog = IF c.seen.prog = "null" THEN @ ELSE c.seen.prog],
                     rest \cup {[c EXCEPT !.pc = "shown",
                                   !.seen = [NotRead EXCEPT !.active = c.seen.active]]})
          \/ /\ c.op = "load" /\ c.pc = "shown"
             /\ Show([p EXCEPT !.loading = c.seen.active], rest)
          \/ /\ c.op \in {"load", "start", "execute", "resume"} /\ c.pc = "refused"
             /\ Show(quit, rest)
          \/ /\ c.op = "start" /\ c.pc = "answered"
             /\ Show([p EXCEPT !.sel = c.run,
                               !.act = [status |-> "running", busy |-> FALSE]], rest)
          \/ /\ c.op = "execute" /\ c.pc = "answered"
             /\ Show([p EXCEPT !.act = [status |-> IF @ = NoAct THEN "over" ELSE @.status,
                                        busy |-> TRUE],
                               !.prog = "running"], rest)
          \/ /\ c.op = "resume" /\ c.pc = "answered"
             /\ Show([p EXCEPT !.act.status = "running", !.prog = "running"], rest)
          \/ /\ c.op = "cancel" /\ c.pc = "answered"
             /\ Show([p EXCEPT !.prog = IF @ = "null" THEN @ ELSE "over"],
                     rest \cup {EndedCall(c.run)})
          \/ /\ c.op = "cancel" /\ c.pc = "refused"
             /\ Show(p, rest)

\* The network takes a request or its answer.
Loses(c) ==
    /\ c.pc \in {"sent", "answered"} /\ Event
    /\ calls' = (calls \ {c}) \cup {[c EXCEPT !.pc = "refused"]}
    /\ UNCHANGED <<srv, page, sock, missed>>

-----------------------------------------------------------------------------
(* The socket                                                              *)

SockFrame == UNCHANGED <<srv, page, calls>>

\* onclose: with backoff, up to MaxReconnects times in a row.
Drops ==
    /\ sock.st = "open" /\ Event
    /\ sock' = [NoSocket EXCEPT !.run = sock.run,
                   !.st = IF sock.tries >= MaxReconnects THEN "off" ELSE "retry",
                   !.tries = IF sock.tries >= MaxReconnects THEN @ ELSE sock.tries + 1]
    /\ SockFrame /\ UNCHANGED missed

\* A connection made anew that brings only what is published from now on.
ReconnectsQuietly ==
    /\ sock.st = "retry"
    /\ sock' = [sock EXCEPT !.st = "open", !.snap = "sent"]
    /\ SockFrame /\ UNCHANGED <<events, missed>>

Reconnects ==
    /\ sock.st = "retry"
    /\ sock' = [sock EXCEPT !.st = "open"]
    /\ SockFrame /\ UNCHANGED <<events, missed>>

\* The server accepts the connection (onopen), subscribes the socket and reads
\* the run, side by side.
Subscribes ==
    /\ sock.st = "open" /\ ~sock.sub
    /\ sock' = [sock EXCEPT !.sub = TRUE, !.tries = 0]
    /\ SockFrame /\ UNCHANGED <<events, missed>>

ReadsSnapshot ==
    /\ sock.st = "open" /\ sock.snap = "unread"
    /\ \E asked \in BOOLEAN : LET a == Answer(sock.run, asked) IN
          /\ IF asked THEN UNCHANGED events ELSE Event
          /\ sock' = [sock EXCEPT !.snap = "read", !.seen = a, !.tries = 0]
          /\ missed' = (missed \/ (Told(sock.run) /\ SaysActive(a)))
    /\ SockFrame

\* getPipelineRun throws, and the socket stays open without a snapshot.
SnapshotFails ==
    /\ sock.st = "open" /\ sock.snap = "unread" /\ Event
    /\ sock' = [sock EXCEPT !.snap = "sent", !.tries = 0]
    /\ missed' = (missed \/ Told(sock.run))
    /\ SockFrame

SendsSnapshot ==
    /\ sock.st = "open" /\ sock.snap = "read"
    /\ sock' = [sock EXCEPT !.snap = "sent", !.seen = NotRead,
                   !.queue = Append(@, [type |-> "snapshot", seen |-> sock.seen])]
    /\ SockFrame /\ UNCHANGED <<events, missed>>

\* onmessage.
OnRunSnapshot(seen) ==
    LET shown == [page EXCEPT !.act = seen.act,
                     !.prog = IF seen.prog = "null" \/ (seen.active /\ seen.prog = "over")
                              THEN @ ELSE Merged(seen.prog),
                     !.ws = IF seen.prog = "null" THEN @ ELSE seen.prog,
                     !.loading = @ \/ SaysActive(seen)]
    IN Render(shown, seen.prog # "null", [sock EXCEPT !.queue = Tail(@)],
              IF SaysActive(seen) THEN calls ELSE calls \cup {EndedCall(page.sel)})

OnEvent(t) ==
    Render([page EXCEPT !.ws = t], TRUE, [sock EXCEPT !.queue = Tail(@)],
           IF t = "over" THEN calls \cup {EndedCall(page.sel)} ELSE calls)

Receives ==
    /\ sock.queue # <<>>
    /\ LET m == Head(sock.queue) IN
          \/ m.type = "snapshot" /\ OnRunSnapshot(m.seen)
          \/ m.type # "snapshot" /\ OnEvent(m.type)
    /\ UNCHANGED <<srv, events, missed>>

-----------------------------------------------------------------------------
ServerStep == \E r \in RunIds : GenEnds(r) \/ GenMarks(r) \/ GenFails(r) \/ LeadEnds(r)
                                 \/ LeadTells(r) \/ LeadReturns(r) \/ Halts(r)
CallStep == \E c \in calls : Handle(c) \/ OnAnswer(c)
SocketStep == \/ Reconnects \/ Subscribes \/ ReadsSnapshot \/ SendsSnapshot
              \/ Receives
Faults == Drops \/ SnapshotFails \/ (\E c \in calls : Loses(c)) \/ \E r \in RunIds : GenRetries(r)
Users == \/ StartPipeline \/ RunExecuteOnly \/ RunResumeFromAgent \/ CancelPipeline
         \/ LoadHistoricalRun \/ ClearRunViewState

DashboardNext == ServerStep \/ CallStep \/ SocketStep \/ Faults \/ Users

DashboardSpec == DashboardInit /\ [][DashboardNext]_dashboardVars

\* The worker, the API, the network and the browser go on; nobody has to click,
\* and nothing has to fail.
DashboardFairSpec == /\ DashboardSpec
                     /\ WF_dashboardVars(ServerStep)
                     /\ WF_dashboardVars(CallStep)
                     /\ WF_dashboardVars(SocketStep)

-----------------------------------------------------------------------------
DashboardTypeOK ==
    /\ srv \in [RunIds -> Server]
    /\ page \in Page
    /\ sock.run \in RunIds \cup {NoSelection} /\ sock.sub \in BOOLEAN /\ sock.seen \in SeenRun
    /\ \A i \in 1 .. Len(sock.queue) : sock.queue[i] \in Message
    /\ \A c \in calls : c \in Call
    /\ events \in 0 .. MaxEvents
    /\ missed \in BOOLEAN

\* A page that waits for its run stops waiting, unless the run's last event was
\* kept from it while its socket was open, the snapshot sent after that event
\* could not be read (index.ts:63-65 sends none then), or it gave up
\* reconnecting: what is missed while the socket is down comes back with the
\* snapshot of the next connection.  (A page left
\* with no run by clearRunViewState can be made to wait for ever by the answer
\* to a load it has forgotten.)
WatchEnds ==
    page.loading ~> \/ ~page.loading \/ page.sel = NoSelection
                    \/ missed \/ sock.st = "off"

\* The socket a page listens to is that of the run it shows: no message of
\* another run is ever waiting to be applied to it.
ListensToItsRun == sock.st # "none" => page.loading /\ sock.run = page.sel
=============================================================================
