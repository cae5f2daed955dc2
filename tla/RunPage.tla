------------------------------ MODULE RunPage ------------------------------
(***************************************************************************)
(* The Playwright dashboard's run page (dashboard/src/pages/RunPage.tsx    *)
(* and its hook useRunWebSocket.ts) against the API server it watches.     *)
(* The page learns of a run by two roads: the events the server pushes to  *)
(* every open socket (run_started, run_finished; ws-hub.ts), and the list  *)
(* of its project's runs, which it fetches every 5 s, whether or not the   *)
(* last answer came.  The socket is opened when the page is mounted and    *)
(* never again: after it is lost only the list is left.  The hub does not  *)
(* look at projects, so the page also hears the runs of other projects.    *)
(*                                                                         *)
(* Of the server this module keeps what the page can tell: the row of each *)
(* run, the slot of its project and the order of row writes and events     *)
(* (run-service.ts); RunService models the run itself.  Left out: log      *)
(* lines and pulses, the VNC preview, the pipeline panel, run options.     *)
(***************************************************************************)
EXTENDS Naturals, Sequences, FiniteSetsExt

CONSTANTS RunIds,         \* the runs, numbered as created
          Owns,         \* the sets of runs that may be the page's project's
          MaxPolls,     \* list answers on their way to the page at once
          MaxWire,      \* events on their way to the page at once
          MaxLosses     \* restarts, lost sockets, broken writes and reloads, together

ASSUME RunPageConstants ==
    /\ IsFiniteSet(RunIds) /\ RunIds \subseteq Nat \ {0} /\ Owns \subseteq SUBSET RunIds
    /\ {MaxPolls, MaxWire} \subseteq Nat \ {0} /\ MaxLosses \in Nat

VARIABLES
    own,        \* the runs of the page's project; the others are of one other
    dbRow,      \* status of the row; for a settled run also its counts
    held,       \* history: the verdicts the row of a run has held
    runPc,      \* how far startRun and executeRun of a run have come; a
                \* verdict while finalizeRun goes on from the row to the event
    slot,       \* activeRunsByProject, per project
    killer,     \* runs whose cancel request is inside finalizeRun
    wire,       \* events sent to the page's socket and not yet handled
    open,       \* is the page's socket open?
    asked,      \* answers of GET /runs on their way to the page
    page,       \* what the page holds
    busy,       \* is the page waiting for its POST /run?
    losses

server == <<own, dbRow, held, runPc, slot, killer>>
pageVars == <<own, dbRow, held, runPc, slot, killer, wire, open, asked, page, busy, losses>>

None == 0
Mine(r) == r \in own          \* names the run's project: the page's, or not
Project(r) == {q \in RunIds : Mine(q) = Mine(r)}

\* What a settled row tells the page: the counts pytest reported, or zeros (a
\* run that was cancelled or whose stream broke before its summary).
Verdicts == {"counts", "zeros"}
NoResult == "none"

PageTypeOK ==
    /\ own \in Owns
    /\ dbRow \in [RunIds -> {"absent", "running"} \cup Verdicts]
    /\ held \in [RunIds -> SUBSET Verdicts]
    /\ runPc \in [RunIds -> {"none", "inserted", "streaming", "over"} \cup Verdicts]
    /\ slot \in [BOOLEAN -> RunIds \cup {None}]
    /\ killer \subseteq RunIds
    /\ wire \in Seq([type : {"run_started", "run_finished"}, run : RunIds,
                     result : Verdicts \cup {NoResult}])
    /\ open \in BOOLEAN
    /\ asked \subseteq [own -> {"absent", "running"} \cup Verdicts]
    /\ page.ref \in RunIds \cup {None} /\ page.runId \in RunIds \cup {None}
    /\ page.running \in BOOLEAN /\ page.result \in Verdicts \cup {NoResult}
    /\ page.runs \in [own -> {"absent", "running"} \cup Verdicts]
    /\ busy \in BOOLEAN
    /\ losses \in 0 .. MaxLosses

-----------------------------------------------------------------------------
(* The page *)

\* The hook's first state, with ref for activeRunIdRef; resetLive returns to it.
Reset(runs) == [ref |-> None, runId |-> None, running |-> FALSE,
                result |-> NoResult, runs |-> runs]

Blank == Reset([r \in own |-> "absent"])

\* activeDbRun: the newest run the list shows running (rows come newest first).
ListedRunning(p) == {r \in own : p.runs[r] = "running"}
ActiveDbRun(p) == IF ListedRunning(p) = {} THEN None ELSE Max(ListedRunning(p))
LiveRunning(p) == p.running \/ ActiveDbRun(p) # None
CurrentRunId(p) == IF p.runId # None THEN p.runId ELSE ActiveDbRun(p)

\* adoptActiveRun: follow a run the list shows, unless it was followed last.  (A
\* run followed before the last one is taken up again if the list is behind.)
Known(p) == p.ref = ActiveDbRun(p)
Adopted(p) ==
    IF p.running \/ ActiveDbRun(p) = None \/ Known(p) THEN p
    ELSE [p EXCEPT !.ref = ActiveDbRun(p), !.runId = ActiveDbRun(p),
                   !.running = TRUE, !.result = NoResult]

\* syncFinishedRun is left to the event.
ListsNothing(p) == FALSE

\* syncFinishedRun: the list shows the followed run settled.
ListsSettled(p) == p.runId \in own /\ p.runs[p.runId] \in Verdicts
Synced(p) == IF p.running /\ ListsSettled(p)
             THEN [p EXCEPT !.running = FALSE, !.result = p.runs[p.runId]] ELSE p

\* The first effect does not depend on running.
RenderedOnce(p) == Synced(Adopted(p))

\* The two effects React runs after a render, and again after the render
\* that the second of them causes.
Rendered(p) == Adopted(Synced(Adopted(p)))

\* run_finished is taken whoever's it is.
FollowsAny(p, m) == p.running

\* onmessage: run_started is taken whoever's run it is, run_finished only
\* for the run followed.
Started(p, m) == [Reset(p.runs) EXCEPT !.ref = m.run, !.runId = m.run, !.running = TRUE]
Follows(p, m) == m.run = p.ref
Finished(p, m) == IF Follows(p, m)
                  THEN [p EXCEPT !.running = FALSE, !.result = m.result] ELSE p

\* listRuns: what the server answers now.
Listed == [r \in own |-> dbRow[r]]

-----------------------------------------------------------------------------
(* The server *)

PageInit ==
    /\ own \in Owns
    /\ dbRow = [r \in RunIds |-> "absent"] /\ held = [r \in RunIds |-> {}]
    /\ runPc = [r \in RunIds |-> "none"]
    /\ slot = [p \in BOOLEAN |-> None]
    /\ killer = {} /\ wire = <<>> /\ open = TRUE
    /\ asked = {} /\ page = Blank /\ busy = FALSE
    /\ losses = 0

\* wsHub.broadcast, as far as this page's socket is concerned.
Broadcast(type, r, result) ==
    /\ Len(wire) < MaxWire
    /\ wire' = IF open THEN Append(wire, [type |-> type, run |-> r, result |-> result])
               ELSE wire

\* startRun up to its inserts: the slot is free and the worker is healthy.
\* The request may be this page's or any other client's.
Insert(r) ==
    /\ runPc[r] = "none" /\ slot[Mine(r)] = None
    /\ \A q \in Project(r) : q < r => runPc[q] # "none"
    /\ dbRow' = [dbRow EXCEPT ![r] = "running"]
    /\ runPc' = [runPc EXCEPT ![r] = "inserted"]
    /\ UNCHANGED <<own, held, slot, killer, wire, open, asked, page, busy, losses>>

\* startRun: the slot is taken, run_started goes out, executeRun is launched.
LaunchRun(r) ==
    /\ runPc[r] = "inserted"
    /\ slot' = [slot EXCEPT ![Mine(r)] = r]
    /\ runPc' = [runPc EXCEPT ![r] = "streaming"]
    /\ Broadcast("run_started", r, NoResult)
    /\ UNCHANGED <<own, dbRow, held, killer, open, asked, page, busy, losses>>

\* finalizeRun writes the row, well before it tells the page.
WriteVerdict(r, v) == /\ dbRow' = [dbRow EXCEPT ![r] = v]
                      /\ held' = [held EXCEPT ![r] = @ \cup {v}]

\* executeRun: the stream ended, or broke, or was aborted.
Settle(r, v) ==
    /\ runPc[r] = "streaming"
    /\ WriteVerdict(r, v)
    /\ runPc' = [runPc EXCEPT ![r] = v]
    /\ UNCHANGED <<own, slot, killer, wire, open, asked, page, busy, losses>>

\* The end of finalizeRun: run_finished goes out, the project's slot is freed.
Tell(r, v) == /\ Broadcast("run_finished", r, v)
              /\ slot' = [slot EXCEPT ![Mine(r)] = None]

SettleEnds(r) ==
    /\ runPc[r] \in Verdicts
    /\ Tell(r, runPc[r])
    /\ runPc' = [runPc EXCEPT ![r] = "over"]
    /\ UNCHANGED <<own, dbRow, held, killer, open, asked, page, busy, losses>>

\* A write between the row and the event fails (job, workflow state,
\* run-meta.json): nobody is told, and the slot stays taken.
SettleBreaks(r) ==
    /\ runPc[r] \in Verdicts /\ losses < MaxLosses
    /\ runPc' = [runPc EXCEPT ![r] = "over"]
    /\ losses' = losses + 1
    /\ UNCHANGED <<own, dbRow, held, slot, killer, wire, open, asked, page, busy>>

\* cancelCurrentRun; its button shows while a run does.  At the server
\* (cancelProjectRun) a run of another project is not found, a settled one is
\* left alone, and one whose stream the server holds is only aborted (Settle):
\* in these cases nothing changes here.  Otherwise the request, which has no
\* stream to end, finalizes the run itself.
CancelCurrentRun ==
    LET r == CurrentRunId(page) IN
    /\ LiveRunning(page)
    /\ r \in own \ killer /\ dbRow[r] = "running" /\ slot[TRUE] # r
    /\ WriteVerdict(r, "zeros")
    /\ killer' = killer \cup {r}
    /\ UNCHANGED <<own, runPc, slot, wire, open, asked, page, busy, losses>>

CancelEnds(r) ==
    /\ r \in killer
    /\ Tell(r, "zeros")
    /\ killer' = killer \ {r}
    /\ UNCHANGED <<own, dbRow, held, runPc, open, asked, page, busy, losses>>

-----------------------------------------------------------------------------
(* The page's steps *)

\* The interval of loadRuns: the server has read the rows, the answer is on
\* its way, and may be overtaken by that of a later poll.
Poll ==
    /\ Cardinality(asked) < MaxPolls
    /\ asked' = asked \cup {Listed}
    /\ UNCHANGED <<server, wire, open, page, busy, losses>>

Answer(list) ==
    /\ list \in asked
    /\ asked' = asked \ {list}
    /\ page' = Rendered([page EXCEPT !.runs = list])
    /\ UNCHANGED <<server, wire, open, busy, losses>>

AnswerLost ==
    /\ \E list \in asked : asked' = asked \ {list}
    /\ UNCHANGED <<server, wire, open, page, busy, losses>>

\* The socket's onmessage, and the render it causes.
Receive ==
    /\ wire # <<>>
    /\ wire' = Tail(wire)
    /\ page' = Rendered(IF Head(wire).type = "run_started" THEN Started(page, Head(wire))
                        ELSE Finished(page, Head(wire)))
    /\ UNCHANGED <<server, open, asked, busy, losses>>

\* startRun of the page; its buttons are disabled while a run shows or a
\* start is under way (busy).
ClickStart ==
    /\ ~busy /\ ~LiveRunning(page)
    /\ page' = Reset(page.runs)
    /\ busy' = TRUE
    /\ UNCHANGED <<server, wire, open, asked, losses>>

\* The POST is answered and loadRuns with it, or one of the two fails.  Which
\* run the server has begun for it is not kept: the page does not ask.
StartAnswered ==
    /\ busy
    /\ page' = Rendered([page EXCEPT !.runs = Listed])
    /\ busy' = FALSE
    /\ UNCHANGED <<server, wire, open, asked, losses>>

StartFails ==
    /\ busy
    /\ busy' = FALSE
    /\ UNCHANGED <<server, wire, open, asked, page, losses>>

\* What was sent before the socket went may still arrive in part.
SocketDies ==
    /\ open' = FALSE
    /\ \E n \in 0 .. Len(wire) : wire' = SubSeq(wire, 1, n)

SocketLost ==
    /\ open /\ losses < MaxLosses
    /\ SocketDies
    /\ losses' = losses + 1
    /\ UNCHANGED <<server, asked, page, busy>>

\* The API server restarts: its streams and requests are gone, the rows stay.
Restart ==
    /\ losses < MaxLosses
    /\ SocketDies
    /\ runPc' = [r \in RunIds |-> IF runPc[r] = "none" THEN "none" ELSE "over"]
    /\ slot' = [p \in BOOLEAN |-> None]
    /\ killer' = {} /\ asked' = {} /\ busy' = FALSE
    /\ losses' = losses + 1
    /\ UNCHANGED <<own, dbRow, held, page>>

\* The page is left and mounted again: a new hook and a new socket.
Reload ==
    /\ losses < MaxLosses
    /\ page' = Blank /\ open' = TRUE
    /\ wire' = <<>> /\ asked' = {} /\ busy' = FALSE
    /\ losses' = losses + 1
    /\ UNCHANGED server

Serve(r) ==
    \/ Insert(r) \/ LaunchRun(r)
    \/ \E v \in Verdicts : Settle(r, v)
    \/ SettleEnds(r) \/ SettleBreaks(r) \/ CancelEnds(r)

PageNext ==
    \/ \E r \in RunIds : Serve(r)
    \/ Poll \/ AnswerLost \/ Receive
    \/ \E list \in asked : Answer(list)
    \/ CancelCurrentRun \/ ClickStart \/ StartAnswered \/ StartFails
    \/ SocketLost \/ Restart \/ Reload

PageSpec == PageInit /\ [][PageNext]_pageVars

\* The interval fires for ever, requests are answered or fail, and a list that
\* is still true when it arrives is received if that goes on happening.
CurrentAnswer == Listed \in asked /\ Answer(Listed)
PageFairSpec == /\ PageSpec
            /\ WF_pageVars(Poll)
            /\ WF_pageVars(AnswerLost \/ \E list \in asked : Answer(list))
            /\ SF_pageVars(CurrentAnswer)

-----------------------------------------------------------------------------
(* Properties *)

\* The counts on the page are counts the row of the run it names has held: no
\* other run's, whoever's events came in between (activeRunIdRef, and runId
\* beside it); and, since a run is as a rule settled once, the row's own.
ResultIsOfItsRun ==
    page.result # NoResult => page.runId # None /\ page.result \in held[page.runId]

\* Whatever events, overtaken lists, clicks and reloads come together, the page does
\* not contradict the list it holds.  A run the list shows settled is not shown as
\* running, even if run_started comes after it (a cancel before the launch): a run
\* taken up again from an overtaken list is dropped with the next list that is true.
\* And a run the list shows at work is not hidden behind an older result: the page
\* follows it, or another that runs, or has heard that very run's end.
PageAgreesWithList ==
    /\ page.running => ~ListsSettled(page)
    /\ ActiveDbRun(page) # None => page.running \/ page.runId = ActiveDbRun(page)

\* A run of this project that is settled does not stay on the page as running,
\* whatever became of the socket, the event and the server: the list tells.
ShowsSettledAsRunning == page.running /\ page.runId \in own /\ dbRow[page.runId] \in Verdicts
SettledRunLeaves == []<>~ShowsSettledAsRunning

=============================================================================
