------------------------ MODULE MondayPipelineProofs ------------------------
(***************************************************************************)
(* Machine-checked theorems about MondayPipeline, for any numbers of runs, *)
(* requests, pollers, retries and mishaps: types, that two workflows are   *)
(* not at work together, and what polling does to a run over; and, in the  *)
(* second half, about MondayDashboard, for any numbers of runs, clicks and *)
(* mishaps: which run the page's socket is for.                            *)
(***************************************************************************)
EXTENDS MondayPipeline, MondayDashboard, TLAPS

-----------------------------------------------------------------------------
(* The invariant                                                            *)

\* Everything but the counters and what nobody reads.
Typed ==
    /\ row \in [Runs -> Row] /\ wf \in [Runs -> [Kinds -> Workflow]]
    /\ orphans \in [Runs -> SUBSET Orphan]
    /\ req \in [Requests -> Request] /\ poll \in [Pollers -> Poll]
    /\ raced \subseteq Runs /\ mishaps \in Nat

\* The requests that may still start a workflow, and those of them that have looked at the
\* other runs of the project.
Claiming == {"select", "assert", "mark", "update", "launch"}
Claims(q, r) == req[q].pc \in Claiming /\ req[q].run = r
Past(q) == req[q].pc \in {"assert", "mark", "update", "launch"} /\ req[q].op # "execute"

\* What a request carries from one step to the next.
ReqOk(q) ==
    LET n == req[q]
    IN  /\ n.pc \notin {"idle", "done"} => n.run \in Runs
        /\ n.pc \in Claiming \cup {"restore"} =>
              \/ n.op = "start" /\ n.kind = "main" /\ n.pc # "restore"
              \/ n.op = "execute" /\ n.kind = "execute" /\ n.pc \in {"update", "launch", "restore"}
              \/ n.op = "resume" /\ n.kind \in Resumes
        /\ n.pc = "mark" => /\ n.stale \in Runs /\ row[n.stale].status # "none"
                            /\ n.verdict \in {"completed", "failed"}
        /\ \A t \in n.todo : row[t.run].status # "none"
        /\ n.pc \in {"update", "launch"} => n.todo = {}
        /\ n.pc \in Claiming \cup {"restore"} /\ n.op # "start" =>
              row[n.run].status # "none" /\ n.seen.status # "none"
        /\ n.pc \in {"launch", "write"} => row[n.run].status # "none"
PollOk(p) == poll[p].pc # "idle" => poll[p].run \in Runs /\ row[poll[p].run].status # "none"

\* A run without a row has nothing but the start that names it.
Fresh(r) == row[r].status = "none" => orphans[r] = {} /\ \A k \in Kinds : wf[r][k].st = "absent"

\* One request or one workflow at a time.
Alone(r) == r \notin raced =>
    /\ \A q, o \in Requests : Claims(q, r) /\ Claims(o, r) => q = o
    /\ \A q \in Requests : Claims(q, r) => ~AtWork(r)
    /\ \A q \in Requests : Claims(q, r) /\ req[q].op = "start" =>
          \A k \in Kinds : wf[r][k].st = "absent"
    /\ \A k, o \in Kinds : IsOpen(r, k) /\ IsOpen(r, o) => k = o

\* A request that has looked at the other runs knows the workflows it must still ask about.
Project == raced = {} =>
    /\ \A q, o \in Requests : Past(q) /\ Past(o) => q = o
    /\ \A q \in Requests, r \in Runs, k \in Kinds \ {"execute"} :
          Past(q) /\ r # req[q].run /\ IsOpen(r, k) =>
              \E t \in req[q].todo : t.run = r /\ k \in Named(t.overlay)
    /\ \A r, o \in Runs : \A k, l \in Kinds \ {"execute"} :
          IsOpen(r, k) /\ IsOpen(o, l) => r = o

\* Where the columns of a row come from as long as nothing goes wrong.
Launching(r) == {q \in Requests : req[q].pc = "launch" /\ req[q].run = r}
NoRestore(r) == \A q \in Requests : req[q].run = r => req[q].pc # "restore"
MainThere(r) == row[r].status # "none" =>
    \/ wf[r]["main"].st # "absent"
    \/ \E q \in Launching(r) : req[q].op = "start"
OverlayThere(r) == row[r].overlay \in Resumes =>
    \/ wf[r][row[r].overlay].st # "absent"
    \/ \E q \in Launching(r) : req[q].kind = row[r].overlay
ExecuteColumn(r) ==
    /\ row[r].overlay = "execute" => row[r].exec \in {"running", "completed", "failed"}
    /\ \A q \in Launching(r) : req[q].op = "execute" => row[r].exec # "pending"
Working(r) ==
    \/ \E k \in Kinds : IsOpen(r, k) /\ wf[r][k].pc \in {"begin", "run"}
    \/ \E o \in orphans[r] : o.pc \in {"begin", "run"}
ExecRunning(r) == row[r].exec = "running" =>
    Working(r) \/ \E q \in Launching(r) : req[q].kind \in {"execute", "resumeLead"}
MainOnItsWay(r) ==
    \/ /\ IsOpen(r, "main") /\ wf[r]["main"].after
       /\ wf[r]["main"].pc \in {"gen", "generated", "failing", "begin"}
    \/ wf[r]["main"].st \in {"failed", "cancelled", "partial"}
ExecPending(r) == row[r].exec = "pending" /\ row[r].overlay = "null" =>
    /\ wf[r]["execute"].st = "absent"
    /\ MainOnItsWay(r) \/ \E q \in Launching(r) : req[q].op = "start" /\ req[q].after
Columns(r) == /\ NoRestore(r) /\ MainThere(r) /\ OverlayThere(r) /\ ExecuteColumn(r)
              /\ ExecRunning(r) /\ ExecPending(r)
ColumnsInv == mishaps = 0 => \A r \in Runs \ raced : Columns(r)

Inv == /\ Typed /\ (\A q \in Requests : ReqOk(q)) /\ (\A p \in Pollers : PollOk(p))
       /\ (\A r \in Runs : Fresh(r) /\ Alone(r)) /\ Project /\ ColumnsInv

-----------------------------------------------------------------------------
(* How the parts of the state move                                          *)

LEMMA KindFacts ==
    /\ Kinds = {"main", "execute", "resumeGen", "resumeLead"}
    /\ Resumes = {"resumeGen", "resumeLead"} /\ Open = {"running", "cancelling"}
BY DEF Kinds, Resumes, Open

LEMMA WfSet ==
    ASSUME Typed, NEW r \in Runs, NEW k \in Kinds, NEW w \in Workflow,
           wf' = [wf EXCEPT ![r][k] = w]
    PROVE  /\ wf' \in [Runs -> [Kinds -> Workflow]] /\ wf'[r][k] = w
           /\ \A l \in Kinds \ {k} : wf'[r][l] = wf[r][l]
           /\ \A o \in Runs \ {r} : wf'[o] = wf[o]
BY DEF Typed

LEMMA WfPc ==
    ASSUME Typed, NEW r \in Runs, NEW k \in Kinds, NEW p \in ActPc,
           wf' = [wf EXCEPT ![r][k].pc = p]
    PROVE  /\ wf' \in [Runs -> [Kinds -> Workflow]]
           /\ wf'[r][k].pc = p /\ wf'[r][k].st = wf[r][k].st
           /\ wf'[r][k].after = wf[r][k].after
           /\ \A l \in Kinds \ {k} : wf'[r][l] = wf[r][l]
           /\ \A o \in Runs \ {r} : wf'[o] = wf[o]
<1> DEFINE w == [wf[r][k] EXCEPT !.pc = p]
           f == [wf[r] EXCEPT ![k] = w]
<1>1. wf' = [wf EXCEPT ![r] = f]
    OBVIOUS
<1>2. wf \in [Runs -> [Kinds -> Workflow]] /\ wf[r] \in [Kinds -> Workflow] /\ wf[r][k] \in Workflow
    BY DEF Typed
<1>3. w \in Workflow /\ w.pc = p /\ w.st = wf[r][k].st
    BY <1>2 DEF Workflow
<1>4. w.after = wf[r][k].after
    BY <1>2 DEF Workflow
<1> HIDE DEF w
<1>5. f \in [Kinds -> Workflow] /\ f[k] = w /\ \A l \in Kinds \ {k} : f[l] = wf[r][l]
    BY <1>2, <1>3
<1> HIDE DEF f
<1>6. /\ wf' \in [Runs -> [Kinds -> Workflow]] /\ wf'[r] = f
      /\ \A o \in Runs \ {r} : wf'[o] = wf[o]
    BY <1>1, <1>2, <1>5
<1> QED
    BY <1>3, <1>4, <1>5, <1>6

LEMMA ClosedType ==
    ASSUME NEW st \in WfState
    PROVE  /\ [NoWorkflow EXCEPT !.st = st] \in Workflow
           /\ [NoWorkflow EXCEPT !.st = st].st = st /\ [NoWorkflow EXCEPT !.st = st].pc = "none"
BY DEF NoWorkflow, Workflow, ActPc, WfState

LEMMA CloseMove ==
    ASSUME Typed, NEW r \in Runs, NEW k \in Kinds, NEW st \in WfState \ Open, st # "absent",
           Close(r, k, st)
    PROVE  /\ wf' \in [Runs -> [Kinds -> Workflow]] /\ wf'[r][k].st = st
           /\ \A l \in Kinds \ {k} : wf'[r][l] = wf[r][l]
           /\ \A o \in Runs \ {r} : wf'[o] = wf[o]
<1> DEFINE w == [NoWorkflow EXCEPT !.st = st]
<1>1. wf' = [wf EXCEPT ![r][k] = w] /\ w \in Workflow /\ w.st = st
    BY ClosedType DEF Close
<1> HIDE DEF w
<1> QED
    BY <1>1, WfSet

LEMMA RowSet ==
    ASSUME Typed, NEW r \in Runs, NEW n \in Row, row' = [row EXCEPT ![r] = n]
    PROVE  row' \in [Runs -> Row] /\ row'[r] = n /\ \A o \in Runs \ {r} : row'[o] = row[o]
BY DEF Typed

LEMMA ReqSet ==
    ASSUME Typed, NEW q \in Requests, NEW n \in Request, req' = [req EXCEPT ![q] = n]
    PROVE  /\ req' \in [Requests -> Request] /\ req'[q] = n
           /\ \A o \in Requests \ {q} : req'[o] = req[o]
BY DEF Typed

LEMMA IdleType == IdleReq \in Request /\ IdleReq.pc = "idle" /\ IdleReq.todo = {}
BY DEF IdleReq, Request, ReqPc, Kinds, NewRow, Row, Status, Exec

LEMMA AnsweredMove ==
    ASSUME Typed, NEW q \in Requests, req' = Answered(q)
    PROVE  /\ req' \in [Requests -> Request] /\ req'[q].pc = "done" /\ req'[q].todo = {}
           /\ req'[q].op = "none"
           /\ \A o \in Requests \ {q} : req'[o] = req[o]
<1> DEFINE n == [IdleReq EXCEPT !.pc = "done"]
<1>1. n \in Request /\ n.pc = "done" /\ n.todo = {} /\ n.op = "none"
    BY IdleType DEF Request, ReqPc, IdleReq
<1>2. req' = [req EXCEPT ![q] = n]
    BY DEF Answered
<1> HIDE DEF n
<1> QED
    BY <1>1, <1>2, ReqSet

\* A request that goes on changes where it is, and nothing it carries but what is said.
LEMMA PcMove ==
    ASSUME Typed, NEW q \in Requests, NEW pc \in ReqPc, req' = [req EXCEPT ![q].pc = pc]
    PROVE  /\ req' \in [Requests -> Request] /\ req'[q].pc = pc
           /\ req'[q].op = req[q].op /\ req'[q].run = req[q].run /\ req'[q].kind = req[q].kind
           /\ req'[q].after = req[q].after /\ req'[q].seen = req[q].seen
           /\ req'[q].todo = req[q].todo
           /\ \A o \in Requests \ {q} : req'[o] = req[o]
<1> DEFINE n == [req[q] EXCEPT !.pc = pc]
<1>1. req[q] \in Request
    BY DEF Typed
<1>2. n \in Request /\ n.pc = pc /\ n.op = req[q].op /\ n.run = req[q].run /\ n.kind = req[q].kind
    BY <1>1 DEF Request
<1>3. n.after = req[q].after /\ n.seen = req[q].seen /\ n.todo = req[q].todo
    BY <1>1 DEF Request
<1>4. req' = [req EXCEPT ![q] = n]
    BY DEF Typed
<1> HIDE DEF n
<1> QED
    BY <1>2, <1>3, <1>4, ReqSet

LEMMA BeginMove ==
    ASSUME Typed, NEW q \in Requests, NEW op \in Ops, NEW r \in Runs, NEW k \in Kinds,
           NEW a \in BOOLEAN, NEW pc \in ReqPc, Begin(q, op, r, k, a, pc)
    PROVE  /\ req' \in [Requests -> Request] /\ req'[q].pc = pc /\ req'[q].op = op
           /\ req'[q].run = r /\ req'[q].kind = k /\ req'[q].seen = row[r]
           /\ req'[q].todo = {}
           /\ \A o \in Requests \ {q} : req'[o] = req[o]
<1> DEFINE n1 == [IdleReq EXCEPT !.pc = pc]
           n2 == [n1 EXCEPT !.op = op]
           n3 == [n2 EXCEPT !.run = r]
           n4 == [n3 EXCEPT !.kind = k]
           n5 == [n4 EXCEPT !.after = a]
           n == [n5 EXCEPT !.seen = row[r]]
<1>1. n1 \in Request /\ n1.pc = pc /\ n1.todo = {}
    BY IdleType DEF Request
<1> HIDE DEF n1
<1>2. n2 \in Request /\ n2.pc = pc /\ n2.op = op /\ n2.todo = {}
    BY <1>1 DEF Request
<1> HIDE DEF n2
<1>3. n3 \in Request /\ n3.pc = pc /\ n3.op = op /\ n3.run = r /\ n3.todo = {}
    BY <1>2 DEF Request
<1> HIDE DEF n3
<1>4. /\ n4 \in Request /\ n4.pc = pc /\ n4.op = op /\ n4.run = r /\ n4.kind = k
      /\ n4.todo = {}
    BY <1>3 DEF Request
<1> HIDE DEF n4
<1>5. /\ n5 \in Request /\ n5.pc = pc /\ n5.op = op /\ n5.run = r /\ n5.kind = k
      /\ n5.todo = {}
    BY <1>4 DEF Request
<1> HIDE DEF n5
<1>6. row[r] \in Row
    BY DEF Typed
<1>7. /\ n \in Request /\ n.pc = pc /\ n.op = op /\ n.run = r /\ n.kind = k /\ n.seen = row[r]
      /\ n.todo = {}
    BY <1>5, <1>6 DEF Request
<1>8. req' = [req EXCEPT ![q] = n]
    BY DEF Begin, n1, n2, n3, n4, n5
<1> HIDE DEF n
<1> QED
    BY <1>7, <1>8, ReqSet

-----------------------------------------------------------------------------
(* What the steps that start no workflow leave as it is                     *)

NoNewWorkflow == \A r \in Runs, k \in Kinds :
    /\ wf'[r][k].st \in Open => wf[r][k].st \in Open
    /\ wf'[r][k].st = "absent" <=> wf[r][k].st = "absent"
RowsStand == \A r \in Runs : row[r].status # "none" => row'[r].status # "none"
NoNewRow == \A r \in Runs : row[r].status = "none" =>
                row'[r].status = "none" /\ orphans'[r] = orphans[r]

LEMMA ReqStays ==
    ASSUME Inv, RowsStand, NEW q \in Requests, req'[q] = req[q]
    PROVE  ReqOk(q)'
<1>1. ReqOk(q) /\ req'[q] = req[q] /\ req[q].todo \subseteq Seen
    BY DEF Inv, Typed, Request
<1>2. \A t \in req[q].todo : t.run \in Runs
    BY <1>1 DEF Seen
<1>3. req[q].pc \notin {"idle", "done"} => req[q].run \in Runs
    BY <1>1 DEF ReqOk
<1> QED
    BY <1>1, <1>2, <1>3 DEF ReqOk, RowsStand, Claiming

LEMMA PollsStay ==
    ASSUME Inv, RowsStand, poll' = poll
    PROVE  \A p \in Pollers : PollOk(p)'
BY DEF Inv, PollOk, RowsStand

LEMMA FreshStays ==
    ASSUME Inv, NoNewWorkflow, NoNewRow, RowsStand
    PROVE  \A r \in Runs : Fresh(r)'
BY DEF Inv, Fresh, NoNewWorkflow, NoNewRow, RowsStand

\* No request claims a run that did not before.
LEMMA AloneStays ==
    ASSUME Inv, NoNewWorkflow, raced \subseteq raced',
           \A q \in Requests, r \in Runs :
               Claims(q, r)' => Claims(q, r) /\ (req'[q].op = "start" => req[q].op = "start")
    PROVE  \A r \in Runs : Alone(r)'
<1> SUFFICES ASSUME NEW r \in Runs, r \notin raced'
             PROVE  Alone(r)'
    BY DEF Alone
<1>1. Alone(r) /\ r \notin raced
    BY DEF Inv
<1>2. \A k \in Kinds : IsOpen(r, k)' => IsOpen(r, k)
    BY DEF IsOpen, NoNewWorkflow
<1>3. AtWork(r)' => AtWork(r)
    BY <1>2 DEF AtWork
<1>4. \A k \in Kinds : wf[r][k].st = "absent" => wf'[r][k].st = "absent"
    BY DEF NoNewWorkflow
<1> QED
    BY <1>1, <1>2, <1>3, <1>4 DEF Alone

\* No request gets past its look at the other runs.
LEMMA ProjectStays ==
    ASSUME Inv, NoNewWorkflow, raced \subseteq raced',
           \A q \in Requests : Past(q)' => Past(q) /\ req'[q].run = req[q].run,
           \A q \in Requests, r \in Runs, k \in Kinds \ {"execute"} :
               Past(q)' /\ r # req[q].run /\ IsOpen(r, k) =>
                   \A t \in req[q].todo : t.run = r /\ k \in Named(t.overlay) => t \in req'[q].todo
    PROVE  Project'
<1> SUFFICES ASSUME raced' = {}
             PROVE  Project'
    BY DEF Project
<1>1. raced = {}
    OBVIOUS
<1>2. \A r \in Runs, k \in Kinds : IsOpen(r, k)' => IsOpen(r, k)
    BY DEF IsOpen, NoNewWorkflow
<1>3. \A q, o \in Requests : Past(q)' /\ Past(o)' => q = o
    BY <1>1 DEF Inv, Project
<1>4. ASSUME NEW q \in Requests, NEW r \in Runs, NEW k \in Kinds \ {"execute"},
             Past(q)', r # req'[q].run, IsOpen(r, k)'
      PROVE  \E t \in req'[q].todo : t.run = r /\ k \in Named(t.overlay)
    <2>1. Past(q) /\ r # req[q].run /\ IsOpen(r, k)
        BY <1>2, <1>4
    <2>2. PICK t \in req[q].todo : t.run = r /\ k \in Named(t.overlay)
        BY <1>1, <2>1 DEF Inv, Project
    <2> QED
        BY <1>4, <2>1, <2>2
<1>5. \A r, o \in Runs : \A k, l \in Kinds \ {"execute"} :
          IsOpen(r, k)' /\ IsOpen(o, l)' => r = o
    BY <1>1, <1>2 DEF Inv, Project
<1> QED
    BY <1>3, <1>4, <1>5 DEF Project

\* The steps of workflows, activities and pollers.
LEMMA WorkKeeps ==
    ASSUME Inv, NoNewWorkflow, RowsStand, NoNewRow, req' = req, raced' = raced
    PROVE  /\ \A q \in Requests : ReqOk(q)'
           /\ \A r \in Runs : Fresh(r)' /\ Alone(r)'
           /\ Project'
<1>1. \A q \in Requests, r \in Runs : Claims(q, r)' => Claims(q, r)
    BY DEF Claims
<1>2. \A q \in Requests : Past(q)' => Past(q)
    BY DEF Past
<1>3. \A r \in Runs : Alone(r)'
    BY <1>1, AloneStays
<1>4. Project'
    BY <1>2, ProjectStays
<1> QED
    BY <1>3, <1>4, ReqStays, FreshStays

\* The steps that leave what the columns of a row are explained by as it is: the row keeps
\* execution_status and the overlay or loses both, workflows may be asked to cancel.
RowFrame(r) ==
    /\ row[r].status = "none" => row'[r].status = "none"
    /\ \/ row'[r].exec = row[r].exec /\ row'[r].overlay = row[r].overlay
       \/ row'[r].exec = "null" /\ row'[r].overlay = "null"
WfFrame(r) == \A k \in Kinds :
    \/ wf'[r][k] = wf[r][k]
    \/ /\ wf'[r][k].st \in Open /\ wf[r][k].st \in Open
       /\ wf'[r][k].pc = wf[r][k].pc /\ wf'[r][k].after = wf[r][k].after
ReqFrameAt(q, r) ==
    \/ req'[q] = req[q]
    \/ /\ req[q].run # r \/ req[q].pc # "launch"
       /\ req'[q].run # r \/ req'[q].pc \notin {"launch", "restore"}
ColumnsFrame(r) == /\ RowFrame(r) /\ WfFrame(r) /\ orphans'[r] = orphans[r]
                   /\ \A q \in Requests : ReqFrameAt(q, r)

LEMMA FrameKeeps ==
    ASSUME NEW r \in Runs, Columns(r), ColumnsFrame(r)
    PROVE  Columns(r)'
<1>1. \A q \in Requests : /\ q \in Launching(r) => req'[q] = req[q] /\ q \in Launching(r)'
                          /\ q \in Launching(r)' => req'[q] = req[q] /\ q \in Launching(r)
    BY DEF Launching, ColumnsFrame, ReqFrameAt
<1>2. Launching(r)' = Launching(r) /\ \A q \in Launching(r) : req'[q] = req[q]
    BY <1>1 DEF Launching
<1>3. NoRestore(r)'
    BY DEF Columns, NoRestore, ColumnsFrame, ReqFrameAt
<1>4. \A k \in Kinds : /\ wf'[r][k].st = wf[r][k].st \/ (IsOpen(r, k)' /\ IsOpen(r, k))
                      /\ wf'[r][k].pc = wf[r][k].pc /\ wf'[r][k].after = wf[r][k].after
                      /\ IsOpen(r, k)' <=> IsOpen(r, k)
    BY DEF IsOpen, ColumnsFrame, WfFrame
<1>5. ASSUME NEW k \in Kinds
      PROVE  /\ wf'[r][k].st = "absent" <=> wf[r][k].st = "absent"
             /\ \A st \in {"failed", "cancelled", "partial"} :
                   wf'[r][k].st = st <=> wf[r][k].st = st
    <2>1. \/ wf'[r][k].st = wf[r][k].st
          \/ wf'[r][k].st \in {"running", "cancelling"} /\ wf[r][k].st \in {"running", "cancelling"}
        BY KindFacts DEF ColumnsFrame, WfFrame
    <2> QED
        BY <2>1
<1>6. MainThere(r)'
    BY <1>2, <1>5, KindFacts DEF Columns, MainThere, ColumnsFrame, RowFrame
<1>7. OverlayThere(r)'
    BY <1>2, <1>5, KindFacts DEF Columns, OverlayThere, ColumnsFrame, RowFrame
<1>8. ExecuteColumn(r)'
    BY <1>2 DEF Columns, ExecuteColumn, ColumnsFrame, RowFrame
<1>9. ExecRunning(r)'
    BY <1>2, <1>4 DEF Columns, ExecRunning, Working, ColumnsFrame, RowFrame
<1>10. ExecPending(r)'
    <2> SUFFICES ASSUME row'[r].exec = "pending" /\ row'[r].overlay = "null"
                 PROVE  ExecPending(r)'
        BY DEF ExecPending, MainOnItsWay
    <2>1. row[r].exec = "pending" /\ row[r].overlay = "null"
        BY DEF ColumnsFrame, RowFrame
    <2> QED
        BY <2>1, <1>2, <1>4, <1>5, KindFacts DEF Columns, ExecPending, MainOnItsWay
<1> QED
    BY <1>3, <1>6, <1>7, <1>8, <1>9, <1>10 DEF Columns

\* A step that changes nothing of this on any run, and one that is a mishap.
LEMMA ColumnsStay ==
    ASSUME Inv, mishaps' = mishaps, raced \subseteq raced',
           \A r \in Runs \ raced : ColumnsFrame(r)
    PROVE  ColumnsInv'
BY FrameKeeps DEF Inv, ColumnsInv

LEMMA MishapKeeps ==
    ASSUME Inv, Mishap
    PROVE  mishaps' \in Nat /\ ColumnsInv'
BY DEF Inv, Typed, Mishap, ColumnsInv

-----------------------------------------------------------------------------
(* Requests                                                                 *)

\* A request that starts, resumes or executes takes its first step.
LEMMA BeginKeeps ==
    ASSUME Inv, NEW q \in Requests, NEW op \in Ops, NEW r \in Runs, NEW k \in Kinds,
           NEW a \in BOOLEAN, NEW pc \in {"select", "update"},
           req[q].pc = "idle", Begin(q, op, r, k, a, pc),
           UNCHANGED <<row, wf, orphans, poll, mishaps>>,
           raced \subseteq raced', raced' \subseteq Runs,
           \/ op = "start" /\ k = "main" /\ pc = "select"
           \/ op = "execute" /\ k = "execute" /\ pc = "update"
           \/ op = "resume" /\ k \in Resumes,
           op # "start" => row[r].status # "none",
           r \notin raced' => /\ \A o \in Requests \ {q} : ~Claims(o, r)
                              /\ ~AtWork(r)
                              /\ op = "start" => \A l \in Kinds : wf[r][l].st = "absent",
           pc = "update" => op = "execute"
    PROVE  Inv'
<1>1. Typed
    BY DEF Inv
<1>2. pc \in ReqPc
    BY DEF ReqPc
<1>3. /\ req' \in [Requests -> Request] /\ req'[q].pc = pc /\ req'[q].op = op
      /\ req'[q].run = r /\ req'[q].kind = k /\ req'[q].seen = row[r]
      /\ req'[q].todo = {}
      /\ \A o \in Requests \ {q} : req'[o] = req[o]
    BY <1>1, <1>2, BeginMove
<1>4. Typed'
    BY <1>1, <1>3 DEF Typed
<1>5. RowsStand /\ NoNewWorkflow /\ NoNewRow
    BY DEF RowsStand, NoNewWorkflow, NoNewRow
<1>6. \A o \in Requests : ReqOk(o)'
    <2>1. ReqOk(q)'
        BY <1>3 DEF ReqOk, Claiming
    <2> QED
        BY <2>1, <1>3, <1>5, ReqStays
<1>7. (\A p \in Pollers : PollOk(p)') /\ \A x \in Runs : Fresh(x)'
    BY <1>5, PollsStay, FreshStays
<1>8. ASSUME NEW x \in Runs, x \notin raced'
      PROVE  Alone(x)'
    <2>1. \A o \in Requests, y \in Runs : Claims(o, y)' => (o = q /\ y = r) \/ (o # q /\ Claims(o, y))
        BY <1>3 DEF Claims
    <2>2. \A l \in Kinds : IsOpen(x, l)' <=> IsOpen(x, l)
        BY DEF IsOpen
    <2>3. AtWork(x)' <=> AtWork(x)
        BY <2>2 DEF AtWork
    <2>4. Alone(x) /\ x \notin raced
        BY <1>8 DEF Inv
    <2>5. ASSUME NEW o \in Requests, Claims(o, x)'
          PROVE  /\ \A p \in Requests : Claims(p, x)' => p = o
                 /\ ~AtWork(x)'
                 /\ req'[o].op = "start" => \A l \in Kinds : wf'[x][l].st = "absent"
        <3>1. CASE o = q
            <4>1. x = r
                BY <2>1, <2>5, <3>1
            <4> QED
                BY <4>1, <1>8, <2>1, <2>3, <1>3, <3>1
        <3>2. CASE o # q
            <4>1. Claims(o, x) /\ x # r
                BY <2>1, <2>5, <3>2, <1>8
            <4>2. req'[o] = req[o]
                BY <1>3, <3>2
            <4> QED
                BY <4>1, <4>2, <2>1, <2>3, <2>4 DEF Alone
        <3> QED
            BY <3>1, <3>2
    <2> QED
        BY <2>2, <2>4, <2>5 DEF Alone
<1>9. Project'
    <2>1. \A o \in Requests : Past(o)' => o # q /\ Past(o) /\ req'[o] = req[o]
        BY <1>3 DEF Past
    <2> QED
        BY <2>1, <1>5, ProjectStays
<1>10. ColumnsInv'
    <2>1. \A x \in Runs : ColumnsFrame(x)
        BY <1>3 DEF ColumnsFrame, RowFrame, WfFrame, ReqFrameAt
    <2> QED
        BY <2>1, ColumnsStay
<1>11. \A x \in Runs : Alone(x)'
    BY <1>8 DEF Alone
<1> QED
    BY <1>4, <1>6, <1>7, <1>9, <1>10, <1>11 DEF Inv

LEMMA StartKeeps ==
    ASSUME Inv, NEW q \in Requests, NEW r \in Runs, NEW a \in BOOLEAN, StartRun(q, r, a)
    PROVE  Inv'
<1>1. /\ req[q].pc = "idle" /\ "start" \in Ops /\ row[r].status = "none"
      /\ \A o \in Requests : req[o].op = "start" => req[o].run # r
      /\ Begin(q, "start", r, "main", a, "select")
      /\ UNCHANGED <<row, wf, orphans, poll, mishaps, raced>>
    BY DEF StartRun, StartAt, ReqFrame
<1>2. \A l \in Kinds : wf[r][l].st = "absent"
    BY <1>1 DEF Inv, Fresh
<1>3. ~AtWork(r)
    BY <1>2 DEF AtWork, IsOpen, Open
<1>4. \A o \in Requests : ~Claims(o, r)
    BY <1>1 DEF Inv, ReqOk, Claims
<1>5. raced' \subseteq Runs /\ raced \subseteq raced'
    BY <1>1 DEF Inv, Typed
<1>6. "main" \in Kinds
    BY KindFacts
<1> QED
    BY <1>1, <1>2, <1>3, <1>4, <1>5, <1>6, BeginKeeps

\* No claim on a run without being noticed: no request half way, no workflow at work.
LEMMA NoticeAlone ==
    ASSUME Inv, NEW q \in Requests, NEW r \in Runs, MayProceed(r), Notice(q, r)
    PROVE  /\ raced \subseteq raced' /\ raced' \subseteq Runs
           /\ r \notin raced' => /\ \A o \in Requests \ {q} : ~Claims(o, r)
                                 /\ ~AtWork(r)
<1>1. raced \subseteq raced' /\ raced' \subseteq Runs
    BY DEF Notice, Inv, Typed
<1>2. r \notin raced' => ~Unseen(q, r)
    BY DEF Notice
<1>3. ~Unseen(q, r) => \A o \in Requests \ {q} : ~Claims(o, r)
    BY DEF Unseen, InFlight, Claims, Claiming
<1>4. ~Unseen(q, r) => ~AtWork(r)
    BY DEF Unseen, Hidden, AtWork, MayProceed
<1> QED
    BY <1>1, <1>2, <1>3, <1>4

LEMMA ExecuteKeeps ==
    ASSUME Inv, NEW q \in Requests, NEW r \in Runs, ExecuteRun(q, r)
    PROVE  Inv'
<1>1. /\ req[q].pc = "idle" /\ "execute" \in Ops /\ MayProceed(r)
      /\ Begin(q, "execute", r, "execute", TRUE, "update") /\ Notice(q, r)
      /\ UNCHANGED <<row, wf, orphans, poll, mishaps>>
    BY DEF ExecuteRun, ReqFrame
<1>2. row[r].status # "none" /\ "execute" \in Kinds
    BY <1>1, KindFacts DEF MayProceed
<1> QED
    BY <1>1, <1>2, NoticeAlone, BeginKeeps

LEMMA ResumeKeeps ==
    ASSUME Inv, NEW q \in Requests, NEW r \in Runs, NEW k \in Resumes, NEW a \in BOOLEAN,
           ResumeRun(q, r, k, a)
    PROVE  Inv'
<1>1. /\ req[q].pc = "idle" /\ "resume" \in Ops /\ MayProceed(r)
      /\ Begin(q, "resume", r, k, a, "select") /\ Notice(q, r)
      /\ UNCHANGED <<row, wf, orphans, poll, mishaps>>
    BY DEF ResumeRun, ReqFrame
<1>2. row[r].status # "none" /\ k \in Kinds
    BY <1>1, KindFacts DEF MayProceed
<1> QED
    BY <1>1, <1>2, NoticeAlone, BeginKeeps

\* What another request half way on a run is.
LEMMA PastSeen ==
    ASSUME Inv, NEW o \in Requests, Past(o)
    PROVE  InFlight(o) /\ req[o].run \in Runs /\ Claims(o, req[o].run)
BY DEF Inv, ReqOk, Past, InFlight, Claims, Claiming

LEMMA SelectKeeps ==
    ASSUME Inv, NEW q \in Requests, Select(q)
    PROVE  Inv'
<1> DEFINE active == {x \in Runs : Active(row[x])}
           todo == {[run |-> r, overlay |-> row[r].overlay] : r \in active}
           n1 == [req[q] EXCEPT !.pc = "assert"]
           n == [n1 EXCEPT !.todo = todo]
<1>1. /\ req[q].pc = "select" /\ req' = [req EXCEPT ![q] = n]
      /\ raced' = raced \cup {r \in Runs \ {req[q].run} : Unseen(q, r)}
      /\ UNCHANGED <<row, wf, orphans, poll, mishaps>>
    BY DEF Select, ReqFrame, Inv, Typed
<1>2. Typed /\ req[q] \in Request /\ \A x \in Runs : row[x] \in Row
    BY DEF Inv, Typed
<1>3. n1 \in Request /\ n1.pc = "assert" /\ n1.op = req[q].op /\ n1.run = req[q].run
    BY <1>2 DEF Request, ReqPc
<1>4. n1.kind = req[q].kind /\ n1.seen = req[q].seen
    BY <1>2 DEF Request
<1> HIDE DEF n1
<1>5. todo \in SUBSET Seen
    BY <1>2 DEF Seen, Row
<1> HIDE DEF todo
<1>6. /\ n \in Request /\ n.pc = "assert" /\ n.op = req[q].op /\ n.run = req[q].run
      /\ n.kind = req[q].kind /\ n.seen = req[q].seen /\ n.todo = todo
    BY <1>3, <1>4, <1>5 DEF Request
<1> HIDE DEF n
<1>7. /\ req' \in [Requests -> Request] /\ req'[q] = n
      /\ \A o \in Requests \ {q} : req'[o] = req[o]
    BY <1>1, <1>2, <1>6, ReqSet
<1>8. raced \subseteq raced' /\ raced' \subseteq Runs /\ Typed'
    BY <1>1, <1>2, <1>7 DEF Typed
<1>9. RowsStand /\ NoNewWorkflow /\ NoNewRow
    BY <1>1 DEF RowsStand, NoNewWorkflow, NoNewRow
<1>10. \A o \in Requests : ReqOk(o)'
    <2>1. \A t \in todo : row[t.run].status # "none"
        BY DEF todo, Active
    <2>2. ReqOk(q)
        BY DEF Inv
    <2>3. ReqOk(q)'
        BY <1>1, <1>6, <1>7, <2>1, <2>2 DEF ReqOk, Claiming
    <2> QED
        BY <2>3, <1>7, <1>9, ReqStays
<1>11. (\A p \in Pollers : PollOk(p)') /\ \A x \in Runs : Fresh(x)'
    BY <1>1, <1>9, PollsStay, FreshStays
<1>12. \A o \in Requests, x \in Runs : Claims(o, x)' => Claims(o, x) /\ req'[o].op = req[o].op
    BY <1>1, <1>6, <1>7 DEF Claims, Claiming
<1>13. \A x \in Runs : Alone(x)'
    BY <1>8, <1>9, <1>12, AloneStays
<1>14. ColumnsInv'
    <2>1. \A x \in Runs : ColumnsFrame(x)
        BY <1>1, <1>6, <1>7 DEF ColumnsFrame, RowFrame, WfFrame, ReqFrameAt
    <2> QED
        BY <1>1, <1>8, <2>1, ColumnsStay
<1>15. Project'
    <2> SUFFICES ASSUME raced' = {}
                 PROVE  Project'
        BY DEF Project
    <2>1. raced = {} /\ \A x \in Runs \ {req[q].run} : ~Unseen(q, x)
        BY <1>1
    <2>2. ASSUME NEW o \in Requests \ {q}, Past(o)
          PROVE  FALSE
        <3>1. InFlight(o) /\ req[o].run \in Runs /\ Claims(o, req[o].run)
            BY <2>2, PastSeen
        <3>2. req[o].run = req[q].run
            BY <2>1, <3>1 DEF Unseen
        <3>3. Claims(q, req[o].run)
            BY <1>1, <3>2 DEF Claims, Claiming
        <3> QED
            BY <2>1, <2>2, <3>1, <3>3 DEF Inv, Alone
    <2>3. \A o \in Requests : Past(o)' => o = q
        BY <1>7, <2>2 DEF Past
    <2>4. \A x \in Runs, k \in Kinds : IsOpen(x, k)' <=> IsOpen(x, k)
        BY <1>1 DEF IsOpen
    <2>5. ASSUME NEW x \in Runs, NEW k \in Kinds, x # req[q].run, IsOpen(x, k)
          PROVE  \E t \in req'[q].todo : t.run = x /\ k \in Named(t.overlay)
        <3>1. Active(row[x]) /\ k \in Named(row[x].overlay)
            BY <2>1, <2>5 DEF Unseen, Hidden
        <3> DEFINE t == [run |-> x, overlay |-> row[x].overlay]
        <3>2. t \in todo /\ t.run = x /\ t.overlay = row[x].overlay
            BY <3>1 DEF todo
        <3> QED
            BY <1>6, <1>7, <3>1, <3>2
    <2>6. req'[q].run = req[q].run
        BY <1>6, <1>7
    <2> QED
        BY <2>1, <2>3, <2>4, <2>5, <2>6 DEF Project, Inv
<1> QED
    BY <1>8, <1>10, <1>11, <1>13, <1>14, <1>15 DEF Inv

LEMMA InspectKeeps ==
    ASSUME Inv, NEW q \in Requests, NEW t \in req[q].todo, Inspect(q, t)
    PROVE  Inv'
<1>1. /\ req[q].pc = "assert" /\ UNCHANGED <<row, wf, orphans, poll>>
    BY DEF Inspect, ReqFrame
<1>2. PICK heard \in SUBSET Named(t.overlay) :
        /\ \/ heard = Named(t.overlay) /\ UNCHANGED <<mishaps, raced>>
           \/ heard # Named(t.overlay) /\ Mishap /\ raced' = raced \cup {t.run}
        /\ \/ req' = Answered(q)
           \/ /\ \A k \in heard : wf[t.run][k].st \notin Open
              /\ \E v \in {"completed", "failed"} :
                   req' = [req EXCEPT ![q].pc = "mark", ![q].stale = t.run,
                                      ![q].todo = @ \ {t}, ![q].verdict = v]
    BY DEF Inspect
<1>3. Typed /\ ReqOk(q) /\ req[q] \in Request
    BY DEF Inv, Typed
<1>4. t \in Seen /\ t.run \in Runs
    BY <1>3 DEF Request, Seen
<1>5. /\ req' \in [Requests -> Request]
      /\ \A o \in Requests \ {q} : req'[o] = req[o]
      /\ \/ req'[q].pc = "done" /\ req'[q].todo = {}
         \/ /\ \A k \in heard : ~IsOpen(t.run, k)
            /\ req'[q].pc = "mark" /\ req'[q].op = req[q].op /\ req'[q].run = req[q].run
            /\ req'[q].kind = req[q].kind /\ req'[q].seen = req[q].seen
            /\ req'[q].todo = req[q].todo \ {t} /\ req'[q].stale = t.run
            /\ req'[q].verdict \in {"completed", "failed"}
    <2>1. CASE req' = Answered(q)
        BY <1>3, <2>1, AnsweredMove
    <2>2. ASSUME NEW v \in {"completed", "failed"}, \A k \in heard : wf[t.run][k].st \notin Open,
                 req' = [req EXCEPT ![q].pc = "mark", ![q].stale = t.run,
                                    ![q].todo = @ \ {t}, ![q].verdict = v]
          PROVE  <1>5
        <3> DEFINE n1 == [req[q] EXCEPT !.pc = "mark"]
                   n2 == [n1 EXCEPT !.stale = t.run]
                   n3 == [n2 EXCEPT !.todo = req[q].todo \ {t}]
                   n == [n3 EXCEPT !.verdict = v]
        <3>1. n1 \in Request /\ n1.pc = "mark" /\ n1.op = req[q].op /\ n1.run = req[q].run
            BY <1>3 DEF Request, ReqPc
        <3>2. n1.kind = req[q].kind /\ n1.seen = req[q].seen /\ n1.todo = req[q].todo
            BY <1>3 DEF Request
        <3>3. req' = [req EXCEPT ![q] = n]
            BY <2>2, <1>3, <3>2 DEF Typed
        <3> HIDE DEF n1
        <3>4. n2 \in Request /\ n2.pc = "mark" /\ n2.op = req[q].op /\ n2.run = req[q].run
            BY <3>1, <1>4 DEF Request
        <3>5. n2.kind = req[q].kind /\ n2.seen = req[q].seen /\ n2.stale = t.run
            BY <3>1, <3>2 DEF Request
        <3> HIDE DEF n2
        <3>6. req[q].todo \ {t} \in SUBSET Seen
            BY <1>3 DEF Request
        <3>7. n3 \in Request /\ n3.pc = "mark" /\ n3.op = req[q].op /\ n3.run = req[q].run
            BY <3>4, <3>6 DEF Request
        <3>8. /\ n3.kind = req[q].kind /\ n3.seen = req[q].seen /\ n3.stale = t.run
              /\ n3.todo = req[q].todo \ {t}
            BY <3>4, <3>5 DEF Request
        <3> HIDE DEF n3
        <3>9. n \in Request /\ n.pc = "mark" /\ n.op = req[q].op /\ n.run = req[q].run
            BY <3>7 DEF Request, Status
        <3>10. /\ n.kind = req[q].kind /\ n.seen = req[q].seen /\ n.stale = t.run
               /\ n.todo = req[q].todo \ {t} /\ n.verdict = v
            BY <3>7, <3>8 DEF Request
        <3> HIDE DEF n
        <3>11. /\ req' \in [Requests -> Request] /\ req'[q] = n
               /\ \A o \in Requests \ {q} : req'[o] = req[o]
            BY <1>3, <3>3, <3>9, ReqSet
        <3>12. \A k \in heard : ~IsOpen(t.run, k)
            BY <2>2 DEF IsOpen
        <3> QED
            BY <3>9, <3>10, <3>11, <3>12
    <2> QED
        BY <1>2, <2>1, <2>2
<1>6. raced \subseteq raced' /\ raced' \subseteq Runs /\ mishaps' \in Nat
    BY <1>2, <1>3, <1>4, MishapKeeps DEF Typed
<1>7. Typed'
    BY <1>1, <1>3, <1>5, <1>6 DEF Typed
<1>8. RowsStand /\ NoNewWorkflow /\ NoNewRow
    BY <1>1 DEF RowsStand, NoNewWorkflow, NoNewRow
<1>9. \A o \in Requests : ReqOk(o)'
    <2>1. ReqOk(q)'
        BY <1>1, <1>3, <1>4, <1>5 DEF ReqOk, Claiming
    <2> QED
        BY <2>1, <1>5, <1>8, ReqStays
<1>10. (\A p \in Pollers : PollOk(p)') /\ \A x \in Runs : Fresh(x)'
    BY <1>1, <1>8, PollsStay, FreshStays
<1>11. \A o \in Requests, x \in Runs : Claims(o, x)' => Claims(o, x) /\ req'[o].op = req[o].op
    BY <1>1, <1>5 DEF Claims, Claiming
<1>12. \A x \in Runs : Alone(x)'
    BY <1>6, <1>8, <1>11, AloneStays
<1>13. ColumnsInv'
    <2>1. \A x \in Runs : ColumnsFrame(x)
        BY <1>1, <1>5 DEF ColumnsFrame, RowFrame, WfFrame, ReqFrameAt
    <2> QED
        BY <1>2, <1>6, <2>1, ColumnsStay, MishapKeeps
<1>14. Project'
    <2>1. CASE raced' # {}
        BY <2>1 DEF Project
    <2>2. CASE raced' = {}
        <3>1. heard = Named(t.overlay)
            BY <1>2, <2>2
        <3>2. \A o \in Requests : Past(o)' => Past(o) /\ req'[o].run = req[o].run
            BY <1>1, <1>5 DEF Past
        <3>3. ASSUME NEW o \in Requests, NEW r \in Runs, NEW k \in Kinds \ {"execute"}, Past(o)',
                     IsOpen(r, k), NEW s \in req[o].todo, s.run = r, k \in Named(s.overlay)
              PROVE  s \in req'[o].todo
            BY <3>1, <3>3, <1>5 DEF Past
        <3> QED
            BY <1>6, <1>8, <3>2, <3>3, ProjectStays
    <2> QED
        BY <2>1, <2>2
<1> QED
    BY <1>7, <1>9, <1>10, <1>12, <1>13, <1>14 DEF Inv

LEMMA MarkKeeps ==
    ASSUME Inv, NEW q \in Requests, MarkStale(q)
    PROVE  Inv'
<1> DEFINE s == req[q].stale
           v == req[q].verdict
           new == IF v = "completed" THEN [row[s] EXCEPT !.status = v]
                  ELSE [status |-> v, exec |-> "null", overlay |-> "null"]
           n1 == [req[q] EXCEPT !.pc = "assert"]
           n2 == [n1 EXCEPT !.stale = NoRun]
           n == [n2 EXCEPT !.verdict = "none"]
<1>1. /\ req[q].pc = "mark" /\ UNCHANGED <<wf, orphans, poll, mishaps, raced>>
      /\ req' = [req EXCEPT ![q] = n]
    BY DEF MarkStale, ReqFrame, Inv, Typed
<1>2. Typed /\ ReqOk(q) /\ req[q] \in Request
    BY DEF Inv, Typed
<1>3. s \in Runs /\ row[s].status # "none" /\ v \in {"completed", "failed"}
    BY <1>1, <1>2 DEF ReqOk
<1>4. row[s] \in Row /\ row' = [row EXCEPT ![s] = new]
    BY <1>2, <1>3 DEF MarkStale, Typed
<1>5. /\ new \in Row /\ new.status # "none"
      /\ \/ new.exec = row[s].exec /\ new.overlay = row[s].overlay
         \/ new.exec = "null" /\ new.overlay = "null"
    BY <1>3, <1>4 DEF Row, Status, Exec
<1> HIDE DEF new
<1>6. row' \in [Runs -> Row] /\ row'[s] = new /\ \A o \in Runs \ {s} : row'[o] = row[o]
    BY <1>2, <1>3, <1>4, <1>5, RowSet
<1>7. n1 \in Request /\ n1.pc = "assert" /\ n1.op = req[q].op /\ n1.run = req[q].run
    BY <1>2 DEF Request, ReqPc
<1>8. n1.kind = req[q].kind /\ n1.seen = req[q].seen /\ n1.todo = req[q].todo
    BY <1>2 DEF Request
<1> HIDE DEF n1
<1>9. n2 \in Request /\ n2.pc = "assert" /\ n2.op = req[q].op /\ n2.run = req[q].run
    BY <1>7 DEF Request
<1>10. n2.kind = req[q].kind /\ n2.seen = req[q].seen /\ n2.todo = req[q].todo
    BY <1>7, <1>8 DEF Request
<1> HIDE DEF n2
<1>11. n \in Request /\ n.pc = "assert" /\ n.op = req[q].op /\ n.run = req[q].run
    BY <1>9 DEF Request, Status
<1>12. n.kind = req[q].kind /\ n.seen = req[q].seen /\ n.todo = req[q].todo
    BY <1>9, <1>10 DEF Request
<1> HIDE DEF n
<1>13. /\ req' \in [Requests -> Request] /\ req'[q] = n
       /\ \A o \in Requests \ {q} : req'[o] = req[o]
    BY <1>1, <1>2, <1>11, ReqSet
<1>14. Typed'
    BY <1>1, <1>2, <1>6, <1>13 DEF Typed
<1>15. RowsStand /\ NoNewWorkflow /\ NoNewRow
    BY <1>1, <1>3, <1>5, <1>6 DEF RowsStand, NoNewWorkflow, NoNewRow
<1>16. \A o \in Requests : ReqOk(o)'
    <2>1. \A t \in req[q].todo : t.run \in Runs
        BY <1>2 DEF Request, Seen
    <2>2. req[q].run \in Runs
        BY <1>1, <1>2 DEF ReqOk
    <2>3. ReqOk(q)'
        BY <1>1, <1>2, <1>11, <1>12, <1>13, <1>15, <2>1, <2>2 DEF ReqOk, Claiming, RowsStand
    <2> QED
        BY <2>3, <1>13, <1>15, ReqStays
<1>17. (\A p \in Pollers : PollOk(p)') /\ \A x \in Runs : Fresh(x)'
    BY <1>1, <1>15, PollsStay, FreshStays
<1>18. \A o \in Requests, x \in Runs : Claims(o, x)' => Claims(o, x) /\ req'[o].op = req[o].op
    BY <1>1, <1>11, <1>13 DEF Claims, Claiming
<1>19. \A x \in Runs : Alone(x)'
    BY <1>1, <1>15, <1>18, AloneStays
<1>20. Project'
    <2>1. \A o \in Requests : Past(o)' => Past(o) /\ req'[o].run = req[o].run
        BY <1>1, <1>11, <1>13 DEF Past
    <2>2. \A o \in Requests : req'[o].todo = req[o].todo
        BY <1>12, <1>13
    <2> QED
        BY <1>1, <1>15, <2>1, <2>2, ProjectStays
<1>21. ColumnsInv'
    <2>1. \A x \in Runs : RowFrame(x)
        BY <1>3, <1>5, <1>6 DEF RowFrame
    <2>2. \A x \in Runs : ColumnsFrame(x)
        BY <1>1, <1>11, <1>13, <2>1 DEF ColumnsFrame, WfFrame, ReqFrameAt
    <2> QED
        BY <1>1, <2>2, ColumnsStay
<1> QED
    BY <1>14, <1>16, <1>17, <1>19, <1>20, <1>21 DEF Inv

LEMMA NotRunningKeeps ==
    ASSUME Inv, NEW q \in Requests, NotRunning(q)
    PROVE  Inv'
<1>1. /\ req[q].pc = "assert" /\ req[q].todo = {} /\ req' = [req EXCEPT ![q].pc = "update"]
      /\ UNCHANGED <<row, wf, orphans, poll, mishaps, raced>>
    BY DEF NotRunning, ReqFrame
<1>2. Typed /\ ReqOk(q) /\ "update" \in ReqPc
    BY DEF Inv, ReqPc
<1>3. /\ req' \in [Requests -> Request] /\ req'[q].pc = "update"
      /\ req'[q].op = req[q].op /\ req'[q].run = req[q].run /\ req'[q].kind = req[q].kind
      /\ req'[q].after = req[q].after /\ req'[q].seen = req[q].seen
      /\ req'[q].todo = req[q].todo
      /\ \A o \in Requests \ {q} : req'[o] = req[o]
    BY <1>1, <1>2, PcMove
<1>4. Typed'
    BY <1>1, <1>2, <1>3 DEF Typed
<1>5. RowsStand /\ NoNewWorkflow /\ NoNewRow
    BY <1>1 DEF RowsStand, NoNewWorkflow, NoNewRow
<1>6. \A o \in Requests : ReqOk(o)'
    <2>1. ReqOk(q)'
        BY <1>1, <1>2, <1>3 DEF ReqOk, Claiming
    <2> QED
        BY <2>1, <1>3, <1>5, ReqStays
<1>7. (\A p \in Pollers : PollOk(p)') /\ \A x \in Runs : Fresh(x)'
    BY <1>1, <1>5, PollsStay, FreshStays
<1>8. \A o \in Requests, x \in Runs : Claims(o, x)' => Claims(o, x) /\ req'[o].op = req[o].op
    BY <1>1, <1>3 DEF Claims, Claiming
<1>9. \A x \in Runs : Alone(x)'
    BY <1>1, <1>5, <1>8, AloneStays
<1>10. Project'
    <2>1. \A o \in Requests : Past(o)' => Past(o) /\ req'[o].run = req[o].run
        BY <1>1, <1>3 DEF Past
    <2>2. \A o \in Requests : req'[o].todo = req[o].todo
        BY <1>3
    <2> QED
        BY <1>1, <1>5, <2>1, <2>2, ProjectStays
<1>11. ColumnsInv'
    <2>1. \A x \in Runs : ColumnsFrame(x)
        BY <1>1, <1>3 DEF ColumnsFrame, RowFrame, WfFrame, ReqFrameAt
    <2> QED
        BY <1>1, <2>1, ColumnsStay
<1> QED
    BY <1>4, <1>6, <1>7, <1>9, <1>10, <1>11 DEF Inv

\* The row a request claims its run with.
LEMMA ClaimedRow ==
    ASSUME NEW old \in Row, NEW op, NEW k, NEW a \in BOOLEAN,
           \/ op = "start" /\ k = "main"
           \/ op = "execute" /\ k = "execute"
           \/ op = "resume" /\ k \in Resumes
    PROVE  /\ Claimed(old, op, k, a) \in Row
           /\ Claimed(old, op, k, a).status # "none" \/ op = "execute"
           /\ op = "start" =>
                /\ Claimed(old, op, k, a).overlay = "null"
                /\ Claimed(old, op, k, a).exec = IF a THEN "pending" ELSE "null"
           /\ op = "execute" =>
                /\ Claimed(old, op, k, a).status = old.status
                /\ Claimed(old, op, k, a).overlay = "execute"
                /\ Claimed(old, op, k, a).exec = "running"
           /\ op = "resume" =>
                /\ Claimed(old, op, k, a).overlay = k
                /\ Claimed(old, op, k, a).exec = "running" => k = "resumeLead"
<1>1. CASE op = "start" /\ k = "main"
    BY <1>1 DEF Claimed, Row, Status, Exec
<1>2. CASE op = "execute" /\ k = "execute"
    <2> DEFINE n1 == [old EXCEPT !.exec = "running"]
               n == [n1 EXCEPT !.overlay = k]
    <2>1. n1 \in Row /\ n1.exec = "running" /\ n1.status = old.status
        BY DEF Row, Exec
    <2> HIDE DEF n1
    <2>2. n \in Row /\ n.exec = "running" /\ n.status = old.status /\ n.overlay = "execute"
        BY <1>2, <2>1 DEF Row
    <2>3. Claimed(old, op, k, a) = n
        BY <1>2 DEF Claimed, n1
    <2> HIDE DEF n
    <2> QED
        BY <1>2, <2>2, <2>3
<1>3. CASE op = "resume" /\ k \in Resumes
    <2> DEFINE e == CASE k = "resumeLead" -> "running"
                      [] k # "resumeLead" /\ a -> "pending"
                      [] OTHER -> "null"
    <2>1. e \in Exec /\ (e = "running" => k = "resumeLead")
        BY DEF Exec
    <2>2. Claimed(old, op, k, a) = [status |-> "running", overlay |-> k, exec |-> e]
        BY <1>3 DEF Claimed
    <2> HIDE DEF e
    <2> QED
        BY <1>3, <2>1, <2>2 DEF Row, Status
<1> QED
    BY <1>1, <1>2, <1>3

LEMMA UpdateKeeps ==
    ASSUME Inv, NEW q \in Requests, Update(q)
    PROVE  Inv'
<1>a. Typed /\ ReqOk(q) /\ req[q] \in Request /\ req[q].pc = "update"
    BY DEF Inv, Typed, Update
<1>b. req[q].run \in Runs
    BY <1>a DEF ReqOk
<1>c. PICK r \in Runs, k \in Kinds, a \in BOOLEAN, op \in Ops \cup {"none"} :
           r = req[q].run /\ k = req[q].kind /\ a = req[q].after /\ op = req[q].op
    BY <1>a, <1>b DEF Request
<1> DEFINE new == Claimed(row[r], op, k, a)
<1>1. /\ req[q].pc = "update" /\ req' = [req EXCEPT ![q].pc = "launch"]
      /\ UNCHANGED <<wf, orphans, poll, mishaps, raced>>
    BY DEF Update, ReqFrame
<1>2. Typed /\ ReqOk(q) /\ "launch" \in ReqPc /\ req[q] \in Request
    BY DEF Inv, ReqPc, Typed
<1>3. /\ r \in Runs /\ a \in BOOLEAN /\ k \in Kinds
      /\ r = req[q].run /\ k = req[q].kind /\ a = req[q].after /\ op = req[q].op
      /\ \/ op = "start" /\ k = "main"
         \/ op = "execute" /\ k = "execute"
         \/ op = "resume" /\ k \in Resumes
      /\ op # "start" => row[r].status # "none"
      /\ req[q].todo = {}
    BY <1>c, <1>1, <1>2 DEF ReqOk, Claiming
<1>4. row[r] \in Row /\ row' = [row EXCEPT ![r] = new]
    BY <1>2, <1>3 DEF Update, Typed
<1>5. /\ new \in Row
      /\ new.status # "none" \/ op = "execute"
      /\ op = "start" => new.overlay = "null" /\ new.exec = IF a THEN "pending" ELSE "null"
      /\ op = "execute" => /\ new.status = row[r].status
                           /\ new.overlay = "execute" /\ new.exec = "running"
      /\ op = "resume" => new.overlay = k /\ (new.exec = "running" => k = "resumeLead")
    BY <1>3, <1>4, ClaimedRow
<1> HIDE DEF new
<1>6. row' \in [Runs -> Row] /\ row'[r] = new /\ \A o \in Runs \ {r} : row'[o] = row[o]
    BY <1>2, <1>3, <1>4, <1>5, RowSet
<1>7. /\ req' \in [Requests -> Request] /\ req'[q].pc = "launch"
      /\ req'[q].op = op /\ req'[q].run = r /\ req'[q].kind = k
      /\ req'[q].after = a /\ req'[q].seen = req[q].seen
      /\ req'[q].todo = req[q].todo
      /\ \A o \in Requests \ {q} : req'[o] = req[o]
    BY <1>1, <1>2, <1>3, PcMove
<1>8. Typed'
    BY <1>1, <1>2, <1>6, <1>7 DEF Typed
<1>9. row'[r].status # "none"
    BY <1>3, <1>5, <1>6
<1>10. RowsStand /\ NoNewWorkflow
    BY <1>1, <1>6, <1>9 DEF RowsStand, NoNewWorkflow
<1>11. \A o \in Requests : ReqOk(o)'
    <2>1. ReqOk(q)'
        BY <1>1, <1>2, <1>3, <1>7, <1>9 DEF ReqOk, Claiming
    <2> QED
        BY <2>1, <1>7, <1>10, ReqStays
<1>12. (\A p \in Pollers : PollOk(p)') /\ \A x \in Runs : Fresh(x)'
    BY <1>1, <1>6, <1>9, <1>10, PollsStay DEF Fresh, Inv
<1>13. \A o \in Requests, x \in Runs : Claims(o, x)' => Claims(o, x) /\ req'[o].op = req[o].op
    BY <1>1, <1>7 DEF Claims, Claiming
<1>14. \A x \in Runs : Alone(x)'
    BY <1>1, <1>10, <1>13, AloneStays
<1>15. Project'
    <2>1. \A o \in Requests : Past(o)' => Past(o) /\ req'[o].run = req[o].run
        BY <1>1, <1>7 DEF Past
    <2>2. \A o \in Requests : req'[o].todo = req[o].todo
        BY <1>7
    <2> QED
        BY <1>1, <1>10, <2>1, <2>2, ProjectStays
<1>16. ASSUME mishaps' = 0, NEW x \in Runs \ raced'
       PROVE  Columns(x)'
    <2>1. Columns(x) /\ Alone(x) /\ x \notin raced
        BY <1>1, <1>16 DEF Inv, ColumnsInv
    <2>2. CASE x # r
        <3>1. ColumnsFrame(x)
            BY <1>1, <1>6, <1>7, <2>2 DEF ColumnsFrame, RowFrame, WfFrame, ReqFrameAt
        <3> QED
            BY <2>1, <3>1, FrameKeeps
    <2>3. CASE x = r
        <3>1. Claims(q, r)
            BY <1>1, <1>3 DEF Claims, Claiming
        <3>2. Launching(r)' = {q}
            BY <1>7, <1>13, <2>1, <2>3, <3>1 DEF Launching, Claims, Claiming, Alone
        <3>3. Launching(r) = {}
            BY <1>1, <2>1, <2>3, <3>1 DEF Launching, Claims, Claiming, Alone
        <3>4. ~AtWork(r) /\ (op = "start" => \A l \in Kinds : wf[r][l].st = "absent")
            BY <1>3, <2>1, <2>3, <3>1 DEF Alone
        <3>5. NoRestore(r)'
            BY <1>7, <2>1, <2>3 DEF Columns, NoRestore
        <3>6. MainThere(r)'
            BY <1>1, <1>3, <1>7, <2>1, <2>3, <3>2, <3>3 DEF Columns, MainThere
        <3>7. OverlayThere(r)'
            BY <1>3, <1>5, <1>6, <1>7, <3>2, KindFacts DEF OverlayThere
        <3>8. ExecuteColumn(r)'
            BY <1>3, <1>5, <1>6, <1>7, <3>2, KindFacts DEF ExecuteColumn
        <3>9. ExecRunning(r)'
            BY <1>3, <1>5, <1>6, <1>7, <3>2, KindFacts DEF ExecRunning, Working
        <3>10. ExecPending(r)'
            BY <1>1, <1>3, <1>5, <1>6, <1>7, <3>2, <3>4, KindFacts DEF ExecPending, MainOnItsWay
        <3> QED
            BY <2>3, <3>5, <3>6, <3>7, <3>8, <3>9, <3>10 DEF Columns
    <2> QED
        BY <2>2, <2>3
<1> QED
    BY <1>8, <1>11, <1>12, <1>14, <1>15, <1>16 DEF Inv, ColumnsInv

LEMMA LaunchKeeps ==
    ASSUME Inv, NEW q \in Requests, Launch(q)
    PROVE  Inv'
<1>a. Typed /\ ReqOk(q) /\ req[q] \in Request /\ req[q].pc = "launch"
    BY DEF Inv, Typed, Launch
<1>b. req[q].run \in Runs
    BY <1>a DEF ReqOk
<1>c. PICK r \in Runs, k \in Kinds, a \in BOOLEAN, op \in Ops \cup {"none"} :
           r = req[q].run /\ k = req[q].kind /\ a = req[q].after /\ op = req[q].op
    BY <1>a, <1>b DEF Request
<1> DEFINE w == Started(k, a)
<1>1. /\ req[q].pc = "launch" /\ ~IsOpen(r, k) /\ req' = Answered(q)
      /\ wf' = [wf EXCEPT ![r][k] = w]
      /\ UNCHANGED <<row, orphans, poll, mishaps, raced>>
    BY <1>c DEF Launch, ReqFrame
<1>2. Typed /\ ReqOk(q) /\ req[q] \in Request
    BY <1>a
<1>3. /\ r \in Runs /\ a \in BOOLEAN /\ k \in Kinds
      /\ r = req[q].run /\ k = req[q].kind /\ a = req[q].after /\ op = req[q].op
      /\ \/ op = "start" /\ k = "main"
         \/ op = "execute" /\ k = "execute"
         \/ op = "resume" /\ k \in Resumes
      /\ row[r].status # "none"
      /\ req[q].todo = {}
    BY <1>c, <1>1, <1>2 DEF ReqOk, Claiming
<1>4. /\ w \in Workflow /\ w.st = "running" /\ w.after = a
      /\ k = "main" => w.pc = "gen"
      /\ k \in {"execute", "resumeLead"} => w.pc = "begin"
    BY <1>3, KindFacts DEF Started, Workflow, WfState, Open, ActPc, Writing
<1> HIDE DEF w
<1>5. /\ wf' \in [Runs -> [Kinds -> Workflow]] /\ wf'[r][k] = w
      /\ \A l \in Kinds \ {k} : wf'[r][l] = wf[r][l]
      /\ \A o \in Runs \ {r} : wf'[o] = wf[o]
    <2>1. wf' = [wf EXCEPT ![r][k] = w] /\ w \in Workflow
        BY <1>1, <1>4
    <2> QED
        BY <2>1, <1>2, WfSet
<1>6. /\ req' \in [Requests -> Request] /\ req'[q].pc = "done" /\ req'[q].todo = {}
      /\ req'[q].op = "none"
      /\ \A o \in Requests \ {q} : req'[o] = req[o]
    BY <1>1, <1>2, AnsweredMove
<1>7. Typed'
    BY <1>1, <1>2, <1>5, <1>6 DEF Typed
<1>8. RowsStand
    BY <1>1 DEF RowsStand
<1>9. \A o \in Requests : ReqOk(o)'
    <2>1. ReqOk(q)'
        BY <1>6 DEF ReqOk, Claiming
    <2> QED
        BY <2>1, <1>6, <1>8, ReqStays
<1>10. (\A p \in Pollers : PollOk(p)') /\ \A x \in Runs : Fresh(x)'
    BY <1>1, <1>3, <1>5, <1>8, PollsStay DEF Fresh, Inv
<1>11. \A o \in Requests, x \in Runs : Claims(o, x)' => o # q /\ Claims(o, x) /\ req'[o] = req[o]
    BY <1>6 DEF Claims, Claiming
<1>12. /\ IsOpen(r, k)'
       /\ \A l \in Kinds \ {k} : IsOpen(r, l)' <=> IsOpen(r, l)
       /\ \A x \in Runs \ {r}, l \in Kinds : IsOpen(x, l)' <=> IsOpen(x, l)
    BY <1>3, <1>4, <1>5 DEF IsOpen, Open
<1>13. Claims(q, r)
    BY <1>1, <1>3 DEF Claims, Claiming
<1>14. ASSUME NEW x \in Runs \ raced'
       PROVE  Alone(x)'
    <2>1. Alone(x) /\ x \notin raced
        BY <1>1 DEF Inv
    <2>2. CASE x # r
        <3>1. AtWork(x)' <=> AtWork(x)
            BY <1>12, <2>2 DEF AtWork
        <3> QED
            BY <1>5, <1>11, <1>12, <2>1, <2>2, <3>1 DEF Alone
    <2>3. CASE x = r
        <3>1. ~AtWork(r) /\ \A o \in Requests : ~Claims(o, r)'
            BY <1>11, <1>13, <2>1, <2>3 DEF Alone
        <3>2. \A l \in Kinds : IsOpen(r, l)' => l = k
            BY <1>12, <3>1 DEF AtWork
        <3> QED
            BY <2>3, <3>1, <3>2 DEF Alone
    <2> QED
        BY <2>2, <2>3
<1>15. Project'
    <2> SUFFICES ASSUME raced' = {}
                 PROVE  Project'
        BY DEF Project
    <2>1. raced = {} /\ Project
        BY <1>1 DEF Inv
    <2>2. \A o \in Requests : Past(o)' => o # q /\ Past(o) /\ req'[o] = req[o]
        BY <1>6 DEF Past
    <2>3. k # "execute" => Past(q)
        BY <1>1, <1>3 DEF Past
    <2>4. \A x \in Runs, l \in Kinds \ {"execute"} :
              IsOpen(x, l)' => IsOpen(x, l) \/ (x = r /\ Past(q))
        BY <1>3, <1>12, <2>3
    <2>5. Past(q) => /\ \A o \in Requests : Past(o) => o = q
                     /\ \A x \in Runs, l \in Kinds \ {"execute"} : IsOpen(x, l) => x = r
        BY <1>3, <2>1 DEF Project
    <2>6. \A o, p \in Requests : Past(o)' /\ Past(p)' => o = p
        BY <2>1, <2>2 DEF Project
    <2>7. ASSUME NEW o \in Requests, NEW x \in Runs, NEW l \in Kinds \ {"execute"},
                 Past(o)', x # req'[o].run, IsOpen(x, l)'
          PROVE  \E t \in req'[o].todo : t.run = x /\ l \in Named(t.overlay)
        BY <2>1, <2>2, <2>4, <2>5, <2>7 DEF Project
    <2>8. ASSUME NEW x \in Runs, NEW y \in Runs, NEW l \in Kinds \ {"execute"},
                 NEW m \in Kinds \ {"execute"}, IsOpen(x, l)', IsOpen(y, m)'
          PROVE  x = y
        BY <2>1, <2>4, <2>5, <2>8 DEF Project
    <2> QED
        BY <2>6, <2>7, <2>8 DEF Project
<1>16. ASSUME mishaps' = 0, NEW x \in Runs \ raced'
       PROVE  Columns(x)'
    <2>1. Columns(x) /\ Alone(x) /\ x \notin raced
        BY <1>1, <1>16 DEF Inv, ColumnsInv
    <2>2. CASE x # r
        <3>1. ColumnsFrame(x)
            BY <1>1, <1>3, <1>5, <1>6, <2>2 DEF ColumnsFrame, RowFrame, WfFrame, ReqFrameAt
        <3> QED
            BY <2>1, <3>1, FrameKeeps
    <2>3. CASE x = r
        <3>1. Launching(r)' = {}
            BY <1>11, <1>13, <2>1, <2>3 DEF Launching, Claims, Claiming, Alone
        <3>2. Launching(r) = {q}
            BY <1>1, <1>13, <2>1, <2>3 DEF Launching, Claims, Claiming, Alone
        <3>3. ~AtWork(r) /\ (op = "start" => \A l \in Kinds : wf[r][l].st = "absent")
            BY <1>3, <1>13, <2>1, <2>3 DEF Alone
        <3>4. NoRestore(r)'
            BY <1>6, <2>1, <2>3 DEF Columns, NoRestore
        <3>5. wf'[r][k].st # "absent" /\ \A l \in Kinds : wf[r][l].st # "absent" => wf'[r][l].st # "absent"
            BY <1>4, <1>5
        <3>6. MainThere(r)'
            BY <1>1, <1>3, <2>1, <2>3, <3>2, <3>5, KindFacts DEF Columns, MainThere
        <3>7. OverlayThere(r)'
            BY <1>1, <1>3, <2>1, <2>3, <3>2, <3>5, KindFacts DEF Columns, OverlayThere
        <3>8. ExecuteColumn(r)'
            BY <1>1, <2>1, <2>3, <3>1 DEF Columns, ExecuteColumn
        <3>9. ExecRunning(r)'
            <4> SUFFICES ASSUME row[r].exec = "running"
                         PROVE  \/ \E l \in Kinds : IsOpen(r, l)' /\ wf'[r][l].pc \in {"begin", "run"}
                                \/ \E o \in orphans[r] : o.pc \in {"begin", "run"}
                BY <1>1 DEF ExecRunning, Working
            <4>1. CASE k \in {"execute", "resumeLead"}
                BY <1>3, <1>4, <1>5, <1>12, <4>1
            <4>2. CASE k \notin {"execute", "resumeLead"}
                BY <1>3, <2>1, <2>3, <3>2, <3>3, <4>2 DEF Columns, ExecRunning, Working, AtWork
            <4> QED
                BY <4>1, <4>2
        <3>10. ExecPending(r)'
            <4> SUFFICES ASSUME row[r].exec = "pending", row[r].overlay = "null"
                         PROVE  ExecPending(r)'
                BY <1>1 DEF ExecPending, MainOnItsWay
            <4>1. op # "execute"
                BY <1>3, <2>1, <2>3, <3>2 DEF Columns, ExecuteColumn
            <4>2. /\ wf[r]["execute"].st = "absent"
                  /\ \/ op = "start" /\ a
                     \/ IsOpen(r, "main")
                     \/ wf[r]["main"].st \in {"failed", "cancelled", "partial"}
                BY <1>3, <2>1, <2>3, <3>2 DEF Columns, ExecPending, MainOnItsWay
            <4>3. k # "execute" /\ wf'[r]["execute"].st = "absent"
                BY <1>3, <1>5, <4>1, <4>2, KindFacts
            <4>4. CASE op = "start" /\ a
                <5>1. k = "main"
                    BY <1>3, <4>4
                <5>2. wf'[r]["main"].after /\ wf'[r]["main"].pc = "gen" /\ IsOpen(r, "main")'
                    BY <1>4, <1>5, <1>12, <4>4, <5>1
                <5> QED
                    BY <4>3, <5>2 DEF ExecPending, MainOnItsWay
            <4>5. CASE wf[r]["main"].st \in {"failed", "cancelled", "partial"}
                <5>1. k # "main"
                    BY <1>3, <3>3, <4>5, KindFacts
                <5>2. wf'[r]["main"].st = wf[r]["main"].st
                    BY <1>5, <5>1, KindFacts
                <5> QED
                    BY <4>3, <4>5, <5>2 DEF ExecPending, MainOnItsWay
            <4> QED
                BY <3>3, <4>2, <4>4, <4>5, KindFacts DEF AtWork
        <3> QED
            BY <2>3, <3>4, <3>6, <3>7, <3>8, <3>9, <3>10 DEF Columns
    <2> QED
        BY <2>2, <2>3
<1>17. \A x \in Runs : Alone(x)'
    BY <1>14 DEF Alone
<1> QED
    BY <1>7, <1>9, <1>10, <1>15, <1>16, <1>17 DEF Inv, ColumnsInv

LEMMA LaunchFailsKeeps ==
    ASSUME Inv, NEW q \in Requests, LaunchFails(q)
    PROVE  Inv'
<1>a. Typed /\ ReqOk(q) /\ req[q] \in Request /\ req[q].pc = "launch"
    BY DEF Inv, Typed, LaunchFails
<1>b. req[q].run \in Runs
    BY <1>a DEF ReqOk
<1>c. PICK r \in Runs, k \in Kinds, op \in Ops \cup {"none"} :
           r = req[q].run /\ k = req[q].kind /\ op = req[q].op
    BY <1>a, <1>b DEF Request
<1>1. /\ (IsOpen(r, k) /\ UNCHANGED mishaps) \/ Mishap
      /\ UNCHANGED <<row, wf, orphans, poll, raced>>
    BY <1>c DEF LaunchFails, ReqFrame
<1>2. /\ req' \in [Requests -> Request]
      /\ \A o \in Requests \ {q} : req'[o] = req[o]
      /\ \/ req'[q].pc = "done" /\ req'[q].todo = {}
         \/ /\ op # "start" /\ req'[q].pc = "restore"
            /\ req'[q].op = op /\ req'[q].run = r /\ req'[q].kind = k
            /\ req'[q].seen = req[q].seen /\ req'[q].todo = req[q].todo
    <2>1. CASE req[q].op = "start"
        <3>1. req' = Answered(q)
            BY <2>1 DEF LaunchFails
        <3> QED
            BY <3>1, <1>a, AnsweredMove
    <2>2. CASE req[q].op # "start"
        <3>1. req' = [req EXCEPT ![q].pc = "restore"] /\ "restore" \in ReqPc
            BY <2>2 DEF LaunchFails, ReqPc
        <3> QED
            BY <3>1, <1>a, <1>c, <2>2, PcMove
    <2> QED
        BY <2>1, <2>2
<1>3. Typed'
    BY <1>a, <1>1, <1>2, MishapKeeps DEF Typed
<1>4. RowsStand /\ NoNewWorkflow /\ NoNewRow
    BY <1>1 DEF RowsStand, NoNewWorkflow, NoNewRow
<1>5. \A o \in Requests : ReqOk(o)'
    <2>1. ReqOk(q)'
        BY <1>a, <1>c, <1>1, <1>2 DEF ReqOk, Claiming
    <2> QED
        BY <2>1, <1>2, <1>4, ReqStays
<1>6. (\A p \in Pollers : PollOk(p)') /\ \A x \in Runs : Fresh(x)'
    BY <1>1, <1>4, PollsStay, FreshStays
<1>7. \A o \in Requests, x \in Runs : Claims(o, x)' => Claims(o, x) /\ req'[o].op = req[o].op
    BY <1>2 DEF Claims, Claiming
<1>8. \A x \in Runs : Alone(x)'
    BY <1>1, <1>4, <1>7, AloneStays
<1>9. Project'
    <2>1. \A o \in Requests : Past(o)' => Past(o) /\ req'[o] = req[o]
        BY <1>2 DEF Past
    <2> QED
        BY <1>1, <1>4, <2>1, ProjectStays
<1>10. ColumnsInv'
    <2>1. CASE Mishap
        BY <2>1, MishapKeeps
    <2>2. CASE IsOpen(r, k) /\ UNCHANGED mishaps
        <3>1. r \in raced
            <4>1. AtWork(r) /\ Claims(q, r)
                BY <1>a, <1>c, <2>2 DEF AtWork, Claims, Claiming
            <4> QED
                BY <4>1 DEF Inv, Alone
        <3>2. \A x \in Runs \ raced : ColumnsFrame(x)
            BY <1>c, <1>1, <1>2, <3>1 DEF ColumnsFrame, RowFrame, WfFrame, ReqFrameAt
        <3> QED
            BY <1>1, <2>2, <3>2, ColumnsStay
    <2> QED
        BY <1>1, <2>1, <2>2
<1> QED
    BY <1>3, <1>5, <1>6, <1>8, <1>9, <1>10 DEF Inv

LEMMA RestoreKeeps ==
    ASSUME Inv, NEW q \in Requests, Restore(q)
    PROVE  Inv'
<1>a. Typed /\ ReqOk(q) /\ req[q] \in Request /\ req[q].pc = "restore"
    BY DEF Inv, Typed, Restore
<1>b. req[q].run \in Runs /\ req[q].seen \in Row
    BY <1>a DEF ReqOk, Request
<1>c. PICK r \in Runs, seen \in Row, op \in Ops \cup {"none"} :
           r = req[q].run /\ seen = req[q].seen /\ op = req[q].op
    BY <1>a, <1>b DEF Request
<1> DEFINE e1 == [row[r] EXCEPT !.exec = seen.exec]
           e == [e1 EXCEPT !.overlay = "null"]
           s1 == [row[r] EXCEPT !.status = seen.status]
           s == [s1 EXCEPT !.overlay = "null"]
           new == IF op = "execute" THEN e ELSE s
<1>1. /\ req' = Answered(q) /\ UNCHANGED <<wf, orphans, poll, mishaps, raced>>
      /\ row' = [row EXCEPT ![r] = new]
    BY <1>a, <1>c DEF Restore, ReqFrame, Typed
<1>2. row[r] \in Row /\ row[r].status # "none" /\ seen.status # "none"
    BY <1>a, <1>c DEF ReqOk, Claiming, Typed
<1>3. new \in Row /\ new.status # "none"
    <2>1. e1 \in Row /\ e1.status = row[r].status /\ s1 \in Row /\ s1.status = seen.status
        BY <1>2 DEF Row
    <2> HIDE DEF e1, s1
    <2>2. e \in Row /\ e.status = row[r].status /\ s \in Row /\ s.status = seen.status
        BY <2>1 DEF Row
    <2> HIDE DEF e, s
    <2> QED
        BY <1>2, <2>2
<1> HIDE DEF new
<1>4. row' \in [Runs -> Row] /\ row'[r] = new /\ \A o \in Runs \ {r} : row'[o] = row[o]
    BY <1>a, <1>1, <1>3, RowSet
<1>5. /\ req' \in [Requests -> Request] /\ req'[q].pc = "done" /\ req'[q].todo = {}
      /\ \A o \in Requests \ {q} : req'[o] = req[o]
    BY <1>a, <1>1, AnsweredMove
<1>6. Typed'
    BY <1>a, <1>1, <1>4, <1>5 DEF Typed
<1>7. RowsStand /\ NoNewWorkflow /\ NoNewRow
    BY <1>1, <1>2, <1>3, <1>4 DEF RowsStand, NoNewWorkflow, NoNewRow
<1>8. \A o \in Requests : ReqOk(o)'
    <2>1. ReqOk(q)'
        BY <1>5 DEF ReqOk, Claiming
    <2> QED
        BY <2>1, <1>5, <1>7, ReqStays
<1>9. (\A p \in Pollers : PollOk(p)') /\ \A x \in Runs : Fresh(x)'
    BY <1>1, <1>7, PollsStay, FreshStays
<1>10. \A o \in Requests, x \in Runs : Claims(o, x)' => Claims(o, x) /\ req'[o].op = req[o].op
    BY <1>5 DEF Claims, Claiming
<1>11. \A x \in Runs : Alone(x)'
    BY <1>1, <1>7, <1>10, AloneStays
<1>12. Project'
    <2>1. \A o \in Requests : Past(o)' => Past(o) /\ req'[o] = req[o]
        BY <1>5 DEF Past
    <2> QED
        BY <1>1, <1>7, <2>1, ProjectStays
<1>13. ColumnsInv'
    <2> SUFFICES ASSUME mishaps' = 0
                 PROVE  ColumnsInv'
        BY DEF ColumnsInv
    <2>1. r \in raced
        BY <1>a, <1>c, <1>1 DEF Inv, ColumnsInv, Columns, NoRestore
    <2>2. \A x \in Runs \ raced : ColumnsFrame(x)
        BY <1>c, <1>1, <1>4, <1>5, <2>1 DEF ColumnsFrame, RowFrame, WfFrame, ReqFrameAt
    <2> QED
        BY <1>1, <2>2, ColumnsStay
<1> QED
    BY <1>6, <1>8, <1>9, <1>11, <1>12, <1>13 DEF Inv

LEMMA CancelWriteKeeps ==
    ASSUME Inv, NEW q \in Requests, CancelWrite(q)
    PROVE  Inv'
<1> DEFINE new == [status |-> "cancelled", exec |-> "null", overlay |-> "null"]
<1>a. Typed /\ ReqOk(q) /\ req[q].pc = "write"
    BY DEF Inv, CancelWrite
<1>b. req[q].run \in Runs
    BY <1>a DEF ReqOk
<1>c. PICK r \in Runs : r = req[q].run
    BY <1>b
<1>1. /\ req' = Answered(q) /\ UNCHANGED <<wf, orphans, poll, mishaps, raced>>
      /\ row' = [row EXCEPT ![r] = new]
    BY <1>c DEF CancelWrite, ReqFrame
<1>2. row[r].status # "none"
    BY <1>a, <1>c DEF ReqOk
<1>3. /\ new \in Row /\ new.status = "cancelled"
      /\ new.exec = "null" /\ new.overlay = "null"
    BY DEF Row, Status, Exec
<1> HIDE DEF new
<1>4. row' \in [Runs -> Row] /\ row'[r] = new /\ \A o \in Runs \ {r} : row'[o] = row[o]
    BY <1>a, <1>1, <1>3, RowSet
<1>5. /\ req' \in [Requests -> Request] /\ req'[q].pc = "done" /\ req'[q].todo = {}
      /\ \A o \in Requests \ {q} : req'[o] = req[o]
    BY <1>a, <1>1, AnsweredMove
<1>6. Typed'
    BY <1>a, <1>1, <1>4, <1>5 DEF Typed
<1>7. RowsStand /\ NoNewWorkflow /\ NoNewRow
    BY <1>1, <1>2, <1>3, <1>4 DEF RowsStand, NoNewWorkflow, NoNewRow
<1>8. \A o \in Requests : ReqOk(o)'
    <2>1. ReqOk(q)'
        BY <1>5 DEF ReqOk, Claiming
    <2> QED
        BY <2>1, <1>5, <1>7, ReqStays
<1>9. (\A p \in Pollers : PollOk(p)') /\ \A x \in Runs : Fresh(x)'
    BY <1>1, <1>7, PollsStay, FreshStays
<1>10. \A o \in Requests, x \in Runs : Claims(o, x)' => Claims(o, x) /\ req'[o].op = req[o].op
    BY <1>5 DEF Claims, Claiming
<1>11. \A x \in Runs : Alone(x)'
    BY <1>1, <1>7, <1>10, AloneStays
<1>12. Project'
    <2>1. \A o \in Requests : Past(o)' => Past(o) /\ req'[o] = req[o]
        BY <1>5 DEF Past
    <2> QED
        BY <1>1, <1>7, <2>1, ProjectStays
<1>13. ColumnsInv'
    <2>1. \A x \in Runs : RowFrame(x)
        BY <1>2, <1>3, <1>4 DEF RowFrame
    <2>2. \A x \in Runs : ColumnsFrame(x)
        BY <1>a, <1>1, <1>5, <2>1 DEF ColumnsFrame, WfFrame, ReqFrameAt
    <2> QED
        BY <1>1, <2>2, ColumnsStay
<1> QED
    BY <1>6, <1>8, <1>9, <1>11, <1>12, <1>13 DEF Inv

LEMMA CancelKeeps ==
    ASSUME Inv, NEW q \in Requests, NEW r \in Runs, CancelRun(q, r)
    PROVE  Inv'
<1> DEFINE f == [k \in Kinds |-> IF wf[r][k].st = "running"
                                 THEN [wf[r][k] EXCEPT !.st = "cancelling"] ELSE wf[r][k]]
<1>1. /\ req[q].pc = "idle" /\ "cancel" \in Ops /\ row[r].status # "none"
      /\ Begin(q, "cancel", r, "main", FALSE, "write")
      /\ UNCHANGED <<row, orphans, poll, mishaps, raced>>
    BY DEF CancelRun, ReqFrame
<1>2. Typed /\ wf' = [wf EXCEPT ![r] = f]
    BY DEF Inv, CancelRun, Typed
<1>3. ASSUME NEW k \in Kinds
      PROVE  /\ f[k] \in Workflow
             /\ \/ f[k] = wf[r][k]
                \/ /\ f[k].st \in Open /\ wf[r][k].st \in Open
                   /\ f[k].pc = wf[r][k].pc /\ f[k].after = wf[r][k].after
    <2>1. wf[r][k] \in Workflow
        BY <1>2 DEF Typed
    <2> DEFINE w == [wf[r][k] EXCEPT !.st = "cancelling"]
    <2>2. w \in Workflow /\ w.st = "cancelling" /\ w.pc = wf[r][k].pc /\ w.after = wf[r][k].after
        BY <2>1 DEF Workflow, WfState, Open
    <2>3. f[k] = IF wf[r][k].st = "running" THEN w ELSE wf[r][k]
        OBVIOUS
    <2> HIDE DEF w, f
    <2> QED
        BY <2>1, <2>2, <2>3, KindFacts
<1>4. f \in [Kinds -> Workflow]
    BY <1>3
<1> HIDE DEF f
<1>5. /\ wf' \in [Runs -> [Kinds -> Workflow]] /\ wf'[r] = f
      /\ \A o \in Runs \ {r} : wf'[o] = wf[o]
    BY <1>2, <1>4 DEF Typed
<1>6. /\ req' \in [Requests -> Request] /\ req'[q].pc = "write" /\ req'[q].run = r
      /\ req'[q].todo = {}
      /\ \A o \in Requests \ {q} : req'[o] = req[o]
    <2>1. "write" \in ReqPc /\ "main" \in Kinds /\ FALSE \in BOOLEAN
        BY KindFacts DEF ReqPc
    <2>2. ASSUME NEW a \in BOOLEAN, Begin(q, "cancel", r, "main", a, "write")
          PROVE  <1>6
        BY <1>1, <1>2, <2>1, <2>2, BeginMove
    <2> QED
        BY <1>1, <2>1, <2>2, Zenon
<1>7. Typed'
    BY <1>1, <1>2, <1>5, <1>6 DEF Typed
<1>8. RowsStand /\ NoNewRow
    BY <1>1 DEF RowsStand, NoNewRow
<1>9. \A x \in Runs : WfFrame(x)
    BY <1>3, <1>5 DEF WfFrame
<1>10. NoNewWorkflow
    BY <1>9, KindFacts DEF NoNewWorkflow, WfFrame
<1>11. \A o \in Requests : ReqOk(o)'
    <2>1. ReqOk(q)'
        BY <1>1, <1>6 DEF ReqOk, Claiming
    <2> QED
        BY <2>1, <1>6, <1>8, ReqStays
<1>12. (\A p \in Pollers : PollOk(p)') /\ \A x \in Runs : Fresh(x)'
    BY <1>1, <1>8, <1>10, PollsStay, FreshStays
<1>13. \A o \in Requests, x \in Runs : Claims(o, x)' => Claims(o, x) /\ req'[o].op = req[o].op
    BY <1>6 DEF Claims, Claiming
<1>14. \A x \in Runs : Alone(x)'
    BY <1>1, <1>10, <1>13, AloneStays
<1>15. Project'
    <2>1. \A o \in Requests : Past(o)' => Past(o) /\ req'[o] = req[o]
        BY <1>6 DEF Past
    <2> QED
        BY <1>1, <1>10, <2>1, ProjectStays
<1>16. ColumnsInv'
    <2>1. \A x \in Runs : ColumnsFrame(x)
        BY <1>1, <1>6, <1>9 DEF ColumnsFrame, RowFrame, ReqFrameAt
    <2> QED
        BY <1>1, <2>1, ColumnsStay
<1> QED
    BY <1>7, <1>11, <1>12, <1>14, <1>15, <1>16 DEF Inv

-----------------------------------------------------------------------------
(* Workflows and activities                                                 *)

LEMMA MoveFacts ==
    ASSUME NEW a, NEW m \in Moves(a)
    PROVE  /\ m.from \in Writing /\ m.to \in ActPc
           /\ m.status \in {"none", "completed", "failed", "cancelled"}
           /\ m.exec \in {"keep", "running", "completed", "failed"}
           /\ m.from = "begin" => m.to = "run"
           /\ m.to = "run" => m.exec = "running"
           /\ m.exec = "running" => m.to = "run"
           /\ m.from = "run" => m.exec \in {"completed", "failed"}
           /\ m.from = "gen" => m.to \in {"generated", "failing"}
BY DEF Moves, Move, Keep, Writing, ActPc, Reports

LEMMA WrittenRow ==
    ASSUME NEW r0 \in Row, NEW a, NEW m \in Moves(a)
    PROVE  /\ Written(r0, m) \in Row /\ Written(r0, m).overlay = r0.overlay
           /\ r0.status # "none" => Written(r0, m).status # "none"
           /\ Written(r0, m).exec = IF m.exec = "keep" THEN r0.exec ELSE m.exec
<1> DEFINE s == IF m.status = Keep THEN r0.status ELSE m.status
           e == IF m.exec = "keep" THEN r0.exec ELSE m.exec
           n1 == [r0 EXCEPT !.status = s]
           n == [n1 EXCEPT !.exec = e]
<1>1. s \in Status /\ (r0.status # "none" => s # "none") /\ e \in Exec
    BY MoveFacts DEF Row, Status, Exec, Keep
<1>2. Written(r0, m) = n
    BY DEF Written, Row
<1>3. e = IF m.exec = "keep" THEN r0.exec ELSE m.exec
    OBVIOUS
<1> HIDE DEF s, e
<1>4. n1 \in Row /\ n1.status = s /\ n1.overlay = r0.overlay
    BY <1>1 DEF Row
<1> HIDE DEF n1
<1>5. n \in Row /\ n.status = s /\ n.overlay = r0.overlay /\ n.exec = e
    BY <1>1, <1>4 DEF Row
<1> HIDE DEF n
<1> QED
    BY <1>1, <1>2, <1>3, <1>5

\* What a step of the worker does to the columns' explanations.
LEMMA WorkColumns ==
    ASSUME NEW r \in Runs, Columns(r), req' = req,
           row[r].status = "none" => row'[r].status = "none",
           row'[r].overlay = row[r].overlay,
           \A k \in Kinds : wf'[r][k].st = "absent" <=> wf[r][k].st = "absent",
           \/ row'[r].exec = row[r].exec /\ (Working(r) => Working(r)' \/ row[r].exec # "running")
           \/ row'[r].exec = "running" /\ Working(r)'
           \/ row'[r].exec \in {"completed", "failed"},
           MainOnItsWay(r) => MainOnItsWay(r)' \/ row'[r].exec # "pending"
    PROVE  Columns(r)'
<1>1. Launching(r)' = Launching(r)
    BY DEF Launching
<1>2. NoRestore(r)' /\ MainThere(r)'
    BY <1>1, KindFacts DEF Columns, NoRestore, MainThere
<1>3. OverlayThere(r)'
    BY <1>1, KindFacts DEF Columns, OverlayThere
<1>4. ExecuteColumn(r)'
    BY <1>1 DEF Columns, ExecuteColumn
<1>5. ExecRunning(r)'
    BY <1>1 DEF Columns, ExecRunning
<1>6. ExecPending(r)'
    BY <1>1, KindFacts DEF Columns, ExecPending
<1> QED
    BY <1>2, <1>3, <1>4, <1>5, <1>6 DEF Columns

\* A step of the worker on one run.
LEMMA WorkColumnsOf ==
    ASSUME Inv, NEW r \in Runs, mishaps' = mishaps, raced' = raced, req' = req,
           \A x \in Runs \ {r} : row'[x] = row[x] /\ wf'[x] = wf[x] /\ orphans'[x] = orphans[x],
           Columns(r) => Columns(r)'
    PROVE  ColumnsInv'
<1> SUFFICES ASSUME mishaps' = 0, NEW x \in Runs \ raced
             PROVE  Columns(x)'
    BY DEF ColumnsInv
<1>1. Columns(x)
    BY DEF Inv, ColumnsInv
<1>2. x # r => ColumnsFrame(x)
    BY DEF ColumnsFrame, RowFrame, WfFrame, ReqFrameAt
<1> QED
    BY <1>1, <1>2, FrameKeeps

LEMMA ActivityWritesKeeps ==
    ASSUME Inv, NEW r \in Runs, NEW k \in Kinds, ActivityWrites(r, k)
    PROVE  Inv'
<1>1. PICK m \in Moves(wf[r][k].after) :
          /\ m.from = wf[r][k].pc
          /\ row' = [row EXCEPT ![r] = Written(@, m)]
          /\ wf' = [wf EXCEPT ![r][k].pc = m.to]
    BY DEF ActivityWrites
<1>2. IsOpen(r, k) /\ UNCHANGED <<orphans, mishaps, req, poll, raced>>
    BY DEF ActivityWrites, WorkFrame
<1>3. Typed /\ row[r] \in Row /\ row[r].status # "none"
    BY <1>2, KindFacts DEF Inv, Typed, Fresh, IsOpen
<1>4. /\ m.from \in Writing /\ m.to \in ActPc
      /\ m.exec \in {"keep", "running", "completed", "failed"}
      /\ m.from = "begin" => m.to = "run"
      /\ m.to = "run" => m.exec = "running"
      /\ m.exec = "running" => m.to = "run"
      /\ m.from = "run" => m.exec \in {"completed", "failed"}
      /\ m.from = "gen" => m.to \in {"generated", "failing"}
    BY MoveFacts
<1>5. /\ row' \in [Runs -> Row] /\ \A o \in Runs \ {r} : row'[o] = row[o]
      /\ row'[r].overlay = row[r].overlay /\ row'[r].status # "none"
      /\ row'[r].exec = IF m.exec = "keep" THEN row[r].exec ELSE m.exec
    <2> DEFINE n == Written(row[r], m)
    <2>1. /\ n \in Row /\ n.overlay = row[r].overlay /\ n.status # "none"
          /\ n.exec = IF m.exec = "keep" THEN row[r].exec ELSE m.exec
        BY <1>3, WrittenRow
    <2>2. row' = [row EXCEPT ![r] = n]
        BY <1>1
    <2> HIDE DEF n
    <2> QED
        BY <1>3, <2>1, <2>2, RowSet
<1>6. /\ wf' \in [Runs -> [Kinds -> Workflow]]
      /\ wf'[r][k].pc = m.to /\ wf'[r][k].st = wf[r][k].st
      /\ wf'[r][k].after = wf[r][k].after
      /\ \A l \in Kinds \ {k} : wf'[r][l] = wf[r][l]
      /\ \A o \in Runs \ {r} : wf'[o] = wf[o]
    BY <1>1, <1>3, <1>4, WfPc
<1>7. Typed'
    BY <1>2, <1>3, <1>5, <1>6 DEF Typed
<1>8. \A l \in Kinds : wf'[r][l].st = wf[r][l].st /\ wf'[r][l].after = wf[r][l].after
    BY <1>6
<1>9. NoNewWorkflow /\ RowsStand /\ NoNewRow
    BY <1>2, <1>3, <1>5, <1>6, <1>8 DEF NoNewWorkflow, RowsStand, NoNewRow
<1>10. \A p \in Pollers : PollOk(p)'
    BY <1>2, <1>9, PollsStay
<1>11. ASSUME Columns(r)
       PROVE  Columns(r)'
    <2>1. \A l \in Kinds : IsOpen(r, l)' <=> IsOpen(r, l)
        BY <1>8 DEF IsOpen
    <2>2. m.to = "run" => Working(r)'
        BY <1>2, <1>6, <2>1 DEF Working
    <2>3. m.from # "run" /\ m.to # "run" => (Working(r) => Working(r)')
        BY <1>1, <1>2, <1>4, <1>6, <2>1 DEF Working
    <2>4. MainOnItsWay(r) => MainOnItsWay(r)' \/ row'[r].exec # "pending"
        <3> SUFFICES ASSUME MainOnItsWay(r), row'[r].exec = "pending"
                     PROVE  MainOnItsWay(r)'
            OBVIOUS
        <3>1. m.exec = "keep"
            BY <1>4, <1>5
        <3>2. m.from \notin {"begin", "run"}
            BY <3>1, <1>4
        <3>3. CASE k = "main" /\ m.from = "gen"
            BY <1>1, <1>4, <1>6, <2>1, <3>3, KindFacts DEF MainOnItsWay
        <3>4. CASE k = "main" /\ m.from # "gen"
            BY <1>1, <1>2, <1>4, <1>6, <2>1, <3>2, <3>4, KindFacts
            DEF MainOnItsWay, IsOpen, Writing
        <3>5. CASE k # "main"
            BY <1>6, <2>1, <3>5, KindFacts DEF MainOnItsWay
        <3> QED
            BY <3>3, <3>4, <3>5
    <2>5. \/ row'[r].exec = row[r].exec /\ (Working(r) => Working(r)' \/ row[r].exec # "running")
          \/ row'[r].exec = "running" /\ Working(r)'
          \/ row'[r].exec \in {"completed", "failed"}
        BY <1>4, <1>5, <2>2, <2>3
    <2> QED
        BY <1>2, <1>3, <1>5, <1>8, <1>11, <2>4, <2>5, WorkColumns
<1>12. ColumnsInv'
    BY <1>2, <1>5, <1>6, <1>11, WorkColumnsOf
<1> QED
    BY <1>2, <1>7, <1>9, <1>10, <1>12, WorkKeeps DEF Inv

LEMMA OrphanWritesKeeps ==
    ASSUME Inv, NEW r \in Runs, OrphanWrites(r)
    PROVE  Inv'
<1>0. PICK o \in orphans[r] : \E m \in Moves(o.after) :
          /\ m.from = o.pc
          /\ row' = [row EXCEPT ![r] = Written(@, m)]
          /\ orphans' = [orphans EXCEPT ![r] = (@ \ {o}) \cup
                           (IF m.to \in Writing THEN {[o EXCEPT !.pc = m.to]} ELSE {})]
    BY DEF OrphanWrites
<1>1. PICK m \in Moves(o.after) :
          /\ m.from = o.pc
          /\ row' = [row EXCEPT ![r] = Written(@, m)]
          /\ orphans' = [orphans EXCEPT ![r] = (@ \ {o}) \cup
                           (IF m.to \in Writing THEN {[o EXCEPT !.pc = m.to]} ELSE {})]
    BY <1>0
<1>2. UNCHANGED <<wf, mishaps, req, poll, raced>>
    BY DEF OrphanWrites, WorkFrame
<1>3. Typed /\ row[r] \in Row /\ row[r].status # "none"
    BY <1>1 DEF Inv, Typed, Fresh
<1>4. orphans[r] \in SUBSET Orphan /\ o \in Orphan
    BY <1>1, <1>3 DEF Typed
<1>5. /\ m.from \in Writing /\ m.to \in ActPc
      /\ m.exec \in {"keep", "running", "completed", "failed"}
      /\ m.from = "begin" => m.to = "run"
      /\ m.to = "run" => m.exec = "running"
      /\ m.exec = "running" => m.to = "run"
      /\ m.from = "run" => m.exec \in {"completed", "failed"}
    BY MoveFacts
<1>6. /\ row' \in [Runs -> Row] /\ \A x \in Runs \ {r} : row'[x] = row[x]
      /\ row'[r].overlay = row[r].overlay /\ row'[r].status # "none"
      /\ row'[r].exec = IF m.exec = "keep" THEN row[r].exec ELSE m.exec
    <2> DEFINE n == Written(row[r], m)
    <2>1. /\ n \in Row /\ n.overlay = row[r].overlay /\ n.status # "none"
          /\ n.exec = IF m.exec = "keep" THEN row[r].exec ELSE m.exec
        BY <1>3, WrittenRow
    <2>2. row' = [row EXCEPT ![r] = n]
        BY <1>1
    <2> HIDE DEF n
    <2> QED
        BY <1>3, <2>1, <2>2, RowSet
<1>7. /\ orphans' \in [Runs -> SUBSET Orphan]
      /\ \A x \in Runs \ {r} : orphans'[x] = orphans[x]
      /\ orphans[r] \ {o} \subseteq orphans'[r]
      /\ m.to = "run" => \E p \in orphans'[r] : p.pc = "run"
    <2> DEFINE n == [o EXCEPT !.pc = m.to]
               rest == IF m.to \in Writing THEN {n} ELSE {}
    <2>1. n.pc = m.to /\ (m.to \in Writing => n \in Orphan)
        BY <1>4 DEF Orphan
    <2> HIDE DEF n
    <2>2. rest \in SUBSET Orphan /\ (m.to = "run" => n \in rest)
        BY <2>1 DEF Writing
    <2>3. orphans' = [orphans EXCEPT ![r] = (orphans[r] \ {o}) \cup rest]
        BY <1>1 DEF n
    <2> HIDE DEF rest
    <2>4. orphans \in [Runs -> SUBSET Orphan]
        BY <1>3 DEF Typed
    <2> QED
        BY <1>4, <2>1, <2>2, <2>3, <2>4
<1>8. Typed'
    BY <1>2, <1>3, <1>6, <1>7 DEF Typed
<1>9. NoNewWorkflow /\ RowsStand /\ NoNewRow
    BY <1>2, <1>3, <1>6, <1>7 DEF NoNewWorkflow, RowsStand, NoNewRow
<1>10. \A p \in Pollers : PollOk(p)'
    BY <1>2, <1>9, PollsStay
<1>11. ASSUME Columns(r)
       PROVE  Columns(r)'
    <2>1. \A l \in Kinds : IsOpen(r, l)' <=> IsOpen(r, l)
        BY <1>2 DEF IsOpen
    <2>2. m.to = "run" => Working(r)'
        BY <1>7 DEF Working
    <2>3. m.from # "run" /\ m.to # "run" => (Working(r) => Working(r)')
        BY <1>1, <1>2, <1>5, <1>7, <2>1 DEF Working
    <2>4. MainOnItsWay(r) => MainOnItsWay(r)'
        BY <1>2, <2>1, KindFacts DEF MainOnItsWay
    <2>5. \/ row'[r].exec = row[r].exec /\ (Working(r) => Working(r)' \/ row[r].exec # "running")
          \/ row'[r].exec = "running" /\ Working(r)'
          \/ row'[r].exec \in {"completed", "failed"}
        BY <1>5, <1>6, <2>2, <2>3
    <2> QED
        BY <1>2, <1>3, <1>6, <1>11, <2>4, <2>5, WorkColumns
<1>12. ColumnsInv'
    BY <1>2, <1>6, <1>7, <1>11, WorkColumnsOf
<1> QED
    BY <1>2, <1>8, <1>9, <1>10, <1>12, WorkKeeps DEF Inv

\* A workflow that is at work has a row.
LEMMA OpenRow ==
    ASSUME Inv, NEW r \in Runs, NEW k \in Kinds, IsOpen(r, k)
    PROVE  /\ Typed /\ row[r] \in Row /\ row[r].status # "none"
           /\ wf[r][k] \in Workflow /\ wf[r][k].st # "absent"
BY KindFacts DEF Inv, Typed, Fresh, IsOpen

LEMMA WriteLostKeeps ==
    ASSUME Inv, NEW r \in Runs, NEW k \in Kinds, WriteLost(r, k)
    PROVE  Inv'
<1>1. PICK m \in Moves(wf[r][k].after) : wf' = [wf EXCEPT ![r][k].pc = m.to]
    BY DEF WriteLost
<1>2. Mishap /\ UNCHANGED <<row, orphans, req, poll, raced>>
    BY DEF WriteLost, WorkFrame
<1>3. Typed /\ m.to \in ActPc
    BY MoveFacts DEF Inv
<1>4. /\ wf' \in [Runs -> [Kinds -> Workflow]]
      /\ wf'[r][k].st = wf[r][k].st
      /\ \A l \in Kinds \ {k} : wf'[r][l] = wf[r][l]
      /\ \A o \in Runs \ {r} : wf'[o] = wf[o]
    BY <1>1, <1>3, WfPc, ZenonT(30)
<1>5. Typed' /\ ColumnsInv'
    BY <1>2, <1>3, <1>4, MishapKeeps DEF Typed
<1>6. NoNewWorkflow /\ RowsStand /\ NoNewRow
    BY <1>2, <1>4 DEF NoNewWorkflow, RowsStand, NoNewRow
<1>7. \A p \in Pollers : PollOk(p)'
    BY <1>2, <1>6, PollsStay
<1> QED
    BY <1>2, <1>5, <1>6, <1>7, WorkKeeps DEF Inv

LEMMA InterruptedKeeps ==
    ASSUME Inv, NEW r \in Runs, NEW k \in Kinds, Interrupted(r, k)
    PROVE  Inv'
<1> DEFINE p == IF wf[r][k].pc = "gen" THEN "failing" ELSE "halt"
           new == [row[r] EXCEPT !.exec = "null"]
<1>1. IsOpen(r, k) /\ Mishap /\ UNCHANGED <<orphans, req, poll, raced>>
    BY DEF Interrupted, WorkFrame
<1>2. Typed /\ row[r] \in Row /\ row[r].status # "none" /\ wf[r][k] \in Workflow
    BY <1>1, OpenRow
<1>3. wf' = [wf EXCEPT ![r][k].pc = p] /\ p \in ActPc
    BY <1>2 DEF Interrupted, ActPc, Writing, Reports, Typed
<1> HIDE DEF p
<1>4. /\ wf' \in [Runs -> [Kinds -> Workflow]]
      /\ wf'[r][k].st = wf[r][k].st
      /\ \A l \in Kinds \ {k} : wf'[r][l] = wf[r][l]
      /\ \A o \in Runs \ {r} : wf'[o] = wf[o]
    BY <1>2, <1>3, WfPc, ZenonT(30)
<1>5. /\ row' \in [Runs -> Row] /\ row'[r].status = row[r].status
      /\ \A o \in Runs \ {r} : row'[o] = row[o]
    <2>1. new \in Row /\ new.status = row[r].status
        BY <1>2 DEF Row, Exec
    <2>2. row' = [row EXCEPT ![r] = new] \/ row' = row
        BY <1>2 DEF Interrupted, Typed
    <2> HIDE DEF new
    <2>3. CASE row' = row
        BY <2>3, <1>2 DEF Typed
    <2>4. CASE row' = [row EXCEPT ![r] = new]
        BY <2>1, <2>4, <1>2, RowSet
    <2> QED
        BY <2>2, <2>3, <2>4
<1>6. Typed' /\ ColumnsInv'
    BY <1>1, <1>2, <1>4, <1>5, MishapKeeps DEF Typed
<1>7. NoNewWorkflow /\ RowsStand /\ NoNewRow
    BY <1>1, <1>2, <1>4, <1>5 DEF NoNewWorkflow, RowsStand, NoNewRow
<1>8. \A o \in Pollers : PollOk(o)'
    BY <1>1, <1>7, PollsStay
<1> QED
    BY <1>1, <1>6, <1>7, <1>8, WorkKeeps DEF Inv

LEMMA WorkerDiesKeeps ==
    ASSUME Inv, WorkerDies
    PROVE  Inv'
<1> DEFINE pc(p) == CASE p \in {"gen", "generated", "failing"} -> "genLost"
                      [] p \in (Writing \cup Reports) \ {"gen", "generated", "failing"}
                            -> "leadLost"
                      [] OTHER -> p
           w(x, k) == [wf[x][k] EXCEPT !.pc = pc(wf[x][k].pc)]
<1>1. /\ Mishap /\ UNCHANGED <<row, req, poll, raced>>
      /\ orphans' = [x \in Runs |-> {}]
      /\ wf' = [x \in Runs |-> [k \in Kinds |-> w(x, k)]]
    BY DEF WorkerDies, WorkFrame
<1>2. Typed
    BY DEF Inv
<1>3. ASSUME NEW x \in Runs, NEW k \in Kinds
      PROVE  w(x, k) \in Workflow /\ w(x, k).st = wf[x][k].st
    <2>1. wf[x][k] \in Workflow
        BY <1>2 DEF Typed
    <2>2. \A p \in ActPc : pc(p) \in ActPc
        BY DEF ActPc
    <2>3. pc(wf[x][k].pc) \in ActPc
        BY <2>1, <2>2 DEF Workflow
    <2> HIDE DEF pc
    <2> QED
        BY <2>1, <2>3 DEF Workflow
<1> HIDE DEF w
<1>4. /\ wf' \in [Runs -> [Kinds -> Workflow]]
      /\ \A x \in Runs, k \in Kinds : wf'[x][k].st = wf[x][k].st
    BY <1>1, <1>3
<1>5. Typed' /\ ColumnsInv'
    BY <1>1, <1>2, <1>4, MishapKeeps DEF Typed
<1>6. NoNewWorkflow /\ RowsStand /\ NoNewRow
    BY <1>1, <1>4 DEF NoNewWorkflow, RowsStand, NoNewRow, Inv, Fresh
<1>7. \A p \in Pollers : PollOk(p)'
    BY <1>1, <1>6, PollsStay
<1> QED
    BY <1>1, <1>5, <1>6, <1>7, WorkKeeps DEF Inv

LEMMA OrphanedMove ==
    ASSUME Typed, NEW r \in Runs, NEW k \in Kinds, orphans' = Orphaned(r, k)
    PROVE  /\ orphans' \in [Runs -> SUBSET Orphan]
           /\ \A x \in Runs \ {r} : orphans'[x] = orphans[x]
           /\ orphans[r] \subseteq orphans'[r]
           /\ wf[r][k].pc \in Writing => \E o \in orphans'[r] : o.pc = wf[r][k].pc
<1> DEFINE new == {[pc |-> p, after |-> wf[r][k].after] : p \in {wf[r][k].pc} \cap Writing}
<1>1. orphans \in [Runs -> SUBSET Orphan] /\ wf[r][k] \in Workflow
    BY DEF Typed
<1>2. new \in SUBSET Orphan
    BY <1>1 DEF Orphan, Workflow
<1>3. wf[r][k].pc \in Writing => \E o \in new : o.pc = wf[r][k].pc
    <2> SUFFICES ASSUME wf[r][k].pc \in Writing
                 PROVE  \E o \in new : o.pc = wf[r][k].pc
        OBVIOUS
    <2>1. [pc |-> wf[r][k].pc, after |-> wf[r][k].after] \in new
        OBVIOUS
    <2> QED
        BY <2>1
<1>4. orphans' = [orphans EXCEPT ![r] = orphans[r] \cup new]
    BY <1>1 DEF Orphaned
<1> HIDE DEF new
<1> QED
    BY <1>1, <1>2, <1>3, <1>4

LEMMA RetryKeeps ==
    ASSUME Inv, NEW r \in Runs, NEW k \in Kinds, Retry(r, k)
    PROVE  Inv'
<1>1. /\ wf[r][k].pc = "failing" /\ wf' = [wf EXCEPT ![r][k].pc = "gen"]
      /\ UNCHANGED <<row, orphans, mishaps, req, poll, raced>>
    BY DEF Retry, WorkFrame
<1>2. Typed /\ "gen" \in ActPc
    BY DEF Inv, ActPc, Writing
<1>3. /\ wf' \in [Runs -> [Kinds -> Workflow]]
      /\ wf'[r][k].pc = "gen" /\ wf'[r][k].st = wf[r][k].st
      /\ wf'[r][k].after = wf[r][k].after
      /\ \A l \in Kinds \ {k} : wf'[r][l] = wf[r][l]
      /\ \A o \in Runs \ {r} : wf'[o] = wf[o]
    BY <1>1, <1>2, WfPc
<1>4. Typed'
    BY <1>1, <1>2, <1>3 DEF Typed
<1>5. NoNewWorkflow /\ RowsStand /\ NoNewRow
    BY <1>1, <1>3 DEF NoNewWorkflow, RowsStand, NoNewRow
<1>6. \A o \in Pollers : PollOk(o)'
    BY <1>1, <1>5, PollsStay
<1>7. ASSUME Columns(r)
      PROVE  Columns(r)'
    <2>1. \A l \in Kinds : /\ IsOpen(r, l)' <=> IsOpen(r, l)
                           /\ wf'[r][l].st = wf[r][l].st /\ wf'[r][l].after = wf[r][l].after
        BY <1>3 DEF IsOpen
    <2>2. Working(r) => Working(r)'
        BY <1>1, <1>3, <2>1 DEF Working
    <2>3. MainOnItsWay(r) => MainOnItsWay(r)'
        BY <1>3, <2>1, KindFacts DEF MainOnItsWay
    <2> QED
        BY <1>1, <1>7, <2>1, <2>2, <2>3, WorkColumns
<1>8. ColumnsInv'
    BY <1>1, <1>3, <1>7, WorkColumnsOf
<1> QED
    BY <1>1, <1>4, <1>5, <1>6, <1>8, WorkKeeps DEF Inv

LEMMA GoesOnKeeps ==
    ASSUME Inv, NEW r \in Runs, NEW k \in Kinds, WorkflowGoesOn(r, k)
    PROVE  Inv'
<1>1. IsOpen(r, k) /\ UNCHANGED <<row, orphans, mishaps, req, poll, raced>>
    BY DEF WorkflowGoesOn, WorkFrame
<1>2. Typed /\ wf[r][k].st # "absent"
    BY <1>1, OpenRow
<1>3. /\ wf' \in [Runs -> [Kinds -> Workflow]]
      /\ \A l \in Kinds \ {k} : wf'[r][l] = wf[r][l]
      /\ \A o \in Runs \ {r} : wf'[o] = wf[o]
      /\ wf[r][k].pc \notin {"begin", "run"}
      /\ \/ /\ wf[r][k].pc = "generated" /\ wf[r][k].after
            /\ wf'[r][k].pc = "begin" /\ wf'[r][k].st = wf[r][k].st
            /\ wf'[r][k].after = wf[r][k].after
         \/ /\ wf'[r][k].st \in {"completed", "partial", "failed"}
            /\ wf[r][k].pc = "failing" => wf'[r][k].st = "failed"
            /\ wf[r][k].pc = "generated" => ~wf[r][k].after
            /\ wf[r][k].pc \in {"generated", "passed", "journeysFailed", "failing", "errored"}
    <2>1. CASE wf[r][k].pc = "generated" /\ wf[r][k].after /\ wf' = [wf EXCEPT ![r][k].pc = "begin"]
        <3>1. "begin" \in ActPc
            BY DEF ActPc, Writing
        <3> QED
            BY <1>2, <2>1, <3>1, WfPc, ZenonT(30)
    <2>2. ASSUME NEW st \in {"completed", "partial", "failed"}, Close(r, k, st),
                 wf[r][k].pc \in {"generated", "passed", "journeysFailed", "failing", "errored"},
                 wf[r][k].pc = "failing" => st = "failed",
                 wf[r][k].pc = "generated" => ~wf[r][k].after
          PROVE  <1>3
        <3>1. st \in WfState \ Open /\ st # "absent"
            BY DEF WfState, Open
        <3>2. /\ wf' \in [Runs -> [Kinds -> Workflow]] /\ wf'[r][k].st = st
              /\ \A l \in Kinds \ {k} : wf'[r][l] = wf[r][l]
              /\ \A o \in Runs \ {r} : wf'[o] = wf[o]
            BY <1>2, <2>2, <3>1, CloseMove
        <3> QED
            BY <2>2, <3>2
    <2> QED
        BY <2>1, <2>2 DEF WorkflowGoesOn
<1>4. Typed'
    BY <1>1, <1>2, <1>3 DEF Typed
<1>5. \A l \in Kinds : /\ wf'[r][l].st = "absent" <=> wf[r][l].st = "absent"
                       /\ IsOpen(r, l)' => IsOpen(r, l)
    BY <1>1, <1>2, <1>3 DEF IsOpen
<1>6. NoNewWorkflow /\ RowsStand /\ NoNewRow
    BY <1>1, <1>3, <1>5 DEF NoNewWorkflow, RowsStand, NoNewRow, IsOpen
<1>7. \A o \in Pollers : PollOk(o)'
    BY <1>1, <1>6, PollsStay
<1>8. ASSUME Columns(r)
      PROVE  Columns(r)'
    <2>1. \A l \in Kinds \ {k} : IsOpen(r, l)' <=> IsOpen(r, l)
        BY <1>3 DEF IsOpen
    <2>2. Working(r) => Working(r)'
        BY <1>1, <1>3, <2>1 DEF Working
    <2>3. MainOnItsWay(r) => MainOnItsWay(r)'
        <3> SUFFICES ASSUME MainOnItsWay(r)
                     PROVE  MainOnItsWay(r)'
            OBVIOUS
        <3>1. CASE k # "main"
            BY <1>3, <2>1, <3>1, KindFacts DEF MainOnItsWay
        <3>2. CASE k = "main"
            <4>1. wf[r]["main"].after /\ wf[r]["main"].pc \in {"generated", "failing"}
                BY <1>1, <1>3, <3>2, KindFacts DEF MainOnItsWay, IsOpen
            <4>2. CASE wf'[r]["main"].st = "failed"
                BY <4>2 DEF MainOnItsWay
            <4>3. CASE wf'[r]["main"].st # "failed"
                <5>1. /\ wf'[r]["main"].pc = "begin" /\ wf'[r]["main"].st = wf[r]["main"].st
                      /\ wf'[r]["main"].after = wf[r]["main"].after
                    BY <1>3, <3>2, <4>1, <4>3
                <5> QED
                    BY <1>1, <3>2, <4>1, <5>1 DEF MainOnItsWay, IsOpen
            <4> QED
                BY <4>2, <4>3
        <3> QED
            BY <3>1, <3>2
    <2> QED
        BY <1>1, <1>5, <1>8, <2>2, <2>3, WorkColumns
<1>9. ColumnsInv'
    BY <1>1, <1>3, <1>8, WorkColumnsOf
<1> QED
    BY <1>1, <1>4, <1>6, <1>7, <1>9, WorkKeeps DEF Inv

LEMMA CancelledKeeps ==
    ASSUME Inv, NEW r \in Runs, NEW k \in Kinds, WorkflowCancelled(r, k)
    PROVE  Inv'
<1>1. /\ wf[r][k].st = "cancelling" /\ orphans' = Orphaned(r, k)
      /\ UNCHANGED <<row, mishaps, req, poll, raced>>
    BY DEF WorkflowCancelled, WorkFrame
<1>2. PICK st \in {"cancelled", "failed"} : Close(r, k, st)
    BY DEF WorkflowCancelled
<1>3. IsOpen(r, k)
    BY <1>1 DEF IsOpen, Open
<1>4. Typed /\ wf[r][k].st # "absent" /\ row[r].status # "none"
    BY <1>3, OpenRow
<1>5. /\ wf' \in [Runs -> [Kinds -> Workflow]] /\ wf'[r][k].st = st
      /\ \A l \in Kinds \ {k} : wf'[r][l] = wf[r][l]
      /\ \A o \in Runs \ {r} : wf'[o] = wf[o]
    <2>1. st \in WfState \ Open /\ st # "absent"
        BY DEF WfState, Open
    <2> QED
        BY <1>2, <1>4, <2>1, CloseMove
<1>6. /\ orphans' \in [Runs -> SUBSET Orphan]
      /\ \A x \in Runs \ {r} : orphans'[x] = orphans[x]
      /\ orphans[r] \subseteq orphans'[r]
      /\ wf[r][k].pc \in Writing => \E o \in orphans'[r] : o.pc = wf[r][k].pc
    BY <1>1, <1>4, OrphanedMove
<1>7. Typed'
    BY <1>1, <1>4, <1>5, <1>6 DEF Typed
<1>8. ~IsOpen(r, k)' /\ \A l \in Kinds \ {k} : IsOpen(r, l)' <=> IsOpen(r, l)
    BY <1>5 DEF IsOpen, Open
<1>9. \A l \in Kinds : wf'[r][l].st = "absent" <=> wf[r][l].st = "absent"
    BY <1>4, <1>5
<1>10. NoNewWorkflow /\ RowsStand /\ NoNewRow
    BY <1>1, <1>4, <1>5, <1>6, <1>8, <1>9 DEF NoNewWorkflow, RowsStand, NoNewRow, IsOpen
<1>11. \A o \in Pollers : PollOk(o)'
    BY <1>1, <1>10, PollsStay
<1>12. ASSUME Columns(r)
       PROVE  Columns(r)'
    <2>1. Working(r) => Working(r)'
        BY <1>5, <1>6, <1>8 DEF Working, Writing
    <2>2. MainOnItsWay(r) => MainOnItsWay(r)'
        <3>1. CASE k = "main"
            BY <1>5, <3>1 DEF MainOnItsWay
        <3>2. CASE k # "main"
            BY <1>5, <1>8, <3>2, KindFacts DEF MainOnItsWay
        <3> QED
            BY <3>1, <3>2
    <2> QED
        BY <1>1, <1>9, <1>12, <2>1, <2>2, WorkColumns
<1>13. ColumnsInv'
    BY <1>1, <1>5, <1>6, <1>12, WorkColumnsOf
<1> QED
    BY <1>1, <1>7, <1>10, <1>11, <1>13, WorkKeeps DEF Inv

LEMMA TimesOutKeeps ==
    ASSUME Inv, NEW r \in Runs, NEW k \in Kinds, ActivityTimesOut(r, k)
    PROVE  Inv'
<1> DEFINE p == IF wf[r][k].pc \in {"gen", "genLost"} THEN "failing" ELSE "errored"
<1>1. /\ IsOpen(r, k) /\ orphans' = Orphaned(r, k)
      /\ Mishap \/ (UNCHANGED mishaps /\ wf[r][k].pc \in {"genLost", "leadLost"})
      /\ UNCHANGED <<row, req, poll, raced>>
    BY DEF ActivityTimesOut, WorkFrame
<1>2. Typed /\ wf[r][k].st # "absent" /\ row[r].status # "none"
    BY <1>1, OpenRow
<1>3. p \in ActPc /\ wf' = [wf EXCEPT ![r][k].pc = p]
    BY <1>2 DEF ActivityTimesOut, ActPc, Reports, Typed
<1> HIDE DEF p
<1>4. /\ wf' \in [Runs -> [Kinds -> Workflow]]
      /\ wf'[r][k].pc = p /\ wf'[r][k].st = wf[r][k].st
      /\ wf'[r][k].after = wf[r][k].after
      /\ \A l \in Kinds \ {k} : wf'[r][l] = wf[r][l]
      /\ \A o \in Runs \ {r} : wf'[o] = wf[o]
    BY <1>2, <1>3, WfPc
<1>5. /\ orphans' \in [Runs -> SUBSET Orphan]
      /\ \A x \in Runs \ {r} : orphans'[x] = orphans[x]
      /\ orphans[r] \subseteq orphans'[r]
    BY <1>1, <1>2, OrphanedMove
<1>6. mishaps' \in Nat
    BY <1>1, <1>2, MishapKeeps DEF Typed
<1>7. Typed'
    BY <1>1, <1>2, <1>4, <1>5, <1>6 DEF Typed
<1>8. \A l \in Kinds : /\ IsOpen(r, l)' <=> IsOpen(r, l)
                       /\ wf'[r][l].st = wf[r][l].st /\ wf'[r][l].after = wf[r][l].after
    BY <1>4 DEF IsOpen
<1>9. NoNewWorkflow /\ RowsStand /\ NoNewRow
    BY <1>1, <1>2, <1>4, <1>5, <1>8 DEF NoNewWorkflow, RowsStand, NoNewRow
<1>10. \A o \in Pollers : PollOk(o)'
    BY <1>1, <1>9, PollsStay
<1>11. ColumnsInv'
    <2>1. CASE Mishap
        BY <2>1, MishapKeeps
    <2>2. CASE UNCHANGED mishaps /\ wf[r][k].pc \in {"genLost", "leadLost"}
        <3>1. ASSUME Columns(r)
              PROVE  Columns(r)'
            <4>1. Working(r) => Working(r)'
                BY <1>4, <1>5, <1>8, <2>2 DEF Working
            <4>2. MainOnItsWay(r) => MainOnItsWay(r)'
                BY <1>4, <1>8, <2>2, KindFacts DEF MainOnItsWay
            <4> QED
                BY <1>1, <1>8, <3>1, <4>1, <4>2, WorkColumns
        <3> QED
            BY <1>1, <1>4, <1>5, <2>2, <3>1, WorkColumnsOf
    <2> QED
        BY <1>1, <2>1, <2>2
<1> QED
    BY <1>1, <1>7, <1>9, <1>10, <1>11, WorkKeeps DEF Inv

-----------------------------------------------------------------------------
(* getPipelineRun                                                           *)

Answers == {"none", "running", "completed", "failed", "cancelled"}

LEMMA ProgressFacts ==
    ASSUME Typed, NEW r \in Runs, NEW k \in Kinds
    PROVE  Progress(r, k) \in Answers
<1>1. wf[r][k].st \in WfState
    BY DEF Typed, Workflow
<1> QED
    BY <1>1 DEF Progress, WfState, Open, Answers

LEMMA DecideType ==
    ASSUME NEW r0 \in Row, NEW main \in Answers, NEW second \in Answers
    PROVE  Decide(r0, main, second) \in Verdicts
<1> DEFINE p == Overall(r0, main, second)
<1>1. r0.exec \in Exec /\ r0.status \in Status
    BY DEF Row
<1>2. p \in Answers
    <2>1. \A exe \in Answers : Merge(r0, main, exe) \in Answers
        BY <1>1 DEF Merge, Answers, Exec
    <2>2. "none" \in Answers
        BY DEF Answers
    <2> QED
        BY <2>1, <2>2 DEF Overall
<1> HIDE DEF p
<1>3. Reconciled(r0, p) \in Status
    BY <1>1, <1>2 DEF Reconciled, Status, Keep, Exec
<1>4. LastWrite(r0, main, second, p) \in Status
    <2>1. "failed" \in Status /\ "running" \in Status /\ Keep \in Status
        BY DEF Status, Keep
    <2>2. LastWrite(r0, main, second, p) \in {"failed", "running", Keep}
        BY DEF LastWrite
    <2> QED
        BY <2>1, <2>2
<1> DEFINE v1 == IF Resumed(r0) /\ second = "completed" /\ r0.status = "running" THEN "completed" ELSE Keep
           v2 == IF Resumed(r0) /\ second = "failed" /\ r0.status = "running" THEN "failed" ELSE Keep
           v4 == IF r0.status = "running" /\ ~Resumed(r0) /\ p = "cancelled" THEN "cancelled" ELSE Keep
<1>5. v1 \in Status /\ v2 \in Status /\ v4 \in Status
    BY DEF Status, Keep
<1>6. Decide(r0, main, second) = <<v1, v2, Reconciled(r0, p), v4, LastWrite(r0, main, second, p)>>
    BY DEF Decide, p
<1> HIDE DEF v1, v2, v4
<1> QED
    BY <1>3, <1>4, <1>5, <1>6 DEF Verdicts

LEMMA PollTypes ==
    /\ IdlePoll \in Poll /\ IdlePoll.pc = "idle"
    /\ \A r \in Runs, v \in Verdicts :
         Poller(r, v) \in Poll /\ (Poller(r, v).pc # "idle" => Poller(r, v).run = r)
<1>1. NewRow \in Row
    BY DEF NewRow, Row, Status, Exec
<1>2. IdlePoll \in Poll /\ IdlePoll.pc = "idle"
    BY <1>1 DEF IdlePoll, Poll, Verdicts, Keep, Status
<1>3. ASSUME NEW r \in Runs, NEW v \in Verdicts
      PROVE  Poller(r, v) \in Poll /\ (Poller(r, v).pc # "idle" => Poller(r, v).run = r)
    <2> DEFINE n == [pc |-> "write", run |-> r, seen |-> NewRow, verdicts |-> v]
    <2>1. n \in Poll /\ n.run = r
        BY <1>1 DEF Poll
    <2>2. Poller(r, v) = IdlePoll \/ Poller(r, v) = n
        BY DEF Poller
    <2> HIDE DEF n
    <2> QED
        BY <1>2, <2>1, <2>2
<1> QED
    BY <1>2, <1>3

\* The steps of a poller change its own state and at most the status of a row.
LEMMA PollerKeeps ==
    ASSUME Inv, NEW p \in Pollers, NEW r \in Runs, NEW v \in Poll, NEW n \in Row,
           poll' = [poll EXCEPT ![p] = v], v.pc # "idle" => v.run = r,
           row' = [row EXCEPT ![r] = n], row[r].status # "none", n.status # "none",
           n.exec = row[r].exec, n.overlay = row[r].overlay,
           UNCHANGED <<wf, orphans, req, mishaps, raced>>
    PROVE  Inv'
<1>1. Typed
    BY DEF Inv
<1>2. row' \in [Runs -> Row] /\ row'[r] = n /\ \A o \in Runs \ {r} : row'[o] = row[o]
    BY <1>1, RowSet
<1>3. poll' \in [Pollers -> Poll] /\ poll'[p] = v /\ \A o \in Pollers \ {p} : poll'[o] = poll[o]
    BY <1>1 DEF Typed
<1>4. Typed'
    BY <1>1, <1>2, <1>3 DEF Typed
<1>5. NoNewWorkflow /\ RowsStand /\ NoNewRow
    BY <1>2 DEF NoNewWorkflow, RowsStand, NoNewRow
<1>6. \A o \in Pollers : PollOk(o)'
    BY <1>2, <1>3 DEF Inv, PollOk
<1>7. ColumnsInv'
    <2>1. \A x \in Runs : ColumnsFrame(x)
        BY <1>2 DEF ColumnsFrame, RowFrame, WfFrame, ReqFrameAt
    <2> QED
        BY <2>1, ColumnsStay
<1> QED
    BY <1>4, <1>5, <1>6, <1>7, WorkKeeps DEF Inv

LEMMA PollReadKeeps ==
    ASSUME Inv, NEW p \in Pollers, NEW r \in Runs, PollRead(p, r)
    PROVE  Inv'
<1> DEFINE n1 == [IdlePoll EXCEPT !.pc = "query"]
           n2 == [n1 EXCEPT !.run = r]
           n == [n2 EXCEPT !.seen = row[r]]
<1>1. /\ row[r].status # "none" /\ poll' = [poll EXCEPT ![p] = n]
      /\ UNCHANGED <<row, wf, orphans, req, mishaps, raced>>
    BY DEF PollRead, PollFrame
<1>2. row \in [Runs -> Row] /\ row[r] \in Row
    BY DEF Inv, Typed
<1>3. n1 \in Poll
    BY PollTypes DEF Poll
<1> HIDE DEF n1
<1>4. n2 \in Poll /\ n2.run = r
    BY <1>3 DEF Poll
<1> HIDE DEF n2
<1>5. n \in Poll /\ n.run = r
    BY <1>2, <1>4 DEF Poll
<1> HIDE DEF n
<1>6. row' = [row EXCEPT ![r] = row[r]]
    BY <1>1, <1>2
<1> QED
    BY <1>1, <1>2, <1>5, <1>6, PollerKeeps

LEMMA PollQueryKeeps ==
    ASSUME Inv, NEW p \in Pollers, PollQuery(p)
    PROVE  Inv'
<1> DEFINE v == poll[p]
<1>1. v.pc = "query" /\ UNCHANGED <<row, wf, orphans, req, mishaps, raced>>
    BY DEF PollQuery, PollFrame
<1>2. Typed /\ v \in Poll /\ v.run \in Runs /\ row[v.run].status # "none"
    BY <1>1 DEF Inv, Typed, PollOk
<1>3. v.seen \in Row /\ row \in [Runs -> Row] /\ row[v.run] \in Row
    BY <1>2 DEF Poll, Typed
<1>4. PICK main \in {"none", Progress(v.run, "main")} :
         \E second \in {"none"} \cup (IF Second(v.seen) = "null" THEN {}
                                      ELSE {Progress(v.run, Second(v.seen))}) :
            poll' = [poll EXCEPT ![p] = Poller(v.run, Decide(v.seen, main, second))]
    BY DEF PollQuery
<1>5. PICK second \in {"none"} \cup (IF Second(v.seen) = "null" THEN {}
                                     ELSE {Progress(v.run, Second(v.seen))}) :
            poll' = [poll EXCEPT ![p] = Poller(v.run, Decide(v.seen, main, second))]
    BY <1>4
<1>6. main \in Answers /\ second \in Answers
    <2>1. "none" \in Answers
        BY DEF Answers
    <2>2. Second(v.seen) # "null" => Second(v.seen) \in Kinds
        BY <1>3, KindFacts DEF Second, Row
    <2>3. "main" \in Kinds
        BY KindFacts
    <2> QED
        BY <1>2, <1>4, <1>5, <2>1, <2>2, <2>3, ProgressFacts
<1>7. Decide(v.seen, main, second) \in Verdicts
    BY <1>3, <1>6, DecideType
<1>8. PICK n \in Poll : /\ n = Poller(v.run, Decide(v.seen, main, second))
                        /\ n.pc # "idle" => n.run = v.run
    BY <1>2, <1>7, PollTypes
<1>9. poll' = [poll EXCEPT ![p] = n]
    BY <1>5, <1>8
<1>10. row' = [row EXCEPT ![v.run] = row[v.run]]
    BY <1>1, <1>3
<1> QED
    BY <1>1, <1>2, <1>3, <1>8, <1>9, <1>10, PollerKeeps

LEMMA PollWriteKeeps ==
    ASSUME Inv, NEW p \in Pollers, PollWrite(p)
    PROVE  Inv'
<1> DEFINE v == poll[p]
<1>1. v.pc = "write" /\ UNCHANGED <<wf, orphans, req, mishaps, raced>>
    BY DEF PollWrite, PollFrame
<1>2. Typed /\ v \in Poll /\ v.run \in Runs /\ row[v.run].status # "none"
    BY <1>1 DEF Inv, Typed, PollOk
<1>3. v.verdicts \in [1 .. 5 -> Status] /\ row \in [Runs -> Row] /\ row[v.run] \in Row
    BY <1>2 DEF Poll, Verdicts, Typed
<1>4. PICK i \in 1 .. 5 :
         /\ v.verdicts[i] # Keep
         /\ row' = [row EXCEPT ![v.run].status = v.verdicts[i]]
         /\ poll' = [poll EXCEPT ![p] = Poller(v.run, [v.verdicts EXCEPT ![i] = Keep])]
    BY DEF PollWrite
<1> DEFINE new == [row[v.run] EXCEPT !.status = v.verdicts[i]]
<1>5. v.verdicts[i] \in Status /\ v.verdicts[i] # "none"
    BY <1>3, <1>4 DEF Keep
<1>6. /\ new \in Row /\ new.status # "none"
      /\ new.exec = row[v.run].exec /\ new.overlay = row[v.run].overlay
    BY <1>3, <1>5 DEF Row
<1>7. row' = [row EXCEPT ![v.run] = new]
    BY <1>4
<1> HIDE DEF new
<1>8. [v.verdicts EXCEPT ![i] = Keep] \in Verdicts
    BY <1>3 DEF Verdicts, Keep, Status
<1>9. PICK n \in Poll : /\ n = Poller(v.run, [v.verdicts EXCEPT ![i] = Keep])
                        /\ n.pc # "idle" => n.run = v.run
    BY <1>2, <1>8, PollTypes
<1>10. poll' = [poll EXCEPT ![p] = n]
    BY <1>4, <1>9
<1> QED
    BY <1>1, <1>2, <1>6, <1>7, <1>9, <1>10, PollerKeeps

-----------------------------------------------------------------------------
(* Every state                                                              *)

LEMMA InitInv == ASSUME Init PROVE Inv
<1>1. NoWorkflow \in Workflow /\ NoWorkflow.st = "absent"
    BY DEF NoWorkflow, Workflow, WfState, ActPc
<1>2. NewRow \in Row /\ NewRow.status = "none" /\ NewRow.overlay = "null" /\ NewRow.exec = "null"
    BY DEF NewRow, Row, Status, Exec
<1>3. /\ \A r \in Runs : /\ row[r] = NewRow /\ orphans[r] = {}
                         /\ \A k \in Kinds : wf[r][k] = NoWorkflow
      /\ \A q \in Requests : req[q] = IdleReq
      /\ \A p \in Pollers : poll[p] = IdlePoll
      /\ raced = {} /\ mishaps = 0
    BY DEF Init
<1>4. Typed
    BY <1>1, <1>2, IdleType, PollTypes DEF Init, Typed
<1>5. (\A q \in Requests : ReqOk(q)) /\ (\A p \in Pollers : PollOk(p))
    BY <1>3, IdleType, PollTypes DEF ReqOk, PollOk, Claiming
<1>6. \A r \in Runs, k \in Kinds : ~IsOpen(r, k)
    BY <1>1, <1>3 DEF IsOpen, Open
<1>7. /\ \A q \in Requests, r \in Runs : ~Claims(q, r)
      /\ \A q \in Requests : ~Past(q)
    BY <1>3, IdleType DEF Claims, Past, Claiming
<1>8. \A r \in Runs : Fresh(r) /\ Alone(r)
    BY <1>1, <1>3, <1>6, <1>7 DEF Fresh, Alone, AtWork
<1>9. Project
    BY <1>6, <1>7 DEF Project
<1>10. \A r \in Runs : Columns(r)
    <2> SUFFICES ASSUME NEW r \in Runs PROVE Columns(r)
        OBVIOUS
    <2>1. row[r].status = "none" /\ row[r].overlay = "null" /\ row[r].exec = "null"
        BY <1>2, <1>3
    <2>2. \A q \in Requests : req[q].pc = "idle"
        BY <1>3, IdleType
    <2>3. Launching(r) = {}
        BY <2>2 DEF Launching
    <2> QED
        BY <2>1, <2>2, <2>3 DEF Columns, NoRestore, MainThere, OverlayThere, Resumes, ExecuteColumn,
                                ExecRunning, ExecPending
<1> QED
    BY <1>4, <1>5, <1>8, <1>9, <1>10 DEF Inv, ColumnsInv

LEMMA StutterKeeps == ASSUME Inv, UNCHANGED vars PROVE Inv'
<1>1. /\ row' = row /\ wf' = wf /\ orphans' = orphans /\ req' = req /\ poll' = poll
      /\ mishaps' = mishaps /\ raced' = raced
    BY DEF vars
<1>2. NoNewWorkflow /\ RowsStand /\ NoNewRow
    BY <1>1 DEF NoNewWorkflow, RowsStand, NoNewRow
<1>3. Typed' /\ \A p \in Pollers : PollOk(p)'
    BY <1>1 DEF Inv, Typed, PollOk
<1>4. ColumnsInv'
    <2>1. \A x \in Runs : ColumnsFrame(x)
        BY <1>1 DEF ColumnsFrame, RowFrame, WfFrame, ReqFrameAt
    <2> QED
        BY <1>1, <2>1, ColumnsStay
<1> QED
    BY <1>1, <1>2, <1>3, <1>4, WorkKeeps DEF Inv

LEMMA StepKeeps == ASSUME Inv, [Next]_vars PROVE Inv'
<1>1. ASSUME NEW q \in Requests, NEW r \in Runs,
             \/ \E a \in BOOLEAN : StartRun(q, r, a)
             \/ ExecuteRun(q, r) \/ CancelRun(q, r)
             \/ \E a \in BOOLEAN, k \in Resumes : ResumeRun(q, r, k, a)
      PROVE  Inv'
    BY <1>1, StartKeeps, ExecuteKeeps, CancelKeeps, ResumeKeeps
<1>2. ASSUME NEW q \in Requests, ReqStep(q)
      PROVE  Inv'
    BY <1>2, SelectKeeps, MarkKeeps, NotRunningKeeps, UpdateKeeps, LaunchKeeps,
       LaunchFailsKeeps, RestoreKeeps, CancelWriteKeeps, InspectKeeps DEF ReqStep
<1>3. ASSUME NEW r \in Runs, NEW k \in Kinds, WorkflowStep(r, k)
      PROVE  Inv'
    BY <1>3, ActivityWritesKeeps, WriteLostKeeps, InterruptedKeeps, GoesOnKeeps, RetryKeeps,
       CancelledKeeps, TimesOutKeeps DEF WorkflowStep
<1>4. ASSUME NEW p \in Pollers, PollQuery(p) \/ PollWrite(p) \/ \E r \in Runs : PollRead(p, r)
      PROVE  Inv'
    BY <1>4, PollQueryKeeps, PollWriteKeeps, PollReadKeeps
<1>5. ASSUME NEW r \in Runs, OrphanWrites(r)
      PROVE  Inv'
    BY <1>5, OrphanWritesKeeps
<1> QED
    BY <1>1, <1>2, <1>3, <1>4, <1>5, WorkerDiesKeeps, StutterKeeps DEF Next

LEMMA Always == Spec => []Inv
BY InitInv, StepKeeps, PTL DEF Spec

\* The runs that have specs, and the count of retries.
SpecsTyped == specs \subseteq Runs /\ retries \in Nat

LEMMA SpecsStep ==
    ASSUME SpecsTyped, [Next]_vars
    PROVE  SpecsTyped'
<1>1. ASSUME UNCHANGED specs, UNCHANGED retries PROVE SpecsTyped'
    BY <1>1 DEF SpecsTyped
<1>2. ASSUME UNCHANGED specs, ReqFrame PROVE SpecsTyped'
    BY <1>1, <1>2 DEF ReqFrame
<1>3. ASSUME NEW r \in Runs, NEW k \in Kinds,
             ActivityWrites(r, k) \/ WriteLost(r, k) \/ OrphanWrites(r)
      PROVE  SpecsTyped'
    <2>1. UNCHANGED retries
        BY <1>3 DEF ActivityWrites, WriteLost, OrphanWrites
    <2>2. specs' = specs \/ specs' = specs \cup {r}
        BY <1>3 DEF ActivityWrites, WriteLost, OrphanWrites
    <2> QED
        BY <2>1, <2>2 DEF SpecsTyped
<1>4. ASSUME NEW r \in Runs, NEW k \in Kinds, WorkflowStep(r, k) PROVE SpecsTyped'
    <2>1. CASE Retry(r, k)
        BY <2>1 DEF Retry, SpecsTyped
    <2>2. CASE Interrupted(r, k) \/ WorkflowGoesOn(r, k) \/ WorkflowCancelled(r, k)
               \/ ActivityTimesOut(r, k)
        BY <1>1, <2>2 DEF Interrupted, WorkflowGoesOn, WorkflowCancelled, ActivityTimesOut
    <2> QED
        BY <1>3, <1>4, <2>1, <2>2 DEF WorkflowStep
<1>5. ASSUME NEW q \in Requests, NotRunning(q) PROVE SpecsTyped'
    BY <1>5 DEF NotRunning, ReqFrame, SpecsTyped
<1>6. ASSUME NEW q \in Requests, ReqStep(q) PROVE SpecsTyped'
    BY <1>2, <1>5, <1>6
    DEF ReqStep, Select, MarkStale, Update, Launch, LaunchFails, Restore, CancelWrite, Inspect
<1>7. ASSUME NEW q \in Requests, NEW r \in Runs,
             \/ ExecuteRun(q, r) \/ CancelRun(q, r)
             \/ \E a \in BOOLEAN : StartRun(q, r, a)
             \/ \E a \in BOOLEAN, k \in Resumes : ResumeRun(q, r, k, a)
      PROVE  SpecsTyped'
    BY <1>2, <1>7 DEF ExecuteRun, CancelRun, StartRun, StartAt, ResumeRun
<1>8. ASSUME NEW p \in Pollers, PollQuery(p) \/ PollWrite(p) \/ \E r \in Runs : PollRead(p, r)
      PROVE  SpecsTyped'
    BY <1>1, <1>8 DEF PollQuery, PollWrite, PollRead, PollFrame
<1>9. CASE WorkerDies \/ UNCHANGED vars
    BY <1>1, <1>9 DEF WorkerDies, vars
<1> QED
    BY <1>3, <1>4, <1>6, <1>7, <1>8, <1>9, KindFacts, Zenon DEF Next

\* Types of the rows of monday_runs, the workflows and their progress, the attempts nobody
\* waits for, the requests under way and the polls (PipelineService, the workflows and the
\* worker's activities): no request or poll carries anything but what it read.
THEOREM TypesHold == Spec => []TypeOK
<1>1. Inv /\ SpecsTyped => TypeOK
    BY DEF Inv, Typed, SpecsTyped, TypeOK
<1>2. Init => SpecsTyped
    BY DEF Init, SpecsTyped
<1>3. SpecsTyped /\ [Next]_vars => SpecsTyped'
    BY SpecsStep
<1> QED
    BY Always, <1>1, <1>2, <1>3, PTL DEF Spec

\* Two workflows are not at work together, in one run or as generations of two runs of
\* the project: what the 409 checks of start, execute and resume are for.  Requests,
\* polls, cancellations, retries, lost writes and restarts of the worker interleave as
\* they like; only a request decided in one of the ways that raced records escapes.
THEOREM WorkIsAlone == Spec => []OneWorkflowAtATime
<1>1. Inv => OneWorkflowAtATime
    BY DEF Inv, OneWorkflowAtATime, OneWorkflowPerRun, OneRunPerProject, Alone, Project
<1> QED
    BY <1>1, Always, PTL

-----------------------------------------------------------------------------
(* What the next poll writes                                                *)

\* The answer of a workflow that is not at work.
LEMMA ClosedProgress ==
    ASSUME Typed, NEW r \in Runs, NEW k \in Kinds, ~AtWork(r)
    PROVE  /\ Progress(r, k) # "running"
           /\ wf[r][k].st # "absent" => Progress(r, k) \in {"completed", "failed", "cancelled"}
           /\ wf[r][k].st = "absent" => Progress(r, k) = "none"
           /\ wf[r][k].st \in {"failed", "cancelled", "partial"} =>
                  Progress(r, k) \in {"failed", "cancelled"}
<1>1. wf[r][k].st \in WfState /\ wf[r][k].st \notin {"running", "cancelling"}
    BY KindFacts DEF Typed, Workflow, AtWork, IsOpen
<1> QED
    BY <1>1, KindFacts DEF Progress, WfState

LEMMA NextPollIs ==
    ASSUME NEW r
    PROVE  LET second == IF Second(row[r]) = "null" THEN "none"
                         ELSE Progress(r, Second(row[r]))
               main == Progress(r, "main")
               p == Overall(row[r], main, second)
               running == row[r].status = "running"
           IN  NextPoll(r) =
                 {IF Resumed(row[r]) /\ second = "completed" /\ running THEN "completed" ELSE Keep,
                  IF Resumed(row[r]) /\ second = "failed" /\ running THEN "failed" ELSE Keep,
                  Reconciled(row[r], p),
                  IF running /\ ~Resumed(row[r]) /\ p = "cancelled" THEN "cancelled" ELSE Keep,
                  LastWrite(row[r], main, second, p)} \ {Keep}
<1> DEFINE second == IF Second(row[r]) = "null" THEN "none" ELSE Progress(r, Second(row[r]))
           main == Progress(r, "main")
           p == Overall(row[r], main, second)
           running == row[r].status = "running"
           v1 == IF Resumed(row[r]) /\ second = "completed" /\ running THEN "completed" ELSE Keep
           v2 == IF Resumed(row[r]) /\ second = "failed" /\ running THEN "failed" ELSE Keep
           v3 == Reconciled(row[r], p)
           v4 == IF running /\ ~Resumed(row[r]) /\ p = "cancelled" THEN "cancelled" ELSE Keep
           v5 == LastWrite(row[r], main, second, p)
           v == Decide(row[r], main, second)
<1>1. v = <<v1, v2, v3, v4, v5>>
    BY DEF Decide
<1>2. NextPoll(r) = {v[i] : i \in 1 .. 5} \ {Keep}
    BY DEF NextPoll
<1> HIDE DEF v, v1, v2, v3, v4, v5
<1>3. v[1] = v1 /\ v[2] = v2 /\ v[3] = v3 /\ v[4] = v4 /\ v[5] = v5
    BY <1>1
<1>4. 1 .. 5 = {1, 2, 3, 4, 5}
    OBVIOUS
<1>5. NextPoll(r) = {v1, v2, v3, v4, v5} \ {Keep}
    BY <1>2, <1>3, <1>4
<1> QED
    BY <1>5 DEF v1, v2, v3, v4, v5

\* "Once the DB row is terminal, stale workflow queries must not resurrect failures":
\* polling a run that is over changes nothing, whatever became of its workflows.
THEOREM PollingIsHarmless == Spec => []StaleQueriesHarmless
<1>1. ASSUME Inv
      PROVE  StaleQueriesHarmless
    <2> SUFFICES ASSUME NEW r \in Runs, ~AtWork(r),
                        row[r].status \in {"completed", "failed", "cancelled"}
                 PROVE  NextPoll(r) = {}
        BY DEF StaleQueriesHarmless, Quiet
    <2> DEFINE second == IF Second(row[r]) = "null" THEN "none" ELSE Progress(r, Second(row[r]))
               main == Progress(r, "main")
               p == Overall(row[r], main, second)
    <2>1. Typed /\ row[r] \in Row
        BY <1>1 DEF Inv, Typed
    <2>2. main # "running"
        BY <2>1, ClosedProgress, KindFacts
    <2>3. second # "running"
        <3>1. Second(row[r]) # "null" => Second(row[r]) \in Kinds
            BY <2>1, KindFacts DEF Second, Row
        <3> QED
            BY <2>1, <3>1, ClosedProgress
    <2>4. Reconciled(row[r], p) = Keep
        BY DEF Reconciled
    <2>5. LastWrite(row[r], main, second, p) = Keep
        <3>1. row[r].exec = "null" /\ row[r].overlay = "null" => p # "running"
            BY <2>2, <2>3 DEF Overall, Resumed, Resumes, Merge
        <3> QED
            BY <2>3, <3>1 DEF LastWrite, Failed
    <2> QED
        BY <2>4, <2>5, NextPollIs
<1> QED
    BY <1>1, Always, PTL

\* A run left at "running" by whatever interleaving of requests, polls and workflows
\* settles on a terminal status with the next poll, if no write was lost and no activity
\* or worker given up on: its columns still say which workflow to ask, and that
\* workflow is over.
THEOREM RunningSettles == Spec => []RunningIsRepaired
<1>1. ASSUME Inv
      PROVE  RunningIsRepaired
    <2> SUFFICES ASSUME NEW r \in Runs \ raced, Quiet(r), row[r].status = "running", mishaps = 0
                 PROVE  /\ NextPoll(r) # {}
                        /\ NextPoll(r) \subseteq {"completed", "failed", "cancelled"}
        BY DEF RunningIsRepaired
    <2> DEFINE second == IF Second(row[r]) = "null" THEN "none" ELSE Progress(r, Second(row[r]))
               main == Progress(r, "main")
               p == Overall(row[r], main, second)
               v1 == IF Resumed(row[r]) /\ second = "completed" THEN "completed" ELSE Keep
               v2 == IF Resumed(row[r]) /\ second = "failed" THEN "failed" ELSE Keep
               v3 == Reconciled(row[r], p)
               v4 == IF ~Resumed(row[r]) /\ p = "cancelled" THEN "cancelled" ELSE Keep
               v5 == LastWrite(row[r], main, second, p)
               Over == {"completed", "failed", "cancelled"}
    <2>1. Typed /\ row[r] \in Row /\ ~AtWork(r) /\ Columns(r) /\ orphans[r] = {}
        BY <1>1 DEF Inv, Typed, ColumnsInv, Quiet
    <2>2. Launching(r) = {}
        BY DEF Launching, Quiet, InFlight
    <2>3. ~Working(r)
        BY <2>1 DEF Working, AtWork
    <2>4. row[r].exec \in {"null", "pending", "completed", "failed"}
        BY <2>1, <2>2, <2>3 DEF Columns, ExecRunning, Row, Exec
    <2>5. main \in Over
        <3>1. "main" \in Kinds
            BY KindFacts
        <3>2. wf[r]["main"].st # "absent"
            BY <2>1, <2>2 DEF Columns, MainThere
        <3> QED
            BY <2>1, <3>1, <3>2, ClosedProgress
    <2>6. row[r].overlay \in Resumes => second \in Over
        <3> SUFFICES ASSUME row[r].overlay \in Resumes
                     PROVE  second \in Over
            OBVIOUS
        <3>1. wf[r][row[r].overlay].st # "absent" /\ row[r].overlay \in Kinds
            BY <2>1, <2>2, KindFacts DEF Columns, OverlayThere
        <3>2. Second(row[r]) = row[r].overlay /\ row[r].overlay # "null"
            BY KindFacts DEF Second
        <3> QED
            BY <2>1, <3>1, <3>2, ClosedProgress
    <2>7. second # "running"
        <3>1. Second(row[r]) # "null" => Second(row[r]) \in Kinds
            BY <2>1, KindFacts DEF Second, Row
        <3> QED
            BY <2>1, <3>1, ClosedProgress
    <2>8. row[r].overlay = "execute" => row[r].exec \in {"completed", "failed"}
        BY <2>1, <2>4 DEF Columns, ExecuteColumn
    <2>9. row[r].overlay = "null" /\ row[r].exec = "pending" =>
              second = "none" /\ main \in {"failed", "cancelled"}
        <3> SUFFICES ASSUME row[r].overlay = "null", row[r].exec = "pending"
                     PROVE  second = "none" /\ main \in {"failed", "cancelled"}
            OBVIOUS
        <3>1. wf[r]["execute"].st = "absent" /\ MainOnItsWay(r)
            BY <2>1, <2>2 DEF Columns, ExecPending
        <3>2. "main" \in Kinds /\ "execute" \in Kinds
            BY KindFacts
        <3>3. wf[r]["main"].st \in {"failed", "cancelled", "partial"}
            BY <2>1, <3>1, <3>2 DEF MainOnItsWay, AtWork
        <3>4. Second(row[r]) = "execute"
            BY DEF Second
        <3> QED
            BY <2>1, <3>1, <3>2, <3>3, <3>4, ClosedProgress
    <2>10. NextPoll(r) = {v1, v2, v3, v4, v5} \ {Keep}
        BY NextPollIs
    <2>11. row[r].overlay \in {"null", "execute"} \cup Resumes
        BY <2>1 DEF Row
    <2> HIDE DEF second, main
    <2>12. v1 \in Over \cup {Keep} /\ v2 \in Over \cup {Keep} /\ v4 \in Over \cup {Keep}
        OBVIOUS
    <2>13. v3 \in Over \cup {Keep}
        BY <2>4 DEF Reconciled, Keep
    <2>14. v5 \in Over \cup {Keep}
        <3>1. row[r].exec = "null" /\ row[r].overlay = "null" => p # "running"
            BY <2>5 DEF Overall, Resumed, Resumes, Merge
        <3> QED
            BY <2>7, <3>1 DEF LastWrite, Keep
    <2>15. v1 # Keep \/ v2 # Keep \/ v3 # Keep
        <3>1. CASE row[r].exec \in {"completed", "failed"}
            BY <3>1 DEF Reconciled, Keep
        <3>2. CASE row[r].exec \in {"null", "pending"} /\ row[r].overlay \in Resumes
            <4>1. Resumed(row[r]) /\ second \in Over /\ p = second
                BY <2>6, <3>2 DEF Resumed, Overall
            <4>2. CASE second = "cancelled"
                BY <3>2, <4>1, <4>2 DEF Reconciled, Keep
            <4>3. CASE second # "cancelled"
                BY <4>1, <4>3 DEF Keep
            <4> QED
                BY <4>2, <4>3
        <3>3. CASE row[r].exec = "null" /\ row[r].overlay = "null"
            <4>1. ~Resumed(row[r]) /\ p = main
                BY <3>3 DEF Resumed, Resumes, Overall, Merge
            <4> QED
                BY <2>5, <3>3, <4>1 DEF Reconciled, Keep
        <3>4. CASE row[r].exec = "pending" /\ row[r].overlay = "null"
            <4>1. ~Resumed(row[r]) /\ p = main
                BY <2>9, <3>4 DEF Resumed, Resumes, Overall, Merge
            <4> QED
                BY <2>9, <3>4, <4>1 DEF Reconciled, Keep
        <3> QED
            BY <2>4, <2>8, <2>11, <3>1, <3>2, <3>3, <3>4
    <2>16. Keep \notin Over
        BY DEF Keep
    <2> HIDE DEF v1, v2, v3, v4, v5, Over
    <2>17. NextPoll(r) # {} /\ NextPoll(r) \subseteq Over
        BY <2>10, <2>12, <2>13, <2>14, <2>15
    <2> QED
        BY <2>17 DEF Over
<1> QED
    BY <1>1, Always, PTL

-----------------------------------------------------------------------------
(***************************************************************************)
(* The page (MondayDashboard).  Every render passes through Render, which  *)
(* decides the socket from the selection and loading of the page before    *)
(* and after: the steps are proved through one lemma about it (RenderOK).  *)
(* What else the invariant says are types: that requests name runs there   *)
(* are, and that only an open socket holds messages.                       *)
(***************************************************************************)

-----------------------------------------------------------------------------
(* The invariant                                                            *)

Socket == [run : RunIds \cup {NoSelection}, st : {"none", "open", "retry", "off"}, sub : BOOLEAN,
           snap : {"unread", "read", "sent"}, seen : SeenRun, queue : Seq(Message), tries : Nat]

\* A request names a run wherever its handler or its answer looks one up.
Calls == {c \in Call :
    /\ c.pc = "sent" /\ c.op # "start" => c.run \in RunIds
    /\ c.pc = "answered" /\ c.op = "cancel" => c.run \in RunIds
    /\ c.op = "load" => c.seen.prog # "lead"}

DashboardTyped ==
    /\ srv \in [RunIds -> Server] /\ page \in Page /\ sock \in Socket
    /\ calls \subseteq Calls
    /\ events \in 0 .. MaxEvents /\ missed \in BOOLEAN

\* A socket is that of the selected run, and only an open one holds messages.
Listening(pg, s) ==
    /\ s.st # "none" => pg.loading /\ s.run = pg.sel /\ pg.sel # NoSelection
    /\ s.st # "open" => s.queue = <<>>

DashboardInv == DashboardTyped /\ Listening(page, sock)

LEMMA ConstantTypes ==
    /\ NoAct \in Act /\ NotRead \in SeenRun /\ NoSocket \in Socket /\ NoServer \in Server
    /\ NoSelection \notin RunIds
<1>1. NoAct \in Act
    BY DEF NoAct, Act
<1>2. NotRead \in SeenRun
    BY <1>1 DEF NotRead, SeenRun, ProgressView
<1>3. <<>> \in Seq(Message)
    OBVIOUS
<1>4. NoSocket \in Socket
    BY <1>2, <1>3 DEF NoSocket, Socket
<1>5. NoServer \in Server
    BY DEF NoServer, Server, RunRow
<1>6. NoSelection \notin RunIds
    BY DEF NoSelection, RunIds
<1> QED
    BY <1>1, <1>2, <1>4, <1>5, <1>6

LEMMA DashboardInitOK == DashboardInit => DashboardInv
<1> SUFFICES ASSUME DashboardInit PROVE DashboardInv
    OBVIOUS
<1>1. srv \in [RunIds -> Server]
    <2> DEFINE first == [row |-> [status |-> "running", exec |-> "pending"], wf |-> "gen"]
    <2>1. first \in Server
        BY DEF Server, RunRow, WfAtWork
    <2>2. srv = [[r \in RunIds |-> NoServer] EXCEPT ![1] = first]
        BY DEF DashboardInit
    <2> HIDE DEF first
    <2> QED
        BY <2>1, <2>2, ConstantTypes
<1>2. page \in Page
    BY ConstantTypes DEF DashboardInit, Page, ProgressView
<1>3. events \in 0 .. MaxEvents
    BY MondayDashboardAssumption DEF DashboardInit, MondayDashboardAssumption
<1>4. sock = NoSocket /\ calls = {} /\ missed = FALSE
    BY DEF DashboardInit
<1>5. Listening(page, sock)
    BY <1>4 DEF Listening, NoSocket
<1> QED
    BY <1>1, <1>2, <1>3, <1>4, <1>5, ConstantTypes DEF DashboardInv, DashboardTyped

-----------------------------------------------------------------------------
(* Rendering                                                                *)

LEMMA EndedCallOK == ASSUME NEW r \in RunIds PROVE EndedCall(r) \in Calls
BY ConstantTypes DEF EndedCall, Calls, Call

LEMMA EffectOK ==
    ASSUME NEW p \in Page
    PROVE  Effect(p) \in Page /\ Effect(p).sel = p.sel
<1> DEFINE act == [p.act EXCEPT !.busy = @ \/ (p.ws = "lead" /\ p.act # NoAct)]
           loads == p.loading /\ ~(p.ws = "over" /\ p.sel = NoSelection)
<1>1. act \in Act
    BY DEF Page, Act
<1>2. Merged(p.ws) \in ProgressView \ {"lead"}
    BY DEF Merged, Page, ProgressView
<1>3. loads \in BOOLEAN
    OBVIOUS
<1>4. Effect(p) = [p EXCEPT !.prog = Merged(p.ws), !.act = act, !.loading = loads]
    BY DEF Effect, Page
<1> HIDE DEF act, loads
<1> QED
    BY <1>1, <1>2, <1>3, <1>4 DEF Page

LEMMA RenderOK ==
    ASSUME DashboardInv, NEW p \in Page, NEW wsSet, NEW s \in Socket, Listening(page, s),
           NEW cs \in SUBSET Calls, Render(p, wsSet, s, cs)
    PROVE  page' \in Page /\ sock' \in Socket /\ calls' \in SUBSET Calls
           /\ Listening(page', sock')
<1> DEFINE runs == p.ws # "null" /\ (wsSet \/ p.sel # page.sel)
           q    == IF runs THEN Effect(p) ELSE p
<1>1. q \in Page /\ q.sel = p.sel
    BY EffectOK
<1>2. page' = q /\ sock' = Listen(q, s)
    BY DEF Render
<1>3. calls' \in SUBSET Calls
    <2>1. calls' \subseteq cs \cup (IF p.sel # NoSelection THEN {EndedCall(p.sel)} ELSE {})
        BY DEF Render
    <2>2. p.sel # NoSelection => p.sel \in RunIds
        BY DEF Page
    <2> QED
        BY <2>1, <2>2, EndedCallOK
<1> HIDE DEF q
<1>4. [NoSocket EXCEPT !.run = q.sel, !.st = "open"] \in Socket
    BY <1>1, ConstantTypes DEF Socket, Page
<1>5. sock' \in Socket
    BY <1>2, <1>4, ConstantTypes DEF Listen
<1>6. Listening(q, Listen(q, s))
    <2>1. CASE q.sel = NoSelection \/ ~q.loading
        BY <2>1 DEF Listen, Listening, NoSocket
    <2>2. CASE q.sel # NoSelection /\ q.loading /\ (q.sel # page.sel \/ ~page.loading)
        <3>1. Listen(q, s) = [NoSocket EXCEPT !.run = q.sel, !.st = "open"]
            BY <2>2 DEF Listen
        <3> QED
            BY <2>2, <3>1 DEF Listening, NoSocket
    <2>3. CASE q.sel # NoSelection /\ q.loading /\ q.sel = page.sel /\ page.loading
        BY <2>3 DEF Listen, Listening
    <2> QED
        BY <2>1, <2>2, <2>3
<1> QED
    BY <1>1, <1>2, <1>3, <1>5, <1>6

\* Where only the page is rendered anew.
LEMMA ShowOK ==
    ASSUME DashboardInv, NEW p \in Page, NEW cs \in SUBSET Calls, Show(p, cs)
    PROVE  DashboardInv'
<1>1. sock \in Socket /\ Listening(page, sock) /\ Render(p, FALSE, sock, cs)
    BY DEF DashboardInv, DashboardTyped, Show
<1>2. page' \in Page /\ sock' \in Socket /\ calls' \in SUBSET Calls /\ Listening(page', sock')
    BY <1>1, RenderOK
<1>3. DashboardTyped'
    BY <1>2 DEF DashboardInv, DashboardTyped, Show
<1> QED
    BY <1>2, <1>3 DEF DashboardInv, Listening

-----------------------------------------------------------------------------
(* The server                                                               *)

LEMMA AnswerOK ==
    ASSUME DashboardInv, NEW r \in RunIds, NEW asked \in BOOLEAN
    PROVE  Answer(r, asked) \in SeenRun
<1> DEFINE rw == srv[r].row
           live == CASE ~asked -> "null"
                     [] srv[r].wf \in {"gen", "genTold", "genMarked", "halting"} -> "running"
                     [] srv[r].wf \in {"lead", "leadDone", "leadTold"} -> "lead"
                     [] OTHER -> "over"
           prog == CASE rw.exec = "over" -> "over"
                     [] rw.exec = "running" -> "lead"
                     [] RowActive(rw) /\ live \in {"null", "over"} -> "running"
                     [] OTHER -> live
<1>1. rw \in RunRow
    BY DEF DashboardInv, DashboardTyped, Server
<1>2. Shown(rw) \in Act
    BY <1>1 DEF Shown, Act, RunRow
<1>3. live \in ProgressView
    BY DEF ProgressView
<1> HIDE DEF live
<1>4. prog \in ProgressView
    BY <1>3 DEF ProgressView
<1>5. Answer(r, asked) = [act |-> Shown(rw), active |-> RowActive(rw), prog |-> prog]
    BY DEF Answer, live
<1>6. RowActive(rw) \in BOOLEAN
    BY DEF RowActive
<1> HIDE DEF rw, prog
<1> QED
    BY <1>2, <1>4, <1>5, <1>6 DEF SeenRun

\* A message joins the queue of an open socket.
LEMMA QueuedOK ==
    ASSUME DashboardInv, sock.st = "open", NEW m \in Message,
           NEW s, s = [sock EXCEPT !.queue = Append(@, m)]
    PROVE  s \in Socket /\ Listening(page, s)
<1>1. sock \in Socket /\ Append(sock.queue, m) \in Seq(Message)
    BY DEF DashboardInv, DashboardTyped, Socket
<1>2. s \in Socket /\ s.st = sock.st /\ s.run = sock.run
    BY <1>1 DEF Socket
<1> QED
    BY <1>2 DEF DashboardInv, Listening

LEMMA MessageOK ==
    ASSUME NEW t \in {"running", "lead", "over"}
    PROVE  Message0(t) \in Message
BY ConstantTypes DEF Message0, Message

LEMMA EventOK == ASSUME DashboardInv, Event PROVE events' \in 0 .. MaxEvents
BY MondayDashboardAssumption DEF DashboardInv, DashboardTyped, Event, MondayDashboardAssumption

LEMMA PublishOK ==
    ASSUME DashboardInv, NEW r, NEW t \in {"running", "lead", "over"}, Publish(r, t)
    PROVE  sock' \in Socket /\ Listening(page, sock') /\ missed' \in BOOLEAN
           /\ events' \in 0 .. MaxEvents
<1>1. CASE Hears(r) /\ sock' = [sock EXCEPT !.queue = Append(@, Message0(t))]
           /\ missed' = (missed \/ (Last(t) /\ Misses(r))) /\ UNCHANGED events
    <2>1. sock.st = "open"
        BY <1>1 DEF Hears
    <2> QED
        BY <1>1, <2>1, MessageOK, QueuedOK DEF DashboardInv, DashboardTyped
<1>2. CASE sock' = sock /\ missed' = (missed \/ (Last(t) /\ Misses(r))) /\ UNCHANGED events
    BY <1>2 DEF DashboardInv, DashboardTyped
<1>3. CASE Event /\ missed' = (missed \/ Last(t)) /\ UNCHANGED sock
    BY <1>3, EventOK DEF DashboardInv, DashboardTyped
<1> QED
    BY <1>1, <1>2, <1>3 DEF Publish

\* A row and a workflow that the server can have.
LEMMA SetOK ==
    ASSUME DashboardInv, NEW r \in RunIds, NEW status, NEW exec, NEW w,
           status = srv[r].row.status \/ status \in {"none", "running"} \cup Ended,
           exec = srv[r].row.exec \/ exec \in {"null", "pending", "running", "over"},
           w \in {"none", "ended"} \cup WfAtWork, Set(r, status, exec, w)
    PROVE  srv' \in [RunIds -> Server]
<1> DEFINE n == [row |-> [status |-> status, exec |-> exec], wf |-> w]
<1>1. srv[r].row \in RunRow
    BY DEF DashboardInv, DashboardTyped, Server
<1>2. n \in Server
    BY <1>1 DEF Server, RunRow
<1>3. srv' = [srv EXCEPT ![r] = n]
    BY DEF Set
<1> HIDE DEF n
<1> QED
    BY <1>2, <1>3 DEF DashboardInv, DashboardTyped

\* The server moves, and publishes or not.
LEMMA ServedOK ==
    ASSUME DashboardInv, srv' \in [RunIds -> Server], UNCHANGED <<page, calls>>,
           \/ UNCHANGED <<sock, events, missed>>
           \/ \E r \in RunIds, t \in {"running", "lead", "over"} : Publish(r, t)
    PROVE  DashboardInv'
<1>1. sock' \in Socket /\ Listening(page, sock') /\ missed' \in BOOLEAN
      /\ events' \in 0 .. MaxEvents
    BY PublishOK DEF DashboardInv, DashboardTyped
<1> QED
    BY <1>1 DEF DashboardInv, DashboardTyped, Listening

LEMMA ServerStepOK == ASSUME DashboardInv, NEW r \in RunIds,
        GenEnds(r) \/ GenMarks(r) \/ GenFails(r) \/ LeadEnds(r)
        \/ LeadTells(r) \/ LeadReturns(r) \/ Halts(r)
    PROVE  DashboardInv'
<1> USE DEF Ended, WfAtWork
<1>1. CASE GenEnds(r)
    BY <1>1, SetOK, ServedOK DEF GenEnds
<1>2. CASE GenMarks(r)
    BY <1>2, SetOK, ServedOK DEF GenMarks
<1>3. CASE GenFails(r)
    BY <1>3, SetOK, ServedOK DEF GenFails
<1>4. CASE LeadEnds(r)
    BY <1>4, SetOK, ServedOK DEF LeadEnds
<1>5. CASE LeadTells(r)
    BY <1>5, SetOK, ServedOK DEF LeadTells
<1>6. CASE LeadReturns(r)
    BY <1>6, SetOK, ServedOK DEF LeadReturns
<1>7. CASE Halts(r)
    BY <1>7, SetOK, ServedOK DEF Halts
<1> QED
    BY <1>1, <1>2, <1>3, <1>4, <1>5, <1>6, <1>7

LEMMA GenRetriesOK == ASSUME DashboardInv, NEW r \in RunIds, GenRetries(r) PROVE DashboardInv'
<1>1. srv' \in [RunIds -> Server]
    BY SetOK DEF GenRetries, WfAtWork
<1>2. events' \in 0 .. MaxEvents
    BY EventOK DEF GenRetries
<1>3. sock' \in Socket /\ Listening(page, sock')
    <2>1. CASE Hears(r)
        <3>1. sock.st = "open" /\ sock' = [sock EXCEPT !.queue = Append(@, Message0("running"))]
            BY <2>1 DEF GenRetries, Hears
        <3> QED
            BY <3>1, MessageOK, QueuedOK
    <2>2. CASE ~Hears(r)
        BY <2>2 DEF GenRetries, DashboardInv, DashboardTyped
    <2> QED
        BY <2>1, <2>2
<1> QED
    BY <1>1, <1>2, <1>3 DEF GenRetries, DashboardInv, DashboardTyped, Listening


-----------------------------------------------------------------------------
(* Requests                                                                 *)

LEMMA RefusedOK ==
    ASSUME NEW c \in Calls
    PROVE  [c EXCEPT !.pc = "refused"] \in Calls
BY DEF Calls, Call

LEMMA AcceptedOK ==
    ASSUME NEW c \in Calls, NEW r \in RunIds
    PROVE  [c EXCEPT !.pc = "answered", !.run = r] \in Calls
BY DEF Calls, Call

\* A request moves on, and what else moves keeps its type.
LEMMA HandledOK ==
    ASSUME DashboardInv, NEW c \in calls, NEW d \in Calls, calls' = (calls \ {c}) \cup {d},
           srv' \in [RunIds -> Server], page' = page, sock' \in Socket, Listening(page, sock'),
           missed' \in BOOLEAN, events' \in 0 .. MaxEvents
    PROVE  DashboardInv'
BY DEF DashboardInv, DashboardTyped, Listening

LEMMA RefuseOK == ASSUME DashboardInv, NEW c \in calls, Refuse(c), page' = page PROVE DashboardInv'
<1>1. [c EXCEPT !.pc = "refused"] \in Calls
    BY RefusedOK DEF DashboardInv, DashboardTyped
<1> QED
    BY <1>1, HandledOK DEF Refuse, DashboardInv, DashboardTyped

LEMMA PostHandledOK ==
    ASSUME DashboardInv, NEW c \in calls, NEW r \in RunIds, Accept(c, r), srv' \in [RunIds -> Server],
           \/ UNCHANGED <<sock, events, missed>>
           \/ \E t \in {"running", "lead", "over"} : Publish(r, t),
           page' = page
    PROVE  DashboardInv'
<1>1. [c EXCEPT !.pc = "answered", !.run = r] \in Calls
    BY AcceptedOK DEF DashboardInv, DashboardTyped
<1>2. sock' \in Socket /\ Listening(page, sock') /\ missed' \in BOOLEAN
      /\ events' \in 0 .. MaxEvents
    BY PublishOK DEF DashboardInv, DashboardTyped
<1> QED
    BY <1>1, <1>2, HandledOK DEF Accept

LEMMA HandleOK == ASSUME DashboardInv, NEW c \in calls, Handle(c) PROVE DashboardInv'
<1> USE DEF Ended, WfAtWork
<1>0. c \in Calls /\ page' = page /\ c.pc = "sent"
    BY DEF Handle, DashboardInv, DashboardTyped
<1>1. c.op # "start" => c.run \in RunIds
    BY <1>0 DEF Calls
<1>2. CASE c.op = "start" /\ HandleStart(c)
    <2>1. CASE Refuse(c)
        BY <2>1, <1>0, RefuseOK
    <2>2. CASE \E r \in RunIds : Set(r, "running", "pending", "gen") /\ Accept(c, r)
                                 /\ UNCHANGED <<sock, events, missed>>
        <3>1. PICK r \in RunIds : Set(r, "running", "pending", "gen") /\ Accept(c, r)
                                 /\ UNCHANGED <<sock, events, missed>>
            BY <2>2
        <3>2. srv' \in [RunIds -> Server]
            BY <3>1, SetOK
        <3> QED
            BY <1>0, <3>1, <3>2, PostHandledOK
    <2> QED
        BY <1>2, <2>1, <2>2 DEF HandleStart
<1>3. CASE c.op = "execute" /\ HandleExecute(c)
    <2>1. CASE Refuse(c)
        BY <2>1, <1>0, RefuseOK
    <2>2. CASE Set(c.run, srv[c.run].row.status, "running", "lead") /\ Publish(c.run, "lead")
               /\ Accept(c, c.run)
        <3>1. srv' \in [RunIds -> Server]
            BY <1>1, <1>3, <2>2, SetOK
        <3> QED
            BY <1>0, <1>1, <1>3, <2>2, <3>1, PostHandledOK
    <2> QED
        BY <1>3, <2>1, <2>2 DEF HandleExecute
<1>4. CASE c.op = "resume" /\ HandleResume(c)
    <2>1. CASE Refuse(c)
        BY <2>1, <1>0, RefuseOK
    <2>2. CASE Set(c.run, "running", "pending", "gen") /\ Publish(c.run, "running")
               /\ Accept(c, c.run)
        <3>1. srv' \in [RunIds -> Server]
            BY <1>1, <1>4, <2>2, SetOK
        <3> QED
            BY <1>0, <1>1, <1>4, <2>2, <3>1, PostHandledOK
    <2> QED
        BY <1>4, <2>1, <2>2 DEF HandleResume
<1>5. CASE c.op = "cancel" /\ HandleCancel(c)
    <2>1. CASE Refuse(c)
        BY <2>1, <1>0, RefuseOK
    <2>2. CASE Set(c.run, "cancelled", "null",
                   IF srv[c.run].wf \in WfAtWork THEN "halting" ELSE "ended")
               /\ Publish(c.run, "over") /\ Accept(c, c.run)
        <3>1. srv' \in [RunIds -> Server]
            BY <1>1, <1>5, <2>2, SetOK
        <3> QED
            BY <1>0, <1>1, <1>5, <2>2, <3>1, PostHandledOK
    <2> QED
        BY <1>5, <2>1, <2>2 DEF HandleCancel
<1>6. ASSUME c.op \in {"ended", "load"}, NEW asked \in BOOLEAN,
             IF asked THEN UNCHANGED events ELSE c.op = "load" /\ Event,
             UNCHANGED <<srv, sock, missed>>,
             calls' = (calls \ {c}) \cup
                 {[c EXCEPT !.pc = "answered", !.run = NoSelection,
                    !.seen = IF c.op = "load"
                             THEN [Answer(c.run, asked) EXCEPT !.prog = Merged(@),
                                      !.active = SaysActive(Answer(c.run, asked))]
                             ELSE [NotRead EXCEPT !.act = Answer(c.run, asked).act]]}
      PROVE  DashboardInv'
    <2> DEFINE a == Answer(c.run, asked)
               seen == IF c.op = "load" THEN [a EXCEPT !.prog = Merged(@), !.active = SaysActive(a)]
                       ELSE [NotRead EXCEPT !.act = a.act]
               d == [c EXCEPT !.pc = "answered", !.run = NoSelection, !.seen = seen]
    <2>1. a \in SeenRun
        BY <1>1, <1>6, AnswerOK
    <2>2. calls' = (calls \ {c}) \cup {d}
        BY <1>6
    <2>3. SaysActive(a) \in BOOLEAN
        BY DEF SaysActive
    <2> HIDE DEF a
    <2>4. Merged(a.prog) \in ProgressView \ {"lead"}
        BY <2>1 DEF Merged, SeenRun, ProgressView
    <2>5. seen \in SeenRun /\ (c.op = "load" => seen.prog # "lead")
        BY <2>1, <2>3, <2>4, ConstantTypes DEF SeenRun
    <2> HIDE DEF seen
    <2>6. d \in Calls
        BY <1>0, <1>6, <2>5 DEF Calls, Call
    <2> HIDE DEF d
    <2>7. events' \in 0 .. MaxEvents
        BY <1>6, EventOK DEF DashboardInv, DashboardTyped
    <2> QED
        BY <1>0, <1>6, <2>2, <2>6, <2>7, HandledOK DEF DashboardInv, DashboardTyped
<1> QED
    BY <1>2, <1>3, <1>4, <1>5, <1>6 DEF Handle

LEMMA LosesOK == ASSUME DashboardInv, NEW c \in calls, Loses(c) PROVE DashboardInv'
<1>1. [c EXCEPT !.pc = "refused"] \in Calls
    BY RefusedOK DEF DashboardInv, DashboardTyped
<1>2. events' \in 0 .. MaxEvents
    BY EventOK DEF Loses
<1> QED
    BY <1>1, <1>2, HandledOK DEF Loses, DashboardInv, DashboardTyped

LEMMA AnsweredOK == ASSUME DashboardInv, NEW c \in calls, OnAnswer(c) PROVE DashboardInv'
<1>0. c \in Calls /\ page \in Page /\ calls \ {c} \in SUBSET Calls
    BY DEF DashboardInv, DashboardTyped
<1>1. c.seen \in SeenRun /\ page.act \in Act
    BY <1>0 DEF Calls, Call, Page
<1>2. CASE c.op = "ended" /\ c.pc = "answered"
           /\ Show([[page EXCEPT !.loading = FALSE] EXCEPT !.act = c.seen.act], calls \ {c})
    <2>1. [[page EXCEPT !.loading = FALSE] EXCEPT !.act = c.seen.act] \in Page
        BY <1>0, <1>1 DEF Page, SeenRun
    <2> QED
        BY <1>0, <1>2, <2>1, ShowOK
<1>3. CASE c.op = "ended" /\ c.pc = "refused"
           /\ Show([[page EXCEPT !.loading = FALSE] EXCEPT
                       !.act.status = IF page.act = NoAct THEN @ ELSE "over"], calls \ {c})
    <2>1. [[page EXCEPT !.loading = FALSE] EXCEPT
              !.act.status = IF page.act = NoAct THEN @ ELSE "over"] \in Page
        BY <1>0, <1>1 DEF Page, Act
    <2> QED
        BY <1>0, <1>3, <2>1, ShowOK
<1>4. CASE c.op = "load" /\ c.pc = "answered"
           /\ Show([page EXCEPT !.act = c.seen.act,
                       !.prog = IF c.seen.prog = "null" THEN @ ELSE c.seen.prog],
                   (calls \ {c}) \cup {[c EXCEPT !.pc = "shown",
                                   !.seen = [NotRead EXCEPT !.active = c.seen.active]]})
    <2> DEFINE n == [NotRead EXCEPT !.active = c.seen.active]
    <2>1. c.seen.prog \in ProgressView \ {"lead"}
        BY <1>0, <1>1, <1>4 DEF Calls, SeenRun
    <2>2. [page EXCEPT !.act = c.seen.act,
              !.prog = IF c.seen.prog = "null" THEN @ ELSE c.seen.prog] \in Page
        BY <1>0, <1>1, <2>1 DEF Page, SeenRun
    <2>3. n \in SeenRun /\ n.prog = "null"
        BY <1>1, ConstantTypes DEF SeenRun, NotRead
    <2>4. [c EXCEPT !.pc = "shown", !.seen = n] \in Calls
        <3> HIDE DEF n
        <3> QED
            BY <1>0, <1>4, <2>3 DEF Calls, Call
    <2>5. (calls \ {c}) \cup {[c EXCEPT !.pc = "shown", !.seen = n]} \in SUBSET Calls
        BY <1>0, <2>4
    <2> QED
        BY <1>4, <2>2, <2>5, ShowOK
<1>5. CASE c.op = "load" /\ c.pc = "shown"
           /\ Show([page EXCEPT !.loading = c.seen.active], calls \ {c})
    <2>1. [page EXCEPT !.loading = c.seen.active] \in Page
        BY <1>0, <1>1 DEF Page, SeenRun
    <2> QED
        BY <1>0, <1>5, <2>1, ShowOK
<1>6. CASE Show([page EXCEPT !.loading = FALSE], calls \ {c})
    <2>1. [page EXCEPT !.loading = FALSE] \in Page
        BY <1>0 DEF Page
    <2> QED
        BY <1>0, <1>6, <2>1, ShowOK
<1>7. CASE c.op = "start" /\ c.pc = "answered"
           /\ Show([page EXCEPT !.sel = c.run,
                       !.act = [status |-> "running", busy |-> FALSE]], calls \ {c})
    <2>1. [page EXCEPT !.sel = c.run, !.act = [status |-> "running", busy |-> FALSE]] \in Page
        BY <1>0 DEF Page, Act, Calls, Call
    <2> QED
        BY <1>0, <1>7, <2>1, ShowOK
<1>8. CASE c.op = "execute" /\ c.pc = "answered"
           /\ Show([page EXCEPT !.act = [status |-> IF @ = NoAct THEN "over" ELSE @.status,
                                         busy |-> TRUE],
                                !.prog = "running"], calls \ {c})
    <2> DEFINE a == [status |-> IF page.act = NoAct THEN "over" ELSE page.act.status, busy |-> TRUE]
    <2>1. a \in Act
        BY <1>1 DEF Act
    <2>2. Show([page EXCEPT !.act = a, !.prog = "running"], calls \ {c})
        BY <1>0, <1>8 DEF Page
    <2> HIDE DEF a
    <2>3. [page EXCEPT !.act = a, !.prog = "running"] \in Page
        BY <1>0, <2>1 DEF Page, ProgressView
    <2> QED
        BY <1>0, <2>2, <2>3, ShowOK
<1>9. CASE c.op = "resume" /\ c.pc = "answered"
           /\ Show([page EXCEPT !.act.status = "running", !.prog = "running"], calls \ {c})
    <2>1. [page EXCEPT !.act.status = "running", !.prog = "running"] \in Page
        BY <1>0, <1>1 DEF Page, Act, ProgressView
    <2> QED
        BY <1>0, <1>9, <2>1, ShowOK
<1>10. CASE c.op = "cancel" /\ c.pc = "answered"
            /\ Show([page EXCEPT !.prog = IF @ = "null" THEN @ ELSE "over"],
                    (calls \ {c}) \cup {EndedCall(c.run)})
    <2>1. [page EXCEPT !.prog = IF @ = "null" THEN @ ELSE "over"] \in Page
        BY <1>0 DEF Page, ProgressView
    <2>2. c.run \in RunIds
        BY <1>0, <1>10 DEF Calls
    <2>3. (calls \ {c}) \cup {EndedCall(c.run)} \in SUBSET Calls
        BY <1>0, <2>2, EndedCallOK
    <2> QED
        BY <1>10, <2>1, <2>3, ShowOK
<1>11. CASE Show(page, calls \ {c})
    BY <1>0, <1>11, ShowOK
<1> QED
    BY <1>2, <1>3, <1>4, <1>5, <1>6, <1>7, <1>8, <1>9, <1>10, <1>11 DEF OnAnswer

-----------------------------------------------------------------------------
(* The user and the socket                                                  *)

LEMMA ClickOK ==
    ASSUME DashboardInv, NEW op \in UserOps, NEW p \in Page, NEW cs \in SUBSET Calls, Click(op, p, cs)
    PROVE  DashboardInv'
<1>1. sock \in Socket /\ Listening(page, sock) /\ Render(p, FALSE, sock, cs)
    BY DEF DashboardInv, DashboardTyped, Click
<1>2. page' \in Page /\ sock' \in Socket /\ calls' \in SUBSET Calls /\ Listening(page', sock')
    BY <1>1, RenderOK
<1>3. events' \in 0 .. MaxEvents
    BY EventOK DEF Click
<1> QED
    BY <1>2, <1>3 DEF DashboardInv, DashboardTyped, Click, Listening

LEMMA UsersOK == ASSUME DashboardInv, Users PROVE DashboardInv'
<1>0. page \in Page /\ calls \in SUBSET Calls
    BY DEF DashboardInv, DashboardTyped
<1>1. ASSUME NEW op \in {"start", "execute", "resume", "cancel"},
             op # "start" => page.sel # NoSelection
      PROVE  Post(op) \in SUBSET Calls
    <2>1. page.sel \in RunIds \cup {NoSelection}
        BY <1>0 DEF Page
    <2>2. [op |-> op, run |-> page.sel, pc |-> "sent", seen |-> NotRead] \in Calls
        BY <1>1, <2>1, ConstantTypes DEF Calls, Call, UserOps
    <2> QED
        BY <1>0, <2>2 DEF Post
<1>2. CASE StartPipeline
    <2>1. [page EXCEPT !.loading = TRUE, !.prog = "null"] \in Page
        BY <1>0 DEF Page, ProgressView
    <2> QED
        BY <1>1, <1>2, <2>1, ClickOK DEF StartPipeline, UserOps
<1>3. CASE RunExecuteOnly \/ RunResumeFromAgent \/ CancelPipeline
    <2>1. [page EXCEPT !.loading = TRUE] \in Page
        BY <1>0 DEF Page
    <2> QED
        BY <1>0, <1>1, <1>3, <2>1, ClickOK
        DEF RunExecuteOnly, RunResumeFromAgent, CancelPipeline, UserOps
<1>4. CASE LoadHistoricalRun
    <2>1. PICK r \in RunIds : Click("load", [page EXCEPT !.sel = r],
                 calls \cup {[op |-> "load", run |-> r, pc |-> "sent", seen |-> NotRead]})
        BY <1>4 DEF LoadHistoricalRun
    <2>2. [page EXCEPT !.sel = r] \in Page
        BY <1>0 DEF Page
    <2>3. [op |-> "load", run |-> r, pc |-> "sent", seen |-> NotRead] \in Calls
        BY ConstantTypes DEF Calls, Call, UserOps, NotRead
    <2> QED
        BY <1>0, <2>1, <2>2, <2>3, ClickOK DEF UserOps
<1>5. CASE ClearRunViewState
    <2>1. [page EXCEPT !.sel = NoSelection, !.prog = "null", !.act = NoAct, !.loading = FALSE] \in Page
        BY <1>0, ConstantTypes DEF Page, ProgressView
    <2> QED
        BY <1>0, <1>5, <2>1, ClickOK DEF ClearRunViewState, UserOps
<1> QED
    BY <1>2, <1>3, <1>4, <1>5 DEF Users

\* The socket changes, and stays that of the selected run.
LEMMA SocketMovesOK ==
    ASSUME DashboardInv, SockFrame, sock' \in Socket, sock'.run = sock.run, sock.st # "none",
           sock'.st # "open" => sock'.queue = <<>>,
           events' \in 0 .. MaxEvents, missed' \in BOOLEAN
    PROVE  DashboardInv'
BY DEF DashboardInv, DashboardTyped, Listening, SockFrame

LEMMA DropsOK == ASSUME DashboardInv, Drops PROVE DashboardInv'
<1> DEFINE tries == IF sock.tries >= MaxReconnects THEN 0 ELSE sock.tries + 1
           st == IF sock.tries >= MaxReconnects THEN "off" ELSE "retry"
<1>1. sock \in Socket /\ sock.st = "open"
    BY DEF DashboardInv, DashboardTyped, Drops
<1>2. tries \in Nat /\ st \in {"off", "retry"}
    BY <1>1 DEF Socket
<1>3. sock' = [NoSocket EXCEPT !.run = sock.run, !.st = st, !.tries = tries]
    BY DEF Drops, NoSocket
<1> HIDE DEF tries, st
<1>4. sock' \in Socket /\ sock'.run = sock.run /\ sock'.queue = <<>>
    BY <1>1, <1>2, <1>3, ConstantTypes DEF Socket, NoSocket
<1>5. events' \in 0 .. MaxEvents
    BY EventOK DEF Drops
<1> QED
    BY <1>1, <1>4, <1>5, SocketMovesOK DEF Drops, DashboardInv, DashboardTyped

LEMMA ReconnectsOK == ASSUME DashboardInv, Reconnects PROVE DashboardInv'
<1>1. sock \in Socket /\ sock.st = "retry"
    BY DEF DashboardInv, DashboardTyped, Reconnects
<1>2. sock' \in Socket /\ sock'.run = sock.run /\ sock'.st = "open"
    BY <1>1 DEF Socket, Reconnects
<1> QED
    BY <1>1, <1>2, SocketMovesOK DEF Reconnects, DashboardInv, DashboardTyped

LEMMA SubscribesOK == ASSUME DashboardInv, Subscribes PROVE DashboardInv'
<1>1. sock \in Socket /\ sock.st = "open"
    BY DEF DashboardInv, DashboardTyped, Subscribes
<1>2. sock' \in Socket /\ sock'.run = sock.run /\ sock'.st = "open"
    BY <1>1 DEF Socket, Subscribes
<1> QED
    BY <1>1, <1>2, SocketMovesOK DEF Subscribes, DashboardInv, DashboardTyped

LEMMA ReadsSnapshotOK == ASSUME DashboardInv, ReadsSnapshot PROVE DashboardInv'
<1>1. sock \in Socket /\ sock.st = "open" /\ sock.run \in RunIds
    <2>1. sock \in Socket /\ sock.st = "open" /\ page \in Page /\ sock.run = page.sel /\ page.sel # NoSelection
        BY DEF DashboardInv, DashboardTyped, ReadsSnapshot, Listening
    <2> QED
        BY <2>1 DEF Page
<1>2. PICK asked \in BOOLEAN :
        /\ IF asked THEN UNCHANGED events ELSE Event
        /\ sock' = [sock EXCEPT !.snap = "read", !.seen = Answer(sock.run, asked), !.tries = 0]
        /\ missed' = (missed \/ (Told(sock.run) /\ SaysActive(Answer(sock.run, asked))))
    BY DEF ReadsSnapshot
<1>3. Answer(sock.run, asked) \in SeenRun
    BY <1>1, AnswerOK
<1>4. sock' \in Socket /\ sock'.run = sock.run /\ sock'.st = "open"
    BY <1>1, <1>2, <1>3 DEF Socket
<1>5. events' \in 0 .. MaxEvents
    BY <1>2, EventOK DEF DashboardInv, DashboardTyped
<1>6. missed' \in BOOLEAN
    BY <1>2 DEF DashboardInv, DashboardTyped
<1> QED
    BY <1>1, <1>4, <1>5, <1>6, SocketMovesOK DEF ReadsSnapshot

LEMMA SnapshotFailsOK == ASSUME DashboardInv, SnapshotFails PROVE DashboardInv'
<1>1. sock \in Socket /\ sock.st = "open"
    BY DEF DashboardInv, DashboardTyped, SnapshotFails
<1>2. sock' \in Socket /\ sock'.run = sock.run /\ sock'.st = "open"
    BY <1>1 DEF Socket, SnapshotFails
<1>3. events' \in 0 .. MaxEvents
    BY EventOK DEF SnapshotFails
<1> QED
    BY <1>1, <1>2, <1>3, SocketMovesOK DEF SnapshotFails, DashboardInv, DashboardTyped

LEMMA SendsSnapshotOK == ASSUME DashboardInv, SendsSnapshot PROVE DashboardInv'
<1> DEFINE m == [type |-> "snapshot", seen |-> sock.seen]
<1>1. sock \in Socket /\ sock.st = "open"
    BY DEF DashboardInv, DashboardTyped, SendsSnapshot
<1>2. m \in Message
    BY <1>1 DEF Socket, Message
<1> HIDE DEF m
<1>3. Append(sock.queue, m) \in Seq(Message)
    BY <1>1, <1>2 DEF Socket
<1>4. sock' = [sock EXCEPT !.snap = "sent", !.seen = NotRead, !.queue = Append(sock.queue, m)]
    BY <1>1 DEF SendsSnapshot, m, Socket
<1>5. sock' \in Socket /\ sock'.run = sock.run /\ sock'.st = "open"
    BY <1>1, <1>3, <1>4, ConstantTypes DEF Socket
<1> QED
    BY <1>1, <1>5, SocketMovesOK DEF SendsSnapshot, DashboardInv, DashboardTyped

LEMMA ReceivesOK == ASSUME DashboardInv, Receives PROVE DashboardInv'
<1> DEFINE m == Head(sock.queue)
           s == [sock EXCEPT !.queue = Tail(@)]
<1>1. sock \in Socket /\ page \in Page /\ calls \in SUBSET Calls /\ sock.queue # <<>>
    BY DEF DashboardInv, DashboardTyped, Receives
<1>2. sock.st = "open" /\ page.sel \in RunIds
    BY <1>1 DEF DashboardInv, Listening, Page
<1>3. m \in Message /\ Tail(sock.queue) \in Seq(Message)
    BY <1>1 DEF Socket
<1>4. s \in Socket /\ Listening(page, s)
    BY <1>1, <1>2, <1>3 DEF DashboardInv, Listening, Socket
<1>5. EndedCall(page.sel) \in Calls
    BY <1>2, EndedCallOK
<1> HIDE DEF m, s
<1>6. PICK p \in Page, wsSet \in BOOLEAN, cs \in SUBSET Calls : Render(p, wsSet, s, cs)
    <2>1. CASE m.type = "snapshot" /\ OnRunSnapshot(m.seen)
        <3> DEFINE prog == IF m.seen.prog = "null" \/ (m.seen.active /\ m.seen.prog = "over")
                           THEN page.prog ELSE Merged(m.seen.prog)
                   ws == IF m.seen.prog = "null" THEN page.ws ELSE m.seen.prog
                   loads == page.loading \/ SaysActive(m.seen)
                   shown == [page EXCEPT !.act = m.seen.act, !.prog = prog, !.ws = ws, !.loading = loads]
        <3>1. m.seen \in SeenRun
            BY <1>3 DEF Message
        <3>2. prog \in ProgressView \ {"lead"} /\ ws \in ProgressView /\ loads \in BOOLEAN
            BY <1>1, <3>1 DEF Merged, SeenRun, Page, ProgressView
        <3>3. Render(shown, m.seen.prog # "null", s,
                     IF SaysActive(m.seen) THEN calls ELSE calls \cup {EndedCall(page.sel)})
            BY <1>1, <2>1 DEF OnRunSnapshot, s, Page
        <3> HIDE DEF prog, ws, loads
        <3>4. shown \in Page
            BY <1>1, <3>1, <3>2 DEF Page, SeenRun
        <3>5. (IF SaysActive(m.seen) THEN calls ELSE calls \cup {EndedCall(page.sel)}) \in SUBSET Calls
            BY <1>1, <1>5
        <3> QED
            BY <3>3, <3>4, <3>5
    <2>2. CASE m.type # "snapshot" /\ OnEvent(m.type)
        <3>1. [page EXCEPT !.ws = m.type] \in Page
            BY <1>1, <1>3, <2>2 DEF Page, ProgressView, Message
        <3>2. (IF m.type = "over" THEN calls \cup {EndedCall(page.sel)} ELSE calls) \in SUBSET Calls
            BY <1>1, <1>5
        <3> QED
            BY <2>2, <3>1, <3>2 DEF OnEvent, s
    <2> QED
        BY <2>1, <2>2 DEF Receives, m
<1>7. page' \in Page /\ sock' \in Socket /\ calls' \in SUBSET Calls /\ Listening(page', sock')
    BY <1>4, <1>6, RenderOK
<1> QED
    BY <1>7 DEF Receives, DashboardInv, DashboardTyped, Listening

LEMMA DashboardStepOK == ASSUME DashboardInv, [DashboardNext]_dashboardVars PROVE DashboardInv'
<1>1. CASE UNCHANGED dashboardVars
    BY <1>1 DEF dashboardVars, DashboardInv, DashboardTyped, Listening
<1>2. CASE ServerStep
    BY <1>2, ServerStepOK DEF ServerStep
<1>3. CASE CallStep
    BY <1>3, HandleOK, AnsweredOK DEF CallStep
<1>4. CASE SocketStep
    BY <1>4, ReconnectsOK, SubscribesOK, ReadsSnapshotOK, SendsSnapshotOK, ReceivesOK
    DEF SocketStep
<1>5. CASE Faults
    BY <1>5, DropsOK, SnapshotFailsOK, LosesOK, GenRetriesOK DEF Faults
<1>6. CASE Users
    BY <1>6, UsersOK
<1> QED
    BY <1>1, <1>2, <1>3, <1>4, <1>5, <1>6 DEF DashboardNext

-----------------------------------------------------------------------------
(* Theorems                                                                 *)

\* Types of the rows, the page, its socket and its requests (App.tsx, usePipelineWebSocket.ts).
THEOREM DashboardTypesHold == DashboardSpec => []DashboardTypeOK
<1>1. DashboardInv => DashboardTypeOK
    BY DEF DashboardInv, DashboardTyped, DashboardTypeOK, Socket, Calls
<1> QED
    BY <1>1, DashboardInitOK, DashboardStepOK, PTL DEF DashboardSpec

\* However clicks, answers, reconnections and messages interleave, the socket is that of the
\* run the page shows, and the page waits for it.
THEOREM SocketIsOfTheRun == DashboardSpec => []ListensToItsRun
<1>1. DashboardInv => ListensToItsRun
    BY DEF DashboardInv, Listening, ListensToItsRun
<1> QED
    BY <1>1, DashboardInitOK, DashboardStepOK, PTL DEF DashboardSpec

=============================================================================
