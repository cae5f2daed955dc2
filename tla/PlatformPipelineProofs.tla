----------------------- MODULE PlatformPipelineProofs -----------------------
(***************************************************************************)
(* Machine-checked theorems about PlatformPipeline, for every number of    *)
(* requests in service, repair rounds, iterations and mishaps: the row     *)
(* says what the workflow ended with, a cancelled pipeline stays so, and   *)
(* no more fix iterations are used up than the workflow counts.            *)
(***************************************************************************)
EXTENDS PlatformPipeline, FiniteSetTheorems, TLAPS

USE PipelineAssumption

-----------------------------------------------------------------------------
(* The workflow's moves                                                     *)

LEMMA Setters ==
    ASSUME NEW w \in Workflow
    PROVE  /\ \A k \in Kinds : [w EXCEPT !.kind = k] \in Workflow
           /\ \A n \in 1..3 : [w EXCEPT !.attempt = n] \in Workflow
           /\ \A f \in 0..MaxFix : [w EXCEPT !.fix = f] \in Workflow
           /\ \A v \in {"passed", "failed"} : [w EXCEPT !.verdict = v] \in Workflow
           /\ [w EXCEPT !.sent = FALSE] \in Workflow /\ [w EXCEPT !.caught = TRUE] \in Workflow
<1>1. \A k \in Kinds : [w EXCEPT !.kind = k] \in Workflow
    BY DEF Workflow
<1>2. \A n \in 1..3 : [w EXCEPT !.attempt = n] \in Workflow
    BY DEF Workflow
<1>3. \A f \in 0..MaxFix : [w EXCEPT !.fix = f] \in Workflow
    BY DEF Workflow
<1>4. \A v \in {"passed", "failed"} : [w EXCEPT !.verdict = v] \in Workflow
    BY DEF Workflow
<1>5. [w EXCEPT !.sent = FALSE] \in Workflow /\ [w EXCEPT !.caught = TRUE] \in Workflow
    BY DEF Workflow
<1> QED
    BY <1>1, <1>2, <1>3, <1>4, <1>5

LEMMA AwaitMove ==
    ASSUME NEW w \in Workflow, NEW kind \in Kinds
    PROVE  /\ Await(w, kind) \in Workflow
           /\ Await(w, kind).kind = kind /\ ~Await(w, kind).sent /\ Await(w, kind).attempt = 1
           /\ Await(w, kind).pc = w.pc /\ Await(w, kind).fix = w.fix
           /\ Await(w, kind).run = w.run /\ Await(w, kind).verdict = w.verdict
           /\ Await(w, kind).caught = w.caught /\ Await(w, kind).cancelled = w.cancelled
           /\ Await(w, kind).stopped = w.stopped
<1>1. Await(w, kind) \in Workflow
    <2> DEFINE a == [w EXCEPT !.kind = kind]
               b == [a EXCEPT !.attempt = 1]
    <2>1. a \in Workflow
        BY Setters
    <2> HIDE DEF a
    <2>2. b \in Workflow
        <3>1. 1 \in 1..3
            OBVIOUS
        <3> QED
            BY <2>1, <3>1, Setters
    <2> HIDE DEF b
    <2>3. [b EXCEPT !.sent = FALSE] \in Workflow
        BY <2>2, Setters
    <2> QED
        BY <2>3 DEF Await, a, b
<1> QED
    BY <1>1 DEF Await, Workflow

LEMMA FinishMove ==
    ASSUME NEW w \in Workflow, NEW v \in {"passed", "failed"}
    PROVE  LET x == Finish(w, v) IN
           /\ x \in Workflow /\ x.kind = "finish" /\ x.verdict = v
           /\ ~x.sent /\ x.attempt = 1 /\ x.pc = w.pc /\ x.fix = w.fix /\ x.run = w.run
           /\ x.caught = w.caught /\ x.cancelled = w.cancelled /\ x.stopped = w.stopped
<1> DEFINE a == Await(w, "finish")
<1>1. a \in Workflow
    BY AwaitMove DEF Kinds
<1>2. Finish(w, v) = [a EXCEPT !.verdict = v]
    BY DEF Finish
<1>3. /\ a.kind = "finish" /\ ~a.sent /\ a.attempt = 1 /\ a.pc = w.pc /\ a.fix = w.fix
      /\ a.run = w.run /\ a.caught = w.caught /\ a.cancelled = w.cancelled
      /\ a.stopped = w.stopped
    BY AwaitMove DEF Kinds
<1> HIDE DEF a
<1>4. Finish(w, v) \in Workflow
    BY <1>1, <1>2, Setters
<1> QED
    BY <1>1, <1>2, <1>3, <1>4 DEF Workflow

LEMMA AfterRunMove ==
    ASSUME NEW w \in Workflow, NEW status \in {"passed", "failed"}
    PROVE  /\ AfterRun(w, status) \in Workflow
           /\ ~AfterRun(w, status).sent /\ AfterRun(w, status).attempt = 1
           /\ AfterRun(w, status).pc = w.pc /\ AfterRun(w, status).run = w.run
           /\ AfterRun(w, status).caught = w.caught /\ AfterRun(w, status).stopped = w.stopped
           /\ AfterRun(w, status).cancelled = w.cancelled
           /\ \/ AfterRun(w, status).kind = "fix_analyze" /\ AfterRun(w, status).fix = w.fix + 1
              \/ /\ AfterRun(w, status).kind = "finish" /\ AfterRun(w, status).fix = w.fix
                 /\ AfterRun(w, status).verdict = status
<1>1. CASE KeepsFixing(w, status)
    <2> DEFINE v == [w EXCEPT !.fix = w.fix + 1]
    <2>1. AfterRun(w, status) = Await(v, "fix_analyze")
        BY <1>1 DEF AfterRun
    <2>2. w.fix + 1 \in 0..MaxFix
        BY <1>1 DEF KeepsFixing, Workflow
    <2>3. /\ v \in Workflow /\ v.fix = w.fix + 1 /\ v.pc = w.pc /\ v.run = w.run
          /\ v.caught = w.caught /\ v.stopped = w.stopped /\ v.cancelled = w.cancelled
        BY <2>2, Setters DEF Workflow
    <2>4. "fix_analyze" \in Kinds
        BY DEF Kinds, JobKinds
    <2> HIDE DEF v
    <2> QED
        BY <2>1, <2>3, <2>4, AwaitMove
<1>2. CASE ~KeepsFixing(w, status)
    BY <1>2, FinishMove DEF AfterRun
<1> QED
    BY <1>1, <1>2

\* What a reply with an answer makes of the workflow.
LEMMA SuccessMove ==
    ASSUME NEW w \in Workflow, NEW h \in Request
    PROVE  LET x == AfterSuccess(w, h) IN
           /\ x \in Workflow
           /\ x.caught = w.caught /\ x.cancelled = w.cancelled /\ x.stopped = w.stopped
           /\ \/ /\ w.kind = "finish" /\ x = [w EXCEPT !.pc = "closed"]
              \/ /\ w.kind # "finish" /\ x.pc = w.pc /\ ~x.sent /\ x.attempt = 1
                 /\ \/ /\ w.kind \in RunKinds /\ x.run = h.run
                       /\ \/ x.kind = "fix_analyze" /\ x.fix = w.fix + 1
                          \/ x.kind = "finish" /\ x.fix = w.fix /\ x.verdict = h.status
                    \/ /\ w.kind \notin RunKinds /\ x.kind # "finish" /\ x.fix = w.fix
                       /\ x.kind = "fix_apply" => w.kind = "fix_analyze"
                       /\ x.kind # "fix_analyze" 
<1> DEFINE x == AfterSuccess(w, h)
<1>1. CASE w.kind = "plan"
    <2>1. x = Await(w, "codegen")
        BY <1>1 DEF AfterSuccess, RunKinds
    <2> QED
        BY <1>1, <2>1, AwaitMove DEF Kinds, JobKinds, RunKinds
<1>2. CASE w.kind = "codegen"
    <2>1. x = Await(w, "run")
        BY <1>2 DEF AfterSuccess, RunKinds
    <2> QED
        BY <1>2, <2>1, AwaitMove DEF Kinds, JobKinds, RunKinds
<1>3. CASE w.kind = "fix_analyze"
    <2>1. x = Await(w, "fix_apply")
        BY <1>3 DEF AfterSuccess
    <2> QED
        BY <1>3, <2>1, AwaitMove DEF Kinds, JobKinds, RunKinds
<1>4. CASE w.kind = "fix_apply"
    <2>1. x = Await(w, "fix_verify")
        BY <1>4 DEF AfterSuccess
    <2> QED
        BY <1>4, <2>1, AwaitMove DEF Kinds, JobKinds, RunKinds
<1>5. CASE w.kind = "finish"
    BY <1>5 DEF AfterSuccess, Workflow, Kinds, JobKinds, RunKinds
<1>6. CASE w.kind \in RunKinds
    <2> DEFINE v == [w EXCEPT !.run = h.run]
    <2>1. x = AfterRun(v, h.status)
        BY <1>6 DEF AfterSuccess, RunKinds
    <2>2. /\ v \in Workflow /\ v.pc = w.pc /\ v.run = h.run /\ v.caught = w.caught
          /\ v.stopped = w.stopped /\ v.cancelled = w.cancelled /\ v.fix = w.fix
          /\ h.status \in {"passed", "failed"}
        BY DEF Workflow, Request
    <2> HIDE DEF v, x
    <2>3. /\ x \in Workflow /\ ~x.sent /\ x.attempt = 1 /\ x.pc = w.pc /\ x.run = h.run
          /\ x.caught = w.caught /\ x.stopped = w.stopped /\ x.cancelled = w.cancelled
          /\ \/ x.kind = "fix_analyze" /\ x.fix = w.fix + 1
             \/ x.kind = "finish" /\ x.fix = w.fix /\ x.verdict = h.status
        BY <2>1, <2>2, AfterRunMove
    <2>4. w.kind # "finish"
        BY <1>6 DEF RunKinds
    <2> QED
        BY <1>6, <2>3, <2>4 DEF x
<1> QED
    BY <1>1, <1>2, <1>3, <1>4, <1>5, <1>6 DEF Workflow, Kinds, JobKinds

\* What a failed attempt makes of it: the next attempt, the catch block or the end.
LEMMA FailureMove ==
    ASSUME NEW w \in Workflow
    PROVE  LET x == AfterFailure(w) IN
           /\ x \in Workflow
           /\ x.cancelled = w.cancelled /\ x.stopped = w.stopped /\ x.fix = w.fix
           /\ x.run = w.run
           /\ \/ /\ x.pc = w.pc /\ x.kind = w.kind /\ x.caught = w.caught
                 /\ x.verdict = w.verdict /\ ~x.sent /\ x.attempt = w.attempt + 1
                 /\ w.kind \notin RunKinds
                 /\ w.kind = "fix_apply" => x.attempt <= 2
              \/ w.caught /\ x = [w EXCEPT !.pc = "closed"]
              \/ /\ x.pc = w.pc /\ x.kind = "finish" /\ x.caught /\ x.verdict = "failed"
                 /\ ~x.sent /\ x.attempt = 1
<1> DEFINE x == AfterFailure(w)
<1>1. /\ MaxAttempts(w.kind) \in 1..3 /\ (w.kind \in RunKinds => MaxAttempts(w.kind) = 1)
      /\ w.kind = "fix_apply" => MaxAttempts(w.kind) = 2
    BY DEF MaxAttempts, Workflow, Kinds, RunKinds, JobKinds
<1>2. CASE w.attempt < MaxAttempts(w.kind)
    <2>1. x = [w EXCEPT !.attempt = w.attempt + 1, !.sent = FALSE]
        BY <1>2 DEF AfterFailure
    <2>2. /\ w.attempt + 1 \in 1..3 /\ w.kind \notin RunKinds
          /\ w.kind = "fix_apply" => w.attempt + 1 <= 2
        BY <1>1, <1>2 DEF Workflow
    <2> HIDE DEF x
    <2>3. x \in Workflow
        <3> DEFINE a == [w EXCEPT !.attempt = w.attempt + 1]
        <3>1. a \in Workflow
            BY <2>2, Setters
        <3> HIDE DEF a
        <3>2. [a EXCEPT !.sent = FALSE] \in Workflow
            BY <3>1, Setters
        <3> QED
            BY <2>1, <3>2 DEF a
    <2>4. /\ x.cancelled = w.cancelled /\ x.stopped = w.stopped /\ x.fix = w.fix
          /\ x.run = w.run /\ x.pc = w.pc /\ x.kind = w.kind /\ x.caught = w.caught
          /\ x.verdict = w.verdict /\ ~x.sent /\ x.attempt = w.attempt + 1
        BY <2>1 DEF Workflow
    <2> QED
        BY <2>2, <2>3, <2>4 DEF x
<1>3. CASE ~(w.attempt < MaxAttempts(w.kind)) /\ w.caught
    BY <1>3 DEF AfterFailure, Workflow
<1>4. CASE ~(w.attempt < MaxAttempts(w.kind)) /\ ~w.caught
    <2> DEFINE f == Finish(w, "failed")
    <2>1. x = [f EXCEPT !.caught = TRUE]
        BY <1>4 DEF AfterFailure
    <2>2. /\ f \in Workflow /\ f.kind = "finish" /\ f.verdict = "failed"
          /\ ~f.sent /\ f.attempt = 1 /\ f.pc = w.pc /\ f.fix = w.fix /\ f.run = w.run
          /\ f.cancelled = w.cancelled /\ f.stopped = w.stopped
        BY FinishMove
    <2> HIDE DEF f, x
    <2>3. x \in Workflow
        BY <2>1, <2>2, Setters
    <2>4. /\ x.kind = "finish" /\ x.verdict = "failed" /\ ~x.sent /\ x.attempt = 1
          /\ x.pc = w.pc /\ x.fix = w.fix /\ x.run = w.run /\ x.caught
          /\ x.cancelled = w.cancelled /\ x.stopped = w.stopped
        BY <2>1, <2>2 DEF Workflow
    <2> QED
        BY <2>3, <2>4 DEF x
<1> QED
    BY <1>2, <1>3, <1>4

-----------------------------------------------------------------------------
(* Types                                                                    *)

\* A request that waits for its run, or has seen it end, has a run.
Named(r) == r.kind \in RunKinds /\ r.pc \in {"wait", "touchRun", "writeRun"}
RunsNamed == \A h \in Handlers : Named(handler[h]) => handler[h].run \in 1..Len(runs)
Typed == TypeOK /\ RunsNamed

RequestSetters == \A r \in Request :
    /\ \A pc \in HandlerPc : [r EXCEPT !.pc = pc] \in Request
    /\ \A s \in Row : [r EXCEPT !.snap = s] \in Request
    /\ \A n \in Nat : [r EXCEPT !.run = n] \in Request
    /\ \A v \in {"passed", "failed"} : [r EXCEPT !.status = v] \in Request
    /\ \A b \in BOOLEAN : [r EXCEPT !.ok = b] \in Request
    /\ \A k \in Kinds : [r EXCEPT !.kind = k] \in Request
    /\ \A n \in 1..3 : [r EXCEPT !.attempt = n] \in Request
    /\ \A f \in 0..MaxFix : [r EXCEPT !.fix = f] \in Request

LEMMA RequestSet == RequestSetters
<1> SUFFICES ASSUME NEW r \in Request
             PROVE  /\ \A pc \in HandlerPc : [r EXCEPT !.pc = pc] \in Request
                    /\ \A s \in Row : [r EXCEPT !.snap = s] \in Request
                    /\ \A n \in Nat : [r EXCEPT !.run = n] \in Request
                    /\ \A v \in {"passed", "failed"} : [r EXCEPT !.status = v] \in Request
                    /\ \A b \in BOOLEAN : [r EXCEPT !.ok = b] \in Request
                    /\ \A k \in Kinds : [r EXCEPT !.kind = k] \in Request
                    /\ \A n \in 1..3 : [r EXCEPT !.attempt = n] \in Request
                    /\ \A f \in 0..MaxFix : [r EXCEPT !.fix = f] \in Request
    BY DEF RequestSetters
<1>1. \A pc \in HandlerPc : [r EXCEPT !.pc = pc] \in Request
    BY DEF Request
<1>2. \A s \in Row : [r EXCEPT !.snap = s] \in Request
    BY DEF Request
<1>3. \A n \in Nat : [r EXCEPT !.run = n] \in Request
    BY DEF Request
<1>4. \A v \in {"passed", "failed"} : [r EXCEPT !.status = v] \in Request
    BY DEF Request
<1>5. \A b \in BOOLEAN : [r EXCEPT !.ok = b] \in Request
    BY DEF Request
<1>6. \A k \in Kinds : [r EXCEPT !.kind = k] \in Request
    BY DEF Request
<1>7. \A n \in 1..3 : [r EXCEPT !.attempt = n] \in Request
    BY DEF Request
<1>8. \A f \in 0..MaxFix : [r EXCEPT !.fix = f] \in Request
    BY DEF Request
<1> QED
    BY <1>1, <1>2, <1>3, <1>4, <1>5, <1>6, <1>7, <1>8

LEMMA Empties == NoRow \in Row /\ NoRequest \in Request /\ NoWorkflow \in Workflow
<1>1. NoRow \in Row
    BY DEF NoRow, Row, RowStatus, Terminal, Kinds
<1>2. NoRequest \in Request
    <2> HIDE DEF NoRow
    <2> QED
        BY <1>1 DEF NoRequest, Request, HandlerPc, Kinds, RunKinds
<1>3. NoWorkflow \in Workflow
    BY DEF NoWorkflow, Workflow, Kinds, RunKinds
<1> QED
    BY <1>1, <1>2, <1>3

\* One request moves, the others stay where they are.
Moves(h, new) ==
    /\ handler' = [handler EXCEPT ![h] = new]
    /\ new \in Request

\* What a request's next step keeps of it.
Keeps(r, new) == new.kind = r.kind /\ new.attempt = r.attempt /\ new.fix = r.fix

LEMMA TouchReadMove ==
    ASSUME TypeOK, NEW h \in Handlers, TouchRead(h)
    PROVE  \E new : /\ Moves(h, new) /\ Keeps(handler[h], new)
                    /\ new.snap = row /\ new.run = handler[h].run
                    /\ new.status = handler[h].status
                    /\ \/ handler[h].pc = "touch" /\ new.pc = "write"
                       \/ handler[h].pc = "touchRun" /\ new.pc = "writeRun"
<1> DEFINE r == handler[h]
           pc == IF r.pc = "touch" THEN "write" ELSE "writeRun"
           a == [r EXCEPT !.snap = row]
           new == [a EXCEPT !.pc = pc]
<1>1. r \in Request /\ row \in Row /\ pc \in HandlerPc
    BY DEF TypeOK, HandlerPc
<1>2. handler' = [handler EXCEPT ![h] = new]
    BY DEF TouchRead, TypeOK
<1> HIDE DEF pc, r
<1>3. a \in Request
    BY <1>1, RequestSet DEF RequestSetters
<1> HIDE DEF a
<1>4. new \in Request
    BY <1>1, <1>3, RequestSet DEF RequestSetters
<1>5. /\ new.snap = row /\ new.run = r.run /\ new.status = r.status /\ new.pc = pc
      /\ Keeps(r, new)
    BY <1>1 DEF a, Request, Keeps
<1> HIDE DEF new
<1> QED
    BY <1>2, <1>4, <1>5 DEF Moves, TouchRead, pc, r

LEMMA WriteMove ==
    ASSUME TypeOK, NEW h \in Handlers, TouchWrite(h) \/ RunIdWrite(h)
    PROVE  \E new : /\ Moves(h, new) /\ Keeps(handler[h], new)
                    /\ new.run = handler[h].run /\ new.status = handler[h].status
                    /\ new.pc = IF handler[h].pc = "writeRun" \/ handler[h].kind = "finish"
                                THEN "reply" ELSE "start"
<1> DEFINE r == handler[h]
           pc == IF r.pc = "writeRun" \/ r.kind = "finish" THEN "reply" ELSE "start"
           a == [r EXCEPT !.snap = NoRow]
           new == [a EXCEPT !.pc = pc]
<1>1. r \in Request /\ pc \in HandlerPc
    BY DEF TypeOK, HandlerPc
<1>2. handler' = [handler EXCEPT ![h] = new]
    <2>1. CASE TouchWrite(h)
        BY <2>1 DEF TouchWrite, TypeOK
    <2>2. CASE RunIdWrite(h)
        <3>1. pc = "reply"
            BY <2>2 DEF RunIdWrite
        <3>2. handler' = [handler EXCEPT ![h] = [[r EXCEPT !.pc = "reply"] EXCEPT !.snap = NoRow]]
            BY <2>2 DEF RunIdWrite, TypeOK
        <3>3. [[r EXCEPT !.pc = "reply"] EXCEPT !.snap = NoRow] = new
            BY <1>1, <3>1 DEF Request
        <3> QED
            BY <3>2, <3>3
    <2> QED
        BY <2>1, <2>2
<1> HIDE DEF pc, r
<1>3. a \in Request
    BY <1>1, RequestSet, Empties DEF RequestSetters
<1> HIDE DEF a
<1>4. new \in Request
    BY <1>1, <1>3, RequestSet DEF RequestSetters
<1>5. new.run = r.run /\ new.status = r.status /\ new.pc = pc /\ Keeps(r, new)
    BY <1>1 DEF a, Request, Keeps
<1> HIDE DEF new
<1> QED
    BY <1>2, <1>4, <1>5 DEF Moves, pc, r

LEMMA FailsMove ==
    ASSUME TypeOK, NEW h \in Handlers, Fails(h)
    PROVE  \E new : Moves(h, new) /\ Keeps(handler[h], new) /\ new.pc = "reply" /\ ~new.ok
<1> DEFINE r == handler[h]
           a == [r EXCEPT !.pc = "reply"]
           new == [a EXCEPT !.ok = FALSE]
<1>1. r \in Request
    BY DEF TypeOK
<1>2. handler' = [handler EXCEPT ![h] = new]
    BY DEF Fails, TypeOK
<1> HIDE DEF r
<1>3. a \in Request
    BY <1>1, RequestSet DEF RequestSetters, HandlerPc
<1> HIDE DEF a
<1>4. new \in Request
    BY <1>3, RequestSet DEF RequestSetters
<1>5. new.pc = "reply" /\ ~new.ok /\ Keeps(r, new)
    BY <1>1 DEF a, Request, Keeps
<1> HIDE DEF new
<1> QED
    BY <1>2, <1>4, <1>5 DEF Moves, r

\* A request that only goes on to another step.
LEMMA PcMove ==
    ASSUME TypeOK, NEW h \in Handlers, NEW pc \in HandlerPc,
           handler' = [handler EXCEPT ![h].pc = pc]
    PROVE  \E new : /\ Moves(h, new) /\ Keeps(handler[h], new) /\ new.pc = pc
                    /\ new.run = handler[h].run /\ new.status = handler[h].status
<1> DEFINE r == handler[h]
           new == [r EXCEPT !.pc = pc]
<1>1. r \in Request /\ handler' = [handler EXCEPT ![h] = new]
    BY DEF TypeOK
<1> HIDE DEF r
<1>2. new \in Request
    BY <1>1, RequestSet DEF RequestSetters
<1>3. new.pc = pc /\ Keeps(r, new) /\ new.run = r.run /\ new.status = r.status
    BY <1>1 DEF Request, Keeps
<1> HIDE DEF new
<1> QED
    BY <1>1, <1>2, <1>3 DEF Moves, r

LEMMA StartsRunMove ==
    ASSUME TypeOK, NEW h \in Handlers, slot = 0,
           handler' = [handler EXCEPT ![h].pc = "wait", ![h].run = Len(runs) + 1]
    PROVE  \E new : /\ Moves(h, new) /\ Keeps(handler[h], new) /\ new.pc = "wait"
                    /\ new.run = Len(runs) + 1
<1> DEFINE r == handler[h]
           a == [r EXCEPT !.pc = "wait"]
           new == [a EXCEPT !.run = Len(runs) + 1]
<1>1. r \in Request /\ Len(runs) + 1 \in Nat
    BY DEF TypeOK
<1>2. handler' = [handler EXCEPT ![h] = new]
    BY DEF TypeOK
<1> HIDE DEF r
<1>3. a \in Request
    BY <1>1, RequestSet DEF RequestSetters, HandlerPc
<1> HIDE DEF a
<1>4. new \in Request
    BY <1>1, <1>3, RequestSet DEF RequestSetters
<1>5. new.pc = "wait" /\ new.run = Len(runs) + 1 /\ Keeps(r, new)
    BY <1>1 DEF a, Request, Keeps
<1> HIDE DEF new
<1> QED
    BY <1>2, <1>4, <1>5 DEF Moves, r

LEMMA RunSeenMove ==
    ASSUME Typed, NEW h \in Handlers, RunSeen(h)
    PROVE  \E new : /\ Moves(h, new) /\ Keeps(handler[h], new) /\ new.pc = "touchRun"
                    /\ new.run = handler[h].run /\ new.status = runs[handler[h].run]
<1> DEFINE r == handler[h]
           s == runs[r.run]
           a == [r EXCEPT !.pc = "touchRun"]
           new == [a EXCEPT !.status = s]
<1>1. r \in Request /\ s \in {"passed", "failed"}
    BY DEF Typed, TypeOK, RunsNamed, Named, RunSeen
<1>2. handler' = [handler EXCEPT ![h] = new]
    BY DEF RunSeen, TypeOK, Typed
<1> HIDE DEF s, r
<1>3. a \in Request
    BY <1>1, RequestSet DEF RequestSetters, HandlerPc
<1> HIDE DEF a
<1>4. new \in Request
    BY <1>1, <1>3, RequestSet DEF RequestSetters
<1>5. new.pc = "touchRun" /\ new.run = r.run /\ Keeps(r, new) /\ new.status = s
    BY <1>1 DEF a, Request, Keeps
<1> HIDE DEF new
<1> QED
    BY <1>2, <1>4, <1>5 DEF Moves, r, s

LEMMA DeliverMove ==
    ASSUME TypeOK, NEW h \in Handlers, Deliver(h)
    PROVE  \E new : /\ Moves(h, new) /\ new.pc = "touch" /\ new.kind = wf.kind
                    /\ new.attempt = wf.attempt /\ new.fix = wf.fix
                    /\ new.status = wf.verdict
                    /\ wf.kind = "finish" => new.run = wf.run
<1> DEFINE n == IF wf.kind = "finish" THEN wf.run ELSE 0
           a == [NoRequest EXCEPT !.pc = "touch"]
           b == [a EXCEPT !.kind = wf.kind]
           c == [b EXCEPT !.attempt = wf.attempt]
           d == [c EXCEPT !.fix = wf.fix]
           e == [d EXCEPT !.run = n]
           new == [e EXCEPT !.status = wf.verdict]
<1>1. /\ wf.kind \in Kinds /\ wf.attempt \in 1..3 /\ wf.fix \in 0..MaxFix /\ n \in Nat
      /\ wf.verdict \in {"passed", "failed"} /\ NoRequest \in Request /\ "touch" \in HandlerPc
    BY Empties DEF TypeOK, Workflow, HandlerPc
<1>2. handler' = [handler EXCEPT ![h] = new]
    BY DEF Deliver, TypeOK
<1> HIDE DEF n
<1>3. a \in Request /\ a.pc = "touch"
    BY <1>1, RequestSet DEF RequestSetters, Request
<1> HIDE DEF a
<1>4. b \in Request /\ b.pc = "touch" /\ b.kind = wf.kind
    BY <1>1, <1>3, RequestSet DEF RequestSetters, Request
<1> HIDE DEF b
<1>5. c \in Request /\ c.pc = "touch" /\ c.kind = wf.kind /\ c.attempt = wf.attempt
    BY <1>1, <1>4, RequestSet DEF RequestSetters, Request
<1> HIDE DEF c
<1>6. /\ d \in Request /\ d.pc = "touch" /\ d.kind = wf.kind /\ d.attempt = wf.attempt
      /\ d.fix = wf.fix
    BY <1>1, <1>5, RequestSet DEF RequestSetters, Request
<1> HIDE DEF d
<1>7. /\ e \in Request /\ e.pc = "touch" /\ e.kind = wf.kind /\ e.attempt = wf.attempt
      /\ e.fix = wf.fix /\ e.run = n
    BY <1>1, <1>6, RequestSet DEF RequestSetters, Request
<1> HIDE DEF e
<1>8. /\ new \in Request /\ new.pc = "touch" /\ new.kind = wf.kind
      /\ new.attempt = wf.attempt /\ new.fix = wf.fix /\ new.run = n
      /\ new.status = wf.verdict
    BY <1>1, <1>7, RequestSet DEF RequestSetters, Request
<1> HIDE DEF new
<1> QED
    BY <1>2, <1>8 DEF Moves, n

\* A job's end: its waiters have their answer, the others stay.
LEMMA JobSettlesMove ==
    ASSUME TypeOK, NEW k \in JobKinds, NEW ok \in BOOLEAN, JobSettles(k, ok)
    PROVE  /\ handler' \in [Handlers -> Request]
           /\ \A h \in Handlers :
                 \/ handler'[h] = handler[h]
                 \/ /\ Keeps(handler[h], handler'[h])
                    /\ handler[h].pc = "wait" /\ handler'[h].pc = "reply" /\ handler[h].kind \in JobKinds
<1>1. ASSUME NEW h \in Handlers
      PROVE  /\ handler'[h] \in Request
             /\ \/ handler'[h] = handler[h]
                \/ /\ Keeps(handler[h], handler'[h])
                   /\ handler[h].pc = "wait" /\ handler'[h].pc = "reply" /\ handler[h].kind \in JobKinds
    <2> DEFINE r == handler[h]
               a == [r EXCEPT !.pc = "reply"]
               new == [a EXCEPT !.ok = ok]
    <2>1. r \in Request
        BY DEF TypeOK
    <2>2. handler'[h] = IF r.pc = "wait" /\ r.kind = k THEN new ELSE r
        BY DEF JobSettles
    <2> HIDE DEF r
    <2>3. a \in Request
        BY <2>1, RequestSet DEF RequestSetters, HandlerPc
    <2> HIDE DEF a
    <2>4. new \in Request
        BY <2>3, RequestSet DEF RequestSetters
    <2>5. new.pc = "reply" /\ Keeps(r, new)
        BY <2>1 DEF a, Request, Keeps
    <2> HIDE DEF new
    <2> QED
        BY <2>1, <2>2, <2>4, <2>5 DEF r
<1>2. handler' = [h \in Handlers |-> handler'[h]]
    BY DEF JobSettles
<1> QED
    BY <1>1, <1>2

LEMMA StartMove ==
    ASSUME NEW full \in BOOLEAN, NEW autoFix \in BOOLEAN, StartWorkflow(full, autoFix)
    PROVE  /\ wf' \in Workflow /\ wf'.pc = "act" /\ wf'.kind \in {"plan", "run"}
           /\ ~wf'.sent /\ wf'.fix = 0 /\ ~wf'.caught /\ ~wf'.cancelled /\ wf'.stopped = "none"
<1> DEFINE k == IF full THEN "plan" ELSE "run"
           a == [NoWorkflow EXCEPT !.pc = "act"]
           b == [a EXCEPT !.kind = k]
           new == [b EXCEPT !.autoFix = autoFix]
<1>1. /\ NoWorkflow \in Workflow /\ k \in {"plan", "run"} /\ k \in Kinds
      /\ NoWorkflow.fix = 0 /\ ~NoWorkflow.sent /\ ~NoWorkflow.caught
      /\ ~NoWorkflow.cancelled /\ NoWorkflow.stopped = "none"
    BY Empties DEF NoWorkflow, Kinds, JobKinds, RunKinds
<1>2. wf' = new
    BY DEF StartWorkflow
<1> HIDE DEF k
<1>3. /\ a \in Workflow /\ a.pc = "act" /\ a.fix = 0 /\ ~a.sent /\ ~a.caught
      /\ ~a.cancelled /\ a.stopped = "none"
    BY <1>1 DEF Workflow
<1> HIDE DEF a
<1>4. /\ b \in Workflow /\ b.pc = "act" /\ b.kind = k /\ b.fix = 0 /\ ~b.sent /\ ~b.caught
      /\ ~b.cancelled /\ b.stopped = "none"
    BY <1>1, <1>3 DEF Workflow
<1> HIDE DEF b
<1>5. /\ new \in Workflow /\ new.pc = "act" /\ new.kind = k /\ new.fix = 0 /\ ~new.sent
      /\ ~new.caught /\ ~new.cancelled /\ new.stopped = "none"
    BY <1>4 DEF Workflow
<1> QED
    BY <1>1, <1>2, <1>5

LEMMA SmallMoves ==
    ASSUME NEW w \in Workflow
    PROVE  /\ [w EXCEPT !.sent = TRUE] \in Workflow
           /\ [w EXCEPT !.cancelled = TRUE] \in Workflow
           /\ [StopsAtOnce(w) EXCEPT !.stopped = w.kind] \in Workflow
<1>1. [w EXCEPT !.sent = TRUE] \in Workflow /\ [w EXCEPT !.cancelled = TRUE] \in Workflow
    BY DEF Workflow
<1>2. StopsAtOnce(w) \in Workflow /\ w.kind \in Kinds
    BY DEF StopsAtOnce, Workflow
<1>3. [StopsAtOnce(w) EXCEPT !.stopped = w.kind] \in Workflow
    <2> DEFINE a == StopsAtOnce(w)
    <2> HIDE DEF a
    <2>1. \A k \in Kinds : [a EXCEPT !.stopped = k] \in Workflow
        BY <1>2 DEF Workflow, a
    <2> QED
        BY <1>2, <2>1 DEF a
<1> QED
    BY <1>1, <1>3

LEMMA RowMove ==
    ASSUME TypeOK, NEW h \in Handlers, TouchWrite(h) \/ RunIdWrite(h)
    PROVE  row' \in Row
<1> DEFINE r == handler[h]
           s == r.snap
<1>1. r \in Request /\ s \in Row /\ r.run \in Nat /\ r.fix \in 0..MaxFix /\ r.kind \in Kinds
    BY DEF TypeOK, Request
<1> HIDE DEF r, s
<1>2. CASE RunIdWrite(h)
    <2>1. row' = [s EXCEPT !.run = r.run]
        BY <1>2 DEF RunIdWrite, UpdateRow, r, s
    <2> QED
        BY <1>1, <2>1 DEF Row
<1>3. CASE TouchWrite(h) /\ r.kind = "finish"
    <2>1. row' = [status |-> FinishStatus(r), stage |-> "done", run |-> Later(r.run, s.run),
                  fix |-> r.fix]
        BY <1>3 DEF TouchWrite, UpdateRow, r, s
    <2>2. FinishStatus(r) \in RowStatus /\ Later(r.run, s.run) \in Nat
        BY <1>1 DEF FinishStatus, RowStatus, Terminal, Later, Row
    <2> QED
        BY <1>1, <2>1, <2>2 DEF Row
<1>4. CASE TouchWrite(h) /\ r.kind # "finish"
    <2> DEFINE f == IF r.kind = "fix_analyze" THEN r.fix ELSE s.fix
               a == [s EXCEPT !.stage = r.kind]
    <2>1. row' = [a EXCEPT !.fix = f]
        BY <1>1, <1>4 DEF TouchWrite, UpdateRow, r, s, Row
    <2>2. f \in 0..MaxFix /\ a \in Row
        BY <1>1 DEF Row
    <2> HIDE DEF a, f
    <2> QED
        BY <2>1, <2>2 DEF Row
<1> QED
    BY <1>2, <1>3, <1>4

LEMMA MovesTyped ==
    ASSUME TypeOK, NEW h \in Handlers, NEW new, Moves(h, new)
    PROVE  /\ handler' \in [Handlers -> Request] /\ handler'[h] = new
           /\ \A g \in Handlers \ {h} : handler'[g] = handler[g]
BY DEF Moves, TypeOK

LEMMA TypedMoves ==
    ASSUME Typed, NEW h \in Handlers, NEW new, Moves(h, new),
           row' \in Row, wf' \in Workflow, UNCHANGED cancel,
           \/ runs' = runs /\ slot' = slot
           \/ runs' = Append(runs, "running") /\ slot' = Len(runs) + 1,
           jobs' \in [JobKinds -> {"free", "busy", "stuck"}], iters' \in 0..MaxIterations,
           Named(new) => new.run \in 1..Len(runs')
    PROVE  Typed'
<1>1. /\ runs' \in Seq({"running", "passed", "failed"}) /\ slot' \in 0..Len(runs')
      /\ Len(runs) \in Nat /\ Len(runs') \in Nat /\ Len(runs) <= Len(runs')
    BY DEF Typed, TypeOK
<1>2. TypeOK'
    BY <1>1, MovesTyped DEF Typed, TypeOK
<1>3. RunsNamed'
    <2>1. ASSUME NEW g \in Handlers, Named(handler'[g])
          PROVE  handler'[g].run \in 1..Len(runs')
        <3>1. CASE g = h
            BY <2>1, <3>1, MovesTyped DEF Typed
        <3>2. CASE g # h
            <4>1. handler'[g] = handler[g]
                BY <3>2, MovesTyped DEF Typed
            <4>2. handler[g].run \in 1..Len(runs)
                BY <2>1, <4>1 DEF Typed, RunsNamed
            <4> QED
                BY <1>1, <4>1, <4>2
        <3> QED
            BY <3>1, <3>2
    <2> QED
        BY <2>1 DEF RunsNamed, Named
<1> QED
    BY <1>2, <1>3 DEF Typed

LEMMA TypedInit == Init => Typed
<1> SUFFICES ASSUME Init PROVE Typed
    OBVIOUS
<1> HIDE DEF NoRow, NoRequest, NoWorkflow
<1>1. TypeOK
    BY Empties DEF Init, TypeOK
<1>2. RunsNamed
    BY DEF Init, RunsNamed, Named, NoRequest
<1> QED
    BY <1>1, <1>2 DEF Typed

LEMMA TypedHandler ==
    ASSUME Typed, NEW h \in Handlers, HandlerStep(h) \/ WaiterGivesUp(h)
    PROVE  Typed'
<1> DEFINE r == handler[h]
<1>1. row \in Row /\ wf \in Workflow /\ jobs \in [JobKinds -> {"free", "busy", "stuck"}]
      /\ iters \in 0..MaxIterations /\ TypeOK
    BY DEF Typed, TypeOK
<1>2. CASE TouchRead(h)
    <2>1. PICK new : /\ Moves(h, new) /\ Keeps(r, new) /\ new.run = r.run
                     /\ \/ r.pc = "touch" /\ new.pc = "write"
                        \/ r.pc = "touchRun" /\ new.pc = "writeRun"
        BY <1>1, <1>2, TouchReadMove
    <2>2. UNCHANGED <<row, wf, cancel, runs, slot, jobs, iters>>
        BY <1>2 DEF TouchRead
    <2>3. Named(new) => new.run \in 1..Len(runs')
        BY <2>1, <2>2 DEF Typed, RunsNamed, Named, Keeps
    <2> QED
        BY <1>1, <2>1, <2>2, <2>3, TypedMoves
<1>3. CASE TouchWrite(h) \/ RunIdWrite(h)
    <2>1. PICK new : Moves(h, new) /\ new.pc \in {"reply", "start"}
        BY <1>1, <1>3, WriteMove
    <2>2. UNCHANGED <<wf, cancel, runs, slot, jobs, iters>> /\ row' \in Row
        BY <1>1, <1>3, RowMove DEF TouchWrite, RunIdWrite
    <2>3. ~Named(new)
        BY <2>1 DEF Named
    <2> QED
        BY <1>1, <2>1, <2>2, <2>3, TypedMoves
<1>4. CASE Fails(h) /\ UNCHANGED <<row, wf, cancel, runs, slot, jobs, iters>>
    <2>1. PICK new : Moves(h, new) /\ new.pc = "reply"
        BY <1>1, <1>4, FailsMove
    <2>2. ~Named(new)
        BY <2>1 DEF Named
    <2> QED
        BY <1>1, <1>4, <2>1, <2>2, TypedMoves
<1>5. CASE /\ r.kind \in JobKinds /\ handler' = [handler EXCEPT ![h].pc = "wait"]
           /\ jobs' = [jobs EXCEPT ![r.kind] = "busy"]
           /\ UNCHANGED <<row, wf, cancel, runs, slot, iters>>
    <2>2. PICK new : Moves(h, new) /\ Keeps(r, new)
        BY <1>1, <1>5, PcMove DEF HandlerPc
    <2>3. ~Named(new) /\ jobs' \in [JobKinds -> {"free", "busy", "stuck"}]
        BY <1>1, <1>5, <2>2 DEF Named, Keeps, JobKinds, RunKinds
    <2> QED
        BY <1>1, <1>5, <2>2, <2>3, TypedMoves
<1>6. CASE /\ slot = 0 /\ runs' = Append(runs, "running") /\ slot' = Len(runs) + 1
           /\ handler' = [handler EXCEPT ![h].pc = "wait", ![h].run = Len(runs) + 1]
           /\ UNCHANGED <<row, wf, cancel, jobs, iters>>
    <2>2. PICK new : Moves(h, new) /\ new.run = Len(runs) + 1
        BY <1>1, <1>6, StartsRunMove
    <2>3. new.run \in 1..Len(runs')
        BY <1>1, <1>6, <2>2 DEF TypeOK
    <2> QED
        BY <1>1, <1>6, <2>2, <2>3, TypedMoves
<1>7. CASE /\ handler' = [handler EXCEPT ![h].pc = "reply"]
           /\ iters < MaxIterations /\ iters' = iters + 1
           /\ UNCHANGED <<row, wf, cancel, runs, slot, jobs>>
    <2>1. "reply" \in HandlerPc /\ iters' \in 0..MaxIterations
        BY <1>1, <1>7 DEF HandlerPc
    <2>2. PICK new : Moves(h, new) /\ new.pc = "reply"
        BY <1>1, <1>7, <2>1, PcMove, Zenon
    <2>3. ~Named(new)
        BY <2>2 DEF Named
    <2> QED
        BY <1>1, <1>7, <2>1, <2>2, <2>3, TypedMoves
<1>8. CASE RunSeen(h)
    <2>1. PICK new : Moves(h, new) /\ new.run = r.run
        BY <1>8, RunSeenMove
    <2>2. UNCHANGED <<row, wf, cancel, runs, slot, jobs, iters>> /\ r.run \in 1..Len(runs)
        BY <1>8 DEF RunSeen, Typed, RunsNamed, Named
    <2> QED
        BY <1>1, <2>1, <2>2, TypedMoves
<1>9. CASE Reply(h)
    <2>1. Moves(h, NoRequest) /\ UNCHANGED <<row, cancel, runs, slot, jobs, iters>>
        BY <1>9, Empties DEF Moves, Reply
    <2>2. wf' \in Workflow
        BY <1>1, <1>9, SuccessMove, FailureMove DEF Reply, TypeOK
    <2>3. ~Named(NoRequest)
        BY DEF Named, NoRequest
    <2> HIDE DEF NoRequest
    <2> QED
        BY <1>1, <2>1, <2>2, <2>3, TypedMoves
<1>10. CASE Deliver(h)
    <2>1. PICK new : Moves(h, new) /\ new.pc = "touch"
        BY <1>1, <1>10, DeliverMove
    <2>2. wf' \in Workflow /\ UNCHANGED <<row, cancel, runs, slot, jobs, iters>>
        BY <1>1, <1>10, SmallMoves DEF Deliver
    <2>3. ~Named(new)
        BY <2>1 DEF Named
    <2> QED
        BY <1>1, <2>1, <2>2, <2>3, TypedMoves
<1> QED
    BY <1>2, <1>3, <1>4, <1>5, <1>6, <1>7, <1>8, <1>9, <1>10
    DEF HandlerStep, WaiterGivesUp, StartsJob, StartsRun, AppliesPatches

LEMMA TypedStep ==
    ASSUME Typed, Next
    PROVE  Typed'
<1>1. /\ row \in Row /\ wf \in Workflow /\ NoRow \in Row /\ NoRequest \in Request
      /\ runs \in Seq({"running", "passed", "failed"}) /\ slot \in 0..Len(runs) /\ TypeOK
    BY Empties DEF Typed, TypeOK
<1>2. ASSUME UNCHANGED <<handler, runs, slot, jobs, iters>>, row' \in Row, wf' \in Workflow,
             cancel' \in [pc : {"idle", "read", "write"}, snap : Row]
      PROVE  Typed'
    BY <1>2 DEF Typed, TypeOK, RunsNamed, Named
<1> HIDE DEF NoRow, NoRequest, NoWorkflow
<1>3. CASE InsertPipeline
    <2>1. row' \in Row
        BY <1>1, <1>3 DEF InsertPipeline, Row, RowStatus
    <2> QED
        BY <1>1, <1>2, <1>3, <2>1 DEF InsertPipeline, TypeOK
<1>4. ASSUME NEW full \in BOOLEAN, NEW autoFix \in BOOLEAN, StartWorkflow(full, autoFix)
      PROVE  Typed'
    BY <1>1, <1>2, <1>4, StartMove DEF StartWorkflow, TypeOK
<1>5. CASE TimesOut
    BY <1>1, <1>2, <1>5, FailureMove DEF TimesOut, TypeOK
<1>6. CASE WorkflowCancelled
    BY <1>1, <1>2, <1>6, SmallMoves DEF WorkflowCancelled, TypeOK
<1>7. ASSUME NEW h \in Handlers, HandlerStep(h) \/ WaiterGivesUp(h)
      PROVE  Typed'
    BY <1>7, TypedHandler
<1>8. ASSUME NEW k \in JobKinds, NEW ok \in BOOLEAN, JobSettles(k, ok)
      PROVE  Typed'
    <2>1. UNCHANGED <<row, wf, cancel, runs, slot, iters>>
          /\ jobs' \in [JobKinds -> {"free", "busy", "stuck"}]
        BY <1>1, <1>8 DEF JobSettles, TypeOK
    <2>2. \A h \in Handlers : Named(handler'[h]) => handler'[h] = handler[h]
        BY <1>1, <1>8, JobSettlesMove DEF Named
    <2> QED
        BY <1>1, <1>8, <2>1, <2>2, JobSettlesMove DEF Typed, TypeOK, RunsNamed, Named
<1>9. ASSUME NEW status \in {"passed", "failed"}, RunSettles(status)
      PROVE  Typed'
    <2>1. /\ runs' \in Seq({"running", "passed", "failed"}) /\ Len(runs') = Len(runs)
          /\ slot' \in 0..Len(runs')
        BY <1>1, <1>9 DEF RunSettles
    <2> QED
        BY <1>1, <1>9, <2>1 DEF RunSettles, Typed, TypeOK, RunsNamed, Named
<1>10. CASE CancelRequest
    <2>1. cancel' \in [pc : {"idle", "read", "write"}, snap : Row]
        BY <1>1, <1>10 DEF CancelRequest, TypeOK
    <2> QED
        BY <1>1, <1>2, <1>10, <2>1, SmallMoves DEF CancelRequest
<1>11. CASE CancelRead
    BY <1>1, <1>2, <1>11 DEF CancelRead
<1>12. CASE CancelWrite
    <2> DEFINE s == cancel.snap
               a == [s EXCEPT !.status = "cancelled"]
    <2>1. s \in Row /\ row' = [a EXCEPT !.stage = "done"]
        BY <1>1, <1>12 DEF CancelWrite, UpdateRow, TypeOK
    <2> HIDE DEF s
    <2>2. a \in Row
        BY <2>1 DEF Row, RowStatus, Terminal
    <2> HIDE DEF a
    <2>3. row' \in Row
        BY <2>1, <2>2 DEF Row
    <2> QED
        BY <1>1, <1>2, <1>12, <2>3 DEF CancelWrite
<1>13. CASE OtherRun
    <2>1. /\ runs' \in Seq({"running", "passed", "failed"}) /\ Len(runs') = Len(runs) + 1
          /\ slot' \in 0..Len(runs')
        BY <1>1, <1>13 DEF OtherRun
    <2> QED
        BY <1>1, <1>13, <2>1 DEF OtherRun, Typed, TypeOK, RunsNamed, Named
<1>14. CASE Crash
    <2>1. wf' \in Workflow
        BY <1>1, <1>14, FailureMove DEF Crash
    <2>2. jobs' \in [JobKinds -> {"free", "busy", "stuck"}]
        BY <1>1, <1>14 DEF Crash, TypeOK
    <2>3. RunsNamed'
        BY <1>14 DEF Crash, RunsNamed, Named, NoRequest
    <2> QED
        BY <1>1, <1>14, <2>1, <2>2, <2>3 DEF Crash, Typed, TypeOK
<1> QED
    BY <1>3, <1>4, <1>5, <1>6, <1>7, <1>8, <1>9, <1>10, <1>11, <1>12, <1>13, <1>14, Zenon DEF Next

-----------------------------------------------------------------------------
(* Requests, runs and the workflow's verdict                                *)

Busy(h) == handler[h].pc # "idle"
Running(h) == Busy(h) /\ handler[h].kind \in RunKinds
Finishing(h) == Busy(h) /\ handler[h].kind = "finish"
NotesRun(r) == r.pc \in {"touchRun", "writeRun"}
Settled(r) == r.kind \in RunKinds /\ (r.pc \in {"touchRun", "writeRun"} \/ (r.pc = "reply" /\ r.ok))
HasVerdict(n, v) == n \in 1..Len(runs) /\ runs[n] = v

\* A run in the slot runs; what a request has seen of its run stays so.
RunsInv ==
    /\ slot # 0 => runs[slot] = "running"
    /\ \A h \in Handlers : Settled(handler[h]) => HasVerdict(handler[h].run, handler[h].status)

\* The workflow's own history: what its cancellation, its catch block and its end imply.
FlowInv ==
    /\ wf.pc = "none" => ~wf.cancelled /\ ~wf.caught /\ wf.kind # "finish" /\ wf.fix = 0
    /\ wf.caught => wf.kind = "finish" /\ wf.verdict = "failed"
    /\ wf.pc = "closed" /\ ~wf.cancelled => wf.kind = "finish"
    /\ wf.stopped # "none" => wf.pc = "closed" /\ wf.kind = wf.stopped /\ wf.cancelled
    /\ cancel.pc # "idle" => wf.cancelled

\* The one request that may start a run or follow it is the awaited one, until the
\* workflow gives up on it; then only finish is left to ask.
OneRun ==
    /\ \A h \in Handlers : Busy(h) => wf.pc # "none"
    /\ \A h \in Handlers : Finishing(h) =>
          wf.kind = "finish" /\ handler[h].pc \in {"touch", "write", "reply"}
    /\ \A h \in Handlers : NotesRun(handler[h]) => handler[h].kind \in RunKinds
    /\ \A h \in Handlers : Running(h) =>
          wf.caught \/ wf.pc = "closed" \/ (wf.pc = "act" /\ wf.sent /\ wf.kind = handler[h].kind)
    /\ \A h, g \in Handlers : Running(h) /\ Running(g) => h = g
    /\ wf.kind = "finish" /\ ~wf.caught => \A h \in Handlers : ~Running(h)

\* A verdict is that of a run, and a request that may still write 'passed' leaves no
\* request that could put another run's id over it.
VerdictInv ==
    /\ wf.kind = "finish" /\ ~wf.caught => HasVerdict(wf.run, wf.verdict)
    /\ \A h \in Handlers : Finishing(h) /\ ~wf.caught =>
          handler[h].status = wf.verdict /\ handler[h].run = wf.run
    /\ \A h \in Handlers : Finishing(h) /\ handler[h].status = "passed" =>
          /\ HasVerdict(handler[h].run, "passed")
          /\ \A g \in Handlers : ~Running(g)

\* finish has answered, the answer is on its way.
Answered(g) == Finishing(g) /\ handler[g].pc = "reply"
Undisturbed == ~clobbered /\ ~crashed

\* 'passed' is the verdict of the run the row names, and nothing can rename it.
RowPassed == row.status = "passed" /\ ~clobbered =>
    /\ HasVerdict(row.run, "passed") /\ wf.kind = "finish"
    /\ \A g \in Handlers : ~Running(g)
RowNone == row.status = "none" /\ ~clobbered => wf.pc = "none"
RowFinal ==
    (/\ Undisturbed /\ ~wf.cancelled /\ ~wf.caught
     /\ wf.pc = "closed" \/ \E h \in Handlers : Answered(h))
       => row.status = wf.verdict /\ row.run = wf.run
RowCancelled == Undisturbed /\ wf.cancelled /\ wf.kind # "finish" =>
    cancel.pc # "idle" \/ row.status = "cancelled"
RowInv == RowPassed /\ RowNone /\ RowFinal /\ RowCancelled

\* Requests that may yet use a fix iteration, and the one the workflow still owes.
Pends(r) == r.kind = "fix_apply" /\ r.pc \in {"touch", "write", "start"}
Pending == {h \in Handlers : Pends(handler[h])}
Owes == wf.pc = "act" /\ (wf.kind = "fix_analyze" \/ (wf.kind = "fix_apply" /\ ~wf.sent /\ wf.attempt = 1))
Rounds ==
    /\ wf.kind = "fix_apply" => wf.attempt <= 2
    /\ IsFiniteSet(Pending)
    /\ ~retried => iters + Cardinality(Pending) + (IF Owes THEN 1 ELSE 0) <= wf.fix

-----------------------------------------------------------------------------
(* What a step that leaves the workflow alone makes of the requests         *)

Verdicts == {"passed", "failed"}
VerdictsStay == \A n \in Nat, v \in Verdicts : HasVerdict(n, v) => HasVerdict(n, v)'

\* Runs are added and settle; one that settled keeps its verdict.
LEMMA RunsMove ==
    ASSUME Typed, RunsInv,
           \/ UNCHANGED <<runs, slot>>
           \/ UNCHANGED runs /\ slot' = 0
           \/ slot = 0 /\ runs' = Append(runs, "running") /\ slot' = Len(runs) + 1
           \/ \E status \in {"passed", "failed"} : RunSettles(status)
    PROVE  VerdictsStay /\ (slot' # 0 => runs'[slot'] = "running")
<1>1. runs \in Seq({"running", "passed", "failed"}) /\ slot \in 0..Len(runs) /\ Len(runs) \in Nat
    BY DEF Typed, TypeOK
<1>2. CASE UNCHANGED runs
    BY <1>2 DEF VerdictsStay, HasVerdict, RunsInv, RunSettles
<1>3. CASE slot = 0 /\ runs' = Append(runs, "running") /\ slot' = Len(runs) + 1
    BY <1>1, <1>3 DEF VerdictsStay, HasVerdict
<1>4. CASE \E status \in {"passed", "failed"} : RunSettles(status)
    BY <1>1, <1>4 DEF VerdictsStay, HasVerdict, RunsInv, RunSettles, Verdicts
<1> QED
    BY <1>2, <1>3, <1>4

\* What becomes of one request: new is the request, later the verdicts of the runs.
Follows(r, new) ==
    /\ Keeps(r, new)
    /\ r.pc = "idle" <=> new.pc = "idle"
    /\ r.kind = "finish" => /\ new.run = r.run /\ new.status = r.status
                            /\ new.pc \in {"idle", "touch", "write", "reply"}
    /\ Pends(new) => Pends(r)
    /\ NotesRun(new) => r.kind \in RunKinds

GoesOn ==
    /\ wf' = wf
    /\ VerdictsStay /\ (slot' # 0 => runs'[slot'] = "running")
    /\ \A g \in Handlers :
          /\ Follows(handler[g], handler'[g])
          /\ Settled(handler[g])' => HasVerdict(handler[g].run, handler[g].status)'

LEMMA GoesOnKeeps ==
    ASSUME Typed, RunsInv, FlowInv, OneRun, VerdictInv, GoesOn
    PROVE  RunsInv' /\ OneRun' /\ VerdictInv' /\ Pending' \subseteq Pending
<1>1. wf' = wf /\ VerdictsStay
    BY DEF GoesOn
<1>2. \A g \in Handlers :
          /\ Busy(g)' <=> Busy(g)
          /\ Running(g)' <=> Running(g)
          /\ Finishing(g)' <=> Finishing(g)
          /\ handler'[g].kind = handler[g].kind
          /\ Finishing(g) => /\ handler'[g].run = handler[g].run
                             /\ handler'[g].status = handler[g].status
                             /\ handler'[g].pc \in {"touch", "write", "reply"}
    BY DEF GoesOn, Follows, Keeps, Busy, Running, Finishing
<1>3. RunsInv'
    BY DEF RunsInv, GoesOn
<1>4. OneRun'
    BY <1>1, <1>2 DEF OneRun, GoesOn, Follows
<1>5. VerdictInv'
    <2>1. wf.run \in Nat /\ wf.verdict \in Verdicts
        BY DEF Typed, TypeOK, Workflow, Verdicts
    <2>2. \A h \in Handlers : handler[h].run \in Nat
        BY DEF Typed, TypeOK, Request
    <2>3. wf.kind = "finish" /\ ~wf.caught => HasVerdict(wf.run, wf.verdict)'
        BY <1>1, <2>1 DEF VerdictInv, VerdictsStay, HasVerdict
    <2>4. \A h \in Handlers : Finishing(h) /\ handler[h].status = "passed" =>
              HasVerdict(handler[h].run, "passed")'
        BY <1>1, <1>2, <2>2 DEF VerdictInv, VerdictsStay, HasVerdict, Verdicts
    <2> QED
        BY <1>1, <1>2, <2>3, <2>4 DEF VerdictInv
<1>6. Pending' \subseteq Pending
    BY DEF Pending, GoesOn, Follows
<1> QED
    BY <1>3, <1>4, <1>5, <1>6

LEMMA GoesOnMoves ==
    ASSUME Typed, RunsInv, OneRun, NEW h \in Handlers, NEW new, Moves(h, new), Follows(handler[h], new),
           wf' = wf, VerdictsStay, slot' # 0 => runs'[slot'] = "running",
           Settled(new) => HasVerdict(new.run, new.status)'
    PROVE  GoesOn
<1>1. handler'[h] = new /\ \A g \in Handlers \ {h} : handler'[g] = handler[g]
    BY MovesTyped DEF Typed
<1>2. \A g \in Handlers : handler[g] \in Request
    BY DEF Typed, TypeOK
<1>3. ASSUME NEW g \in Handlers, g # h
      PROVE  /\ Follows(handler[g], handler'[g])
             /\ Settled(handler[g])' => HasVerdict(handler[g].run, handler[g].status)'
    <2>1. handler'[g] = handler[g] /\ handler[g].run \in Nat /\ handler[g].status \in Verdicts
        BY <1>1, <1>2, <1>3 DEF Request, Verdicts
    <2>2. Follows(handler[g], handler[g])
        BY DEF Follows, Keeps, OneRun, Finishing, Busy
    <2> QED
        BY <2>1, <2>2 DEF RunsInv, VerdictsStay, HasVerdict, Settled
<1> QED
    BY <1>1, <1>3 DEF GoesOn

LEMMA HandlerGoesOn ==
    ASSUME Typed, RunsInv, OneRun, NEW h \in Handlers, HandlerStep(h) \/ WaiterGivesUp(h),
           ~Reply(h), ~Deliver(h)
    PROVE  /\ GoesOn /\ UNCHANGED <<wf, cancel, crashed, retried>>
           /\ \A g \in Handlers \ {h} : handler'[g] = handler[g]
<1> DEFINE r == handler[h]
<1>1. UNCHANGED <<wf, cancel, crashed, retried>>
    BY DEF HandlerStep, WaiterGivesUp, TouchRead, TouchWrite, StartsJob, StartsRun, AppliesPatches,
           RunSeen, RunIdWrite
<1>2. VerdictsStay /\ (slot' # 0 => runs'[slot'] = "running")
    <2>1. \/ UNCHANGED <<runs, slot>>
          \/ slot = 0 /\ runs' = Append(runs, "running") /\ slot' = Len(runs) + 1
        BY DEF HandlerStep, WaiterGivesUp, TouchRead, TouchWrite, StartsJob, StartsRun,
               AppliesPatches, RunSeen, RunIdWrite
    <2> QED
        BY <2>1, RunsMove
<1>3. /\ r.kind = "finish" /\ r.pc # "idle" => r.pc \in {"touch", "write", "reply"}
      /\ NotesRun(r) => r.kind \in RunKinds
      /\ r.run \in Nat /\ r.status \in Verdicts /\ TypeOK
    BY DEF OneRun, Finishing, Busy, Typed, TypeOK, Request, Verdicts
<1>4. ASSUME NEW new, Moves(h, new), Follows(r, new),
             Settled(new) => HasVerdict(new.run, new.status)'
      PROVE  GoesOn /\ \A g \in Handlers \ {h} : handler'[g] = handler[g]
    BY <1>1, <1>2, <1>3, <1>4, GoesOnMoves, MovesTyped
<1>5. CASE TouchRead(h)
    <2>1. PICK new : /\ Moves(h, new) /\ Keeps(r, new) /\ new.run = r.run
                     /\ new.status = r.status
                     /\ \/ r.pc = "touch" /\ new.pc = "write"
                        \/ r.pc = "touchRun" /\ new.pc = "writeRun"
        BY <1>3, <1>5, TouchReadMove
    <2>2. Follows(r, new)
        BY <1>3, <2>1 DEF Follows, Keeps, Pends, NotesRun
    <2>3. Settled(new) => HasVerdict(new.run, new.status)'
        BY <1>2, <1>3, <2>1 DEF Settled, RunsInv, VerdictsStay, HasVerdict, Keeps
    <2> QED
        BY <1>1, <1>4, <2>1, <2>2, <2>3
<1>6. CASE TouchWrite(h) \/ RunIdWrite(h)
    <2>1. PICK new : /\ Moves(h, new) /\ Keeps(r, new) /\ new.run = r.run
                     /\ new.status = r.status
                     /\ new.pc = IF r.pc = "writeRun" \/ r.kind = "finish" THEN "reply" ELSE "start"
        BY <1>3, <1>6, WriteMove
    <2>2. r.pc = "write" \/ r.pc = "writeRun"
        BY <1>6 DEF TouchWrite, RunIdWrite
    <2>3. Follows(r, new)
        BY <1>3, <2>1, <2>2 DEF Follows, Keeps, Pends, NotesRun
    <2>4. Settled(new) => HasVerdict(new.run, new.status)'
        BY <1>2, <1>3, <2>1, <2>2 DEF Settled, RunsInv, VerdictsStay, HasVerdict, Keeps, RunKinds
    <2> QED
        BY <1>1, <1>4, <2>1, <2>3, <2>4
<1>7. CASE Fails(h) /\ r.pc \in {"start", "wait"}
    <2>1. PICK new : Moves(h, new) /\ Keeps(r, new) /\ new.pc = "reply" /\ ~new.ok
        BY <1>3, <1>7, FailsMove
    <2>2. Follows(r, new) /\ ~Settled(new)
        BY <1>3, <1>7, <2>1 DEF Follows, Keeps, Pends, Settled, NotesRun
    <2> QED
        BY <1>1, <1>4, <2>1, <2>2
<1>8. CASE StartsJob(h) /\ handler' = [handler EXCEPT ![h].pc = "wait"]
    <2>1. "wait" \in HandlerPc /\ r.pc = "start"
        BY <1>8 DEF HandlerPc, StartsJob
    <2>2. PICK new : Moves(h, new) /\ Keeps(r, new) /\ new.pc = "wait"
        BY <1>3, <1>8, <2>1, PcMove, Zenon
    <2>3. Follows(r, new) /\ ~Settled(new)
        BY <1>3, <2>1, <2>2 DEF Follows, Keeps, Pends, Settled, NotesRun
    <2> QED
        BY <1>1, <1>4, <2>2, <2>3
<1>9. CASE /\ StartsRun(h) /\ slot = 0
           /\ handler' = [handler EXCEPT ![h].pc = "wait", ![h].run = Len(runs) + 1]
    <2>1. PICK new : Moves(h, new) /\ Keeps(r, new) /\ new.pc = "wait"
        BY <1>3, <1>9, StartsRunMove
    <2>2. Follows(r, new) /\ ~Settled(new)
        BY <1>3, <1>9, <2>1 DEF Follows, Keeps, Pends, Settled, StartsRun
    <2> QED
        BY <1>1, <1>4, <2>1, <2>2
<1>10. CASE AppliesPatches(h) /\ handler' = [handler EXCEPT ![h].pc = "reply"]
    <2>1. "reply" \in HandlerPc /\ r.pc = "start" /\ r.kind = "fix_apply"
        BY <1>10 DEF HandlerPc, AppliesPatches
    <2>2. PICK new : Moves(h, new) /\ Keeps(r, new) /\ new.pc = "reply"
        BY <1>3, <1>10, <2>1, PcMove, Zenon
    <2>3. Follows(r, new) /\ ~Settled(new)
        BY <1>3, <2>1, <2>2 DEF Follows, Keeps, Pends, Settled, RunKinds, NotesRun
    <2> QED
        BY <1>1, <1>4, <2>2, <2>3
<1>11. CASE RunSeen(h)
    <2>1. PICK new : /\ Moves(h, new) /\ Keeps(r, new) /\ new.pc = "touchRun"
                     /\ new.run = r.run /\ new.status = runs[r.run]
        BY <1>11, RunSeenMove
    <2>2. Follows(r, new)
        BY <1>3, <1>11, <2>1 DEF Follows, Keeps, Pends, RunSeen, RunKinds
    <2>3. runs' = runs /\ r.run \in 1..Len(runs)
        BY <1>11 DEF RunSeen, Typed, RunsNamed, Named
    <2>4. Settled(new) => HasVerdict(new.run, new.status)'
        BY <2>1, <2>3 DEF HasVerdict
    <2> QED
        BY <1>1, <1>4, <2>1, <2>2, <2>4
<1>12. StartsJob(h) => \/ handler' = [handler EXCEPT ![h].pc = "wait"]
                       \/ Fails(h) /\ r.pc \in {"start", "wait"}
    BY DEF StartsJob
<1>13. StartsRun(h) => \/ /\ slot = 0
                          /\ handler' = [handler EXCEPT ![h].pc = "wait", ![h].run = Len(runs) + 1]
                       \/ Fails(h) /\ r.pc \in {"start", "wait"}
    BY DEF StartsRun
<1>14. AppliesPatches(h) => \/ handler' = [handler EXCEPT ![h].pc = "reply"]
                            \/ Fails(h) /\ r.pc \in {"start", "wait"}
    BY DEF AppliesPatches
<1>15. WaiterGivesUp(h) => Fails(h) /\ r.pc \in {"start", "wait"}
    BY DEF WaiterGivesUp
<1>16. GoesOn /\ \A g \in Handlers \ {h} : handler'[g] = handler[g]
    BY <1>5, <1>6, <1>7, <1>8, <1>9, <1>10, <1>11, <1>12, <1>13, <1>14, <1>15, Zenon DEF HandlerStep
<1> QED
    BY <1>1, <1>16

LEMMA OthersGoOn ==
    ASSUME Typed, RunsInv, OneRun,
           \/ \E k \in JobKinds, ok \in BOOLEAN : JobSettles(k, ok)
           \/ \E status \in {"passed", "failed"} : RunSettles(status)
           \/ OtherRun \/ InsertPipeline \/ CancelRead \/ CancelWrite
    PROVE  GoesOn /\ UNCHANGED <<wf, iters, crashed, retried>>
<1>1. UNCHANGED <<wf, iters, crashed, retried>>
    BY DEF JobSettles, RunSettles, OtherRun, InsertPipeline, CancelRead, CancelWrite
<1>2. VerdictsStay /\ (slot' # 0 => runs'[slot'] = "running")
    <2>1. \/ UNCHANGED <<runs, slot>>
          \/ slot = 0 /\ runs' = Append(runs, "running") /\ slot' = Len(runs) + 1
          \/ \E status \in {"passed", "failed"} : RunSettles(status)
        BY DEF JobSettles, OtherRun, InsertPipeline, CancelRead, CancelWrite
    <2> QED
        BY <2>1, RunsMove
<1>3. \A h \in Handlers :
         \/ handler'[h] = handler[h]
         \/ /\ Keeps(handler[h], handler'[h])
            /\ handler[h].pc = "wait" /\ handler'[h].pc = "reply" /\ handler[h].kind \in JobKinds
    BY JobSettlesMove
    DEF JobSettles, RunSettles, OtherRun, InsertPipeline, CancelRead, CancelWrite, Typed
<1>4. ASSUME NEW g \in Handlers
      PROVE  /\ Follows(handler[g], handler'[g])
             /\ Settled(handler[g])' => HasVerdict(handler[g].run, handler[g].status)'
    <2>1. /\ handler[g].run \in Nat /\ handler[g].status \in Verdicts
          /\ handler[g].kind = "finish" /\ handler[g].pc # "idle" =>
                handler[g].pc \in {"touch", "write", "reply"}
          /\ NotesRun(handler[g]) => handler[g].kind \in RunKinds
        BY DEF Typed, TypeOK, Request, Verdicts, OneRun, Finishing, Busy
    <2>2. CASE handler'[g] = handler[g]
        <3>1. Follows(handler[g], handler[g])
            BY <2>1 DEF Follows, Keeps, NotesRun
        <3> QED
            BY <1>2, <2>1, <2>2, <3>1 DEF RunsInv, VerdictsStay, HasVerdict, Settled
    <2>3. CASE /\ Keeps(handler[g], handler'[g]) /\ handler[g].kind \in JobKinds
               /\ handler[g].pc = "wait" /\ handler'[g].pc = "reply"
        BY <2>1, <2>3 DEF Follows, Keeps, Settled, Pends, JobKinds, RunKinds, NotesRun
    <2> QED
        BY <1>3, <2>2, <2>3
<1> QED
    BY <1>1, <1>2, <1>4 DEF GoesOn

-----------------------------------------------------------------------------
(* The steps that move the workflow                                         *)

Flow == Typed /\ RunsInv /\ FlowInv /\ OneRun /\ VerdictInv

LEMMA FlowInit == Init => Flow
<1> SUFFICES ASSUME Init PROVE Flow
    OBVIOUS
<1>1. Typed
    BY TypedInit
<1>2. /\ wf.pc = "none" /\ ~wf.cancelled /\ ~wf.caught /\ wf.kind = "run" /\ wf.fix = 0
      /\ wf.stopped = "none" /\ cancel.pc = "idle" /\ slot = 0
    BY DEF Init, NoWorkflow
<1>3. \A h \in Handlers : handler[h].pc = "idle"
    BY DEF Init, NoRequest
<1> QED
    BY <1>1, <1>2, <1>3
    DEF Flow, RunsInv, FlowInv, OneRun, VerdictInv, Busy, Running, Finishing, Settled, NotesRun

\* Requests end, and the server may lose what it keeps in memory.
Vanish ==
    /\ \A g \in Handlers : handler'[g] = handler[g] \/ handler'[g].pc = "idle"
    /\ runs' = runs /\ (slot' = slot \/ slot' = 0)
    /\ cancel' = cancel \/ cancel'.pc = "idle"

LEMMA VanishMove ==
    ASSUME Vanish, RunsInv
    PROVE  /\ \A h \in Handlers : /\ Busy(h)' => Busy(h) /\ handler'[h] = handler[h]
                                  /\ Running(h)' => Running(h)
                                  /\ Finishing(h)' => Finishing(h)
           /\ \A n, v : HasVerdict(n, v)' <=> HasVerdict(n, v)
           /\ RunsInv'
<1>1. \A h \in Handlers : /\ Busy(h)' => Busy(h) /\ handler'[h] = handler[h]
                          /\ Running(h)' => Running(h)
                          /\ Finishing(h)' => Finishing(h)
    BY DEF Vanish, Busy, Running, Finishing
<1>2. \A n, v : HasVerdict(n, v)' <=> HasVerdict(n, v)
    BY DEF Vanish, HasVerdict
<1>3. RunsInv'
    BY DEF Vanish, RunsInv, HasVerdict, Settled
<1> QED
    BY <1>1, <1>2, <1>3

\* A failed attempt, or an end of requests that the workflow does not see.
LEMMA FlowFailure ==
    ASSUME Flow, Vanish, wf' = wf \/ (wf.pc = "act" /\ wf' = AfterFailure(wf))
    PROVE  RunsInv' /\ FlowInv' /\ OneRun' /\ VerdictInv'
<1> DEFINE x == AfterFailure(wf)
<1>1. /\ x.cancelled = wf.cancelled /\ x.stopped = wf.stopped /\ x.fix = wf.fix
      /\ x.run = wf.run
      /\ \/ /\ x.pc = wf.pc /\ x.kind = wf.kind /\ x.caught = wf.caught
            /\ x.verdict = wf.verdict /\ wf.kind \notin RunKinds
         \/ wf.caught /\ x = [wf EXCEPT !.pc = "closed"]
         \/ /\ x.pc = wf.pc /\ x.kind = "finish" /\ x.caught /\ x.verdict = "failed"
    BY FailureMove DEF Flow, Typed, TypeOK
<1>2. wf.caught /\ x = [wf EXCEPT !.pc = "closed"] =>
          x.kind = wf.kind /\ x.caught /\ x.verdict = wf.verdict /\ x.pc = "closed"
    BY DEF Flow, Typed, TypeOK, Workflow
<1>3. wf' = wf \/ (wf.pc = "act" /\ wf' = x)
    OBVIOUS
<1> HIDE DEF x
<1>4. /\ \A h \in Handlers : /\ Busy(h)' => Busy(h) /\ handler'[h] = handler[h]
                             /\ Running(h)' => Running(h)
                             /\ Finishing(h)' => Finishing(h)
      /\ \A n, v : HasVerdict(n, v)' <=> HasVerdict(n, v)
      /\ RunsInv'
    BY VanishMove DEF Flow
<1>5. FlowInv'
    BY <1>1, <1>2, <1>3 DEF Flow, FlowInv, Vanish
<1>6. OneRun'
    <2>1. \A h \in Handlers : Running(h) /\ wf' = x => x.caught \/ x.pc = "closed"
        BY <1>1, <1>2, <1>3 DEF Flow, OneRun, Running
    <2>2. \A h \in Handlers : Busy(h)' => wf'.pc # "none" /\ (Finishing(h)' => wf'.kind = "finish")
        BY <1>1, <1>2, <1>3, <1>4 DEF Flow, OneRun
    <2>3. wf'.kind = "finish" /\ ~wf'.caught => \A h \in Handlers : ~Running(h)'
        BY <1>1, <1>2, <1>3, <1>4 DEF Flow, OneRun
    <2>4. \A h \in Handlers : Finishing(h)' => Busy(h)'
        BY DEF Finishing
    <2>5. \A h \in Handlers : Running(h)' => Running(h) /\ handler'[h] = handler[h]
        BY <1>4 DEF Running
    <2>6. \A h \in Handlers : NotesRun(handler[h])' => handler'[h] = handler[h]
        BY DEF Vanish, NotesRun
    <2> QED
        BY <1>1, <1>2, <1>3, <1>4, <2>1, <2>2, <2>3, <2>4, <2>5, <2>6 DEF Flow, OneRun, NotesRun
<1>7. VerdictInv'
    <2>1. \A h \in Handlers : Finishing(h)' => handler'[h] = handler[h]
        BY <1>4 DEF Finishing
    <2>2. ASSUME NEW h \in Handlers, Finishing(h)', ~wf'.caught
          PROVE  handler'[h].status = wf'.verdict /\ handler'[h].run = wf'.run
        BY <1>1, <1>2, <1>3, <1>4, <2>1, <2>2 DEF Flow, VerdictInv, OneRun
    <2>3. wf'.kind = "finish" /\ ~wf'.caught => HasVerdict(wf.run, wf.verdict)'
        BY <1>1, <1>2, <1>3, <1>4 DEF Flow, VerdictInv, HasVerdict, Vanish
    <2>4. ASSUME NEW h \in Handlers, Finishing(h)', handler'[h].status = "passed"
          PROVE  HasVerdict(handler[h].run, "passed")' /\ \A g \in Handlers : ~Running(g)'
        BY <1>4, <2>1, <2>4 DEF Flow, VerdictInv, HasVerdict, Vanish
    <2> QED
        BY <2>2, <2>3, <2>4 DEF VerdictInv
<1> QED
    BY <1>4, <1>5, <1>6, <1>7

LEMMA ReplyVanishes ==
    ASSUME Typed, NEW h \in Handlers, Reply(h)
    PROVE  /\ Vanish /\ handler'[h].pc = "idle"
           /\ \A g \in Handlers \ {h} : handler'[g] = handler[g]
BY DEF Reply, Vanish, Typed, TypeOK, NoRequest

LEMMA FlowSuccess ==
    ASSUME Flow, NEW h \in Handlers, Reply(h), Awaited(wf, handler[h]), handler[h].ok
    PROVE  RunsInv' /\ FlowInv' /\ OneRun' /\ VerdictInv'
<1> DEFINE r == handler[h]
           x == AfterSuccess(wf, r)
<1>1. /\ x.caught = wf.caught /\ x.cancelled = wf.cancelled /\ x.stopped = wf.stopped
      /\ \/ /\ wf.kind = "finish" /\ x = [wf EXCEPT !.pc = "closed"]
         \/ /\ wf.kind # "finish" /\ x.pc = wf.pc
            /\ \/ /\ wf.kind \in RunKinds /\ x.run = r.run
                  /\ \/ x.kind = "fix_analyze"
                     \/ x.kind = "finish" /\ x.verdict = r.status
               \/ /\ wf.kind \notin RunKinds /\ x.kind # "finish"
    BY SuccessMove DEF Flow, Typed, TypeOK
<1>2. wf.kind = "finish" /\ x = [wf EXCEPT !.pc = "closed"] =>
          x.kind = wf.kind /\ x.verdict = wf.verdict /\ x.pc = "closed" /\ x.run = wf.run
    BY DEF Flow, Typed, TypeOK, Workflow
<1>3. wf' = x /\ wf.pc = "act" /\ wf.sent /\ wf.kind = r.kind /\ r.pc = "reply"
    BY DEF Reply, Awaited
<1>4. wf.kind \in RunKinds => Running(h) /\ HasVerdict(r.run, r.status)
    BY <1>3 DEF Running, Busy, Flow, RunsInv, Settled
<1> HIDE DEF x
<1>5. /\ \A g \in Handlers : /\ Busy(g)' => Busy(g) /\ handler'[g] = handler[g] /\ g # h
                             /\ Running(g)' => Running(g)
                             /\ Finishing(g)' => Finishing(g)
      /\ \A n, v : HasVerdict(n, v)' <=> HasVerdict(n, v)
      /\ RunsInv' /\ cancel' = cancel
    BY ReplyVanishes, VanishMove DEF Flow, Busy, Reply
<1>6. FlowInv'
    BY <1>1, <1>2, <1>3, <1>5 DEF Flow, FlowInv
<1>7. \A g \in Handlers : /\ Running(g)' => Busy(g)'
                          /\ Finishing(g)' => Busy(g)'
    BY DEF Running, Finishing
<1>8. wf'.kind = "finish" /\ ~wf'.caught => \A g \in Handlers : ~Running(g)'
    BY <1>1, <1>2, <1>3, <1>4, <1>5, <1>7 DEF Flow, OneRun
<1>9. OneRun'
    <2>1. \A g \in Handlers : Running(g)' => wf'.caught
        <3>1. ASSUME NEW g \in Handlers, Running(g)', ~wf.caught PROVE FALSE
            <4>1. Running(g) /\ g # h /\ wf.kind \in RunKinds
                BY <1>3, <1>5, <1>7, <3>1 DEF Flow, OneRun, Running
            <4> QED
                BY <1>4, <4>1 DEF Flow, OneRun
        <3> QED
            BY <1>1, <1>3, <3>1
    <2>2. \A g \in Handlers : Finishing(g)' => wf'.kind = "finish" /\ handler'[g] = handler[g]
        BY <1>1, <1>2, <1>3, <1>5, <1>7 DEF Flow, OneRun
    <2>3. \A g \in Handlers : Busy(g)' => wf'.pc # "none"
        BY <1>1, <1>2, <1>3
    <2>4. \A g \in Handlers : NotesRun(handler[g])' => handler'[g] = handler[g]
        BY ReplyVanishes DEF Vanish, NotesRun, Flow
    <2> QED
        BY <1>5, <1>7, <1>8, <2>1, <2>2, <2>3, <2>4 DEF Flow, OneRun, NotesRun
<1>10. VerdictInv'
    <2>1. wf'.kind = "finish" /\ ~wf'.caught => HasVerdict(wf.run, wf.verdict)'
        BY <1>1, <1>2, <1>3, <1>4 DEF Flow, VerdictInv, HasVerdict, Reply
    <2>2. ASSUME NEW g \in Handlers, Finishing(g)', ~wf'.caught
          PROVE  handler'[g].status = wf'.verdict /\ handler'[g].run = wf'.run
        BY <1>1, <1>2, <1>3, <1>5, <1>7, <2>2 DEF Flow, VerdictInv, OneRun
    <2>3. ASSUME NEW g \in Handlers, Finishing(g)', handler'[g].status = "passed"
          PROVE  HasVerdict(handler[g].run, "passed")' /\ \A f \in Handlers : ~Running(f)'
        BY <1>5, <1>7, <2>3 DEF Flow, VerdictInv, HasVerdict, Reply
    <2> QED
        BY <2>1, <2>2, <2>3 DEF VerdictInv
<1> QED
    BY <1>5, <1>6, <1>9, <1>10

LEMMA FlowDeliver ==
    ASSUME Flow, NEW h \in Handlers, Deliver(h)
    PROVE  RunsInv' /\ FlowInv' /\ OneRun' /\ VerdictInv'
<1>1. PICK new : /\ Moves(h, new) /\ new.pc = "touch" /\ new.kind = wf.kind
                 /\ new.status = wf.verdict /\ (wf.kind = "finish" => new.run = wf.run)
    BY DeliverMove DEF Flow, Typed
<1>2. /\ handler'[h] = new /\ handler[h].pc = "idle"
      /\ \A g \in Handlers \ {h} : handler'[g] = handler[g]
    BY <1>1, MovesTyped DEF Flow, Typed, Deliver
<1>3. /\ wf.pc = "act" /\ ~wf.sent /\ runs' = runs /\ slot' = slot /\ cancel' = cancel
      /\ wf' = [wf EXCEPT !.sent = TRUE]
    BY DEF Deliver
<1>4. /\ wf'.pc = wf.pc /\ wf'.kind = wf.kind /\ wf'.run = wf.run /\ wf'.verdict = wf.verdict
      /\ wf'.caught = wf.caught /\ wf'.stopped = wf.stopped /\ wf'.cancelled = wf.cancelled
      /\ wf'.sent
    BY <1>3 DEF Flow, Typed, TypeOK, Workflow
<1>5. /\ \A g \in Handlers \ {h} : /\ Busy(g)' <=> Busy(g)
                                   /\ Running(g)' <=> Running(g)
                                   /\ Finishing(g)' <=> Finishing(g)
      /\ Running(h)' <=> wf.kind \in RunKinds
      /\ Finishing(h)' <=> wf.kind = "finish"
    BY <1>1, <1>2 DEF Busy, Running, Finishing
<1>6. RunsInv'
    <2>1. \A g \in Handlers : Settled(handler[g])' => handler'[g] = handler[g]
        BY <1>1, <1>2 DEF Settled
    <2> QED
        BY <1>3, <2>1 DEF Flow, RunsInv, Settled, HasVerdict
<1>7. FlowInv'
    BY <1>3, <1>4 DEF Flow, FlowInv
<1>8. wf.kind \in RunKinds => ~wf.caught /\ wf.kind # "finish" /\ \A g \in Handlers : ~Running(g)
    BY <1>3 DEF Flow, FlowInv, OneRun, Running, RunKinds
<1>9. OneRun'
    BY <1>1, <1>2, <1>3, <1>4, <1>5, <1>8 DEF Flow, OneRun, NotesRun, Busy
<1>10. VerdictInv'
    <2>1. wf.kind = "finish" /\ wf.verdict = "passed" => ~wf.caught
        BY DEF Flow, FlowInv
    <2>2. \A n, v : HasVerdict(n, v)' <=> HasVerdict(n, v)
        BY <1>3 DEF HasVerdict
    <2>3. \A g \in Handlers : handler'[g].run = (IF g = h THEN new.run ELSE handler[g].run)
        BY <1>2
    <2>4. ASSUME NEW g \in Handlers, Finishing(g)', handler'[g].status = "passed"
          PROVE  HasVerdict(handler[g].run, "passed")' /\ \A f \in Handlers : ~Running(f)'
        <3>1. wf.kind = "finish" /\ ~Running(h)'
            BY <1>5, <2>4 DEF Flow, OneRun, RunKinds
        <3>2. CASE g = h
            <4>1. ~wf.caught /\ new.run = wf.run /\ wf.verdict = "passed"
                BY <1>1, <1>2, <2>1, <2>4, <3>1, <3>2
            <4> QED
                BY <1>2, <1>3, <1>5, <3>1, <3>2, <4>1 DEF Flow, OneRun, VerdictInv, HasVerdict
        <3>3. CASE g # h
            BY <1>2, <1>3, <1>5, <2>4, <3>1, <3>3 DEF Flow, VerdictInv, HasVerdict
        <3> QED
            BY <3>2, <3>3
    <2>5. ASSUME NEW g \in Handlers, Finishing(g)', ~wf'.caught
          PROVE  handler'[g].status = wf'.verdict /\ handler'[g].run = wf'.run
        BY <1>1, <1>2, <1>4, <1>5, <2>5 DEF Flow, VerdictInv
    <2>6. wf'.kind = "finish" /\ ~wf'.caught => HasVerdict(wf.run, wf.verdict)'
        BY <1>3, <1>4 DEF Flow, VerdictInv, HasVerdict
    <2> QED
        BY <2>4, <2>5, <2>6 DEF VerdictInv
<1> QED
    BY <1>6, <1>7, <1>9, <1>10

LEMMA FlowStart ==
    ASSUME Flow, NEW full \in BOOLEAN, NEW autoFix \in BOOLEAN, StartWorkflow(full, autoFix)
    PROVE  RunsInv' /\ FlowInv' /\ OneRun' /\ VerdictInv'
<1>1. /\ wf'.pc = "act" /\ wf'.kind \in {"plan", "run"} /\ ~wf'.caught /\ ~wf'.cancelled
      /\ wf'.stopped = "none"
    BY StartMove
<1>2. \A h \in Handlers : ~Busy(h)' /\ ~Running(h)' /\ ~Finishing(h)'
    BY DEF StartWorkflow, Flow, OneRun, Running, Finishing, Busy
<1>3. RunsInv'
    BY DEF StartWorkflow, Flow, RunsInv, Settled, HasVerdict
<1>4. FlowInv'
    BY <1>1 DEF StartWorkflow, Flow, FlowInv
<1> QED
    BY <1>1, <1>2, <1>3, <1>4 DEF OneRun, VerdictInv, NotesRun, Busy

\* Seeing its cancellation ends the workflow; being asked to is noted only.
LEMMA FlowCancel ==
    ASSUME Flow, WorkflowCancelled \/ CancelRequest
    PROVE  RunsInv' /\ FlowInv' /\ OneRun' /\ VerdictInv'
<1>1. /\ wf'.kind = wf.kind /\ wf'.verdict = wf.verdict /\ wf'.caught = wf.caught
      /\ wf'.run = wf.run /\ wf'.cancelled /\ wf.pc = "act"
      /\ \/ wf'.pc = "closed" /\ wf'.stopped = wf.kind
         \/ wf'.pc = wf.pc /\ wf'.stopped = wf.stopped /\ wf'.sent = wf.sent
    BY DEF WorkflowCancelled, CancelRequest, StopsAtOnce, Flow, Typed, TypeOK, Workflow
<1>2. handler' = handler /\ runs' = runs /\ slot' = slot
    BY DEF WorkflowCancelled, CancelRequest
<1>3. \A h \in Handlers : /\ Busy(h)' <=> Busy(h)
                          /\ Running(h)' <=> Running(h)
                          /\ Finishing(h)' <=> Finishing(h)
    BY <1>2 DEF Busy, Running, Finishing
<1>4. RunsInv'
    BY <1>2 DEF Flow, RunsInv, HasVerdict, Settled
<1>5. FlowInv'
    BY <1>1 DEF Flow, FlowInv
<1>6. OneRun'
    BY <1>1, <1>2, <1>3 DEF Flow, OneRun
<1>7. VerdictInv'
    BY <1>1, <1>2, <1>3 DEF Flow, VerdictInv, HasVerdict
<1> QED
    BY <1>4, <1>5, <1>6, <1>7

LEMMA FlowGoesOn ==
    ASSUME Flow, GoesOn, cancel'.pc = "idle" \/ cancel.pc # "idle" \/ cancel' = cancel
    PROVE  RunsInv' /\ FlowInv' /\ OneRun' /\ VerdictInv'
<1>1. RunsInv' /\ OneRun' /\ VerdictInv' /\ wf' = wf
    BY GoesOnKeeps DEF Flow, GoesOn
<1>2. FlowInv'
    BY <1>1 DEF Flow, FlowInv
<1> QED
    BY <1>1, <1>2

LEMMA FlowStep ==
    ASSUME Flow, Next
    PROVE  Flow'
<1> DEFINE G == RunsInv' /\ FlowInv' /\ OneRun' /\ VerdictInv'
<1>1. Typed'
    BY TypedStep DEF Flow
<1>2. CASE InsertPipeline \/ CancelRead \/ CancelWrite \/ OtherRun
    <2>1. GoesOn
        BY <1>2, OthersGoOn DEF Flow
    <2>2. cancel'.pc = "idle" \/ cancel.pc # "idle" \/ cancel' = cancel
        BY <1>2 DEF InsertPipeline, CancelRead, CancelWrite, OtherRun
    <2> QED
        BY <1>1, <2>1, <2>2, FlowGoesOn DEF Flow
<1>3. ASSUME NEW k \in JobKinds, NEW ok \in BOOLEAN, JobSettles(k, ok)
      PROVE  G
    <2>1. GoesOn
        BY <1>3, OthersGoOn DEF Flow
    <2>2. cancel' = cancel
        BY <1>3 DEF JobSettles
    <2> QED
        BY <2>1, <2>2, FlowGoesOn
<1>4. ASSUME NEW status \in {"passed", "failed"}, RunSettles(status)
      PROVE  G
    <2>1. GoesOn
        BY <1>4, OthersGoOn DEF Flow
    <2>2. cancel' = cancel
        BY <1>4 DEF RunSettles
    <2> QED
        BY <2>1, <2>2, FlowGoesOn
<1>5. ASSUME NEW full \in BOOLEAN, NEW autoFix \in BOOLEAN, StartWorkflow(full, autoFix)
      PROVE  G
    BY <1>5, FlowStart
<1>6. CASE TimesOut \/ Crash
    <2>1. Vanish
        BY <1>6 DEF TimesOut, Crash, Vanish, NoRequest
    <2>2. wf' = wf \/ (wf.pc = "act" /\ wf' = AfterFailure(wf))
        BY <1>6 DEF TimesOut, Crash
    <2> QED
        BY <1>1, <2>1, <2>2, FlowFailure DEF Flow
<1>7. CASE WorkflowCancelled \/ CancelRequest
    BY <1>1, <1>7, FlowCancel DEF Flow
<1>8. ASSUME NEW h \in Handlers, HandlerStep(h) \/ WaiterGivesUp(h)
      PROVE  G
    <2>1. CASE Reply(h)
        <3>1. Vanish
            BY <2>1, ReplyVanishes DEF Flow
        <3>2. CASE Awaited(wf, handler[h]) /\ handler[h].ok
            BY <2>1, <3>2, FlowSuccess
        <3>3. CASE ~(Awaited(wf, handler[h]) /\ handler[h].ok)
            <4>1. wf' = wf \/ (wf.pc = "act" /\ wf' = AfterFailure(wf))
                BY <2>1, <3>3 DEF Reply, Awaited
            <4> QED
                BY <3>1, <4>1, FlowFailure
        <3> QED
            BY <3>2, <3>3
    <2>2. CASE Deliver(h)
        BY <2>2, FlowDeliver
    <2>3. CASE ~Reply(h) /\ ~Deliver(h)
        <3>1. GoesOn /\ cancel' = cancel
            BY <1>8, <2>3, HandlerGoesOn DEF Flow
        <3> QED
            BY <3>1, FlowGoesOn
    <2> QED
        BY <2>1, <2>2, <2>3
<1> QED
    BY <1>1, <1>2, <1>3, <1>4, <1>5, <1>6, <1>7, <1>8, Zenon DEF Next, Flow

-----------------------------------------------------------------------------
(* The row                                                                  *)

\* An UPDATE that lost nothing wrote over the row it had read.
LEMMA UpdateMove ==
    ASSUME NEW snap, NEW new, UpdateRow(snap, new)
    PROVE  row' = new /\ (~clobbered' => ~clobbered /\ row = snap)
BY Zenon DEF UpdateRow

NoNewAnswer == \A g \in Handlers : Answered(g)' => Answered(g)

RowStays == ~clobbered /\ row'.status = row.status /\ row'.run = row.run /\ NoNewAnswer
RunNoted(h) == ~clobbered /\ row'.status = row.status /\ Running(h) /\ NoNewAnswer
Finalized(h) ==
    /\ ~clobbered /\ Finishing(h) /\ wf.kind = "finish"
    /\ row'.status = handler[h].status
    /\ handler[h].run # 0 => row'.run = handler[h].run

LEMMA RowHandler ==
    ASSUME Flow, NEW h \in Handlers, HandlerStep(h) \/ WaiterGivesUp(h), ~clobbered'
    PROVE  RowStays \/ RunNoted(h) \/ Finalized(h)
<1> DEFINE r == handler[h]
<1>1. r \in Request /\ r.snap \in Row /\ TypeOK
    BY DEF Flow, Typed, TypeOK, Request
<1>2. CASE RunIdWrite(h)
    <2>1. row' = [r.snap EXCEPT !.run = r.run] /\ ~clobbered /\ row = r.snap /\ r.pc = "writeRun"
        BY <1>2, UpdateMove DEF RunIdWrite
    <2>2. row'.status = row.status
        BY <1>1, <2>1 DEF Row
    <2>3. r.kind \in RunKinds /\ Running(h)
        BY <2>1 DEF Flow, OneRun, NotesRun, Running, Busy
    <2>4. PICK w : Moves(h, w) /\ Keeps(r, w)
        BY <1>1, <1>2, WriteMove
    <2>5. NoNewAnswer
        BY <1>1, <2>3, <2>4, MovesTyped DEF NoNewAnswer, Answered, Finishing, Busy, Keeps, RunKinds
    <2> QED
        BY <2>1, <2>2, <2>3, <2>5 DEF RunNoted
<1>3. CASE TouchWrite(h) /\ r.kind # "finish"
    <2>1. /\ row' = [r.snap EXCEPT !.stage = r.kind,
                                   !.fix = IF r.kind = "fix_analyze" THEN r.fix ELSE @]
          /\ ~clobbered /\ row = r.snap
        BY <1>3, UpdateMove DEF TouchWrite
    <2>2. row'.status = row.status /\ row'.run = row.run
        BY <1>1, <2>1 DEF Row
    <2>3. PICK w : Moves(h, w) /\ Keeps(r, w)
        BY <1>1, <1>3, WriteMove
    <2>4. NoNewAnswer
        BY <1>1, <1>3, <2>3, MovesTyped DEF NoNewAnswer, Answered, Finishing, Busy, Keeps
    <2> QED
        BY <2>1, <2>2, <2>4 DEF RowStays
<1>4. CASE TouchWrite(h) /\ r.kind = "finish"
    <2>1. /\ row' = [status |-> FinishStatus(r), stage |-> "done",
                     run |-> Later(r.run, r.snap.run), fix |-> r.fix]
          /\ ~clobbered /\ r.pc = "write"
        BY <1>4, UpdateMove DEF TouchWrite
    <2>2. row'.status = FinishStatus(r) /\ row'.run = Later(r.run, r.snap.run)
        BY <2>1
    <2>3. row'.status = r.status
        BY <1>1, <2>2 DEF FinishStatus, Request
    <2>4. r.run # 0 => row'.run = r.run
        BY <2>2 DEF Later
    <2>5. Finishing(h) /\ wf.kind = "finish"
        BY <1>4, <2>1 DEF Flow, OneRun, Finishing, Busy
    <2> QED
        BY <2>1, <2>3, <2>4, <2>5 DEF Finalized
<1>5. CASE ~RunIdWrite(h) /\ ~TouchWrite(h)
    <2>1. row' = row /\ clobbered' = clobbered
        BY <1>5 DEF HandlerStep, WaiterGivesUp, TouchRead, StartsJob, StartsRun, AppliesPatches,
                    RunSeen, Reply, Deliver
    <2>2. NoNewAnswer
        <3>1. CASE Reply(h)
            BY <3>1, ReplyVanishes DEF NoNewAnswer, Answered, Finishing, Busy, Flow
        <3>2. CASE Deliver(h)
            <4>1. PICK w : Moves(h, w) /\ w.pc = "touch"
                BY <1>1, <3>2, DeliverMove
            <4> QED
                BY <1>1, <4>1, MovesTyped DEF NoNewAnswer, Answered, Finishing, Busy
        <3>3. CASE ~Reply(h) /\ ~Deliver(h)
            <4>1. GoesOn /\ \A g \in Handlers \ {h} : handler'[g] = handler[g]
                BY <3>3, HandlerGoesOn DEF Flow
            <4>2. handler'[h].kind = r.kind /\ (r.pc = "idle" <=> handler'[h].pc = "idle")
                BY <4>1 DEF GoesOn, Follows, Keeps
            <4>3. r.kind = "finish" => r.pc = "touch" /\ TouchRead(h)
                BY <1>5, <3>3 DEF HandlerStep, WaiterGivesUp, StartsJob, StartsRun, AppliesPatches,
                    RunSeen, TouchRead, Flow, OneRun, Finishing, Busy, JobKinds, RunKinds
            <4>4. r.kind = "finish" => handler'[h].pc = "write"
                BY <1>1, <4>3, TouchReadMove, MovesTyped
            <4> QED
                BY <4>1, <4>2, <4>4 DEF NoNewAnswer, Answered, Finishing, Busy
        <3> QED
            BY <3>1, <3>2, <3>3
    <2> QED
        BY <2>1, <2>2, Zenon DEF RowStays
<1> QED
    BY <1>2, <1>3, <1>4, <1>5

\* What every step keeps once the workflow has come to finish.
Onward ==
    /\ VerdictsStay
    /\ wf.pc = "none" => wf'.pc = "none"
    /\ wf.cancelled => wf'.cancelled
    /\ wf'.cancelled => wf.cancelled \/ cancel'.pc # "idle"
    /\ wf.caught => wf'.caught
    /\ wf.kind = "finish" =>
          /\ wf'.kind = "finish"
          /\ wf'.caught \/ (wf'.verdict = wf.verdict /\ wf'.run = wf.run)
          /\ \A g \in Handlers : Running(g)' => Running(g)
    /\ wf'.pc = "closed" => \/ wf.pc = "closed" \/ wf'.caught \/ wf'.cancelled
                            \/ \E h \in Handlers : Answered(h)

LEMMA OnwardGoesOn ==
    ASSUME GoesOn
    PROVE  Onward
<1>1. wf' = wf /\ VerdictsStay /\ \A g \in Handlers : Running(g)' <=> Running(g)
    BY DEF GoesOn, Follows, Keeps, Running, Busy
<1> QED
    BY <1>1 DEF Onward

LEMMA OnwardFailure ==
    ASSUME Flow, Vanish, wf' = wf \/ (wf.pc = "act" /\ wf' = AfterFailure(wf))
    PROVE  Onward
<1> DEFINE x == AfterFailure(wf)
<1>1. /\ x.cancelled = wf.cancelled /\ x.run = wf.run
      /\ \/ /\ x.pc = wf.pc /\ x.kind = wf.kind /\ x.caught = wf.caught
            /\ x.verdict = wf.verdict
         \/ wf.caught /\ x = [wf EXCEPT !.pc = "closed"]
         \/ x.pc = wf.pc /\ x.kind = "finish" /\ x.caught
    BY FailureMove DEF Flow, Typed, TypeOK
<1>2. wf.caught /\ x = [wf EXCEPT !.pc = "closed"] => x.kind = wf.kind /\ x.caught
    BY DEF Flow, Typed, TypeOK, Workflow
<1>3. wf' = wf \/ (wf.pc = "act" /\ wf' = x)
    OBVIOUS
<1> HIDE DEF x
<1>4. VerdictsStay /\ \A g \in Handlers : Running(g)' => Running(g)
    BY VanishMove DEF Flow, VerdictsStay
<1> QED
    BY <1>1, <1>2, <1>3, <1>4 DEF Onward

LEMMA OnwardSuccess ==
    ASSUME Flow, NEW h \in Handlers, Reply(h), Awaited(wf, handler[h]), handler[h].ok
    PROVE  Onward
<1> DEFINE r == handler[h]
           x == AfterSuccess(wf, r)
<1>1. /\ x.caught = wf.caught /\ x.cancelled = wf.cancelled
      /\ \/ wf.kind = "finish" /\ x = [wf EXCEPT !.pc = "closed"]
         \/ wf.kind # "finish" /\ x.pc = wf.pc
    BY SuccessMove DEF Flow, Typed, TypeOK
<1>2. wf.kind = "finish" /\ x = [wf EXCEPT !.pc = "closed"] =>
          x.kind = wf.kind /\ x.verdict = wf.verdict /\ x.run = wf.run
    BY DEF Flow, Typed, TypeOK, Workflow
<1>3. wf' = x /\ wf.pc = "act" /\ wf.kind = r.kind /\ r.pc = "reply"
    BY DEF Reply, Awaited
<1> HIDE DEF x
<1>4. wf.kind = "finish" => Answered(h)
    BY <1>3 DEF Answered, Finishing, Busy
<1>5. VerdictsStay /\ \A g \in Handlers : Running(g)' => Running(g)
    BY ReplyVanishes, VanishMove DEF Flow, VerdictsStay
<1> QED
    BY <1>1, <1>2, <1>3, <1>4, <1>5 DEF Onward

LEMMA OnwardDeliver ==
    ASSUME Flow, NEW h \in Handlers, Deliver(h)
    PROVE  Onward
<1>1. PICK new : Moves(h, new) /\ new.kind = wf.kind
    BY DeliverMove DEF Flow, Typed
<1>2. /\ handler'[h] = new /\ \A g \in Handlers \ {h} : handler'[g] = handler[g]
    BY <1>1, MovesTyped DEF Flow, Typed
<1>3. /\ wf.pc = "act" /\ runs' = runs /\ wf' = [wf EXCEPT !.sent = TRUE]
    BY DEF Deliver
<1>4. /\ wf'.pc = wf.pc /\ wf'.kind = wf.kind /\ wf'.run = wf.run /\ wf'.verdict = wf.verdict
      /\ wf'.caught = wf.caught /\ wf'.cancelled = wf.cancelled
    BY <1>3 DEF Flow, Typed, TypeOK, Workflow
<1>5. wf.kind = "finish" => \A g \in Handlers : Running(g)' => Running(g)
    BY <1>1, <1>2 DEF Running, Busy, RunKinds
<1> QED
    BY <1>3, <1>4, <1>5 DEF Onward, VerdictsStay, HasVerdict

LEMMA OnwardCancel ==
    ASSUME Flow, WorkflowCancelled \/ CancelRequest
    PROVE  Onward
<1>1. /\ wf'.kind = wf.kind /\ wf'.verdict = wf.verdict /\ wf'.caught = wf.caught
      /\ wf'.run = wf.run /\ wf'.cancelled /\ wf.pc = "act"
      /\ wf.cancelled \/ cancel'.pc = "read"
    BY DEF WorkflowCancelled, CancelRequest, StopsAtOnce, Flow, Typed, TypeOK, Workflow
<1>2. handler' = handler /\ runs' = runs
    BY DEF WorkflowCancelled, CancelRequest
<1> QED
    BY <1>1, <1>2 DEF Onward, VerdictsStay, HasVerdict, Running, Busy

LEMMA OnwardHandler ==
    ASSUME Flow, NEW h \in Handlers, HandlerStep(h) \/ WaiterGivesUp(h)
    PROVE  Onward
<1>1. CASE Reply(h)
    <2>1. Vanish
        BY <1>1, ReplyVanishes DEF Flow
    <2>2. CASE Awaited(wf, handler[h]) /\ handler[h].ok
        BY <1>1, <2>2, OnwardSuccess
    <2>3. CASE ~(Awaited(wf, handler[h]) /\ handler[h].ok)
        <3>1. wf' = wf \/ (wf.pc = "act" /\ wf' = AfterFailure(wf))
            BY <1>1, <2>3 DEF Reply, Awaited
        <3> QED
            BY <2>1, <3>1, OnwardFailure
    <2> QED
        BY <2>2, <2>3
<1>2. CASE Deliver(h)
    BY <1>2, OnwardDeliver
<1>3. CASE ~Reply(h) /\ ~Deliver(h)
    BY <1>3, HandlerGoesOn, OnwardGoesOn DEF Flow
<1> QED
    BY <1>1, <1>2, <1>3

LEMMA RowKept ==
    ASSUME Flow, RowInv, Onward, RowStays, ~crashed' => ~crashed,
           cancel.pc # "idle" => cancel'.pc # "idle" \/ crashed'
    PROVE  RowInv'
<1>1. ~clobbered /\ row'.status = row.status /\ row'.run = row.run
    BY Zenon DEF RowStays
<1>2. wf.run \in Nat /\ wf.verdict \in Verdicts /\ row.run \in Nat /\ "passed" \in Verdicts
    BY DEF Flow, Typed, TypeOK, Workflow, Verdicts, Row
<1>3. RowPassed'
    <2>1. row.status = "passed" => HasVerdict(row.run, "passed")'
        BY <1>1, <1>2 DEF RowInv, RowPassed, Onward, VerdictsStay, HasVerdict
    <2> QED
        BY <1>1, <2>1 DEF RowInv, RowPassed, Onward
<1>4. RowNone'
    BY <1>1 DEF RowInv, RowNone, Onward
<1>5. RowFinal'
    <2> SUFFICES ASSUME Undisturbed', ~wf'.cancelled, ~wf'.caught,
                        wf'.pc = "closed" \/ \E h \in Handlers : Answered(h)'
                 PROVE  row'.status = wf'.verdict /\ row'.run = wf'.run
        BY DEF RowFinal
    <2>1. Undisturbed /\ ~wf.cancelled /\ ~wf.caught
        BY <1>1 DEF Undisturbed, Onward
    <2>2. wf.pc = "closed" \/ \E h \in Handlers : Answered(h)
        BY DEF Onward, RowStays, NoNewAnswer
    <2>3. wf.kind = "finish"
        BY <2>1, <2>2 DEF Flow, FlowInv, OneRun, Answered
    <2> QED
        BY <1>1, <2>1, <2>2, <2>3 DEF RowInv, RowFinal, Onward
<1>6. RowCancelled'
    <2> SUFFICES ASSUME Undisturbed', wf'.cancelled, wf'.kind # "finish"
                 PROVE  cancel'.pc # "idle" \/ row'.status = "cancelled"
        BY DEF RowCancelled
    <2>1. Undisturbed /\ ~crashed'
        BY <1>1 DEF Undisturbed
    <2> QED
        BY <1>1, <2>1 DEF RowInv, RowCancelled, Onward
<1> QED
    BY <1>3, <1>4, <1>5, <1>6 DEF RowInv

\* A run is noted before finish is asked for, so no outcome is disturbed.
LEMMA RowNoted ==
    ASSUME Flow, RowInv, Onward, NEW h \in Handlers, RunNoted(h), ~crashed' => ~crashed,
           cancel' = cancel
    PROVE  RowInv'
<1>1. ~clobbered /\ row'.status = row.status /\ Running(h)
    BY Zenon DEF RunNoted
<1>2. RowPassed'
    BY <1>1 DEF RowInv, RowPassed
<1>3. RowNone'
    BY <1>1 DEF RowInv, RowNone, Onward
<1>4. RowFinal'
    <2> SUFFICES ASSUME Undisturbed', ~wf'.cancelled, ~wf'.caught,
                        wf'.pc = "closed" \/ \E g \in Handlers : Answered(g)'
                 PROVE  FALSE
        BY DEF RowFinal
    <2>1. ~wf.cancelled /\ ~wf.caught
        BY DEF Onward
    <2>2. wf.pc = "closed" \/ \E g \in Handlers : Answered(g)
        BY DEF Onward, RunNoted, NoNewAnswer
    <2>3. wf.kind = "finish"
        BY <2>1, <2>2 DEF Flow, FlowInv, OneRun, Answered
    <2> QED
        BY <1>1, <2>1, <2>3 DEF Flow, OneRun
<1>5. RowCancelled'
    <2> SUFFICES ASSUME Undisturbed', wf'.cancelled, wf'.kind # "finish"
                 PROVE  cancel'.pc # "idle" \/ row'.status = "cancelled"
        BY DEF RowCancelled
    <2>1. Undisturbed /\ ~crashed'
        BY <1>1 DEF Undisturbed
    <2> QED
        BY <1>1, <2>1 DEF RowInv, RowCancelled, Onward
<1> QED
    BY <1>2, <1>3, <1>4, <1>5 DEF RowInv

LEMMA RowFinalized ==
    ASSUME Flow, RowInv, Onward, NEW h \in Handlers, Finalized(h)
    PROVE  RowInv'
<1>1. /\ ~clobbered /\ Finishing(h) /\ wf.kind = "finish"
      /\ row'.status = handler[h].status
      /\ handler[h].run # 0 => row'.run = handler[h].run
    BY Zenon DEF Finalized
<1>2. /\ wf.run \in Nat /\ wf.verdict \in Verdicts /\ "passed" \in Verdicts
      /\ handler[h].run \in Nat /\ handler[h].status \in Verdicts
    BY DEF Flow, Typed, TypeOK, Workflow, Verdicts, Request
<1>3. RowPassed'
    <2>1. handler[h].status = "passed" => /\ HasVerdict(handler[h].run, "passed")
                                          /\ \A g \in Handlers : ~Running(g)
        BY <1>1 DEF Flow, VerdictInv
    <2>2. PICK n \in Nat : n = handler[h].run
        BY <1>2
    <2>3. handler[h].status = "passed" => HasVerdict(n, "passed")' /\ n # 0
        BY <1>2, <2>1, <2>2 DEF Onward, VerdictsStay, HasVerdict
    <2>4. handler[h].status = "passed" => HasVerdict(row.run, "passed")'
        BY <1>1, <2>2, <2>3 DEF HasVerdict
    <2> QED
        BY <1>1, <2>1, <2>4 DEF RowPassed, Onward
<1>4. RowNone'
    BY <1>1, <1>2 DEF RowNone, Verdicts
<1>5. RowFinal'
    <2> SUFFICES ASSUME ~wf'.caught
                 PROVE  row'.status = wf'.verdict /\ row'.run = wf'.run
        BY DEF RowFinal
    <2>1. ~wf.caught
        BY DEF Onward
    <2>2. HasVerdict(wf.run, wf.verdict) /\ handler[h].status = wf.verdict /\ handler[h].run = wf.run
        BY <1>1, <2>1 DEF Flow, VerdictInv
    <2>3. wf.run # 0
        BY <2>2 DEF HasVerdict
    <2> QED
        BY <1>1, <2>2, <2>3 DEF Onward
<1>6. RowCancelled'
    BY <1>1 DEF RowCancelled, Onward
<1> QED
    BY <1>3, <1>4, <1>5, <1>6 DEF RowInv

LEMMA RowLost ==
    ASSUME clobbered'
    PROVE  RowInv'
BY DEF RowInv, RowPassed, RowNone, RowFinal, RowCancelled, Undisturbed

LEMMA RowStep ==
    ASSUME Flow, RowInv, Next
    PROVE  RowInv'
<1>1. CASE clobbered'
    BY <1>1, RowLost
<1>2. ASSUME ~clobbered', NEW h \in Handlers, HandlerStep(h) \/ WaiterGivesUp(h)
      PROVE  RowInv'
    <2>1. Onward
        BY <1>2, OnwardHandler
    <2>2. crashed' = crashed /\ cancel' = cancel
        BY <1>2 DEF HandlerStep, WaiterGivesUp, TouchRead, TouchWrite, StartsJob, StartsRun,
                    AppliesPatches, RunSeen, RunIdWrite, Reply, Deliver
    <2>3. ~crashed' => ~crashed
        BY <2>2, Zenon
    <2>4. RowStays \/ RunNoted(h) \/ Finalized(h)
        BY <1>2, RowHandler
    <2> QED
        BY <2>1, <2>2, <2>3, <2>4, RowKept, RowNoted, RowFinalized
<1>3. CASE ~clobbered' /\ (WorkflowCancelled \/ CancelRequest)
    <2>1. Onward
        BY <1>3, OnwardCancel
    <2>2. row' = row /\ clobbered' = clobbered /\ crashed' = crashed /\ handler' = handler
        BY <1>3 DEF WorkflowCancelled, CancelRequest
    <2>3. cancel.pc # "idle" => cancel'.pc # "idle"
        BY <1>3 DEF WorkflowCancelled, CancelRequest
    <2>4. NoNewAnswer
        BY <2>2 DEF NoNewAnswer, Answered, Finishing, Busy
    <2>5. RowStays /\ (~crashed' => ~crashed)
        BY <1>3, <2>2, <2>4, Zenon DEF RowStays
    <2> QED
        BY <2>1, <2>3, <2>5, RowKept
<1>4. CASE ~clobbered' /\ (TimesOut \/ Crash)
    <2>1. Vanish
        BY <1>4 DEF TimesOut, Crash, Vanish, NoRequest
    <2>2. wf' = wf \/ (wf.pc = "act" /\ wf' = AfterFailure(wf))
        BY <1>4 DEF TimesOut, Crash
    <2>3. Onward
        BY <2>1, <2>2, OnwardFailure
    <2>4. row' = row /\ clobbered' = clobbered
        BY <1>4 DEF TimesOut, Crash
    <2>5. NoNewAnswer
        BY <2>1 DEF NoNewAnswer, Answered, Finishing, Busy, Vanish
    <2>6. RowStays
        BY <1>4, <2>4, <2>5, Zenon DEF RowStays
    <2>7. (~crashed' => ~crashed) /\ (cancel.pc # "idle" => cancel'.pc # "idle" \/ crashed')
        <3>1. CASE TimesOut
            <4>1. crashed' = crashed /\ cancel' = cancel
                BY <3>1 DEF TimesOut
            <4> QED
                BY <4>1, Zenon
        <3>2. CASE Crash
            BY <3>2, Zenon DEF Crash
        <3> QED
            BY <1>4, <3>1, <3>2
    <2> QED
        BY <2>3, <2>6, <2>7, RowKept
<1>5. ASSUME ~clobbered',
             \/ \E k \in JobKinds, ok \in BOOLEAN : JobSettles(k, ok)
             \/ \E status \in {"passed", "failed"} : RunSettles(status)
             \/ OtherRun \/ CancelRead
      PROVE  RowInv'
    <2>1. GoesOn
        BY <1>5, OthersGoOn DEF Flow
    <2>2. Onward
        BY <2>1, OnwardGoesOn
    <2>3. row' = row /\ clobbered' = clobbered /\ crashed' = crashed
        BY <1>5, Zenon DEF JobSettles, RunSettles, OtherRun, CancelRead
    <2>4. cancel' = cancel \/ cancel'.pc = "write"
        <3>1. CASE CancelRead
            BY <3>1 DEF CancelRead
        <3>2. CASE ~CancelRead
            BY <1>5, <3>2, Zenon DEF JobSettles, RunSettles, OtherRun
        <3> QED
            BY <3>1, <3>2
    <2>5. NoNewAnswer
        <3>1. ASSUME NEW g \in Handlers, Answered(g)' PROVE Answered(g)
            <4>1. handler'[g] = handler[g]
                BY <1>5, <3>1, JobSettlesMove
                DEF JobSettles, RunSettles, OtherRun, CancelRead, Answered, Finishing, Keeps,
                    JobKinds, Flow, Typed
            <4> QED
                BY <3>1, <4>1, SMTT(30) DEF Answered, Finishing, Busy
        <3> QED
            BY <3>1 DEF NoNewAnswer
    <2>6. RowStays /\ (~crashed' => ~crashed)
        BY <1>5, <2>3, <2>5, Zenon DEF RowStays
    <2> QED
        BY <2>2, <2>4, <2>6, RowKept
<1>6. CASE ~clobbered' /\ CancelWrite
    <2>1. GoesOn
        BY <1>6, OthersGoOn DEF Flow
    <2>2. /\ row' = [cancel.snap EXCEPT !.status = "cancelled", !.stage = "done"]
          /\ cancel.snap \in Row /\ handler' = handler /\ runs' = runs /\ cancel.pc = "write"
          /\ wf' = wf
        BY <1>6 DEF CancelWrite, UpdateRow, Flow, Typed, TypeOK
    <2>3. row'.status = "cancelled"
        BY <2>2 DEF Row
    <2>4. wf.cancelled
        BY <2>2 DEF Flow, FlowInv
    <2> QED
        BY <2>2, <2>3, <2>4 DEF RowInv, RowPassed, RowNone, RowFinal, RowCancelled
<1>7. CASE ~clobbered' /\ InsertPipeline
    <2>1. row' = [NoRow EXCEPT !.status = "running"] /\ clobbered' = clobbered /\ row.status = "none"
          /\ handler' = handler /\ wf' = wf
        BY <1>7 DEF InsertPipeline
    <2>2. ~clobbered
        BY <1>7, <2>1, Zenon
    <2>3. row'.status = "running"
        BY <2>1, Empties DEF Row
    <2>4. wf.pc = "none" /\ \A h \in Handlers : ~Busy(h)
        BY <2>1, <2>2 DEF RowInv, RowNone, Flow, OneRun
    <2>5. ~wf.cancelled /\ \A h \in Handlers : ~Answered(h)'
        BY <2>1, <2>4 DEF Flow, FlowInv, Answered, Finishing, Busy
    <2> QED
        BY <2>1, <2>3, <2>4, <2>5 DEF RowInv, RowPassed, RowNone, RowFinal, RowCancelled
<1>8. ASSUME ~clobbered', NEW full \in BOOLEAN, NEW autoFix \in BOOLEAN,
             StartWorkflow(full, autoFix)
      PROVE  RowInv'
    <2>1. /\ wf'.pc = "act" /\ ~wf'.cancelled /\ row' = row /\ row.status = "running"
          /\ handler' = handler /\ wf.pc = "none"
        BY <1>8, StartMove DEF StartWorkflow
    <2>2. \A h \in Handlers : ~Answered(h)'
        BY <2>1 DEF Flow, OneRun, Answered, Finishing, Busy
    <2> QED
        BY <2>1, <2>2 DEF RowInv, RowPassed, RowNone, RowFinal, RowCancelled
<1> QED
    BY <1>1, <1>2, <1>3, <1>4, <1>5, <1>6, <1>7, <1>8 DEF Next

-----------------------------------------------------------------------------
(* The count of rounds                                                      *)

LEMMA Fewer ==
    ASSUME NEW S, NEW T, IsFiniteSet(S), T \subseteq S
    PROVE  /\ IsFiniteSet(T) /\ Cardinality(T) <= Cardinality(S)
           /\ Cardinality(T) \in Nat /\ Cardinality(S) \in Nat
BY FS_Subset, FS_CardinalityType

\* A step that uses no iteration and asks for none that a new round does not pay for.
LEMMA RoundsKept ==
    ASSUME Typed, Typed', Rounds, Pending' \subseteq Pending, iters' = iters,
           ~retried' => ~retried, wf'.kind = "fix_apply" => wf'.attempt <= 2,
           wf'.fix = wf.fix + 1 \/ (wf'.fix = wf.fix /\ (Owes' => Owes))
    PROVE  Rounds'
<1>1. iters \in Nat /\ wf.fix \in Nat /\ IsFiniteSet(Pending)
    BY DEF Typed, TypeOK, Workflow, Rounds
<1>2. /\ IsFiniteSet(Pending') /\ Cardinality(Pending') <= Cardinality(Pending)
      /\ Cardinality(Pending') \in Nat /\ Cardinality(Pending) \in Nat
    BY <1>1, Fewer
<1>3. ASSUME ~retried'
      PROVE  (iters + Cardinality(Pending) + (IF Owes THEN 1 ELSE 0) <= wf.fix)'
    <2>1. iters + Cardinality(Pending) + (IF Owes THEN 1 ELSE 0) <= wf.fix
        BY <1>3 DEF Rounds
    <2> HIDE DEF Owes, Pending
    <2> QED
        BY <1>1, <1>2, <2>1
<1> QED
    BY <1>2, <1>3 DEF Rounds

LEMMA RoundsInit == Init => Rounds
<1> SUFFICES ASSUME Init PROVE Rounds
    OBVIOUS
<1>1. Pending = {} /\ ~Owes /\ iters = 0 /\ wf.fix = 0 /\ wf.kind = "run"
    BY DEF Init, Pending, Pends, Owes, NoRequest, NoWorkflow
<1> QED
    BY <1>1, FS_EmptySet DEF Rounds

\* A failed attempt is not asked for as a new one.
LEMMA RoundsFailure ==
    ASSUME Typed, Typed', Rounds, Vanish, iters' = iters, ~retried' => ~retried,
           wf' = wf \/ (wf.pc = "act" /\ wf' = AfterFailure(wf))
    PROVE  Rounds'
<1> DEFINE x == AfterFailure(wf)
<1>1. /\ x.fix = wf.fix
      /\ \/ /\ x.pc = wf.pc /\ x.kind = wf.kind /\ x.attempt = wf.attempt + 1
            /\ wf.kind = "fix_apply" => x.attempt <= 2
         \/ x = [wf EXCEPT !.pc = "closed"]
         \/ x.kind = "finish"
    BY FailureMove DEF Typed, TypeOK
<1>2. x = [wf EXCEPT !.pc = "closed"] =>
          x.kind = wf.kind /\ x.attempt = wf.attempt /\ x.pc = "closed"
    BY DEF Typed, TypeOK, Workflow
<1>3. wf' = wf \/ (wf.pc = "act" /\ wf' = x)
    OBVIOUS
<1> HIDE DEF x
<1>4. Pending' \subseteq Pending
    BY DEF Pending, Pends, Vanish
<1>5. wf'.kind = "fix_apply" => wf'.attempt <= 2
    BY <1>1, <1>2, <1>3 DEF Rounds
<1>6. wf'.fix = wf.fix /\ (Owes' => Owes)
    <2>1. wf.attempt \in Nat /\ wf.attempt # 0
        BY DEF Typed, TypeOK, Workflow
    <2> QED
        BY <1>1, <1>2, <1>3, <2>1 DEF Owes
<1> QED
    BY <1>4, <1>5, <1>6, RoundsKept

LEMMA RoundsSuccess ==
    ASSUME Typed, Typed', Rounds, NEW h \in Handlers, Reply(h), Awaited(wf, handler[h]),
           handler[h].ok
    PROVE  Rounds'
<1> DEFINE x == AfterSuccess(wf, handler[h])
<1>1. \/ /\ wf.kind = "finish" /\ x = [wf EXCEPT !.pc = "closed"]
      \/ /\ wf.kind # "finish" /\ x.attempt = 1
         /\ \/ x.kind = "fix_analyze" /\ x.fix = wf.fix + 1
            \/ x.kind = "finish" /\ x.fix = wf.fix
            \/ /\ x.kind \notin {"finish", "fix_analyze"} /\ x.fix = wf.fix
               /\ x.kind = "fix_apply" => wf.kind = "fix_analyze"
    BY SuccessMove DEF Typed, TypeOK
<1>2. wf.kind = "finish" /\ x = [wf EXCEPT !.pc = "closed"] =>
          x.kind = "finish" /\ x.fix = wf.fix
    BY DEF Typed, TypeOK, Workflow
<1>3. wf' = x /\ wf.pc = "act"
    BY DEF Reply, Awaited
<1> HIDE DEF x
<1>4. Pending' \subseteq Pending
    BY ReplyVanishes DEF Pending, Pends, Vanish
<1>5. iters' = iters /\ (~retried' => ~retried)
    BY Zenon DEF Reply
<1>6. wf'.kind = "fix_apply" => wf'.attempt <= 2
    BY <1>1, <1>2, <1>3
<1>7. wf'.fix = wf.fix + 1 \/ (wf'.fix = wf.fix /\ (Owes' => Owes))
    BY <1>1, <1>2, <1>3 DEF Owes
<1> QED
    BY <1>4, <1>5, <1>6, <1>7, RoundsKept

\* The one step that puts a request up: it is the one the workflow owed.
LEMMA RoundsDeliver ==
    ASSUME Typed, Typed', Rounds, NEW h \in Handlers, Deliver(h)
    PROVE  Rounds'
<1>1. PICK new : Moves(h, new) /\ new.pc = "touch" /\ new.kind = wf.kind
    BY DeliverMove DEF Typed
<1>2. /\ handler'[h] = new /\ handler[h].pc = "idle"
      /\ \A g \in Handlers \ {h} : handler'[g] = handler[g]
    BY <1>1, MovesTyped DEF Typed, Deliver
<1>3. /\ wf.pc = "act" /\ ~wf.sent /\ wf' = [wf EXCEPT !.sent = TRUE] /\ iters' = iters
    BY DEF Deliver
<1>4. wf'.pc = wf.pc /\ wf'.kind = wf.kind /\ wf'.fix = wf.fix /\ wf'.attempt = wf.attempt /\ wf'.sent
    BY <1>3 DEF Typed, TypeOK, Workflow
<1>5. ~retried' => ~retried /\ ~(wf.kind = "fix_apply" /\ wf.attempt = 2)
    BY Zenon DEF Deliver
<1>6. CASE wf.kind # "fix_apply"
    <2>1. Pending' \subseteq Pending
        BY <1>1, <1>2, <1>6 DEF Pending, Pends
    <2>2. Owes' => Owes
        BY <1>3, <1>4, <1>6 DEF Owes
    <2> QED
        BY <1>3, <1>4, <1>5, <1>6, <2>1, <2>2, RoundsKept
<1>7. CASE wf.kind = "fix_apply" /\ retried'
    <2>1. Pending' \subseteq Pending \cup {h}
        BY <1>2 DEF Pending
    <2>2. IsFiniteSet(Pending \cup {h})
        BY FS_AddElement DEF Rounds
    <2>3. IsFiniteSet(Pending')
        BY <2>1, <2>2, FS_Subset
    <2> QED
        BY <1>4, <1>7, <2>3 DEF Rounds
<1>8. CASE wf.kind = "fix_apply" /\ ~retried'
    <2>1. Pending' = Pending \cup {h} /\ h \notin Pending
        BY <1>1, <1>2, <1>8 DEF Pending, Pends
    <2>2. IsFiniteSet(Pending) /\ wf.attempt <= 2
        BY <1>8 DEF Rounds
    <2>3. IsFiniteSet(Pending') /\ Cardinality(Pending') = Cardinality(Pending) + 1
        BY <2>1, <2>2, FS_AddElement
    <2>4. wf.attempt = 1
        BY <1>5, <1>8, <2>2 DEF Typed, TypeOK, Workflow
    <2>5. Owes /\ ~Owes'
        BY <1>3, <1>4, <1>8, <2>4 DEF Owes
    <2>6. iters + Cardinality(Pending) + 1 <= wf.fix
        BY <1>5, <1>8, <2>5 DEF Rounds
    <2>7. Cardinality(Pending) \in Nat /\ iters \in Nat
        BY <2>2, FS_CardinalityType DEF Typed, TypeOK
    <2>8. iters' + Cardinality(Pending') + 0 <= wf'.fix
        BY <1>3, <1>4, <2>3, <2>6, <2>7
    <2> QED
        BY <1>4, <2>2, <2>3, <2>5, <2>8 DEF Rounds
<1> QED
    BY <1>6, <1>7, <1>8

LEMMA RoundsApply ==
    ASSUME Flow, Typed', Rounds, NEW h \in Handlers, AppliesPatches(h), iters' = iters + 1,
           handler' = [handler EXCEPT ![h].pc = "reply"]
    PROVE  Rounds'
<1>1. /\ wf' = wf /\ retried' = retried /\ handler[h].kind = "fix_apply" /\ handler[h].pc = "start"
    BY Zenon DEF AppliesPatches
<1>2. PICK new : Moves(h, new) /\ new.pc = "reply"
    <2>1. "reply" \in HandlerPc /\ TypeOK
        BY DEF HandlerPc, Flow, Typed
    <2> QED
        BY <2>1, PcMove, Zenon
<1>3. /\ handler'[h] = new /\ \A g \in Handlers \ {h} : handler'[g] = handler[g]
    BY <1>2, MovesTyped DEF Flow, Typed
<1>4. Pending' = Pending \ {h} /\ h \in Pending
    BY <1>1, <1>2, <1>3 DEF Pending, Pends
<1>5. IsFiniteSet(Pending)
    BY DEF Rounds
<1>6. IsFiniteSet(Pending') /\ Cardinality(Pending') = Cardinality(Pending) - 1
    BY <1>4, <1>5, FS_RemoveElement
<1>7. Cardinality(Pending) \in Nat /\ iters \in Nat /\ wf.fix \in Nat
    BY <1>5, FS_CardinalityType DEF Flow, Typed, TypeOK, Workflow
<1>8. Owes' <=> Owes
    BY <1>1 DEF Owes
<1>9. ASSUME ~retried'
      PROVE  (iters + Cardinality(Pending) + (IF Owes THEN 1 ELSE 0) <= wf.fix)'
    <2>1. ~retried
        BY <1>1, <1>9, Zenon
    <2>2. iters + Cardinality(Pending) + (IF Owes THEN 1 ELSE 0) <= wf.fix
        BY <2>1 DEF Rounds
    <2> HIDE DEF Owes, Pending
    <2> QED
        BY <1>1, <1>6, <1>7, <1>8, <2>2
<1>10. wf'.kind = "fix_apply" => wf'.attempt <= 2
    BY <1>1 DEF Rounds
<1> QED
    BY <1>6, <1>9, <1>10 DEF Rounds

LEMMA RoundsStep ==
    ASSUME Flow, Flow', Rounds, Next
    PROVE  Rounds'
<1>1. Typed /\ Typed'
    BY DEF Flow
<1>2. ASSUME GoesOn, iters' = iters, ~retried' => ~retried
      PROVE  Rounds'
    <2>1. Pending' \subseteq Pending /\ wf' = wf
        BY <1>2, GoesOnKeeps DEF Flow, GoesOn
    <2>2. Owes' => Owes
        BY <2>1 DEF Owes
    <2>3. wf'.kind = "fix_apply" => wf'.attempt <= 2
        BY <2>1 DEF Rounds
    <2> QED
        BY <1>1, <1>2, <2>1, <2>2, <2>3, RoundsKept
<1>3. ASSUME NEW h \in Handlers, HandlerStep(h) \/ WaiterGivesUp(h)
      PROVE  Rounds'
    <2>1. CASE Reply(h)
        <3>1. Vanish /\ iters' = iters
            BY <1>1, <2>1, ReplyVanishes DEF Reply
        <3>2. ~retried' => ~retried
            BY <2>1, Zenon DEF Reply
        <3>3. CASE Awaited(wf, handler[h]) /\ handler[h].ok
            BY <1>1, <2>1, <3>3, RoundsSuccess
        <3>4. CASE ~(Awaited(wf, handler[h]) /\ handler[h].ok)
            <4>1. wf' = wf \/ (wf.pc = "act" /\ wf' = AfterFailure(wf))
                BY <2>1, <3>4 DEF Reply, Awaited
            <4> QED
                BY <1>1, <3>1, <3>2, <4>1, RoundsFailure
        <3> QED
            BY <3>3, <3>4
    <2>2. CASE Deliver(h)
        BY <1>1, <2>2, RoundsDeliver
    <2>3. CASE /\ AppliesPatches(h) /\ iters' = iters + 1
               /\ handler' = [handler EXCEPT ![h].pc = "reply"]
        BY <1>1, <2>3, RoundsApply
    <2>4. CASE ~Reply(h) /\ ~Deliver(h) /\ ~(/\ AppliesPatches(h) /\ iters' = iters + 1
                                             /\ handler' = [handler EXCEPT ![h].pc = "reply"])
        <3>1. GoesOn /\ retried' = retried
            BY <1>3, <2>4, HandlerGoesOn DEF Flow
        <3>2. iters' = iters
            BY <1>3, <2>4 DEF HandlerStep, WaiterGivesUp, TouchRead, TouchWrite, StartsJob,
                              StartsRun, AppliesPatches, RunSeen, RunIdWrite
        <3>3. ~retried' => ~retried
            BY <3>1, Zenon
        <3> QED
            BY <1>2, <3>1, <3>2, <3>3
    <2> QED
        BY <2>1, <2>2, <2>3, <2>4
<1>4. CASE \/ \E k \in JobKinds, ok \in BOOLEAN : JobSettles(k, ok)
           \/ \E status \in {"passed", "failed"} : RunSettles(status)
           \/ OtherRun \/ InsertPipeline \/ CancelRead \/ CancelWrite
    <2>1. GoesOn /\ iters' = iters /\ retried' = retried
        BY <1>4, OthersGoOn DEF Flow
    <2>2. ~retried' => ~retried
        BY <2>1, Zenon
    <2> QED
        BY <1>2, <2>1, <2>2
<1>5. CASE TimesOut \/ Crash
    <2>1. Vanish /\ iters' = iters
        BY <1>5 DEF TimesOut, Crash, Vanish, NoRequest
    <2>2. wf' = wf \/ (wf.pc = "act" /\ wf' = AfterFailure(wf))
        BY <1>5 DEF TimesOut, Crash
    <2>3. ~retried' => ~retried
        BY <1>5, Zenon DEF TimesOut, Crash
    <2> QED
        BY <1>1, <2>1, <2>2, <2>3, RoundsFailure
<1>6. CASE WorkflowCancelled \/ CancelRequest
    <2>1. /\ wf'.kind = wf.kind /\ wf'.attempt = wf.attempt /\ wf'.fix = wf.fix
          /\ wf'.sent = wf.sent /\ (wf'.pc = wf.pc \/ wf'.pc = "closed")
        BY <1>6, ZenonT(30) DEF WorkflowCancelled, CancelRequest, StopsAtOnce, Flow, Typed, TypeOK, Workflow
    <2>2. Pending' \subseteq Pending /\ iters' = iters
        BY <1>6 DEF WorkflowCancelled, CancelRequest, Pending
    <2>3. ~retried' => ~retried
        BY <1>6, Zenon DEF WorkflowCancelled, CancelRequest
    <2>4. Owes' => Owes
        BY <2>1 DEF Owes
    <2>5. wf'.kind = "fix_apply" => wf'.attempt <= 2
        BY <2>1 DEF Rounds
    <2> QED
        BY <1>1, <2>1, <2>2, <2>3, <2>4, <2>5, RoundsKept
<1>7. ASSUME NEW full \in BOOLEAN, NEW autoFix \in BOOLEAN, StartWorkflow(full, autoFix)
      PROVE  Rounds'
    <2>1. wf'.kind \in {"plan", "run"} /\ wf'.fix = 0 /\ wf.fix = 0
        BY <1>7, StartMove DEF StartWorkflow, Flow, FlowInv
    <2>2. Pending' \subseteq Pending /\ iters' = iters
        BY <1>7 DEF StartWorkflow, Pending
    <2>3. ~retried' => ~retried
        BY <1>7, Zenon DEF StartWorkflow
    <2>4. ~Owes'
        BY <2>1 DEF Owes
    <2> QED
        BY <1>1, <2>1, <2>2, <2>3, <2>4, RoundsKept
<1> QED
    BY <1>3, <1>4, <1>5, <1>6, <1>7 DEF Next

-----------------------------------------------------------------------------
(* The theorems                                                             *)

Inv == Flow /\ RowInv /\ Rounds

LEMMA Initially == Init => Inv
<1>1. Init => RowInv
    <2> SUFFICES ASSUME Init PROVE RowInv
        OBVIOUS
    <2>1. row.status = "none" /\ ~wf.cancelled /\ wf.pc = "none"
        BY DEF Init, NoRow, NoWorkflow
    <2>2. \A h \in Handlers : ~Answered(h)
        BY DEF Init, NoRequest, Answered
    <2> QED
        BY <2>1, <2>2 DEF RowInv, RowPassed, RowNone, RowFinal, RowCancelled
<1> QED
    BY <1>1, FlowInit, RoundsInit DEF Inv

LEMMA Stutters == Inv /\ UNCHANGED vars => Inv'
<1> SUFFICES ASSUME Inv, UNCHANGED vars PROVE Inv'
    OBVIOUS
<1>1. /\ row' = row /\ wf' = wf /\ handler' = handler /\ cancel' = cancel /\ runs' = runs
      /\ slot' = slot /\ jobs' = jobs /\ iters' = iters
    BY DEF vars
<1>2. (~clobbered' => ~clobbered) /\ (~crashed' => ~crashed) /\ (~retried' => ~retried)
    BY Zenon DEF vars
<1>3. \A h \in Handlers : /\ Busy(h)' <=> Busy(h)
                          /\ Running(h)' <=> Running(h)
                          /\ Finishing(h)' <=> Finishing(h)
                          /\ Answered(h)' <=> Answered(h)
    BY <1>1 DEF Busy, Running, Finishing, Answered
<1>4. Typed' /\ RunsInv' /\ FlowInv'
    BY <1>1 DEF Inv, Flow, Typed, TypeOK, RunsNamed, Named, RunsInv, Settled, HasVerdict, FlowInv
<1>5. OneRun' /\ VerdictInv'
    BY <1>1, <1>3 DEF Inv, Flow, OneRun, NotesRun, VerdictInv, HasVerdict
<1>6. RowInv'
    BY <1>1, <1>2, <1>3
    DEF Inv, RowInv, RowPassed, RowNone, RowFinal, RowCancelled, Undisturbed, HasVerdict
<1>7. Rounds'
    <2>1. Pending' \subseteq Pending /\ (Owes' => Owes)
        BY <1>1 DEF Pending, Owes
    <2>2. wf'.kind = "fix_apply" => wf'.attempt <= 2
        BY <1>1 DEF Inv, Rounds
    <2> QED
        BY <1>1, <1>2, <1>4, <2>1, <2>2, RoundsKept DEF Inv, Flow
<1> QED
    BY <1>4, <1>5, <1>6, <1>7 DEF Inv, Flow

LEMMA Always == Spec => []Inv
<1>1. Inv /\ [Next]_vars => Inv'
    <2> SUFFICES ASSUME Inv, [Next]_vars PROVE Inv'
        OBVIOUS
    <2>1. CASE Next
        <3>1. Flow'
            BY <2>1, FlowStep DEF Inv
        <3> QED
            BY <2>1, <3>1, RowStep, RoundsStep DEF Inv
    <2>2. CASE UNCHANGED vars
        BY <2>2, Stutters
    <2> QED
        BY <2>1, <2>2
<1> QED
    BY Initially, <1>1, PTL DEF Spec

\* Every variable of the pipeline keeps its type, whatever requests, retries, mishaps
\* and cancels follow each other.
THEOREM TypesHold == Spec => []TypeOK
<1>1. Inv => TypeOK
    BY DEF Inv, Flow, Typed
<1> QED
    BY <1>1, Always, PTL

\* What the database keeps agrees with the workflow: the row of platform_pipeline_runs
\* is 'passed' only with a run that passed, an undisturbed pipeline's row tells how its
\* last run ended and names it, and applyAllFixPatches used no more iterations than the
\* workflow's own counter (playwrightPlatformWorkflow, TemporalBlockingService).
THEOREM RecordsTell == Spec => []RecordsAgree
<1>1. Inv => RecordsAgree
    <2> SUFFICES ASSUME Inv PROVE OutcomeAgrees /\ RoundsAgree
        BY DEF RecordsAgree
    <2>1. row.status = "passed" /\ ~clobbered => row.run > 0 /\ runs[row.run] = "passed"
        BY DEF Inv, RowInv, RowPassed, HasVerdict, Flow, Typed, TypeOK
    <2>2. ASSUME Quiet, ~clobbered, ~crashed, ~wf.cancelled, ~wf.caught
          PROVE  /\ row.status = (IF runs[wf.run] = "passed" THEN "passed" ELSE "failed")
                 /\ row.run = wf.run
        <3>1. wf.kind = "finish" /\ wf.pc = "closed"
            BY <2>2 DEF Inv, Flow, FlowInv, Quiet
        <3>2. HasVerdict(wf.run, wf.verdict) /\ wf.verdict \in {"passed", "failed"}
            BY <2>2, <3>1 DEF Inv, Flow, VerdictInv, Typed, TypeOK, Workflow
        <3>3. row.status = wf.verdict /\ row.run = wf.run
            BY <2>2, <3>1 DEF Inv, RowInv, RowFinal, Undisturbed
        <3> QED
            BY <3>2, <3>3 DEF HasVerdict
    <2>3. ~retried => iters <= wf.fix
        <3>1. Cardinality(Pending) \in Nat /\ iters \in Nat /\ wf.fix \in Nat
            BY FS_CardinalityType DEF Inv, Rounds, Flow, Typed, TypeOK, Workflow
        <3> HIDE DEF Pending, Owes
        <3> QED
            BY <3>1 DEF Inv, Rounds
    <2> QED
        BY <2>1, <2>2, <2>3 DEF OutcomeAgrees, RoundsAgree
<1> QED
    BY <1>1, Always, PTL

\* A pipeline cancelled during a stage stays cancelled, for every order of the cancel
\* call's own update, the stage's updates and the workflow's end (cancelPipeline).
THEOREM CancelSticks == Spec => []CancelledStays
<1>1. Inv => CancelledStays
    <2> SUFFICES ASSUME Inv, Quiet, ~clobbered, ~crashed, wf.stopped \notin {"none", "finish"}
                 PROVE  row.status = "cancelled"
        BY DEF CancelledStays
    <2>1. wf.cancelled /\ wf.kind # "finish" /\ cancel.pc = "idle"
        BY DEF Inv, Flow, FlowInv, Quiet
    <2> QED
        BY <2>1 DEF Inv, RowInv, RowCancelled, Undisturbed
<1> QED
    BY <1>1, Always, PTL
=============================================================================
