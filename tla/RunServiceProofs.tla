------------------------- MODULE RunServiceProofs -------------------------
(***************************************************************************)
(* Machine-checked theorems about a Playwright run: RunService, for every  *)
(* set of projects, runs and cancel calls and every bound on mishaps, and  *)
(* RunPage, for every finite set of runs and every bound on polls, events  *)
(* and losses.                                                             *)
(***************************************************************************)
EXTENDS RunService, RunPage, FiniteSetTheorems, WellFoundedInduction, TLAPS

USE RunServiceAssumption

\* The values of every variable stay in their sets through every step of
\* startRun, executeRun, cancelProjectRun, the worker and a restart.
LEMMA TypeInit == Init => TypeOK
<1> SUFFICES ASSUME Init
             PROVE  TypeOK
  OBVIOUS
<1>1. IdleCancel \in Cancel
  BY DEF IdleCancel, Cancel, CancelPc
<1>2. canc \in [Cancels -> Cancel]
  BY <1>1 DEF Init
<1>3. /\ startPc \in [Runs -> StartPc]
      /\ exec \in [Runs -> ExecPc]
      /\ verdict \in [Runs -> {"none"} \cup Terminal]
  BY DEF Init, StartPc, ExecPc
<1>4. /\ signal \in [Runs -> Controller]
      /\ log \in [Runs -> Summary]
      /\ worker \in [Runs -> Worker]
  BY DEF Init, Controller, Summary, Worker
<1>5. /\ row \in [Runs -> RowStatus]
      /\ job \in [Runs -> JobStatus]
      /\ stage \in [Projects -> Stage]
  BY DEF Init, RowStatus, JobStatus, Stage
<1>6. /\ active \in [Projects -> Runs \cup {NoRun}]
      /\ cancelled \in BOOLEAN
      /\ abort \in Controller
      /\ mishaps \in Nat
      /\ raced \subseteq Projects
  BY DEF Init, Controller
<1> QED
  BY <1>2, <1>3, <1>4, <1>5, <1>6 DEF TypeOK

LEMMA StartTyped ==
  ASSUME TypeOK, NEW r \in Runs,
         StartCheck(r) \/ StartRefused(r) \/ StartStep(r) \/ StartThrows(r)
  PROVE  TypeOK'
<1> USE DEF TypeOK, StartPc, Window, ExecPc, LivePc, Controller, execVars, dbVars,
            serviceVars
<1>1. CASE StartCheck(r)
  BY <1>1 DEF StartCheck
<1>2. CASE StartRefused(r)
  BY <1>2 DEF StartRefused
<1>3. CASE InsertJob(r)
  BY <1>3 DEF InsertJob, JobStatus
<1>4. CASE InsertRun(r)
  BY <1>4 DEF InsertRun, RowStatus
<1>5. CASE StageRunning(r)
  BY <1>5 DEF StageRunning, Stage
<1>6. CASE Launch(r)
  BY <1>6 DEF Launch
<1>7. CASE StartThrows(r)
  BY <1>7 DEF StartThrows
<1> QED
  BY <1>1, <1>2, <1>3, <1>4, <1>5, <1>6, <1>7 DEF StartStep

\* The status a stream ends with, and what finalizeRun makes of it.
LEMMA VerdictTyped ==
  ASSUME TypeOK, NEW code \in BOOLEAN, NEW summary \in Summary
  PROVE  /\ StreamVerdict(code, summary) \in Terminal
         /\ ErrorVerdict(summary) \in Terminal
BY DEF TypeOK, StreamVerdict, ErrorVerdict, Terminal

LEMMA FinalizeTyped ==
  ASSUME TypeOK, NEW pc, NEW r \in Runs, NEW status \in Terminal,
         FinalizeEffect(pc, r, status)
  PROVE  /\ row' \in [Runs -> RowStatus]
         /\ job' \in [Runs -> JobStatus]
         /\ stage' \in [Projects -> Stage]
         /\ active' \in [Projects -> Runs \cup {NoRun}]
         /\ cancelled' \in BOOLEAN
         /\ abort' \in Controller
<1> USE DEF TypeOK, FinalizeEffect, dbVars
<1>1. row' \in [Runs -> RowStatus]
  BY DEF RowStatus
<1>2. job' \in [Runs -> JobStatus]
  BY DEF JobStatus, JobFor, Terminal
<1>3. stage' \in [Projects -> Stage]
  BY DEF Stage, StageFor
<1>4. /\ active' \in [Projects -> Runs \cup {NoRun}]
      /\ cancelled' \in BOOLEAN
      /\ abort' \in Controller
  BY DEF SlotAfterRelease, Controller
<1> QED
  BY <1>1, <1>2, <1>3, <1>4

LEMMA NextFinalizeTyped ==
  ASSUME NEW pc \in Finalize, NEW last
  PROVE  NextFinalize(pc, last) \in Finalize \cup {last}
BY DEF Finalize, NextFinalize

\* While executeRun is in finalizeRun it carries the status to record.
Settling == \A r \in Runs : exec[r] \in Finalize => verdict[r] \in Terminal

LEMMA ExecTyped ==
  ASSUME TypeOK, Settling, NEW r \in Runs,
         StreamFails(r) \/ ExecStep(r) \/ ExecThrows(r)
  PROVE  TypeOK' /\ Settling'
<1>1. CASE Fetch(r)
  BY <1>1 DEF Fetch, TypeOK, Settling, ExecPc, LivePc, Finalize, Worker, dbVars,
     serviceVars
<1>2. CASE \E status \in Terminal, left \in Worker : BeginFinalize(r, status, left)
  BY <1>2 DEF BeginFinalize, TypeOK, Settling, ExecPc, LivePc, Finalize, Worker,
     Controller, Summary, dbVars, serviceVars
<1>3. CASE ReceiveFinished(r) \/ StreamEnds(r) \/ StreamFails(r) \/ StreamAborted(r)
              \/ StreamTimesOut(r)
  <2>1. /\ log[r] \in Summary
        /\ "running" \in Worker /\ "timedOut" \in Worker /\ "gone" \in Worker
    BY DEF TypeOK, Worker
  <2>2. \E status \in Terminal, left \in Worker : BeginFinalize(r, status, left)
    BY <1>3, <2>1, VerdictTyped DEF ReceiveFinished, StreamEnds, StreamFails,
       StreamAborted, StreamTimesOut
  <2> QED
    BY <1>2, <2>2
<1>4. CASE ExecFinalize(r)
  <2>1. /\ exec[r] \in Finalize
        /\ verdict[r] \in Terminal
        /\ NextFinalize(exec[r], "done") \in Finalize \cup {"done"}
    BY <1>4, NextFinalizeTyped DEF ExecFinalize, Settling
  <2>2. exec[r] # "release" => NextFinalize(exec[r], "done") \in Finalize
    BY <2>1 DEF Finalize, NextFinalize
  <2>3. exec[r] = "release" => NextFinalize(exec[r], "done") = "done"
    BY DEF NextFinalize
  <2>4. /\ row' \in [Runs -> RowStatus]
        /\ job' \in [Runs -> JobStatus]
        /\ stage' \in [Projects -> Stage]
        /\ active' \in [Projects -> Runs \cup {NoRun}]
        /\ cancelled' \in BOOLEAN
        /\ abort' \in Controller
    BY <1>4, <2>1, FinalizeTyped DEF ExecFinalize
  <2>5. exec' \in [Runs -> ExecPc] /\ verdict' \in [Runs -> {"none"} \cup Terminal]
    BY <1>4, <2>1 DEF ExecFinalize, TypeOK, ExecPc, LivePc
  <2>6. Settling'
    BY <1>4, <2>1, <2>2, <2>3 DEF ExecFinalize, Settling, TypeOK, Finalize
  <2> QED
    BY <1>4, <2>4, <2>5, <2>6 DEF ExecFinalize, TypeOK
<1>5. CASE ExecThrows(r)
  BY <1>5 DEF ExecThrows, TypeOK, Settling, ExecPc, Finalize, dbVars, serviceVars
<1> QED
  BY <1>1, <1>3, <1>4, <1>5 DEF ExecStep

LEMMA CancelTyped ==
  ASSUME TypeOK, Settling, NEW c \in Cancels,
         (\E r \in Runs : CancelRead(c, r)) \/ CancelStep(c) \/ CancelThrows(c),
         canc[c].pc # "idle" => canc[c].run \in Runs
  PROVE  TypeOK' /\ Settling'
<1> USE DEF TypeOK, Settling, execVars, dbVars, serviceVars
<1>0. /\ canc[c] \in Cancel
      /\ \A pc \in CancelPc : [canc[c] EXCEPT !.pc = pc] \in Cancel
  BY DEF Cancel
<1>1. ASSUME NEW r \in Runs, CancelRead(c, r)
      PROVE  TypeOK' /\ Settling'
  <2>1. [pc |-> "read", run |-> r, owns |-> FALSE] \in Cancel
    BY DEF Cancel, CancelPc
  <2> QED
    BY <1>1, <2>1 DEF CancelRead
<1>2. CASE CancelCheck(c)
  <2>0. OwnsStream(canc[c].run) \in BOOLEAN
    BY DEF OwnsStream
  <2>3. canc[c].run \in Runs \cup {NoRun}
    BY DEF Cancel
  <2>4. [pc |-> "posting", run |-> canc[c].run, owns |-> OwnsStream(canc[c].run)]
          \in Cancel
    BY <2>0, <2>3 DEF Cancel, CancelPc
  <2>1. canc' \in [Cancels -> Cancel]
    BY <1>2, <2>4 DEF CancelCheck
  <2>2. raced' \subseteq Projects
    BY <1>2 DEF CancelCheck
  <2> QED
    BY <1>2, <2>1, <2>2 DEF CancelCheck
<1>3. CASE CancelPost(c)
  <2>1. canc' \in [Cancels -> Cancel]
    BY <1>3 DEF CancelPost, Cancel, CancelPc
  <2>2. worker' \in [Runs -> Worker]
    BY <1>3 DEF CancelPost, Worker, Leaves
  <2> QED
    BY <1>3, <2>1, <2>2 DEF CancelPost
<1>4. CASE CancelReturn(c)
  <2>1. canc' \in [Cancels -> Cancel]
    BY <1>4 DEF CancelReturn, Cancel, CancelPc, Finalize
  <2>2. /\ abort' \in Controller /\ cancelled' \in BOOLEAN
        /\ signal' \in [Runs -> Controller]
    BY <1>4 DEF CancelReturn, Controller
  <2> QED
    BY <1>4, <2>1, <2>2 DEF CancelReturn
<1>5. CASE CancelFinalize(c)
  <2>1. /\ NextFinalize(canc[c].pc, "done") \in CancelPc
        /\ "cancelled" \in Terminal
    BY <1>5, NextFinalizeTyped DEF CancelFinalize, CancelPc, Terminal
  <2>2. canc' \in [Cancels -> Cancel]
    BY <1>0, <1>5, <2>1 DEF CancelFinalize
  <2>3. canc[c].run \in Runs
    BY <1>5 DEF CancelFinalize, Finalize
  <2>4. /\ row' \in [Runs -> RowStatus]
        /\ job' \in [Runs -> JobStatus]
        /\ stage' \in [Projects -> Stage]
        /\ active' \in [Projects -> Runs \cup {NoRun}]
        /\ cancelled' \in BOOLEAN
        /\ abort' \in Controller
    BY <1>5, <2>1, <2>3, FinalizeTyped DEF CancelFinalize
  <2> QED
    BY <1>5, <2>2, <2>4 DEF CancelFinalize
<1>6. CASE CancelThrows(c)
  <2>1. canc' \in [Cancels -> Cancel]
    BY <1>0, <1>6 DEF CancelThrows, CancelPc
  <2> QED
    BY <1>6, <2>1 DEF CancelThrows
<1> QED
  BY <1>1, <1>2, <1>3, <1>4, <1>5, <1>6 DEF CancelStep

LEMMA WorkerTyped ==
  ASSUME TypeOK, NEW r \in Runs, WorkerStep(r)
  PROVE  TypeOK'
<1> USE DEF TypeOK, execVars, dbVars, serviceVars
<1>1. ASSUME NEW s \in {"clean", "failing"}, PytestSummary(r, s)
      PROVE  TypeOK'
  BY <1>1 DEF PytestSummary, Summary
<1>2. ASSUME NEW how \in {"exit0", "exit1", "lost"}, PytestExit(r, how)
      PROVE  TypeOK'
  BY <1>2 DEF PytestExit, Leaves, Worker
<1> QED
  BY <1>1, <1>2 DEF WorkerStep

LEMMA CrashTyped ==
  ASSUME TypeOK, Crash
  PROVE  TypeOK' /\ Settling'
<1> USE DEF Crash, TypeOK
<1>1. /\ startPc' \in [Runs -> StartPc]
      /\ exec' \in [Runs -> ExecPc]
      /\ verdict' \in [Runs -> {"none"} \cup Terminal]
  BY DEF StartPc, ExecPc
<1>2. /\ signal' \in [Runs -> Controller]
      /\ log' \in [Runs -> Summary]
      /\ worker' \in [Runs -> Worker]
      /\ abort' \in Controller
  BY DEF Controller, Summary, Worker
<1>3. \A c \in Cancels : [canc[c] EXCEPT !.pc = "done"] \in Cancel /\ IdleCancel \in Cancel
  BY DEF Cancel, CancelPc, IdleCancel
<1>4. canc' \in [Cancels -> Cancel]
  <2>1. \A c \in Cancels : (IF canc[c].pc = "idle" THEN IdleCancel
                            ELSE [canc[c] EXCEPT !.pc = "done"]) \in Cancel
    BY <1>3
  <2>2. canc' = [c \in Cancels |-> IF canc[c].pc = "idle" THEN IdleCancel
                                   ELSE [canc[c] EXCEPT !.pc = "done"]]
    OBVIOUS
  <2> HIDE DEF Crash, TypeOK
  <2> QED
    BY <2>1, <2>2
<1>5. Settling'
  BY DEF Settling, LivePc, Finalize
<1>6. /\ row' \in [Runs -> RowStatus]
      /\ job' \in [Runs -> JobStatus]
      /\ stage' \in [Projects -> Stage]
      /\ raced' \subseteq Projects
  BY DEF dbVars
<1>7. /\ active' \in [Projects -> Runs \cup {NoRun}]
      /\ cancelled' \in BOOLEAN
  OBVIOUS
<1>8. mishaps' \in Nat
  OBVIOUS
<1>9. TypeOK'
  <2> HIDE DEF Crash
  <2> QED
    BY <1>1, <1>2, <1>4, <1>6, <1>7, <1>8
<1> QED
  BY <1>5, <1>9

\* A cancelProjectRun call that has begun names the run it read.
Targeted == \A c \in Cancels : canc[c].pc # "idle" => canc[c].run \in Runs

LEMMA TargetedStep ==
  ASSUME TypeOK, Targeted, [Next]_vars
  PROVE  Targeted'
<1> USE DEF Targeted, TypeOK
<1>1. CASE UNCHANGED canc
  BY <1>1
<1>2. ASSUME NEW c \in Cancels, NEW r \in Runs, CancelRead(c, r)
      PROVE  Targeted'
  BY <1>2 DEF CancelRead
<1>3. ASSUME NEW c \in Cancels, CancelStep(c) \/ CancelThrows(c)
      PROVE  Targeted'
  <2>1. canc[c].pc # "idle"
    BY <1>3 DEF CancelStep, CancelCheck, CancelPost, CancelReturn, CancelFinalize,
       CancelThrows, Finalize
  <2>2. \E pc \in CancelPc : \/ canc' = [canc EXCEPT ![c].pc = pc]
                             \/ \E b : canc' = [canc EXCEPT ![c] =
                                    [pc |-> pc, run |-> canc[c].run, owns |-> b]]
    <3>1. CASE CancelCheck(c)
      BY <3>1 DEF CancelCheck, CancelPc
    <3>2. CASE CancelPost(c) \/ CancelReturn(c)
      BY <3>2 DEF CancelPost, CancelReturn, CancelPc, Finalize
    <3>3. CASE CancelFinalize(c)
      BY <3>3, NextFinalizeTyped DEF CancelFinalize, CancelPc
    <3>4. CASE CancelThrows(c)
      BY <3>4 DEF CancelThrows, CancelPc
    <3> QED
      BY <1>3, <3>1, <3>2, <3>3, <3>4 DEF CancelStep
  <2>3. \A d \in Cancels : canc'[d].run = canc[d].run
    BY <2>2 DEF Cancel
  <2>4. \A d \in Cancels : d # c => canc'[d] = canc[d]
    BY <2>2
  <2> QED
    BY <2>1, <2>3, <2>4
<1>4. CASE Crash
  BY <1>4 DEF Crash, Cancel, IdleCancel
<1>5. ASSUME NEW r \in Runs,
             \/ StartCheck(r) \/ StartRefused(r) \/ StartStep(r) \/ StartThrows(r)
             \/ StreamFails(r) \/ ExecStep(r) \/ ExecThrows(r) \/ WorkerStep(r)
      PROVE  UNCHANGED canc
  BY <1>5 DEF StartCheck, StartRefused, StartStep, InsertJob, InsertRun,
     StageRunning, Launch, StartThrows, StreamFails, ExecStep, Fetch,
     ReceiveFinished, StreamEnds, StreamAborted, StreamTimesOut, BeginFinalize,
     ExecFinalize, ExecThrows, WorkerStep, PytestSummary, PytestExit
<1>6. CASE UNCHANGED vars
  BY <1>6 DEF vars
<1> QED
  BY <1>1, <1>2, <1>3, <1>4, <1>5, <1>6 DEF Next

\* What every later invariant relies on: types, and the frames of finalizeRun
\* and cancelProjectRun being well-formed.
Base == TypeOK /\ Settling /\ Targeted

LEMMA BaseInit == Init => Base
BY TypeInit DEF Init, Base, Settling, Targeted, Finalize, IdleCancel

LEMMA BaseStep == Base /\ [Next]_vars => Base'
<1> SUFFICES ASSUME TypeOK, Settling, Targeted, [Next]_vars
             PROVE  TypeOK' /\ Settling' /\ Targeted'
  BY DEF Base
<1>1. Targeted'
  BY TargetedStep
<1>2. ASSUME NEW r \in Runs,
             StartCheck(r) \/ StartRefused(r) \/ StartStep(r) \/ StartThrows(r)
      PROVE  TypeOK' /\ Settling'
  <2>1. /\ UNCHANGED verdict
        /\ UNCHANGED exec \/ exec' = [exec EXCEPT ![r] = "env"]
    BY <1>2 DEF StartCheck, StartRefused, StartStep, InsertJob, InsertRun,
       StageRunning, Launch, StartThrows, execVars
  <2>2. Settling'
    BY <2>1 DEF Settling, TypeOK, Finalize
  <2> QED
    BY <1>2, <2>2, StartTyped
<1>3. ASSUME NEW r \in Runs, StreamFails(r) \/ ExecStep(r) \/ ExecThrows(r)
      PROVE  TypeOK' /\ Settling'
  BY <1>3, ExecTyped
<1>4. ASSUME NEW r \in Runs, WorkerStep(r)
      PROVE  TypeOK' /\ Settling'
  BY <1>4, WorkerTyped DEF WorkerStep, PytestSummary, PytestExit, Settling, execVars
<1>5. ASSUME NEW c \in Cancels,
             (\E r \in Runs : CancelRead(c, r)) \/ CancelStep(c) \/ CancelThrows(c)
      PROVE  TypeOK' /\ Settling'
  BY <1>5, CancelTyped DEF Targeted
<1>6. CASE Crash
  BY <1>1, <1>6, CrashTyped
<1>7. CASE UNCHANGED vars
  BY <1>1, <1>7 DEF vars, TypeOK, Settling, execVars, dbVars, serviceVars
<1> QED
  BY <1>1, <1>2, <1>3, <1>4, <1>5, <1>6, <1>7 DEF Next

\* Every variable keeps its type in every reachable state.
THEOREM TypeCorrect == Spec => []TypeOK
<1>1. Spec => []Base
  BY BaseInit, BaseStep, PTL DEF Spec
<1>2. Base => TypeOK
  BY DEF Base
<1> QED
  BY <1>1, <1>2, PTL

-----------------------------------------------------------------------------
(* The slot: who holds activeRunsByProject.                                *)

\* A project's entry names one of its own runs, and that run's executor is at
\* work or died with an exception: only finalizeRun's last step, which deletes
\* the entry, ends an executor normally, and a restart empties the map.
LEMMA SlotHasOwnerInit == Init => SlotHasOwner
BY DEF Init, SlotHasOwner

LEMMA SlotHasOwnerStep ==
  ASSUME Base, SlotHasOwner, [Next]_vars
  PROVE  SlotHasOwner'
<1> USE DEF Base, TypeOK, SlotHasOwner, RunsOf
<1>1. ASSUME NEW r \in Runs, Launch(r)
      PROVE  SlotHasOwner'
  BY <1>1 DEF Launch, LivePc
<1>2. ASSUME NEW r \in Runs, ExecFinalize(r)
      PROVE  SlotHasOwner'
  <2>1. CASE exec[r] = "release"
    <3>1. /\ active' = [active EXCEPT ![ProjectOf[r]] = NoRun]
          /\ \A q \in Runs : q # r => exec'[q] = exec[q]
      BY <1>2, <2>1 DEF ExecFinalize, FinalizeEffect, SlotAfterRelease
    <3>2. \A p \in Projects : active'[p] # NoRun => active'[p] = active[p] /\ active[p] # r
      BY <3>1
    <3> QED
      BY <3>1, <3>2
  <2>2. CASE exec[r] # "release"
    <3>1. /\ UNCHANGED active
          /\ exec' = [exec EXCEPT ![r] = NextFinalize(exec[r], "done")]
          /\ exec[r] \in Finalize
      BY <1>2, <2>2 DEF ExecFinalize, FinalizeEffect
    <3>2. NextFinalize(exec[r], "done") \in Finalize
      BY <2>2, <3>1 DEF NextFinalize, Finalize
    <3> QED
      BY <3>1, <3>2 DEF LivePc
  <2> QED
    BY <2>1, <2>2
<1>3. ASSUME NEW c \in Cancels, CancelFinalize(c)
      PROVE  SlotHasOwner'
  <2>1. canc[c].run \in Runs
    BY <1>3 DEF CancelFinalize, Finalize, Targeted
  <2>2. /\ UNCHANGED exec
        /\ UNCHANGED active \/ active' = [active EXCEPT ![ProjectOf[canc[c].run]] = NoRun]
    BY <1>3 DEF CancelFinalize, FinalizeEffect, SlotAfterRelease, execVars
  <2> QED
    BY <2>1, <2>2
<1>4. CASE Crash
  BY <1>4 DEF Crash
<1>5. ASSUME UNCHANGED active,
             \A q \in Runs : exec[q] \in LivePc \cup {"threw"} => exec'[q] \in LivePc \cup {"threw"}
      PROVE  SlotHasOwner'
  BY <1>5
<1>6. ASSUME NEW r \in Runs,
             \/ StartCheck(r) \/ StartRefused(r) \/ InsertJob(r) \/ InsertRun(r)
             \/ StageRunning(r) \/ StartThrows(r) \/ WorkerStep(r)
      PROVE  SlotHasOwner'
  BY <1>5, <1>6 DEF StartCheck, StartRefused, InsertJob, InsertRun, StageRunning,
     StartThrows, WorkerStep, PytestSummary, PytestExit, execVars, serviceVars
<1>7. ASSUME NEW r \in Runs,
             \/ Fetch(r) \/ ReceiveFinished(r) \/ StreamEnds(r) \/ StreamFails(r)
             \/ StreamAborted(r) \/ StreamTimesOut(r) \/ ExecThrows(r)
      PROVE  SlotHasOwner'
  BY <1>5, <1>7 DEF Fetch, ReceiveFinished, StreamEnds, StreamFails, StreamAborted,
     StreamTimesOut, BeginFinalize, ExecThrows, LivePc, Finalize, serviceVars
<1>8. ASSUME NEW c \in Cancels,
             \/ \E r \in Runs : CancelRead(c, r)
             \/ CancelCheck(c) \/ CancelPost(c) \/ CancelReturn(c) \/ CancelThrows(c)
      PROVE  SlotHasOwner'
  BY <1>5, <1>8 DEF CancelRead, CancelCheck, CancelPost, CancelReturn, CancelThrows,
     execVars, serviceVars
<1>9. CASE UNCHANGED vars
  BY <1>5, <1>9 DEF vars, execVars, serviceVars
<1> QED
  BY <1>1, <1>2, <1>3, <1>4, <1>6, <1>7, <1>8, <1>9 DEF Next, StartStep, ExecStep,
     CancelStep

\* A 409 always has a live or crashed executor behind it.
THEOREM SlotOwned == Spec => []SlotHasOwner
<1>1. Base /\ SlotHasOwner /\ [Next]_vars => (Base /\ SlotHasOwner)'
  BY BaseStep, SlotHasOwnerStep
<1> QED
  BY BaseInit, SlotHasOwnerInit, <1>1, PTL DEF Spec

-----------------------------------------------------------------------------
(* Seriality.  Where no two starts overlapped and no cancel finalized a    *)
(* foreign run, the map entry is the only thing a project needs.           *)

\* A cancel call that will finalize the run itself, because it saw no entry.
Unowned(c) == \/ canc[c].pc \in Finalize
              \/ canc[c].pc \in {"posting", "posted"} /\ ~canc[c].owns

OwnersHoldSlot ==
    \A r \in Runs : Live(r) /\ ProjectOf[r] \notin raced => active[ProjectOf[r]] = r

StartersFindFree ==
    \A r \in Runs : startPc[r] \in Window /\ ProjectOf[r] \notin raced =>
        active[ProjectOf[r]] = NoRun

OneStarter ==
    \A r, q \in Runs :
        /\ ProjectOf[r] = ProjectOf[q] /\ ProjectOf[r] \notin raced
        /\ startPc[r] \in Window /\ startPc[q] \in Window
        => r = q

ForeignCancelsRace ==
    \A c \in Cancels : Unowned(c) => ProjectOf[canc[c].run] \in raced

SerialInv == OwnersHoldSlot /\ StartersFindFree /\ OneStarter /\ ForeignCancelsRace

\* A step that lets nobody in, takes no entry and changes no cancel call.
LEMMA SerialFrame ==
  ASSUME Base, SerialInv, raced \subseteq raced',
         UNCHANGED active,
         \A r \in Runs : Live(r)' => Live(r),
         \A r \in Runs : startPc'[r] \in Window => startPc[r] \in Window,
         \A c \in Cancels : Unowned(c)' /\ ~Unowned(c) =>
                                ProjectOf[canc'[c].run] \in raced',
         \A c \in Cancels : Unowned(c) => canc'[c].run = canc[c].run
  PROVE  SerialInv'
BY DEF SerialInv, OwnersHoldSlot, StartersFindFree, OneStarter, ForeignCancelsRace

LEMMA SerialStart ==
  ASSUME Base, SerialInv, NEW r \in Runs,
         StartCheck(r) \/ StartRefused(r) \/ StartStep(r) \/ StartThrows(r)
  PROVE  SerialInv'
<1> USE DEF Base, TypeOK
<1>1. CASE StartCheck(r)
  <2>1. /\ active[ProjectOf[r]] = NoRun
        /\ UNCHANGED <<active, exec, canc>>
        /\ startPc' = [startPc EXCEPT ![r] = "checked"]
        /\ raced \subseteq raced'
    BY <1>1 DEF StartCheck, SlotFree, execVars, serviceVars
  <2>2. ASSUME NEW q \in Runs, ProjectOf[q] = ProjectOf[r], startPc[q] \in Window
        PROVE  ProjectOf[r] \in raced'
    BY <1>1, <2>2 DEF StartCheck, RunsOf
  <2>3. OwnersHoldSlot' /\ StartersFindFree'
    BY <2>1 DEF SerialInv, OwnersHoldSlot, StartersFindFree, Live
  <2>4. OneStarter'
    BY <2>1, <2>2 DEF SerialInv, OneStarter
  <2>5. ForeignCancelsRace'
    BY <2>1 DEF SerialInv, ForeignCancelsRace, Unowned
  <2> QED
    BY <2>3, <2>4, <2>5 DEF SerialInv
<1>2. CASE StartRefused(r) \/ InsertJob(r) \/ InsertRun(r) \/ StageRunning(r) \/ StartThrows(r)
  <2>1. /\ UNCHANGED <<active, exec, canc, raced>>
        /\ \E pc \in StartPc : startPc' = [startPc EXCEPT ![r] = pc]
        /\ startPc'[r] \in Window => startPc[r] \in Window
    BY <1>2 DEF StartRefused, InsertJob, InsertRun, StageRunning, StartThrows,
       Window, StartPc, execVars, serviceVars
  <2>2. \A q \in Runs : startPc'[q] \in Window => startPc[q] \in Window
    BY <2>1
  <2> QED
    BY <2>1, <2>2, SerialFrame DEF Live, Unowned
<1>3. CASE Launch(r)
  <2>1. /\ startPc[r] \in Window
        /\ startPc' = [startPc EXCEPT ![r] = "done"]
        /\ active' = [active EXCEPT ![ProjectOf[r]] = r]
        /\ exec' = [exec EXCEPT ![r] = "env"]
        /\ UNCHANGED <<canc, raced>>
    BY <1>3 DEF Launch, Window
  <2>2. \A q \in Runs : ProjectOf[q] = ProjectOf[r] /\ ProjectOf[r] \notin raced =>
            ~Live(q) /\ (startPc[q] \in Window => q = r)
    BY <2>1 DEF SerialInv, OwnersHoldSlot, StartersFindFree, OneStarter
  <2>3. OwnersHoldSlot'
    BY <2>1, <2>2 DEF SerialInv, OwnersHoldSlot, Live
  <2>4. StartersFindFree' /\ OneStarter'
    BY <2>1, <2>2 DEF SerialInv, StartersFindFree, OneStarter, Window
  <2>5. ForeignCancelsRace'
    BY <2>1 DEF SerialInv, ForeignCancelsRace, Unowned
  <2> QED
    BY <2>3, <2>4, <2>5 DEF SerialInv
<1> QED
  BY <1>1, <1>2, <1>3 DEF StartStep

LEMMA SerialExec ==
  ASSUME Base, SerialInv, NEW r \in Runs,
         StreamFails(r) \/ ExecStep(r) \/ ExecThrows(r)
  PROVE  SerialInv'
<1> USE DEF Base, TypeOK
<1>1. CASE ExecFinalize(r) /\ exec[r] = "release"
  <2>1. /\ active' = [active EXCEPT ![ProjectOf[r]] = NoRun]
        /\ exec' = [exec EXCEPT ![r] = "done"]
        /\ UNCHANGED <<startPc, canc, raced>>
    BY <1>1 DEF ExecFinalize, FinalizeEffect, SlotAfterRelease, NextFinalize
  <2>2. Live(r)
    BY <1>1 DEF Live, LivePc, Finalize
  <2>3. OwnersHoldSlot'
    <3> SUFFICES ASSUME NEW q \in Runs, Live(q)', ProjectOf[q] \notin raced
                 PROVE  active'[ProjectOf[q]] = q
      BY <2>1 DEF OwnersHoldSlot
    <3>1. q # r /\ Live(q)
      BY <2>1 DEF Live, LivePc, Finalize
    <3>2. active[ProjectOf[q]] = q /\ (ProjectOf[q] = ProjectOf[r] => active[ProjectOf[q]] = r)
      BY <2>2, <3>1 DEF SerialInv, OwnersHoldSlot
    <3> QED
      BY <2>1, <3>1, <3>2
  <2>4. StartersFindFree' /\ OneStarter' /\ ForeignCancelsRace'
    BY <2>1 DEF SerialInv, StartersFindFree, OneStarter, ForeignCancelsRace, Unowned
  <2> QED
    BY <2>3, <2>4 DEF SerialInv
<1>2. CASE \/ Fetch(r) \/ ReceiveFinished(r) \/ StreamEnds(r) \/ StreamFails(r)
           \/ StreamAborted(r) \/ StreamTimesOut(r) \/ ExecThrows(r)
           \/ ExecFinalize(r) /\ exec[r] # "release"
  <2>1. /\ UNCHANGED <<active, startPc, canc, raced>>
        /\ exec[r] \in LivePc
        /\ \E pc \in ExecPc : exec' = [exec EXCEPT ![r] = pc]
    <3>1. ExecFinalize(r) => NextFinalize(exec[r], "done") \in ExecPc
      BY NextFinalizeTyped DEF ExecFinalize, ExecPc, LivePc
    <3> QED
      BY <1>2, <3>1 DEF Fetch, ReceiveFinished, StreamEnds, StreamFails,
         StreamAborted, StreamTimesOut, BeginFinalize, ExecThrows, ExecFinalize,
         FinalizeEffect, ExecPc, LivePc, Finalize, serviceVars
  <2>2. \A q \in Runs : Live(q)' => Live(q)
    BY <2>1 DEF Live
  <2> QED
    BY <2>1, <2>2, SerialFrame DEF Unowned
<1> QED
  BY <1>1, <1>2 DEF ExecStep

LEMMA SerialCancel ==
  ASSUME Base, SerialInv, NEW c \in Cancels,
         (\E r \in Runs : CancelRead(c, r)) \/ CancelStep(c) \/ CancelThrows(c)
  PROVE  SerialInv'
<1> USE DEF Base, TypeOK
<1>1. CASE CancelFinalize(c)
  <2> DEFINE run == canc[c].run
  <2>1. /\ run \in Runs
        /\ ProjectOf[run] \in raced
    BY <1>1 DEF CancelFinalize, Targeted, SerialInv, ForeignCancelsRace, Unowned, Finalize
  <2>2. /\ UNCHANGED <<startPc, exec, raced>>
        /\ UNCHANGED active \/ active' = [active EXCEPT ![ProjectOf[run]] = NoRun]
    BY <1>1 DEF CancelFinalize, FinalizeEffect, SlotAfterRelease, execVars
  <2>3. \A d \in Cancels : Unowned(d)' => Unowned(d) /\ canc'[d].run = canc[d].run
    BY <1>1 DEF CancelFinalize, Unowned, Cancel
  <2>4. OwnersHoldSlot' /\ StartersFindFree'
    BY <2>1, <2>2 DEF SerialInv, OwnersHoldSlot, StartersFindFree, Live
  <2>5. OneStarter' /\ ForeignCancelsRace'
    BY <2>2, <2>3 DEF SerialInv, OneStarter, ForeignCancelsRace
  <2> QED
    BY <2>4, <2>5 DEF SerialInv
<1>2. CASE CancelCheck(c)
  <2> DEFINE run == canc[c].run
  <2>1. /\ run \in Runs
        /\ UNCHANGED <<active, startPc, exec>>
        /\ raced \subseteq raced'
        /\ active[ProjectOf[run]] # run => ProjectOf[run] \in raced'
    BY <1>2 DEF CancelCheck, Targeted, execVars, serviceVars
  <2>2. /\ \A d \in Cancels \ {c} : canc'[d] = canc[d]
        /\ canc'[c].run = run /\ canc'[c].pc = "posting"
        /\ canc'[c].owns = OwnsStream(run)
    BY <1>2 DEF CancelCheck
  <2>3. Unowned(c)' => active[ProjectOf[run]] # run
    BY <2>2 DEF Unowned, OwnsStream, Finalize
  <2> QED
    BY <2>1, <2>2, <2>3, SerialFrame DEF Live, Unowned
<1>3. CASE (\E r \in Runs : CancelRead(c, r)) \/ CancelPost(c) \/ CancelReturn(c) \/ CancelThrows(c)
  <2>1. UNCHANGED <<active, startPc, exec, raced>>
    BY <1>3 DEF CancelRead, CancelPost, CancelReturn, CancelThrows, execVars, serviceVars
  <2>2. \A d \in Cancels : Unowned(d)' => Unowned(d) /\ canc'[d].run = canc[d].run
    BY <1>3 DEF CancelRead, CancelPost, CancelReturn, CancelThrows, Unowned, Cancel,
       Finalize
  <2>3. OwnersHoldSlot' /\ StartersFindFree' /\ OneStarter' /\ ForeignCancelsRace'
    BY <2>1, <2>2 DEF SerialInv, OwnersHoldSlot, StartersFindFree, OneStarter,
       ForeignCancelsRace, Live
  <2> QED
    BY <2>3 DEF SerialInv
<1> QED
  BY <1>1, <1>2, <1>3 DEF CancelStep

LEMMA SerialStep == Base /\ SerialInv /\ [Next]_vars => SerialInv'
<1> SUFFICES ASSUME Base, SerialInv, [Next]_vars
             PROVE  SerialInv'
  OBVIOUS
<1>1. ASSUME NEW r \in Runs,
             StartCheck(r) \/ StartRefused(r) \/ StartStep(r) \/ StartThrows(r)
      PROVE  SerialInv'
  BY <1>1, SerialStart
<1>2. ASSUME NEW r \in Runs, StreamFails(r) \/ ExecStep(r) \/ ExecThrows(r)
      PROVE  SerialInv'
  BY <1>2, SerialExec
<1>3. ASSUME NEW c \in Cancels,
             (\E r \in Runs : CancelRead(c, r)) \/ CancelStep(c) \/ CancelThrows(c)
      PROVE  SerialInv'
  BY <1>3, SerialCancel
<1>4. CASE Crash
  BY <1>4 DEF Crash, SerialInv, OwnersHoldSlot, StartersFindFree, OneStarter,
     ForeignCancelsRace, Live, LivePc, Window, Finalize, Unowned, Base, TypeOK,
     IdleCancel, Cancel
<1>5. CASE UNCHANGED <<active, exec, startPc, canc, raced>>
  BY <1>5 DEF SerialInv, OwnersHoldSlot, StartersFindFree, OneStarter,
     ForeignCancelsRace, Live, Unowned
<1>6. CASE (\E r \in Runs : WorkerStep(r)) \/ UNCHANGED vars
  BY <1>5, <1>6 DEF WorkerStep, PytestSummary, PytestExit, vars, execVars, serviceVars
<1> QED
  BY <1>1, <1>2, <1>3, <1>4, <1>6 DEF Next

LEMMA SerialInit == Init => SerialInv
BY DEF Init, SerialInv, OwnersHoldSlot, StartersFindFree, OneStarter,
   ForeignCancelsRace, Live, LivePc, Finalize, Window, Unowned, IdleCancel

LEMMA SerialImplied ==
  ASSUME Base, SerialInv
  PROVE  SerialUnlessRaced
<1> SUFFICES ASSUME NEW p \in Projects \ raced, NEW r \in RunsOf(p), NEW q \in RunsOf(p),
                    Occupies(r), Occupies(q)
             PROVE  r = q
  BY DEF SerialUnlessRaced
<1>1. r \in Runs /\ q \in Runs /\ ProjectOf[r] = p /\ ProjectOf[q] = p
  BY DEF RunsOf
<1> QED
  BY <1>1 DEF SerialInv, OwnersHoldSlot, StartersFindFree, OneStarter, Occupies

\* Runs of one project are serial unless two starts overlapped or a cancel
\* finalized a run whose stream it did not own.
THEOREM Serial == Spec => []SerialUnlessRaced
<1>1. Base /\ SerialInv /\ [Next]_vars => (Base /\ SerialInv)'
  BY BaseStep, SerialStep
<1>2. Base /\ SerialInv => SerialUnlessRaced
  BY SerialImplied
<1> QED
  BY BaseInit, SerialInit, <1>1, <1>2, PTL DEF Spec

-----------------------------------------------------------------------------
(* The rows.                                                               *)

\* An executor exists only after its startRun has finished, and until it
\* records its verdict, the row says "running" in a project that did not race.
Launched == \A r \in Runs : exec[r] # "none" => startPc[r] = "done"

RowOf == \A r \in Runs : ProjectOf[r] \notin raced =>
    /\ startPc[r] \in {"idle", "checked", "jobInserted"} => row[r] = "none"
    /\ startPc[r] \in {"runInserted", "staged"} => row[r] = "running"
    /\ exec[r] \in {"env", "streaming", "run"} => row[r] = "running"

RowInv == Launched /\ RowOf

LEMMA RowStep ==
  ASSUME Base, SerialInv, RowInv, [Next]_vars
  PROVE  /\ RowInv'
         /\ \A r \in Runs : row[r] \in Terminal /\ ProjectOf[r] \notin raced
                => row'[r] = row[r]
<1> DEFINE Goal == /\ RowInv'
                   /\ \A r \in Runs : row[r] \in Terminal /\ ProjectOf[r] \notin raced
                          => row'[r] = row[r]
<1> USE DEF Base, TypeOK, RowInv, Launched, RowOf
<1>1. ASSUME NEW r \in Runs, StartCheck(r)
      PROVE  Goal
  BY <1>1 DEF StartCheck, dbVars, execVars
<1>2. ASSUME NEW r \in Runs,
             \/ StartRefused(r) \/ InsertJob(r) \/ InsertRun(r) \/ StageRunning(r)
             \/ StartThrows(r)
      PROVE  Goal
  BY <1>2 DEF StartRefused, InsertJob, InsertRun, StageRunning, StartThrows, dbVars,
     execVars, Window, Terminal
<1>3. ASSUME NEW r \in Runs, Launch(r)
      PROVE  Goal
  BY <1>3 DEF Launch, dbVars
<1>4. ASSUME NEW r \in Runs, ExecFinalize(r)
      PROVE  Goal
  <2>1. /\ \A q \in Runs \ {r} : row'[q] = row[q] /\ exec'[q] = exec[q]
        /\ exec[r] = "run" \/ row'[r] = row[r]
        /\ exec[r] # "none"
        /\ exec'[r] \notin {"env", "streaming", "run"}
        /\ UNCHANGED <<startPc, raced>>
    <3>1. NextFinalize(exec[r], "done") \notin {"env", "streaming", "run"}
      BY <1>4 DEF ExecFinalize, NextFinalize, Finalize
    <3> QED
      BY <1>4, <3>1 DEF ExecFinalize, FinalizeEffect, dbVars, Finalize
  <2> QED
    BY <2>1 DEF Terminal
<1>5. ASSUME NEW r \in Runs,
             \/ Fetch(r) \/ ReceiveFinished(r) \/ StreamEnds(r) \/ StreamFails(r)
             \/ StreamAborted(r) \/ StreamTimesOut(r) \/ ExecThrows(r)
      PROVE  Goal
  BY <1>5 DEF Fetch, ReceiveFinished, StreamEnds, StreamFails, StreamAborted,
     StreamTimesOut, BeginFinalize, ExecThrows, dbVars, Finalize
<1>6. ASSUME NEW c \in Cancels, CancelFinalize(c)
      PROVE  Goal
  <2> DEFINE run == canc[c].run
  <2>1. run \in Runs /\ ProjectOf[run] \in raced
    BY <1>6 DEF CancelFinalize, Targeted, SerialInv, ForeignCancelsRace, Unowned, Finalize
  <2>2. /\ UNCHANGED <<startPc, exec, raced>>
        /\ UNCHANGED row \/ row' = [row EXCEPT ![run] = "cancelled"]
    BY <1>6 DEF CancelFinalize, FinalizeEffect, dbVars, execVars
  <2> QED
    BY <2>1, <2>2
<1>7. ASSUME NEW c \in Cancels,
             \/ \E r \in Runs : CancelRead(c, r)
             \/ CancelCheck(c) \/ CancelPost(c) \/ CancelReturn(c) \/ CancelThrows(c)
      PROVE  Goal
  BY <1>7 DEF CancelRead, CancelCheck, CancelPost, CancelReturn, CancelThrows,
     execVars, dbVars
<1>8. CASE Crash
  <2>1. UNCHANGED <<row, raced>>
    BY <1>8 DEF Crash, dbVars
  <2>2. ASSUME NEW r \in Runs
        PROVE  \/ exec'[r] = exec[r]
               \/ exec[r] # "none" /\ exec'[r] = "dead"
    BY <1>8 DEF Crash, LivePc, Finalize
  <2>3. ASSUME NEW r \in Runs
        PROVE  \/ startPc'[r] = startPc[r]
               \/ startPc[r] \in Window /\ startPc'[r] = "threw"
    BY <1>8 DEF Crash
  <2>4. Launched'
    BY <2>2, <2>3 DEF Window
  <2>5. RowOf'
    BY <2>1, <2>2, <2>3
  <2> QED
    BY <2>1, <2>4, <2>5
<1>9. CASE (\E r \in Runs : WorkerStep(r)) \/ UNCHANGED vars
  BY <1>9 DEF WorkerStep, PytestSummary, PytestExit, vars, execVars, dbVars
<1> QED
  BY <1>1, <1>2, <1>3, <1>4, <1>5, <1>6, <1>7, <1>8, <1>9 DEF Next, StartStep,
     ExecStep, CancelStep

LEMMA RowInit == Init => RowInv
BY DEF Init, RowInv, Launched, RowOf

\* A recorded verdict is never overwritten in a project that did not race.
THEOREM VerdictStable == Spec => VerdictKept
<1> DEFINE Inv == Base /\ SerialInv /\ RowInv
<1>1. Init => Inv
  BY BaseInit, SerialInit, RowInit
<1>2. Inv /\ [Next]_vars => Inv'
  BY BaseStep, SerialStep, RowStep
<1>3. Inv /\ [Next]_vars =>
        [\A r \in Runs : row[r] \in Terminal /\ ProjectOf[r] \notin raced
            => row'[r] = row[r]]_vars
  BY RowStep
<1> QED
  BY <1>1, <1>2, <1>3, PTL DEF Spec, VerdictKept

-----------------------------------------------------------------------------
(* Jobs and stages.                                                        *)

\* finalizeRun writes the row, then the job, then the stage.
Recorded(r) ==
    /\ startPc[r] \in {"jobInserted", "runInserted", "staged", "done"} => job[r] # "none"
    /\ ProjectOf[r] \notin raced =>
         /\ exec[r] \in {"job", "stage", "release"} => row[r] = verdict[r]
         /\ exec[r] \in {"stage", "release"} => job[r] = JobFor(verdict[r])
         /\ exec[r] = "done" => row[r] \in Terminal /\ job[r] = JobFor(row[r])

JobInv == \A r \in Runs : Recorded(r)

\* A stage left at "running" has somebody who is yet to write it or who was
\* interrupted before writing it.
Busy(r) == \/ startPc[r] \in {"staged", "threw"}
           \/ exec[r] \in {"env", "streaming", "run", "job", "stage", "threw", "dead"}

StageInv == \A p \in Projects : stage[p] = "running" => \E r \in RunsOf(p) : Busy(r)

LEMMA JobInit == Init => JobInv
BY DEF Init, JobInv, Recorded

LEMMA JobStep ==
  ASSUME Base, SerialInv, RowInv, JobInv, [Next]_vars
  PROVE  JobInv'
<1> USE DEF Base, TypeOK, RowInv, Launched, JobInv, Recorded
<1>1. ASSUME NEW r \in Runs,
             \/ StartCheck(r) \/ StartRefused(r) \/ InsertJob(r) \/ InsertRun(r)
             \/ StageRunning(r) \/ Launch(r) \/ StartThrows(r)
      PROVE  JobInv'
  <2>1. exec[r] = "none"
    BY <1>1 DEF StartCheck, StartRefused, InsertJob, InsertRun, StageRunning, Launch,
       StartThrows, Window
  <2>2. CASE StartCheck(r) \/ StartRefused(r) \/ StageRunning(r) \/ StartThrows(r)
    BY <2>2 DEF StartCheck, StartRefused, StageRunning, StartThrows, dbVars, execVars
  <2>3. CASE InsertJob(r)
    BY <2>1, <2>3 DEF InsertJob, execVars
  <2>4. CASE InsertRun(r)
    BY <2>1, <2>4 DEF InsertRun, execVars
  <2>5. CASE Launch(r)
    BY <2>5 DEF Launch, dbVars
  <2> QED
    BY <1>1, <2>2, <2>3, <2>4, <2>5
<1>2. ASSUME NEW r \in Runs, ExecFinalize(r)
      PROVE  JobInv'
  <2>1. /\ UNCHANGED <<startPc, raced>>
        /\ \A q \in Runs \ {r} : /\ row'[q] = row[q] /\ job'[q] = job[q]
                                 /\ exec'[q] = exec[q] /\ verdict'[q] = verdict[q]
    BY <1>2 DEF ExecFinalize, FinalizeEffect, dbVars
  <2>2. startPc[r] = "done" /\ job[r] # "none" /\ verdict[r] \in Terminal
    BY <1>2 DEF ExecFinalize, Finalize, Settling
  <2>3. CASE exec[r] = "run"
    <3>1. /\ exec'[r] = "job" /\ row'[r] = verdict[r] /\ verdict'[r] = verdict[r]
          /\ job'[r] = job[r]
      BY <1>2, <2>3 DEF ExecFinalize, FinalizeEffect, NextFinalize
    <3> QED
      BY <2>1, <2>2, <3>1
  <2>4. CASE exec[r] = "job"
    <3>1. /\ exec'[r] = "stage" /\ row'[r] = row[r] /\ verdict'[r] = verdict[r]
          /\ job'[r] = JobFor(verdict[r])
      BY <1>2, <2>2, <2>4 DEF ExecFinalize, FinalizeEffect, NextFinalize
    <3>2. JobFor(verdict[r]) # "none"
      BY DEF JobFor
    <3> QED
      BY <2>1, <2>2, <2>4, <3>1, <3>2
  <2>5. CASE exec[r] = "stage"
    <3>1. /\ exec'[r] = "release" /\ row'[r] = row[r] /\ verdict'[r] = verdict[r]
          /\ job'[r] = job[r]
      BY <1>2, <2>5 DEF ExecFinalize, FinalizeEffect, NextFinalize
    <3> QED
      BY <2>1, <2>2, <2>5, <3>1
  <2>6. CASE exec[r] = "release"
    <3>1. exec'[r] = "done" /\ row'[r] = row[r] /\ job'[r] = job[r]
      BY <1>2, <2>6 DEF ExecFinalize, FinalizeEffect, NextFinalize, dbVars
    <3> QED
      BY <2>1, <2>2, <2>6, <3>1
  <2> QED
    BY <1>2, <2>3, <2>4, <2>5, <2>6 DEF ExecFinalize, Finalize
<1>3. ASSUME NEW r \in Runs,
             \/ Fetch(r) \/ ReceiveFinished(r) \/ StreamEnds(r) \/ StreamFails(r)
             \/ StreamAborted(r) \/ StreamTimesOut(r) \/ ExecThrows(r)
      PROVE  JobInv'
  <2>1. /\ UNCHANGED <<startPc, row, job, raced>>
        /\ exec'[r] \in {"streaming", "run", "threw"}
        /\ \A q \in Runs \ {r} : exec'[q] = exec[q] /\ verdict'[q] = verdict[q]
    BY <1>3 DEF Fetch, ReceiveFinished, StreamEnds, StreamFails, StreamAborted,
       StreamTimesOut, BeginFinalize, ExecThrows, dbVars
  <2> QED
    BY <2>1
<1>4. ASSUME NEW c \in Cancels, CancelFinalize(c)
      PROVE  JobInv'
  <2> DEFINE run == canc[c].run
  <2>1. run \in Runs /\ ProjectOf[run] \in raced
    BY <1>4 DEF CancelFinalize, Targeted, SerialInv, ForeignCancelsRace, Unowned, Finalize
  <2>2. /\ UNCHANGED <<startPc, exec, verdict, raced>>
        /\ \A q \in Runs \ {run} : row'[q] = row[q] /\ job'[q] = job[q]
        /\ job[run] # "none" => job'[run] # "none"
    BY <1>4, <2>1 DEF CancelFinalize, FinalizeEffect, dbVars, execVars, JobFor
  <2> QED
    BY <2>1, <2>2
<1>5. ASSUME NEW c \in Cancels,
             \/ \E r \in Runs : CancelRead(c, r)
             \/ CancelCheck(c) \/ CancelPost(c) \/ CancelReturn(c) \/ CancelThrows(c)
      PROVE  JobInv'
  BY <1>5 DEF CancelRead, CancelCheck, CancelPost, CancelReturn, CancelThrows,
     execVars, dbVars
<1>6. CASE Crash
  <2>1. UNCHANGED <<row, job, raced>>
    BY <1>6 DEF Crash, dbVars
  <2>2. ASSUME NEW r \in Runs
        PROVE  \/ exec'[r] = exec[r] /\ exec[r] \notin {"job", "stage", "release"}
               \/ exec'[r] = "dead"
    BY <1>6 DEF Crash, LivePc, Finalize
  <2>3. ASSUME NEW r \in Runs
        PROVE  startPc'[r] = startPc[r] \/ startPc'[r] = "threw"
    BY <1>6 DEF Crash
  <2> QED
    BY <2>1, <2>2, <2>3
<1>7. CASE (\E r \in Runs : WorkerStep(r)) \/ UNCHANGED vars
  BY <1>7 DEF WorkerStep, PytestSummary, PytestExit, vars, execVars, dbVars
<1> QED
  BY <1>1, <1>2, <1>3, <1>4, <1>5, <1>6, <1>7 DEF Next, StartStep, ExecStep, CancelStep

\* When an executor has finished, the run and its job agree.
THEOREM JobAgreement == Spec => []SettledJobAgrees
<1> DEFINE Inv == Base /\ SerialInv /\ RowInv /\ JobInv
<1>1. Init => Inv
  BY BaseInit, SerialInit, RowInit, JobInit
<1>2. Inv /\ [Next]_vars => Inv'
  BY BaseStep, SerialStep, RowStep, JobStep
<1>3. Inv => SettledJobAgrees
  BY DEF JobInv, Recorded, SettledJobAgrees
<1> QED
  BY <1>1, <1>2, <1>3, PTL DEF Spec

LEMMA StageStep ==
  ASSUME Base, StageInv, [Next]_vars
  PROVE  StageInv'
<1> USE DEF Base, TypeOK, StageInv, RunsOf
<1>1. ASSUME UNCHANGED stage, \A q \in Runs : Busy(q) => Busy(q)'
      PROVE  StageInv'
  BY <1>1
<1>2. ASSUME NEW r \in Runs, StageRunning(r)
      PROVE  StageInv'
  <2>1. /\ stage' = [stage EXCEPT ![ProjectOf[r]] = "running"]
        /\ startPc'[r] = "staged" /\ startPc[r] = "runInserted"
        /\ \A q \in Runs \ {r} : startPc'[q] = startPc[q]
        /\ UNCHANGED exec
    BY <1>2 DEF StageRunning, execVars
  <2>2. \A q \in Runs : Busy(q) => Busy(q)'
    BY <2>1 DEF Busy
  <2>3. Busy(r)'
    BY <2>1 DEF Busy
  <2> QED
    BY <2>1, <2>2, <2>3
<1>3. ASSUME NEW r \in Runs,
             \/ StartCheck(r) \/ StartRefused(r) \/ InsertJob(r) \/ InsertRun(r)
             \/ Launch(r) \/ StartThrows(r)
      PROVE  StageInv'
  <2>1. /\ UNCHANGED stage
        /\ startPc[r] \notin {"staged", "threw"} \/ exec'[r] = "env"
        /\ UNCHANGED exec \/ exec' = [exec EXCEPT ![r] = "env"]
        /\ \A q \in Runs \ {r} : startPc'[q] = startPc[q]
    BY <1>3 DEF StartCheck, StartRefused, InsertJob, InsertRun, Launch, StartThrows,
       dbVars, execVars
  <2>2. \A q \in Runs : Busy(q) => Busy(q)'
    BY <2>1 DEF Busy
  <2> QED
    BY <1>1, <2>1, <2>2
<1>4. ASSUME NEW r \in Runs, ExecFinalize(r)
      PROVE  StageInv'
  <2>1. UNCHANGED startPc /\ \A q \in Runs \ {r} : exec'[q] = exec[q]
    BY <1>4 DEF ExecFinalize
  <2>2. CASE exec[r] = "stage"
    <3>1. stage' = [stage EXCEPT ![ProjectOf[r]] = StageFor(verdict[r])]
      BY <1>4, <2>2 DEF ExecFinalize, FinalizeEffect
    <3>2. StageFor(verdict[r]) # "running"
      BY DEF StageFor
    <3>3. ASSUME NEW p \in Projects, stage'[p] = "running"
          PROVE  \E q \in RunsOf(p) : Busy(q)'
      <4>1. p # ProjectOf[r] /\ stage[p] = "running"
        BY <3>1, <3>2, <3>3
      <4>2. PICK q \in RunsOf(p) : Busy(q)
        BY <4>1
      <4>3. q # r
        BY <4>1
      <4> QED
        BY <2>1, <4>2, <4>3 DEF Busy
    <3> QED
      BY <3>3
  <2>3. CASE exec[r] # "stage"
    <3>1. UNCHANGED stage
      BY <1>4, <2>3 DEF ExecFinalize, FinalizeEffect, dbVars
    <3>2. /\ exec[r] = "run" => exec'[r] = "job"
          /\ exec[r] = "job" => exec'[r] = "stage"
          /\ exec[r] \in Finalize
      BY <1>4 DEF ExecFinalize, NextFinalize
    <3>3. \A q \in Runs : Busy(q) => Busy(q)'
      BY <2>1, <2>3, <3>2 DEF Busy, Finalize
    <3> QED
      BY <1>1, <3>1, <3>3
  <2> QED
    BY <2>2, <2>3
<1>5. ASSUME NEW r \in Runs,
             \/ Fetch(r) \/ ReceiveFinished(r) \/ StreamEnds(r) \/ StreamFails(r)
             \/ StreamAborted(r) \/ StreamTimesOut(r) \/ ExecThrows(r)
      PROVE  StageInv'
  <2>1. /\ UNCHANGED <<startPc, stage>>
        /\ exec'[r] \in {"streaming", "run", "threw"}
        /\ \A q \in Runs \ {r} : exec'[q] = exec[q]
    BY <1>5 DEF Fetch, ReceiveFinished, StreamEnds, StreamFails, StreamAborted,
       StreamTimesOut, BeginFinalize, ExecThrows, dbVars
  <2>2. \A q \in Runs : Busy(q) => Busy(q)'
    BY <2>1 DEF Busy
  <2> QED
    BY <1>1, <2>1, <2>2
<1>6. ASSUME NEW c \in Cancels, CancelFinalize(c)
      PROVE  StageInv'
  <2>1. /\ UNCHANGED <<startPc, exec>>
        /\ \A p \in Projects : stage'[p] = "running" => stage[p] = "running"
    BY <1>6 DEF CancelFinalize, FinalizeEffect, StageFor, dbVars, execVars
  <2> QED
    BY <2>1 DEF Busy
<1>7. ASSUME NEW c \in Cancels,
             \/ \E r \in Runs : CancelRead(c, r)
             \/ CancelCheck(c) \/ CancelPost(c) \/ CancelReturn(c) \/ CancelThrows(c)
      PROVE  StageInv'
  BY <1>1, <1>7 DEF CancelRead, CancelCheck, CancelPost, CancelReturn, CancelThrows,
     execVars, dbVars, Busy
<1>8. CASE Crash
  <2>1. UNCHANGED stage
    BY <1>8 DEF Crash, dbVars
  <2>2. ASSUME NEW q \in Runs
        PROVE  /\ exec'[q] = exec[q] \/ exec'[q] = "dead"
               /\ startPc'[q] = startPc[q] \/ startPc'[q] = "threw"
    BY <1>8 DEF Crash
  <2> QED
    BY <1>1, <2>1, <2>2 DEF Busy
<1>9. CASE (\E r \in Runs : WorkerStep(r)) \/ UNCHANGED vars
  BY <1>1, <1>9 DEF WorkerStep, PytestSummary, PytestExit, vars, execVars, dbVars, Busy
<1> QED
  BY <1>2, <1>3, <1>4, <1>5, <1>6, <1>7, <1>8, <1>9 DEF Next, StartStep, ExecStep,
     CancelStep

LEMMA StageInit == Init => StageInv
BY DEF Init, StageInv

\* A project with nothing in progress or broken is free and not "running".
THEOREM QuietIdle == Spec => []QuietProjectIdle
<1> DEFINE Inv == Base /\ SlotHasOwner /\ StageInv
<1>1. Init => Inv
  BY BaseInit, SlotHasOwnerInit, StageInit
<1>2. Inv /\ [Next]_vars => Inv'
  BY BaseStep, SlotHasOwnerStep, StageStep
<1>3. Inv => QuietProjectIdle
  BY DEF StageInv, Busy, SlotHasOwner, QuietProjectIdle, LivePc, Finalize
<1> QED
  BY <1>1, <1>2, <1>3, PTL DEF Spec

\* The rows of runs, jobs and workflow_states and the slot agree in every reachable
\* state, for every number of projects, runs, cancels and mishaps.
THEOREM RowsConsistent == Spec => []RowsAgree
BY JobAgreement, QuietIdle, PTL DEF RowsAgree

-----------------------------------------------------------------------------
(* Evidence.                                                               *)

\* Only the end of the stream sets a verdict, and "passed" there needs the
\* exit code 0 or a clean summary.
LEMMA EvidenceStep ==
    ASSUME TypeOK, [Next]_vars, NEW r \in Runs, verdict[r] = "none", verdict'[r] = "passed"
    PROVE  log[r] = "clean" \/ (log[r] = "none" /\ worker[r] = "exit0")
<1>1. log[r] \in Summary /\ verdict \in [Runs -> {"none"} \cup Terminal]
  BY DEF TypeOK
<1>2. verdict' # verdict
  OBVIOUS
<1>3. ASSUME NEW q \in Runs, NEW status, NEW left, BeginFinalize(q, status, left)
      PROVE  q = r /\ status = "passed"
  <2>1. verdict' = [verdict EXCEPT ![q] = status]
    BY <1>3 DEF BeginFinalize
  <2> QED
    BY <1>1, <2>1
<1>4. ASSUME NEW q \in Runs, ReceiveFinished(q)
      PROVE  log[r] = "clean" \/ (log[r] = "none" /\ worker[r] = "exit0")
  <2>1. q = r /\ StreamVerdict(worker[q] = "exit0", log[q]) = "passed"
    BY <1>3, <1>4 DEF ReceiveFinished
  <2>2. worker[r] = "exit0" /\ log[r] # "failing"
    BY <2>1 DEF StreamVerdict
  <2> QED
    BY <1>1, <2>2 DEF Summary
<1>5. ASSUME NEW q \in Runs, StreamEnds(q)
      PROVE  log[r] = "clean"
  <2>1. q = r /\ StreamVerdict(log[q] = "clean", log[q]) = "passed"
    BY <1>3, <1>5 DEF StreamEnds
  <2> QED
    BY <2>1 DEF StreamVerdict
<1>6. ASSUME NEW q \in Runs, StreamFails(q) \/ StreamAborted(q) \/ StreamTimesOut(q)
      PROVE  log[r] = "clean"
  <2>1. q = r /\ ErrorVerdict(log[q]) = "passed"
    BY <1>3, <1>6 DEF StreamFails, StreamAborted, StreamTimesOut
  <2> QED
    BY <2>1 DEF ErrorVerdict
<1>7. ASSUME NEW q \in Runs, ExecFinalize(q) \/ ExecThrows(q)
      PROVE  FALSE
  <2>1. \/ verdict' = [verdict EXCEPT ![q] = "none"]
        \/ verdict' = [verdict EXCEPT ![q] = verdict[q]]
    BY <1>7 DEF ExecFinalize, ExecThrows
  <2> QED
    BY <1>1, <2>1
<1>8. ~Crash
  BY DEF Crash
<1>9. ASSUME NEW q \in Runs,
             \/ StartCheck(q) \/ StartRefused(q) \/ StartStep(q) \/ StartThrows(q)
             \/ Fetch(q) \/ WorkerStep(q)
      PROVE  FALSE
  BY <1>2, <1>9 DEF StartCheck, StartRefused, StartStep, StartThrows, InsertJob, InsertRun,
     StageRunning, Launch, Fetch, WorkerStep, PytestSummary, PytestExit, execVars
<1>10. ASSUME NEW c \in Cancels,
              (\E q \in Runs : CancelRead(c, q)) \/ CancelStep(c) \/ CancelThrows(c)
       PROVE  FALSE
  BY <1>2, <1>10 DEF CancelRead, CancelStep, CancelThrows, CancelCheck, CancelPost,
     CancelReturn, CancelFinalize, execVars
<1>11. Next
  BY <1>2 DEF vars, execVars
<1> QED
  BY <1>4, <1>5, <1>6, <1>7, <1>8, <1>9, <1>10, <1>11 DEF Next, ExecStep

\* A run is never recorded as passed without evidence from its own process, in
\* whatever way its stream ended and whoever ended it.
THEOREM PassedIsEvident == Spec => PassedHasEvidence
<1>1. TypeOK /\ [Next]_vars =>
        [\A r \in Runs : verdict[r] = "none" /\ verdict'[r] = "passed" =>
            \/ log[r] = "clean"
            \/ log[r] = "none" /\ worker[r] = "exit0"]_vars
  BY EvidenceStep
<1> QED
  BY <1>1, TypeCorrect, PTL DEF Spec, PassedHasEvidence


-----------------------------------------------------------------------------
(***************************************************************************)
(* The run page (RunPage).  The page takes a result from three places: an  *)
(* event, a list of runs that may have been overtaken, and what it holds   *)
(* already.  So the invariant is about all that is on its way to the page: *)
(* each verdict in an event or a list is one the row of that run has held. *)
(***************************************************************************)
HIDE RunServiceAssumption
USE RunPageConstants

-----------------------------------------------------------------------------
(* The largest of a finite set of numbers                                   *)

Less == {ss \in Nat \X Nat : ss[1] < ss[2]}
LEMMA LessWellFounded == IsWellFoundedOn(Less, Nat)
BY NatLessThanWellFounded DEF OpToRel, Less

LEMMA SmallestElement ==
    ASSUME NEW T, T \subseteq Nat, T # {}
    PROVE  \E x \in T : \A y \in T : ~(<<y, x>> \in Less)
<1> HIDE DEF Less
<1>1. ASSUME NEW R, IsWellFoundedOn(R, Nat)
      PROVE  \E x \in T : \A y \in T : ~(<<y, x>> \in R)
    <2> HIDE RunPageConstants
    <2> QED
        BY <1>1, WFMin
<1> QED
    BY <1>1, LessWellFounded, Zenon

\* A finite set of numbers has a largest element: the smallest of those without one
\* would be left without one when an element is taken away.
LEMMA LargestExists ==
    ASSUME NEW S \in SUBSET Nat, IsFiniteSet(S), S # {}
    PROVE  \E x \in S : \A y \in S : x >= y
<1> DEFINE Topped(U) == \E x \in U : \A y \in U : x >= y
           Bad == {n \in Nat : \E U \in SUBSET S : U # {} /\ Cardinality(U) = n /\ ~Topped(U)}
<1>1. SUFFICES ASSUME Bad # {} PROVE FALSE
    <2>1. Cardinality(S) \in Nat
        BY FS_CardinalityType
    <2> QED
        BY <2>1
<1>2. PICK n \in Bad : \A m \in Bad : ~(<<m, n>> \in Less)
    <2>1. Bad \subseteq Nat
        OBVIOUS
    <2> HIDE DEF Bad
    <2> QED
        BY <1>1, <2>1, SmallestElement
<1>3. \A m \in Bad : ~(m < n)
    BY <1>2 DEF Less
<1>4. PICK U \in SUBSET S : U # {} /\ Cardinality(U) = n /\ ~Topped(U)
    OBVIOUS
<1>5. PICK a : a \in U
    BY <1>4
<1>6. /\ IsFiniteSet(U) /\ Cardinality(U \ {a}) = n - 1 /\ Cardinality(U \ {a}) \in Nat
    <2>1. IsFiniteSet(U)
        BY FS_Subset
    <2>2. IsFiniteSet(U \ {a}) /\ Cardinality(U \ {a}) = Cardinality(U) - 1
        BY <1>5, <2>1, FS_RemoveElement
    <2> QED
        BY <1>4, <2>1, <2>2, FS_CardinalityType
<1>7. CASE U \ {a} = {}
    BY <1>4, <1>5, <1>7
<1>8. CASE U \ {a} # {}
    <2>1. n - 1 \notin Bad
        BY <1>3, <1>6
    <2>2. PICK x \in U \ {a} : \A y \in U \ {a} : x >= y
        BY <1>6, <1>8, <2>1
    <2>3. CASE x >= a
        BY <1>4, <2>2, <2>3
    <2>4. CASE ~(x >= a)
        BY <1>4, <1>5, <2>2, <2>4
    <2> QED
        BY <2>3, <2>4
<1> QED
    BY <1>7, <1>8

LEMMA MaxIsElement ==
    ASSUME NEW S \in SUBSET Nat, IsFiniteSet(S), S # {}
    PROVE  Max(S) \in S
BY LargestExists DEF Max

-----------------------------------------------------------------------------
(* The invariant                                                            *)

Statuses == {"absent", "running"} \cup Verdicts
Lists == [own -> Statuses]
Messages == [type : {"run_started", "run_finished"}, run : RunIds,
             result : Verdicts \cup {NoResult}]
Page == [ref : RunIds \cup {None}, runId : RunIds \cup {None}, running : BOOLEAN,
         result : Verdicts \cup {NoResult}, runs : Lists]

\* A list shows only verdicts its rows have held.
Listing(l) == l \in Lists /\ \A r \in own : l[r] \in Verdicts => l[r] \in held[r]

\* What the page holds is of one run, and a result is not shown beside a run that goes on.
PageOK(p) ==
    /\ p \in Page /\ Listing(p.runs)
    /\ p.ref = p.runId
    /\ p.result # NoResult => ~p.running /\ p.runId # None /\ p.result \in held[p.runId]

Typed ==
    /\ own \in Owns
    /\ dbRow \in [RunIds -> Statuses] /\ held \in [RunIds -> SUBSET Verdicts]
    /\ runPc \in [RunIds -> {"none", "inserted", "streaming", "over"} \cup Verdicts]
    /\ slot \in [BOOLEAN -> RunIds \cup {None}]
    /\ killer \subseteq RunIds /\ wire \in Seq(Messages)
    /\ open \in BOOLEAN /\ busy \in BOOLEAN /\ losses \in 0 .. MaxLosses

\* A verdict anywhere on its way to the page is one the row of its run has held.
Truthful ==
    /\ \A r \in RunIds : dbRow[r] \in Verdicts => dbRow[r] \in held[r]
    /\ \A r \in RunIds : runPc[r] \in Verdicts => runPc[r] \in held[r]
    /\ \A r \in killer : "zeros" \in held[r]
    /\ \A i \in 1..Len(wire) :
          wire[i].type = "run_finished" =>
              wire[i].result \in Verdicts /\ wire[i].result \in held[wire[i].run]
    /\ \A l \in asked : Listing(l)

PageInv == Typed /\ Truthful /\ PageOK(page)

LEMMA RunFacts == ASSUME own \in Owns PROVE own \subseteq RunIds /\ own \subseteq Nat \ {0} /\ IsFiniteSet(own)
<1>1. own \subseteq RunIds /\ own \subseteq Nat \ {0}
    OBVIOUS
<1> QED
    BY <1>1, FS_Subset

-----------------------------------------------------------------------------
(* Rendering                                                                *)

\* What the page shows does not contradict its list.
Agrees(p) == /\ p.running => ~ListsSettled(p)
             /\ ActiveDbRun(p) # None => p.running \/ p.runId = ActiveDbRun(p)

LEMMA ActiveType ==
    ASSUME own \in Owns, NEW p, p.runs \in Lists
    PROVE  /\ ActiveDbRun(p) \in own \cup {None}
           /\ ActiveDbRun(p) # None => p.runs[ActiveDbRun(p)] = "running"
<1>1. ListedRunning(p) \in SUBSET own /\ own \in SUBSET Nat /\ IsFiniteSet(own)
    BY RunFacts DEF ListedRunning
<1>2. IsFiniteSet(ListedRunning(p)) /\ ListedRunning(p) \in SUBSET Nat
    BY <1>1, FS_Subset
<1>3. ListedRunning(p) # {} => Max(ListedRunning(p)) \in ListedRunning(p)
    BY <1>2, MaxIsElement
<1> QED
    BY <1>1, <1>3 DEF ActiveDbRun, ListedRunning

\* adoptActiveRun leaves the page as it is, or turns it to another run.
LEMMA AdoptedOK ==
    ASSUME own \in Owns, NEW p, PageOK(p)
    PROVE  PageOK(Adopted(p))
<1> DEFINE a == ActiveDbRun(p)
           q == [p EXCEPT !.ref = a, !.runId = a, !.running = TRUE, !.result = NoResult]
<1>1. a \in RunIds \cup {None} /\ (a \in RunIds => a # None)
    BY ActiveType, RunFacts DEF PageOK, Page, None
<1>2. p \in Page /\ Listing(p.runs) /\ p.ref = p.runId
    BY DEF PageOK
<1>3. Adopted(p) = p \/ Adopted(p) = q
    BY DEF Adopted
<1>4. q \in Page /\ q.runs = p.runs /\ q.ref = a /\ q.runId = a /\ q.result = NoResult
    BY <1>1, <1>2 DEF Page
<1>5. PageOK(q)
    BY <1>2, <1>4 DEF PageOK
<1> HIDE DEF q
<1> QED
    BY <1>3, <1>5

\* syncFinishedRun shows the result of the run the page follows.
LEMMA SyncedOK ==
    ASSUME own \in Owns, NEW p, PageOK(p)
    PROVE  PageOK(Synced(p))
<1> DEFINE q == [p EXCEPT !.running = FALSE, !.result = p.runs[p.runId]]
<1>1. p \in Page /\ Listing(p.runs) /\ p.ref = p.runId
    BY DEF PageOK
<1>2. Synced(p) = p \/ (Synced(p) = q /\ p.running /\ ListsSettled(p))
    BY DEF Synced
<1>3. ASSUME p.running, ListsSettled(p)
      PROVE  PageOK(q)
    <2>1. /\ p.runId \in own /\ p.runId # None
          /\ p.runs[p.runId] \in Verdicts /\ p.runs[p.runId] \in held[p.runId]
        BY <1>1, <1>3, RunFacts DEF ListsSettled, Listing, None
    <2>2. /\ q \in Page /\ q.runs = p.runs /\ q.ref = p.ref /\ q.runId = p.runId
          /\ q.result = p.runs[p.runId] /\ ~q.running
        BY <1>1, <2>1 DEF Page
    <2> QED
        BY <1>1, <2>1, <2>2 DEF PageOK
<1> HIDE DEF q
<1> QED
    BY <1>2, <1>3

\* syncFinishedRun leaves no run on show that the list shows settled.
LEMMA SyncedSettles ==
    ASSUME NEW p, p \in Page, Synced(p).running
    PROVE  ~ListsSettled(Synced(p))
<1>1. CASE p.running /\ ListsSettled(p)
    <2>1. Synced(p) = [p EXCEPT !.running = FALSE, !.result = p.runs[p.runId]]
        BY <1>1 DEF Synced
    <2> QED
        BY <2>1 DEF Page
<1>2. CASE ~(p.running /\ ListsSettled(p))
    BY <1>2 DEF Synced
<1> QED
    BY <1>1, <1>2

\* adoptActiveRun, after that, leaves no run the list shows at work aside.
LEMMA AdoptedAgrees ==
    ASSUME own \in Owns, NEW p, PageOK(p), p.running => ~ListsSettled(p)
    PROVE  Agrees(Adopted(p))
<1> DEFINE a == ActiveDbRun(p)
           q == [p EXCEPT !.ref = a, !.runId = a, !.running = TRUE, !.result = NoResult]
<1>1. p \in Page /\ p.runs \in Lists /\ p.ref = p.runId
    BY DEF PageOK, Listing
<1>2. CASE p.running \/ a = None \/ Known(p)
    BY <1>1, <1>2 DEF Adopted, Agrees, Known
<1>3. CASE ~(p.running \/ a = None \/ Known(p))
    <2>1. Adopted(p) = q
        BY <1>3 DEF Adopted
    <2>2. p.runs[a] = "running"
        BY <1>1, <1>3, ActiveType
    <2>3. q.runs = p.runs /\ q.running /\ q.runId = a
        BY <1>1 DEF Page
    <2>4. ~ListsSettled(q)
        BY <2>2, <2>3 DEF ListsSettled, Verdicts
    <2> HIDE DEF q
    <2> QED
        BY <2>1, <2>3, <2>4 DEF Agrees
<1> QED
    BY <1>2, <1>3

\* A render keeps what the page holds true, and brings it into line with the list.
LEMMA RenderedOK ==
    ASSUME own \in Owns, NEW p, PageOK(p)
    PROVE  PageOK(Rendered(p)) /\ Agrees(Rendered(p))
<1> DEFINE a == Adopted(p)
           s == Synced(a)
<1>1. PageOK(a) /\ a \in Page
    BY AdoptedOK DEF PageOK
<1>2. PageOK(s) /\ (s.running => ~ListsSettled(s))
    BY <1>1, SyncedOK, SyncedSettles
<1>3. PageOK(Adopted(s)) /\ Agrees(Adopted(s))
    BY <1>2, AdoptedOK, AdoptedAgrees
<1> QED
    BY <1>3 DEF Rendered

LEMMA BlankOK ==
    ASSUME own \in Owns, NEW l, Listing(l)
    PROVE  PageOK(Reset(l)) /\ Reset(l).runs = l /\ ~Reset(l).running
BY DEF PageOK, Reset, Page, NoResult, Listing

LEMMA ListedOK ==
    ASSUME PageInv PROVE Listing(Listed)
BY RunFacts DEF PageInv, Typed, Truthful, Listing, Listed, Lists

LEMMA PageInitOK == PageInit => PageInv
<1> SUFFICES ASSUME PageInit PROVE PageInv
    OBVIOUS
<1>1. own \in Owns /\ own \subseteq RunIds
    BY RunFacts DEF PageInit
<1>2. Listing([r \in own |-> "absent"])
    BY DEF Listing, Lists, Statuses, Verdicts
<1>3. PageOK(page)
    BY <1>1, <1>2, BlankOK DEF PageInit, Blank
<1>4. Typed
    <2>1. /\ dbRow \in [RunIds -> Statuses] /\ held \in [RunIds -> SUBSET Verdicts]
          /\ runPc \in [RunIds -> {"none", "inserted", "streaming", "over"} \cup Verdicts]
        BY DEF PageInit, Statuses
    <2>2. slot \in [BOOLEAN -> RunIds \cup {None}] /\ wire \in Seq(Messages)
        BY DEF PageInit
    <2>3. killer \subseteq RunIds /\ open \in BOOLEAN /\ busy \in BOOLEAN
        BY DEF PageInit
    <2>4. losses \in 0 .. MaxLosses
        <3>1. MaxLosses \in Nat /\ losses = 0
            BY DEF PageInit
        <3> QED
            BY <3>1
    <2> QED
        BY <1>1, <2>1, <2>2, <2>3, <2>4 DEF Typed
<1>5. Truthful
    BY DEF PageInit, Truthful, Verdicts
<1> QED
    BY <1>3, <1>4, <1>5 DEF PageInv

-----------------------------------------------------------------------------
(* The server's steps                                                       *)

\* What a step that lets history grow leaves true of the page and the answers.
LEMMA MoreHeld ==
    ASSUME PageInv, UNCHANGED <<own, page, asked>>,
           \A r \in RunIds : held[r] \subseteq held'[r]
    PROVE  PageOK(page)' /\ \A l \in asked' : Listing(l)'
<1>1. own \subseteq RunIds
    BY RunFacts DEF PageInv, Typed
<1>2. ASSUME NEW l, Listing(l) PROVE Listing(l)'
    BY <1>1, <1>2 DEF Listing, Lists
<1>3. PageOK(page)'
    BY <1>1, <1>2 DEF PageInv, PageOK, Page, Lists
<1> QED
    BY <1>2, <1>3 DEF PageInv, Truthful

LEMMA BroadcastOK ==
    ASSUME PageInv, NEW type \in {"run_started", "run_finished"}, NEW r \in RunIds,
           NEW v \in Verdicts \cup {NoResult}, Broadcast(type, r, v), held' = held,
           type = "run_finished" => v \in Verdicts /\ v \in held[r]
    PROVE  /\ wire' \in Seq(Messages)
           /\ \A i \in 1..Len(wire') :
                wire'[i].type = "run_finished" =>
                    wire'[i].result \in Verdicts /\ wire'[i].result \in held'[wire'[i].run]
<1> DEFINE m == [type |-> type, run |-> r, result |-> v]
<1>1. m \in Messages /\ m.type = type /\ m.run = r /\ m.result = v
    BY DEF Messages
<1>2. wire \in Seq(Messages) /\ (wire' = wire \/ wire' = Append(wire, m))
    BY DEF PageInv, Typed, Broadcast
<1> HIDE DEF m
<1>3. CASE wire' = wire
    BY <1>2, <1>3 DEF PageInv, Truthful
<1>4. CASE wire' = Append(wire, m)
    <2>1. /\ wire' \in Seq(Messages) /\ Len(wire') = Len(wire) + 1
          /\ \A i \in 1..Len(wire) : wire'[i] = wire[i]
          /\ wire'[Len(wire) + 1] = m
        BY <1>1, <1>2, <1>4
    <2> QED
        BY <1>1, <2>1 DEF PageInv, Truthful
<1> QED
    BY <1>2, <1>3, <1>4

LEMMA ServeOK ==
    ASSUME PageInv, NEW r \in RunIds, Serve(r)
    PROVE  PageInv' /\ page' = page
<1>1. UNCHANGED <<own, page, asked, open, busy>> /\ page' = page
    BY DEF Serve, Insert, LaunchRun, Settle, SettleEnds, SettleBreaks, CancelEnds
<1>2. /\ dbRow \in [RunIds -> Statuses] /\ held \in [RunIds -> SUBSET Verdicts]
      /\ runPc \in [RunIds -> {"none", "inserted", "streaming", "over"} \cup Verdicts]
      /\ slot \in [BOOLEAN -> RunIds \cup {None}] /\ own \in Owns
      /\ killer \subseteq RunIds /\ wire \in Seq(Messages) /\ losses \in 0..MaxLosses
    BY DEF PageInv, Typed
<1>3. \A v : slot' = [slot EXCEPT ![Mine(r)] = v] /\ v \in RunIds \cup {None} =>
          slot' \in [BOOLEAN -> RunIds \cup {None}]
    BY <1>2 DEF Mine
<1> HIDE DEF Mine
<1>4. CASE Insert(r)
    <2>1. /\ UNCHANGED <<held, slot, killer, wire, losses>>
          /\ dbRow' = [dbRow EXCEPT ![r] = "running"] /\ runPc' = [runPc EXCEPT ![r] = "inserted"]
        BY <1>4 DEF Insert
    <2>2. Typed'
        BY <1>1, <1>2, <2>1 DEF PageInv, Typed, Statuses
    <2>3. PageOK(page)' /\ \A l \in asked' : Listing(l)'
        BY <1>1, <2>1, MoreHeld
    <2>4. Truthful'
        BY <1>1, <1>2, <2>1, <2>3 DEF PageInv, Truthful, Verdicts
    <2> QED
        BY <1>1, <2>2, <2>3, <2>4 DEF PageInv
<1>5. CASE LaunchRun(r)
    <2>1. /\ UNCHANGED <<dbRow, held, killer, losses>> /\ Broadcast("run_started", r, NoResult)
          /\ slot' = [slot EXCEPT ![Mine(r)] = r] /\ runPc' = [runPc EXCEPT ![r] = "streaming"]
        BY <1>5 DEF LaunchRun
    <2>2. Typed'
        BY <1>1, <1>2, <1>3, <2>1, BroadcastOK DEF PageInv, Typed
    <2>3. PageOK(page)' /\ \A l \in asked' : Listing(l)'
        BY <1>1, <2>1, MoreHeld
    <2>4. /\ \A q \in RunIds : dbRow'[q] \in Verdicts => dbRow'[q] \in held'[q]
          /\ \A q \in RunIds : runPc'[q] \in Verdicts => runPc'[q] \in held'[q]
          /\ \A q \in killer' : "zeros" \in held'[q]
        BY <1>2, <2>1 DEF PageInv, Truthful, Verdicts
    <2>5. Truthful'
        BY <2>1, <2>3, <2>4, BroadcastOK DEF Truthful
    <2> QED
        BY <1>1, <2>2, <2>3, <2>5 DEF PageInv
<1>6. ASSUME NEW v \in Verdicts, Settle(r, v) PROVE PageInv'
    <2>1. /\ UNCHANGED <<slot, killer, wire, losses>> /\ runPc' = [runPc EXCEPT ![r] = v]
          /\ dbRow' = [dbRow EXCEPT ![r] = v] /\ held' = [held EXCEPT ![r] = held[r] \cup {v}]
        BY <1>6 DEF Settle, WriteVerdict
    <2>2. Typed' /\ \A q \in RunIds : held[q] \subseteq held'[q]
        BY <1>1, <1>2, <2>1 DEF PageInv, Typed, Statuses
    <2>3. PageOK(page)' /\ \A l \in asked' : Listing(l)'
        BY <1>1, <2>2, MoreHeld
    <2>4. /\ \A q \in RunIds : dbRow'[q] \in Verdicts => dbRow'[q] \in held'[q]
          /\ \A q \in RunIds : runPc'[q] \in Verdicts => runPc'[q] \in held'[q]
          /\ \A q \in killer' : "zeros" \in held'[q]
        BY <1>2, <2>1, <2>2 DEF PageInv, Truthful
    <2>5. \A i \in 1..Len(wire) : wire[i].run \in RunIds
        <3>1. \A i \in 1..Len(wire) : wire[i] \in Messages
            BY <1>2
        <3> QED
            BY <3>1 DEF Messages
    <2>6. Truthful'
        BY <2>1, <2>2, <2>3, <2>4, <2>5 DEF PageInv, Truthful
    <2> QED
        BY <1>1, <2>2, <2>3, <2>6 DEF PageInv
<1>7. ASSUME NEW v \in Verdicts, Tell(r, v), v \in held[r],
             UNCHANGED <<dbRow, held, losses>>, killer' \subseteq killer,
             runPc' = runPc \/ runPc' = [runPc EXCEPT ![r] = "over"]
      PROVE  PageInv'
    <2>1. Broadcast("run_finished", r, v) /\ slot' = [slot EXCEPT ![Mine(r)] = None]
        BY <1>7 DEF Tell
    <2>2. Typed'
        BY <1>1, <1>2, <1>3, <1>7, <2>1, BroadcastOK DEF PageInv, Typed
    <2>3. PageOK(page)' /\ \A l \in asked' : Listing(l)'
        BY <1>1, <1>7, MoreHeld
    <2>4. /\ \A q \in RunIds : dbRow'[q] \in Verdicts => dbRow'[q] \in held'[q]
          /\ \A q \in RunIds : runPc'[q] \in Verdicts => runPc'[q] \in held'[q]
          /\ \A q \in killer' : "zeros" \in held'[q]
        <3>1. \A q \in RunIds : runPc'[q] \in Verdicts => runPc[q] \in Verdicts /\ runPc'[q] = runPc[q]
            <4>1. "over" \notin Verdicts
                BY DEF Verdicts
            <4>2. runPc \in [RunIds -> {"none", "inserted", "streaming", "over"} \cup Verdicts]
                BY <1>2
            <4> QED
                BY <1>7, <4>1, <4>2
        <3> QED
            BY <1>7, <3>1 DEF PageInv, Truthful
    <2>5. Truthful'
        BY <1>7, <2>1, <2>3, <2>4, BroadcastOK DEF Truthful
    <2> QED
        BY <1>1, <2>2, <2>3, <2>5 DEF PageInv
<1>8. CASE SettleEnds(r)
    BY <1>7, <1>8 DEF SettleEnds, PageInv, Truthful
<1>9. CASE CancelEnds(r)
    <2>1. "zeros" \in held[r] /\ "zeros" \in Verdicts
        BY <1>9 DEF CancelEnds, PageInv, Truthful, Verdicts
    <2>2. UNCHANGED <<dbRow, held, losses>> /\ killer' \subseteq killer /\ runPc' = runPc /\ Tell(r, "zeros")
        BY <1>9 DEF CancelEnds
    <2> QED
        BY <1>1, <1>7, <2>1, <2>2, Zenon
<1>10. CASE SettleBreaks(r)
    <2>1. /\ UNCHANGED <<dbRow, held, slot, killer, wire>> /\ losses' \in 0..MaxLosses
          /\ runPc' = [runPc EXCEPT ![r] = "over"]
        BY <1>2, <1>10 DEF SettleBreaks
    <2>2. Typed'
        BY <1>1, <1>2, <2>1 DEF PageInv, Typed
    <2>3. PageOK(page)' /\ \A l \in asked' : Listing(l)'
        BY <1>1, <2>1, MoreHeld
    <2>4. Truthful'
        BY <1>1, <1>2, <2>1, <2>3 DEF PageInv, Truthful, Verdicts
    <2> QED
        BY <1>1, <2>2, <2>3, <2>4 DEF PageInv
<1> QED
    BY <1>1, <1>4, <1>5, <1>6, <1>8, <1>9, <1>10 DEF Serve


\* cancelProjectRun: the request that has no stream to end writes the row itself.
LEMMA PageCancelOK ==
    ASSUME PageInv, CancelCurrentRun
    PROVE  PageInv' /\ page' = page
<1> DEFINE r == CurrentRunId(page)
<1>1. /\ UNCHANGED <<own, runPc, slot, wire, open, asked, page, busy, losses>>
      /\ r \in own /\ killer' = killer \cup {r}
      /\ dbRow' = [dbRow EXCEPT ![r] = "zeros"] /\ held' = [held EXCEPT ![r] = held[r] \cup {"zeros"}]
    BY DEF CancelCurrentRun, WriteVerdict
<1>2. r \in RunIds /\ "zeros" \in Verdicts
    BY <1>1, RunFacts DEF PageInv, Typed, Verdicts
<1> HIDE DEF r
<1>3. /\ dbRow \in [RunIds -> Statuses] /\ held \in [RunIds -> SUBSET Verdicts]
      /\ wire \in Seq(Messages) /\ killer \subseteq RunIds
    BY DEF PageInv, Typed
<1>4. Typed' /\ \A q \in RunIds : held[q] \subseteq held'[q]
    BY <1>1, <1>2, <1>3 DEF PageInv, Typed, Statuses
<1>5. PageOK(page)' /\ \A l \in asked' : Listing(l)'
    BY <1>1, <1>4, MoreHeld
<1>6. /\ \A q \in RunIds : dbRow'[q] \in Verdicts => dbRow'[q] \in held'[q]
      /\ \A q \in RunIds : runPc'[q] \in Verdicts => runPc'[q] \in held'[q]
    BY <1>1, <1>2, <1>3, <1>4 DEF PageInv, Truthful
<1>7. \A q \in killer' : "zeros" \in held'[q]
    BY <1>1, <1>2, <1>3, <1>4 DEF PageInv, Truthful
<1>8. \A i \in 1..Len(wire) : wire[i].run \in RunIds
    <2>1. \A i \in 1..Len(wire) : wire[i] \in Messages
        BY <1>3
    <2> QED
        BY <2>1 DEF Messages
<1>9. Truthful'
    BY <1>1, <1>4, <1>5, <1>6, <1>7, <1>8 DEF PageInv, Truthful
<1> QED
    BY <1>1, <1>4, <1>5, <1>9 DEF PageInv

-----------------------------------------------------------------------------
(* The page's steps                                                         *)

\* A step that leaves the rows alone and takes no more than some of the events and
\* answers away: only the page is left to look at.
LEMMA PageMoves ==
    ASSUME PageInv, UNCHANGED <<own, dbRow, held, runPc, slot, killer>>,
           open' \in BOOLEAN, busy' \in BOOLEAN, losses' \in 0..MaxLosses,
           wire' \in Seq(Messages),
           \A i \in 1..Len(wire') : \E k \in 1..Len(wire) : wire'[i] = wire[k],
           \A l \in asked' : Listing(l), PageOK(page')
    PROVE  PageInv'
<1>1. \A l : Listing(l)' = Listing(l)
    BY DEF Listing, Lists
<1>2. \A p : PageOK(p) => (Listing(p.runs) /\ p \in Page)
    BY DEF PageOK
<1>3. PageOK(page)'
    BY <1>1 DEF PageOK, Page, Lists
<1>4. Typed'
    BY DEF PageInv, Typed
<1>5. Truthful'
    BY <1>1 DEF PageInv, Truthful
<1> QED
    BY <1>3, <1>4, <1>5 DEF PageInv

LEMMA AnswerShown ==
    ASSUME PageInv, NEW l, Listing(l)
    PROVE  LET p == [page EXCEPT !.runs = l]
           IN  PageOK(Rendered(p)) /\ Agrees(Rendered(p))
<1> DEFINE p == [page EXCEPT !.runs = l]
<1>1. /\ page \in Page /\ p \in Page /\ p.runs = l /\ p.ref = page.ref /\ p.runId = page.runId
      /\ p.running = page.running /\ p.result = page.result
    BY DEF PageInv, PageOK, Page, Listing
<1>2. PageOK(p)
    BY <1>1 DEF PageInv, PageOK
<1> HIDE DEF p
<1>3. PageOK(Rendered(p)) /\ Agrees(Rendered(p))
    BY <1>2, RenderedOK DEF PageInv, Typed
<1> QED
    BY <1>1, <1>3 DEF p

LEMMA EventShown ==
    ASSUME PageInv, NEW m \in Messages,
           m.type = "run_finished" => m.result \in Verdicts /\ m.result \in held[m.run]
    PROVE  /\ PageOK(Rendered(Started(page, m))) /\ Agrees(Rendered(Started(page, m)))
           /\ m.type = "run_finished" =>
                PageOK(Rendered(Finished(page, m))) /\ Agrees(Rendered(Finished(page, m)))
<1>1. own \in Owns /\ page \in Page /\ PageOK(page) /\ Listing(page.runs) /\ m.run \in RunIds /\ m.run # None
    BY DEF PageInv, Typed, PageOK, Messages, None
<1>2. PageOK(Started(page, m))
    <2>1. /\ Reset(page.runs) \in Page /\ Reset(page.runs).runs = page.runs
          /\ Reset(page.runs).result = NoResult
        BY <1>1 DEF Reset, Page, Listing
    <2>2. /\ Started(page, m) \in Page /\ Started(page, m).runs = page.runs
          /\ Started(page, m).ref = m.run /\ Started(page, m).runId = m.run
          /\ Started(page, m).result = NoResult
        BY <1>1, <2>1 DEF Started, Page
    <2> QED
        BY <1>1, <2>2 DEF PageOK
<1>3. ASSUME m.type = "run_finished"
      PROVE  PageOK(Finished(page, m))
    <2> DEFINE q == [page EXCEPT !.running = FALSE, !.result = m.result]
    <2>1. Finished(page, m) = page \/ (Finished(page, m) = q /\ m.run = page.ref)
        BY DEF Finished, Follows
    <2>2. m.result \in Verdicts /\ m.result \in held[m.run] /\ m.result # NoResult
        BY <1>3 DEF Verdicts, NoResult
    <2>3. /\ q \in Page /\ q.runs = page.runs /\ q.ref = page.ref /\ q.runId = page.runId
          /\ ~q.running /\ q.result = m.result
        BY <1>1, <2>2 DEF Page
    <2>4. m.run = page.ref => PageOK(q)
        BY <1>1, <2>2, <2>3 DEF PageOK
    <2> HIDE DEF q
    <2> QED
        BY <1>1, <2>1, <2>2, <2>3, <2>4
<1> QED
    BY <1>1, <1>2, <1>3, RenderedOK

LEMMA ReceiveOK ==
    ASSUME PageInv, Receive
    PROVE  PageInv' /\ Agrees(page')
<1>1. /\ wire # <<>> /\ wire' = Tail(wire) /\ UNCHANGED <<server, open, asked, busy, losses>>
      /\ page' = Rendered(IF Head(wire).type = "run_started" THEN Started(page, Head(wire))
                          ELSE Finished(page, Head(wire)))
    BY DEF Receive
<1> DEFINE m == Head(wire)
<1>2. wire \in Seq(Messages) /\ Len(wire) > 0 /\ m = wire[1] /\ m \in Messages
    BY <1>1 DEF PageInv, Typed
<1>3. m.type = "run_finished" => m.result \in Verdicts /\ m.result \in held[m.run]
    BY <1>2 DEF PageInv, Truthful
<1>4. m.type \in {"run_started", "run_finished"}
    BY <1>2 DEF Messages
<1>5. wire' \in Seq(Messages) /\ \A i \in 1..Len(wire') : i + 1 \in 1..Len(wire) /\ wire'[i] = wire[i + 1]
    BY <1>1, <1>2
<1> HIDE DEF m
<1>6. PageOK(page') /\ Agrees(page')
    <2>1. CASE m.type = "run_started"
        <3>1. page' = Rendered(Started(page, m))
            BY <1>1, <2>1 DEF m
        <3> QED
            BY <1>2, <1>3, <3>1, EventShown
    <2>2. CASE m.type = "run_finished"
        <3>1. page' = Rendered(Finished(page, m))
            BY <1>1, <2>2 DEF m
        <3> QED
            BY <1>2, <1>3, <2>2, <3>1, EventShown
    <2> QED
        BY <1>4, <2>1, <2>2
<1>7. PageInv'
    <2>1. /\ UNCHANGED <<own, dbRow, held, runPc, slot, killer>>
          /\ open' \in BOOLEAN /\ busy' \in BOOLEAN /\ losses' \in 0..MaxLosses
          /\ \A l \in asked' : Listing(l)
        BY <1>1 DEF server, PageInv, Typed, Truthful
    <2>2. \A i \in 1..Len(wire') : \E k \in 1..Len(wire) : wire'[i] = wire[k]
        BY <1>5
    <2> QED
        BY <1>5, <1>6, <2>1, <2>2, PageMoves
<1> QED
    BY <1>6, <1>7

LEMMA SocketDiesOK ==
    ASSUME PageInv, SocketDies
    PROVE  /\ wire' \in Seq(Messages) /\ open' \in BOOLEAN
           /\ \A i \in 1..Len(wire') : \E k \in 1..Len(wire) : wire'[i] = wire[k]
<1>1. PICK n \in 0..Len(wire) : wire' = SubSeq(wire, 1, n)
    BY DEF SocketDies
<1>2. wire \in Seq(Messages) /\ Len(wire) \in Nat
    BY DEF PageInv, Typed
<1>3. Len(wire') = n /\ wire' \in Seq(Messages) /\ \A i \in 1..n : wire'[i] = wire[i]
    BY <1>1, <1>2
<1>4. open' \in BOOLEAN
    BY DEF SocketDies
<1>5. \A i \in 1..n : i \in 1..Len(wire)
    BY <1>2
<1>6. \A i \in 1..Len(wire') : i \in 1..n
    BY <1>3
<1> QED
    BY <1>3, <1>4, <1>5, <1>6

LEMMA PageActsOK ==
    ASSUME PageInv,
           \/ Poll \/ AnswerLost \/ (\E l \in asked : Answer(l))
           \/ ClickStart \/ StartAnswered \/ StartFails \/ SocketLost \/ Reload
    PROVE  PageInv' /\ (Agrees(page) => Agrees(page'))
<1>1. /\ own \in Owns /\ wire \in Seq(Messages) /\ open \in BOOLEAN /\ busy \in BOOLEAN
      /\ losses \in 0..MaxLosses /\ PageOK(page) /\ \A l \in asked : Listing(l)
    BY DEF PageInv, Typed, Truthful
<1>2. Listing(Listed)
    BY ListedOK
<1>3. UNCHANGED <<own, dbRow, held, runPc, slot, killer>>
    BY DEF Poll, AnswerLost, Answer, ClickStart, StartAnswered, StartFails, SocketLost, Reload, server
<1>4. /\ wire' \in Seq(Messages) /\ open' \in BOOLEAN /\ busy' \in BOOLEAN
      /\ \A i \in 1..Len(wire') : \E k \in 1..Len(wire) : wire'[i] = wire[k]
    <2>1. CASE SocketLost
        BY <1>1, <2>1, SocketDiesOK DEF SocketLost
    <2>2. CASE Reload
        <3>1. wire' = <<>> /\ open' = TRUE /\ busy' = FALSE
            BY <2>2 DEF Reload
        <3>2. Len(wire') = 0 /\ wire' \in Seq(Messages)
            BY <3>1
        <3>3. 1..Len(wire') = {}
            BY <3>2
        <3> QED
            BY <3>1, <3>2, <3>3
    <2>3. CASE ~SocketLost /\ ~Reload
        BY <1>1, <2>3 DEF Poll, AnswerLost, Answer, ClickStart, StartAnswered, StartFails
    <2> QED
        BY <2>1, <2>2, <2>3
<1>5. losses' \in 0..MaxLosses
    <2>1. losses' = losses \/ (losses < MaxLosses /\ losses' = losses + 1)
        BY DEF Poll, AnswerLost, Answer, ClickStart, StartAnswered, StartFails, SocketLost, Reload
    <2>2. MaxLosses \in Nat
        OBVIOUS
    <2> HIDE RunPageConstants
    <2> QED
        BY <1>1, <2>1, <2>2
<1>6. \A l \in asked' : Listing(l)
    <2>1. asked' \subseteq asked \cup {Listed}
        BY DEF Poll, AnswerLost, Answer, ClickStart, StartAnswered, StartFails, SocketLost, Reload
    <2> QED
        BY <1>1, <1>2, <2>1
<1>7. PageOK(page') /\ (Agrees(page) => Agrees(page'))
    <2>1. ASSUME NEW l \in asked, Answer(l) PROVE PageOK(page') /\ Agrees(page')
        BY <1>1, <2>1, AnswerShown DEF Answer
    <2>2. CASE StartAnswered
        BY <1>2, <2>2, AnswerShown DEF StartAnswered
    <2>3. CASE ClickStart
        <3>1. PageOK(page') /\ ~page'.running /\ page'.runs = page.runs
            BY <1>1, <2>3, BlankOK DEF ClickStart, PageOK
        <3>2. ActiveDbRun(page') = None
            BY <2>3, <3>1 DEF ClickStart, LiveRunning, ActiveDbRun, ListedRunning
        <3> QED
            BY <3>1, <3>2 DEF Agrees
    <2>4. CASE Reload
        <3>1. Listing([r \in own |-> "absent"])
            BY DEF Listing, Lists, Statuses, Verdicts
        <3>2. /\ PageOK(page') /\ ~page'.running /\ page'.runs = [r \in own |-> "absent"]
            BY <1>1, <2>4, <3>1, BlankOK DEF Reload, Blank
        <3>3. ActiveDbRun(page') = None
            BY <3>2 DEF ActiveDbRun, ListedRunning
        <3> QED
            BY <3>2, <3>3 DEF Agrees
    <2>5. CASE Poll \/ AnswerLost \/ StartFails \/ SocketLost
        BY <1>1, <2>5 DEF Poll, AnswerLost, StartFails, SocketLost
    <2> QED
        BY <2>1, <2>2, <2>3, <2>4, <2>5
<1> QED
    BY <1>3, <1>4, <1>5, <1>6, <1>7, PageMoves

\* A restart takes the streams, the slots and the answers with it.
LEMMA RestartOK ==
    ASSUME PageInv, Restart
    PROVE  PageInv' /\ page' = page
<1>1. /\ UNCHANGED <<own, dbRow, held, page>> /\ SocketDies /\ killer' = {} /\ asked' = {} /\ busy' = FALSE
      /\ runPc' = [r \in RunIds |-> IF runPc[r] = "none" THEN "none" ELSE "over"]
      /\ slot' = [p \in BOOLEAN |-> None] /\ losses' = losses + 1 /\ losses < MaxLosses
    BY DEF Restart
<1>2. /\ wire' \in Seq(Messages) /\ open' \in BOOLEAN
      /\ \A i \in 1..Len(wire') : \E k \in 1..Len(wire) : wire'[i] = wire[k]
    BY <1>1, SocketDiesOK
<1>3. Typed'
    <2>1. losses' \in 0..MaxLosses
        BY <1>1 DEF PageInv, Typed
    <2>2. runPc' \in [RunIds -> {"none", "inserted", "streaming", "over"} \cup Verdicts]
        BY <1>1
    <2>3. slot' \in [BOOLEAN -> RunIds \cup {None}]
        BY <1>1
    <2> QED
        BY <1>1, <1>2, <2>1, <2>2, <2>3 DEF PageInv, Typed
<1>4. PageOK(page)'
    BY <1>1 DEF PageInv, PageOK, Page, Lists, Listing
<1>5. Truthful'
    <2>1. \A r \in RunIds : runPc'[r] \notin Verdicts
        BY <1>1 DEF Verdicts
    <2> QED
        BY <1>1, <1>2, <2>1 DEF PageInv, Truthful
<1> QED
    BY <1>1, <1>3, <1>4, <1>5 DEF PageInv

LEMMA PageStepOK ==
    ASSUME PageInv, [PageNext]_pageVars
    PROVE  PageInv' /\ own' = own /\ (Agrees(page) => Agrees(page'))
<1>1. CASE UNCHANGED pageVars
    BY <1>1 DEF pageVars, PageInv, Typed, Truthful, PageOK, Page, Listing, Lists
<1>2. own' = own
    BY DEF PageNext, pageVars, server, Serve, Insert, LaunchRun, Settle, SettleEnds,
           SettleBreaks, CancelEnds, Poll, AnswerLost, Receive, Answer, CancelCurrentRun,
           ClickStart, StartAnswered, StartFails, SocketLost, Restart, Reload
<1>3. CASE PageNext
    BY <1>2, <1>3, ServeOK, PageCancelOK, ReceiveOK, PageActsOK, RestartOK DEF PageNext
<1> QED
    BY <1>1, <1>2, <1>3 DEF pageVars

-----------------------------------------------------------------------------
(* Theorems                                                                 *)

\* Types of the rows, slots and events of the server (run-service.ts) and of what the page
\* holds (RunPage.tsx).
THEOREM PageTypesHold == PageSpec => []PageTypeOK
<1>1. PageInv => PageTypeOK
    BY DEF PageInv, Typed, Truthful, PageOK, Page, Lists, Statuses, Messages, PageTypeOK, Listing
<1> QED
    BY <1>1, PageInitOK, PageStepOK, PTL DEF PageSpec

\* The counts on the page are counts the row of the run it names has held, however events
\* of several projects, overtaken lists, cancels, restarts and reloads come together
\* (onmessage, syncFinishedRun, adoptActiveRun).
THEOREM ResultsAreOwn == PageSpec => []ResultIsOfItsRun
<1>1. PageInv => ResultIsOfItsRun
    BY DEF PageInv, PageOK, ResultIsOfItsRun
<1> QED
    BY <1>1, PageInitOK, PageStepOK, PTL DEF PageSpec

\* Whatever events, overtaken lists, clicks and reloads come together, the page does not
\* contradict its list: it shows no run as running that the list shows settled, and no
\* older result while the list shows a run at work (adoptActiveRun, syncFinishedRun and
\* the two effects of RunPage.tsx).
THEOREM PageAgrees == PageSpec => []PageAgreesWithList
<1>1. PageInit => Agrees(page)
    <2> SUFFICES ASSUME PageInit PROVE Agrees(page)
        OBVIOUS
    <2>1. ~page.running /\ page.runs = [r \in own |-> "absent"]
        BY DEF PageInit, Blank, Reset
    <2>2. ActiveDbRun(page) = None
        BY <2>1 DEF ActiveDbRun, ListedRunning
    <2> QED
        BY <2>1, <2>2 DEF Agrees
<1>2. PageInv /\ Agrees(page) /\ [PageNext]_pageVars => Agrees(page)'
    <2> SUFFICES ASSUME PageInv, Agrees(page), [PageNext]_pageVars PROVE Agrees(page)'
        OBVIOUS
    <2>1. own' = own /\ Agrees(page')
        BY PageStepOK
    <2> QED
        BY <2>1 DEF Agrees, ListsSettled, ActiveDbRun, ListedRunning
<1>3. Agrees(page) => PageAgreesWithList
    BY DEF Agrees, PageAgreesWithList
<1> QED
    BY <1>1, <1>2, <1>3, PageInitOK, PageStepOK, PTL DEF PageSpec

=============================================================================
