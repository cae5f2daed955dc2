---------------------------- MODULE PiJobsProofs ----------------------------
(* Machine-checked theorems about PiJobs, for every set of requests and of  *)
(* cancel calls and every bound on mishaps.                                 *)
EXTENDS PiJobs, TLAPS

USE PiJobsAssumption

-----------------------------------------------------------------------------
(* Types                                                                    *)

\* A cancel call under way names a job, and only a registered job is executed.
Targeted == \A c \in Cancels : canc[c].pc # "idle" => canc[c].job \in Jobs
Launched == \A j \in Jobs : exec[j] # "none" => call[j] = "done"

CallAction(j) == Request(j) \/ CallStep(j) \/ CallThrows(j)
ExecAction(j) == Settles(j) \/ ExecStep(j) \/ ConfigThrows(j) \/ ExecThrows(j)
CancelAction(c) == \/ \E j \in Jobs : CancelHandle(c, j) \/ CancelLookup(c, j)
                   \/ CancelStep(c)

LEMMA NextSplit ==
  ASSUME [Next]_vars
  PROVE  \/ \E j \in Jobs : CallAction(j) \/ ExecAction(j)
         \/ \E c \in Cancels : CancelAction(c)
         \/ Crash \/ UNCHANGED vars
BY DEF Next, CallAction, ExecAction, CancelAction

LEMMA TypeInit == Init => TypeOK /\ Targeted /\ Launched
BY DEF Init, TypeOK, Targeted, Launched, CallPc, ExecPc, RowStatus, Stage, Cancel, CancelPc

\* Requests: the stage, the check, the insert and the registration.
LEMMA CallTyped ==
  ASSUME TypeOK, Targeted, Launched, NEW j \in Jobs, CallAction(j)
  PROVE  TypeOK' /\ Targeted' /\ Launched'
<1> USE DEF TypeOK, CallPc, Window, rowVars, handleVars, history
<1>1. /\ UNCHANGED canc
      /\ call[j] # "done"
      /\ call' \in [Jobs -> CallPc]
      /\ \A k \in Jobs \ {j} : call'[k] = call[k]
  BY DEF CallAction, CallStep, Request, FindActive, InsertJob, Register, CallRefused,
     CallThrows
<1>2. \/ UNCHANGED exec
      \/ exec' = [exec EXCEPT ![j] = "config"] /\ call'[j] = "done"
  BY DEF CallAction, CallStep, Request, FindActive, InsertJob, Register, CallRefused,
     CallThrows
<1>3. exec' \in [Jobs -> ExecPc]
  BY <1>2 DEF ExecPc
<1>4. /\ row' \in [Jobs -> RowStatus] /\ shown' \in [Jobs -> RowStatus]
      /\ stage' \in Stage
  BY DEF CallAction, CallStep, Request, FindActive, InsertJob, Register, CallRefused,
     CallThrows, RowStatus, Stage, InsertedAs
<1>5. inMap' \subseteq Jobs /\ flag' \subseteq Jobs /\ pi' \subseteq Jobs
  BY DEF CallAction, CallStep, Request, FindActive, InsertJob, Register, CallRefused,
     CallThrows
<1>6. mishaps' \in Nat /\ late' \subseteq Jobs
  BY DEF CallAction, CallStep, Request, FindActive, InsertJob, Register, CallRefused,
     CallThrows
<1>7. raced' \subseteq {"plan", "code"}
  <2>1. TypeOf[j] \in {"plan", "code"}
    OBVIOUS
  <2>2. raced' = raced \/ raced' = raced \cup {TypeOf[j]}
    BY DEF CallAction, CallStep, Request, FindActive, InsertJob, Register, CallRefused,
       CallThrows
  <2> QED
    BY <2>1, <2>2
<1>8. TypeOK'
  BY <1>1, <1>3, <1>4, <1>5, <1>6, <1>7
<1> QED
  BY <1>1, <1>2, <1>8 DEF Targeted, Launched

\* What the catch block does to exec and to the handle's copy of the job.
LEMMA CatchTyped ==
  ASSUME TypeOK, NEW j \in Jobs, Catch(j)
  PROVE  /\ \E pc \in {"failRecord", "cleanup"} : exec' = [exec EXCEPT ![j] = pc]
         /\ shown' \in [Jobs -> RowStatus]
BY DEF Catch, Catches, TypeOK, RowStatus, Terminal

\* execute moves one job from one place to another, never back to "none".
LEMMA ExecMoves ==
  ASSUME TypeOK, NEW j \in Jobs, ExecAction(j)
  PROVE  /\ exec[j] # "none"
         /\ \E pc \in ExecPc \ {"none"} : exec' = [exec EXCEPT ![j] = pc]
         /\ UNCHANGED <<call, canc, raced, late>>
<1> USE DEF ExecFrame, ExecPc, Asking, Checking, Ending, Unless
<1>1. CASE Settles(j)
  BY <1>1 DEF Settles
<1>2. CASE Start(j) \/ ConfigThrows(j)
  BY <1>2 DEF Start, ConfigThrows
<1>3. CASE PromptFails(j)
  BY <1>3, CatchTyped DEF PromptFails, PromptTimeout
<1>4. CASE Found(j) \/ Save(j)
  BY <1>4 DEF Found, Save
<1>5. CASE Missing(j)
  BY <1>5, CatchTyped DEF Missing
<1>6. CASE Record(j) \/ FailRecord(j) \/ FailStage(j) \/ Cleanup(j)
  BY <1>6 DEF Record, FailRecord, FailStage, Cleanup
<1>7. CASE ExecThrows(j)
  BY <1>7, CatchTyped DEF ExecThrows
<1> QED
  BY <1>1, <1>2, <1>3, <1>4, <1>5, <1>6, <1>7 DEF ExecAction, ExecStep

LEMMA ExecTyped ==
  ASSUME TypeOK, Targeted, Launched, NEW j \in Jobs, ExecAction(j)
  PROVE  TypeOK' /\ Targeted' /\ Launched'
<1>1. /\ UNCHANGED <<call, canc, raced, late>>
      /\ exec[j] # "none"
      /\ exec' \in [Jobs -> ExecPc]
      /\ \A k \in Jobs \ {j} : exec'[k] = exec[k]
  BY ExecMoves DEF TypeOK
<1>2. row' \in [Jobs -> RowStatus] /\ stage' \in Stage
  BY DEF TypeOK, ExecAction, ExecStep, Settles, Start, ConfigThrows, PromptFails, Found,
     Missing, Save, Record, FailRecord, FailStage, Cleanup, ExecThrows, RowStatus,
     Terminal, Stage, StageOnFailure, rowVars
<1>3. shown' \in [Jobs -> RowStatus]
  BY CatchTyped DEF TypeOK, ExecAction, ExecStep, Settles, Start, ConfigThrows,
     PromptFails, Found, Missing, Save, Record, FailRecord, FailStage, Cleanup,
     ExecThrows, RowStatus, Terminal, handleVars
<1>4. inMap' \subseteq Jobs /\ flag' \subseteq Jobs /\ pi' \subseteq Jobs
  BY DEF TypeOK, ExecAction, ExecStep, Settles, Start, ConfigThrows, PromptFails, Found,
     Missing, Save, Record, FailRecord, FailStage, Cleanup, ExecThrows, StopAgent,
     HandleDropped, handleVars
<1>5. mishaps' \in Nat
  BY DEF TypeOK, ExecAction, ExecStep, Settles, Start, ConfigThrows, PromptFails, Found,
     Missing, Save, Record, FailRecord, FailStage, Cleanup, ExecThrows
<1> QED
  BY <1>1, <1>2, <1>3, <1>4, <1>5 DEF TypeOK, Targeted, Launched

\* cancelJob, with a handle and without one.
LEMMA CancelTyped ==
  ASSUME TypeOK, Targeted, Launched, NEW c \in Cancels, CancelAction(c)
  PROVE  TypeOK' /\ Targeted' /\ Launched'
<1> USE DEF TypeOK, rowVars, handleVars, history, Cancel, CancelPc
<1>1. UNCHANGED <<call, exec, mishaps, stage>>
  BY DEF CancelAction, CancelHandle, CancelLookup, CancelStep, CancelFind, CancelWrite
<1>2. ASSUME NEW j \in Jobs, CancelHandle(c, j)
      PROVE  TypeOK' /\ Targeted' /\ Launched'
  BY <1>1, <1>2 DEF CancelHandle, Targeted, Launched, RowStatus, Terminal
<1>3. ASSUME NEW j \in Jobs, CancelLookup(c, j)
      PROVE  TypeOK' /\ Targeted' /\ Launched'
  <2>1. TypeOf[j] \in {"plan", "code"}
    OBVIOUS
  <2> QED
    BY <1>1, <1>3, <2>1 DEF CancelLookup, Targeted, Launched
<1>4. CASE CancelFind(c)
  BY <1>1, <1>4 DEF CancelFind, Targeted, Launched
<1>5. CASE CancelWrite(c)
  BY <1>1, <1>5 DEF CancelWrite, Targeted, Launched, RowStatus, Terminal
<1> QED
  BY <1>2, <1>3, <1>4, <1>5 DEF CancelAction, CancelStep

LEMMA CrashTyped ==
  ASSUME TypeOK, Targeted, Launched, Crash
  PROVE  TypeOK' /\ Targeted' /\ Launched'
<1> USE DEF TypeOK, Crash, rowVars, history
<1>1. call' \in [Jobs -> CallPc] /\ exec' \in [Jobs -> ExecPc]
  BY DEF CallPc, ExecPc
<1>2. canc' \in [Cancels -> Cancel]
  BY DEF Cancel, CancelPc
<1>3. TypeOK'
  BY <1>1, <1>2
<1>4. Targeted'
  BY DEF Targeted, Cancel
<1>5. Launched'
  BY DEF Launched, Window
<1> QED
  BY <1>3, <1>4, <1>5

\* What every later invariant relies on.
Base == TypeOK /\ Targeted /\ Launched

LEMMA BaseStep == Base /\ [Next]_vars => Base'
<1> SUFFICES ASSUME TypeOK, Targeted, Launched, [Next]_vars
             PROVE  TypeOK' /\ Targeted' /\ Launched'
  BY DEF Base
<1>1. CASE UNCHANGED vars
  BY <1>1 DEF vars, TypeOK, Targeted, Launched, rowVars, handleVars, history
<1> QED
  BY <1>1, NextSplit, CallTyped, ExecTyped, CancelTyped, CrashTyped

\* Every variable keeps its type in every reachable state: the handles, rows and
\* cancel calls of the job runner.
THEOREM TypeCorrect == Spec => []TypeOK
<1>1. Init => Base
  BY TypeInit DEF Base
<1>2. Base => TypeOK
  BY DEF Base
<1> QED
  BY <1>1, <1>2, BaseStep, PTL DEF Spec

-----------------------------------------------------------------------------
(* Agents                                                                   *)

\* Only Start adds an agent, for a job that is then at its first prompt; who ends
\* the work of a job or flags it stops its agent in the same step.
LEMMA AgentStep == Base /\ AgentIsWanted /\ [Next]_vars => AgentIsWanted'
<1> SUFFICES ASSUME Base, AgentIsWanted, [Next]_vars
             PROVE  AgentIsWanted'
  OBVIOUS
<1> USE DEF AgentIsWanted, Base, TypeOK, Asking, Checking, handleVars, rowVars
<1>1. ASSUME NEW j \in Jobs, CallAction(j)
      PROVE  AgentIsWanted'
  <2>1. /\ UNCHANGED <<pi, flag>>
        /\ \/ UNCHANGED exec
           \/ call[j] = "inserted" /\ exec' = [exec EXCEPT ![j] = "config"]
    BY <1>1 DEF CallAction, CallStep, Request, FindActive, InsertJob, Register,
       CallRefused, CallThrows
  <2>2. call[j] = "inserted" => j \notin pi
    BY DEF Launched
  <2> QED
    BY <2>1, <2>2
<1>2. ASSUME NEW j \in Jobs, ExecAction(j)
      PROVE  AgentIsWanted'
  <2>1. /\ UNCHANGED flag
        /\ \A k \in Jobs \ {j} : exec'[k] = exec[k]
        /\ pi' \subseteq pi \cup {j}
    BY <1>2, ExecMoves DEF ExecAction, ExecStep, Settles, Start, ConfigThrows,
       PromptFails, Found, Missing, Save, Record, FailRecord, FailStage, Cleanup,
       ExecThrows, StopAgent
  <2>2. j \in pi' => /\ exec'[j] \in Asking \cup Checking \cup {"record", "failRecord", "failStage"}
                     /\ j \notin flag
    <3>1. CASE Settles(j)
      BY <3>1 DEF Settles, Unless
    <3>2. CASE Start(j) \/ ConfigThrows(j)
      BY <3>2 DEF Start, ConfigThrows, Unless
    <3>3. CASE PromptFails(j)
      BY <3>3 DEF PromptFails, Catch, Catches
    <3>4. CASE Found(j) \/ Save(j)
      BY <3>4 DEF Found, Save
    <3>5. CASE Missing(j)
      BY <3>5 DEF Missing, Catch, Catches
    <3>6. CASE Record(j) \/ FailRecord(j) \/ FailStage(j) \/ Cleanup(j)
      BY <3>6 DEF Record, FailRecord, FailStage, Cleanup, StopAgent
    <3>7. CASE ExecThrows(j)
      BY <3>7 DEF ExecThrows, Catch, Catches, StopAgent
    <3> QED
      BY <1>2, <3>1, <3>2, <3>3, <3>4, <3>5, <3>6, <3>7 DEF ExecAction, ExecStep
  <2> QED
    BY <2>1, <2>2
<1>3. ASSUME NEW c \in Cancels, CancelAction(c)
      PROVE  AgentIsWanted'
  BY <1>3 DEF CancelAction, CancelHandle, CancelLookup, CancelStep, CancelFind,
     CancelWrite
<1>4. CASE Crash
  BY <1>4 DEF Crash
<1>5. CASE UNCHANGED vars
  BY <1>5 DEF vars
<1> QED
  BY <1>1, <1>2, <1>3, <1>4, <1>5, NextSplit

\* A Pi process runs only for a job that is still being worked on and that nobody
\* cancelled, whichever way execute ends and wherever the cancel meets it.
THEOREM AgentWanted == Spec => []AgentIsWanted
<1>1. Init => Base /\ AgentIsWanted
  BY TypeInit DEF Init, Base, AgentIsWanted
<1>2. Base /\ AgentIsWanted /\ [Next]_vars => (Base /\ AgentIsWanted)'
  BY BaseStep, AgentStep
<1> QED
  BY <1>1, <1>2, PTL DEF Spec

\* Once handle.cancelled is set the agent is not prompted: every move of execute to
\* a prompt looks at the flag first.
THEOREM NotPromptedAgain == Spec => CancelledNotPrompted
<1>1. ASSUME Base, [Next]_vars, NEW j \in Jobs, j \in flag, exec[j] # exec'[j]
      PROVE  exec'[j] \notin Asking
  <2> USE <1>1 DEF Base, TypeOK, Asking, Checking
  <2>1. ASSUME NEW k \in Jobs, CallAction(k)
        PROVE  exec'[j] \notin Asking
    BY <2>1 DEF CallAction, CallStep, Request, FindActive, InsertJob, Register,
       CallRefused, CallThrows
  <2>2. ASSUME NEW k \in Jobs, ExecAction(k)
        PROVE  exec'[j] \notin Asking
    <3>1. k = j
      BY <2>2, ExecMoves
    <3>2. CASE Settles(j) \/ Start(j) \/ ConfigThrows(j)
      BY <3>2 DEF Settles, Start, ConfigThrows, Unless
    <3>3. CASE PromptFails(j) \/ Missing(j)
      BY <3>3 DEF PromptFails, Missing, Catch, Catches
    <3>4. CASE \/ Found(j) \/ Save(j) \/ Record(j) \/ FailRecord(j) \/ FailStage(j)
               \/ Cleanup(j)
      BY <3>4 DEF Found, Save, Record, FailRecord, FailStage, Cleanup
    <3>5. CASE ExecThrows(j)
      BY <3>5 DEF ExecThrows, Catch, Catches
    <3> QED
      BY <2>2, <3>1, <3>2, <3>3, <3>4, <3>5 DEF ExecAction, ExecStep
  <2>3. ASSUME NEW c \in Cancels, CancelAction(c)
        PROVE  exec'[j] \notin Asking
    BY <2>3 DEF CancelAction, CancelHandle, CancelLookup, CancelStep, CancelFind,
       CancelWrite
  <2>4. CASE Crash \/ UNCHANGED vars
    BY <2>4 DEF Crash, vars
  <2> QED
    BY <2>1, <2>2, <2>3, <2>4, NextSplit
<1>2. Base /\ [Next]_vars =>
        [\A j \in Jobs : j \in flag /\ exec[j] # exec'[j] => exec'[j] \notin Asking]_vars
  BY <1>1
<1>3. Init => Base
  BY TypeInit DEF Base
<1> QED
  BY <1>2, <1>3, BaseStep, PTL DEF Spec, CancelledNotPrompted

-----------------------------------------------------------------------------
(* One worker per type                                                      *)

\* A job claims its type from the moment its start passed the 409 check until
\* its agent's output can no longer be stored.
Claims(j) == call[j] \in Window \/ Working(j)
Unraced(j) == TypeOf[j] \notin raced

\* The handle is there as long as the work, and a cancel under way has either
\* flagged it or read a row that its job had written.
Registered == \A j \in inMap \cup flag : call[j] = "done"
Unwritten  == \A j \in Jobs : call[j] \in {"idle", "find", "insert", "refused"} => row[j] = "none"
Handled    == \A j \in Jobs : Working(j) => j \in inMap
Flagged    == \A c \in Cancels : canc[c].pc = "write" => canc[c].job \in flag
Looked     == \A c \in Cancels : canc[c].pc \in {"find", "writeRow"} => row[canc[c].job] # "none"

\* The row shows every claim to the next 409 check, since the only cancels that
\* write a row without flagging a handle are for jobs nobody works on.
ClaimShown ==
    \A j \in Jobs : Unraced(j) /\ (call[j] = "inserted" \/ Working(j)) => row[j] = "running"
BlindCancels ==
    \A c \in Cancels : LET j == canc[c].job IN
        canc[c].pc \in {"find", "writeRow"} /\ Unraced(j) =>
            call[j] \in {"threw", "done"} /\ ~Working(j)
OneClaim ==
    \A j, k \in Jobs :
        Claims(j) /\ Claims(k) /\ TypeOf[j] = TypeOf[k] /\ Unraced(j) => j = k

Bookkeeping == Registered /\ Unwritten /\ Handled /\ Flagged /\ Looked
Exclusive == ClaimShown /\ BlindCancels /\ OneClaim

LEMMA ExclusiveInit == Init => Bookkeeping /\ Exclusive
BY DEF Init, Bookkeeping, Exclusive, Registered, Unwritten, Handled, Flagged, Looked,
   ClaimShown, BlindCancels, OneClaim, Claims, Unraced, Working, Window, Asking, Checking

LEMMA CallExclusive ==
  ASSUME Base, Bookkeeping, Exclusive, NEW j \in Jobs, CallAction(j)
  PROVE  Bookkeeping' /\ Exclusive'
<1> USE DEF Base, TypeOK, handleVars, rowVars, history, Window
<1> DEFINE Moves == UNCHANGED <<canc, flag, row, inMap, exec, raced>>
<1>1. /\ UNCHANGED <<canc, flag>>
      /\ raced \subseteq raced'
      /\ \A k \in Jobs \ {j} : call'[k] = call[k] /\ exec'[k] = exec[k] /\ row'[k] = row[k]
  BY DEF CallAction, CallStep, Request, FindActive, InsertJob, Register, CallRefused,
     CallThrows
<1>2. \/ Moves /\ call[j] \in {"idle", "find", "insert", "refused"}
              /\ call'[j] \in {"find", "refused", "threw"}
      \/ FindActive(j) /\ call'[j] = "insert"
      \/ InsertJob(j)
      \/ Register(j)
  BY DEF CallAction, CallStep, Request, FindActive, InsertJob, Register, CallRefused,
     CallThrows
<1>3. call[j] # "done" /\ exec[j] = "none" /\ j \notin inMap /\ j \notin flag
  <2>1. call[j] # "done"
    BY <1>2 DEF FindActive, InsertJob, Register
  <2> QED
    BY <2>1 DEF Launched, Bookkeeping, Registered
<1>4. ~Working(j) /\ \A k \in Jobs \ {j} : Working(k)' <=> Working(k)
  BY <1>1, <1>3 DEF Working, Asking, Checking
<1>5. Working(j)' => Register(j)
  BY <1>2, <1>3 DEF Working, Asking, Checking, FindActive, InsertJob
<1>6. Bookkeeping'
  <2> USE DEF Bookkeeping
  <2>1. Registered'
    BY <1>1, <1>2, <1>3 DEF Registered, FindActive, InsertJob, Register
  <2>2. Unwritten'
    BY <1>1, <1>2 DEF Unwritten, FindActive, InsertJob, Register
  <2>3. Handled'
    BY <1>2, <1>4, <1>5 DEF Handled, FindActive, InsertJob, Register
  <2>4. Flagged'
    BY <1>1 DEF Flagged
  <2>5. Looked'
    BY <1>1, <1>2 DEF Looked, FindActive, InsertJob, InsertedAs, Register, Targeted
  <2> QED
    BY <2>1, <2>2, <2>3, <2>4, <2>5
<1>7. ClaimShown'
  BY <1>1, <1>2, <1>4, <1>5 DEF Exclusive, ClaimShown, Unraced, FindActive, InsertJob,
     InsertedAs, Register
<1>8. BlindCancels'
  <2> SUFFICES ASSUME NEW c \in Cancels, canc[c].pc \in {"find", "writeRow"},
                      Unraced(canc[c].job)'
               PROVE  call'[canc[c].job] \in {"threw", "done"} /\ ~Working(canc[c].job)'
    BY <1>1 DEF BlindCancels
  <2>1. canc[c].job \in Jobs
    BY DEF Targeted
  <2>2. call[canc[c].job] \in {"threw", "done"} /\ ~Working(canc[c].job)
    BY <1>1 DEF Exclusive, BlindCancels, Unraced
  <2>3. canc[c].job # j
    BY <1>2, <2>2 DEF FindActive, InsertJob, Register
  <2> QED
    BY <1>1, <1>4, <2>1, <2>2, <2>3
<1>9. OneClaim'
  <2>1. CASE FindActive(j) /\ call'[j] = "insert"
    <3>1. ASSUME NEW k \in Jobs \ {j}, TypeOf[k] = TypeOf[j], Unraced(j)'
          PROVE  ~Claims(k)
      BY <2>1, <3>1 DEF FindActive, ActiveExists, SameType, Unraced, Claims, Exclusive,
         ClaimShown
    <3>2. \A k \in Jobs \ {j} : Claims(k)' <=> Claims(k)
      BY <1>1, <1>4 DEF Claims
    <3> QED
      BY <1>1, <3>1, <3>2 DEF OneClaim, Unraced, Exclusive
  <2>2. CASE ~(FindActive(j) /\ call'[j] = "insert")
    <3>1. \A k \in Jobs : Claims(k)' => Claims(k)
      BY <1>1, <1>2, <1>4, <1>5, <2>2 DEF Claims, InsertJob, Register
    <3> QED
      BY <1>1, <3>1 DEF OneClaim, Unraced, Exclusive
  <2> QED
    BY <2>1, <2>2
<1> QED
  BY <1>6, <1>7, <1>8, <1>9 DEF Exclusive

\* execute only ever gives a claim up, and while it keeps one it leaves the row and
\* the handle alone.
LEMMA ExecReleases ==
  ASSUME TypeOK, NEW j \in Jobs, ExecAction(j)
  PROVE  /\ UNCHANGED flag
         /\ inMap' \subseteq inMap /\ inMap \ {j} \subseteq inMap'
         /\ \A k \in Jobs \ {j} : row'[k] = row[k]
         /\ row'[j] # row[j] => row'[j] \in Terminal
         /\ Working(j)' => Working(j) /\ row'[j] = row[j] /\ inMap' = inMap
<1> USE DEF TypeOK, Working, Terminal, Asking, Checking, Ending, handleVars, rowVars, Unless
<1>1. CASE Settles(j)
  BY <1>1 DEF Settles
<1>2. CASE Start(j) \/ ConfigThrows(j)
  BY <1>2 DEF Start, ConfigThrows
<1>3. CASE PromptFails(j)
  BY <1>3 DEF PromptFails, PromptTimeout, Catch
<1>4. CASE Found(j) \/ Save(j)
  BY <1>4 DEF Found, Save
<1>5. CASE Missing(j)
  BY <1>5 DEF Missing, Catch
<1>6. CASE Record(j) \/ FailRecord(j) \/ FailStage(j) \/ Cleanup(j)
  BY <1>6 DEF Record, FailRecord, FailStage, Cleanup, HandleDropped
<1>7. CASE ExecThrows(j)
  BY <1>7 DEF ExecThrows, Catch
<1> QED
  BY <1>1, <1>2, <1>3, <1>4, <1>5, <1>6, <1>7 DEF ExecAction, ExecStep

LEMMA ExecExclusive ==
  ASSUME Base, Bookkeeping, Exclusive, NEW j \in Jobs, ExecAction(j)
  PROVE  Bookkeeping' /\ Exclusive'
<1> USE DEF Base
<1>1. /\ UNCHANGED <<call, canc, raced, flag>>
      /\ \A k \in Jobs \ {j} : exec'[k] = exec[k] /\ row'[k] = row[k]
      /\ row'[j] # row[j] => row'[j] # "none"
      /\ inMap' \subseteq inMap /\ inMap \ {j} \subseteq inMap'
      /\ call[j] = "done"
  BY ExecMoves, ExecReleases DEF TypeOK, Launched, Terminal
<1>2. \A k \in Jobs : Working(k)' => Working(k) /\ row'[k] = row[k]
  BY <1>1, ExecReleases DEF Working
<1>3. Bookkeeping'
  <2> USE DEF Bookkeeping
  <2>1. Registered' /\ Unwritten' /\ Flagged'
    BY <1>1 DEF Registered, Unwritten, Flagged
  <2>2. Handled'
    BY <1>1, <1>2, ExecReleases DEF Handled
  <2>3. Looked'
    BY <1>1 DEF Looked, Targeted
  <2> QED
    BY <2>1, <2>2, <2>3
<1>4. Exclusive'
  <2> USE DEF Exclusive, Unraced
  <2>1. ClaimShown'
    BY <1>1, <1>2 DEF ClaimShown
  <2>2. BlindCancels'
    BY <1>1, <1>2 DEF BlindCancels, Targeted
  <2>3. OneClaim'
    BY <1>1, <1>2 DEF OneClaim, Claims
  <2> QED
    BY <2>1, <2>2, <2>3
<1> QED
  BY <1>3, <1>4

LEMMA CancelExclusive ==
  ASSUME Base, Bookkeeping, Exclusive, NEW c \in Cancels, CancelAction(c)
  PROVE  Bookkeeping' /\ Exclusive'
<1> USE DEF Base, TypeOK, Cancel, CancelPc, handleVars, rowVars, history
<1>1. /\ UNCHANGED <<call, exec>>
      /\ raced \subseteq raced' /\ flag \subseteq flag' /\ inMap' \subseteq inMap
      /\ \A d \in Cancels \ {c} : canc'[d] = canc[d]
      /\ canc' \in [Cancels -> Cancel]
  BY DEF CancelAction, CancelHandle, CancelLookup, CancelStep, CancelFind, CancelWrite,
     Targeted
<1>2. \A k \in Jobs : Working(k)' => Working(k)
  BY <1>1 DEF Working
<1>3. ASSUME NEW j \in Jobs, CancelHandle(c, j)
      PROVE  Bookkeeping' /\ Exclusive'
  <2>1. Bookkeeping'
    BY <1>1, <1>2, <1>3 DEF Bookkeeping, CancelHandle, Registered, Unwritten, Handled,
       Flagged, Looked
  <2>2. ClaimShown' /\ OneClaim'
    BY <1>1, <1>2, <1>3 DEF Exclusive, CancelHandle, ClaimShown, OneClaim, Unraced, Claims
  <2>3. canc'[c].pc = "write" /\ UNCHANGED raced
    BY <1>3 DEF CancelHandle
  <2>4. BlindCancels'
    BY <1>1, <1>2, <2>3 DEF Exclusive, BlindCancels, Unraced, Targeted
  <2> QED
    BY <2>1, <2>2, <2>4 DEF Exclusive
<1>4. ASSUME NEW j \in Jobs, CancelLookup(c, j)
      PROVE  Bookkeeping' /\ Exclusive'
  <2>1. Bookkeeping'
    BY <1>1, <1>2, <1>4 DEF Bookkeeping, CancelLookup, Registered, Unwritten, Handled,
       Flagged, Looked
  <2>2. ClaimShown' /\ OneClaim'
    BY <1>1, <1>2, <1>4 DEF Exclusive, CancelLookup, ClaimShown, OneClaim, Unraced, Claims
  <2>3. ~Working(j) /\ (Unraced(j)' => call[j] \in {"threw", "done"})
    BY <1>4 DEF CancelLookup, Bookkeeping, Handled, Unwritten, CallPc, Window, Unraced
  <2>4. canc'[c].job = j
    BY <1>4 DEF CancelLookup
  <2>5. BlindCancels'
    BY <1>1, <1>2, <2>3, <2>4 DEF Exclusive, BlindCancels, Unraced, Targeted
  <2> QED
    BY <2>1, <2>2, <2>5 DEF Exclusive
<1>5. CASE CancelFind(c)
  <2>1. /\ canc'[c].job = canc[c].job
        /\ canc'[c].pc \in {"writeRow", "done"}
        /\ canc[c].pc = "find"
        /\ UNCHANGED <<row, inMap, flag, raced>>
    BY <1>5 DEF CancelFind
  <2>2. Bookkeeping'
    BY <1>1, <1>2, <2>1 DEF Bookkeeping, Registered, Unwritten, Handled, Flagged, Looked
  <2>3. ClaimShown' /\ OneClaim'
    BY <1>1, <1>2, <2>1 DEF Exclusive, ClaimShown, OneClaim, Unraced, Claims
  <2>4. BlindCancels'
    BY <1>1, <1>2, <2>1 DEF Exclusive, BlindCancels, Unraced, Targeted
  <2> QED
    BY <2>2, <2>3, <2>4 DEF Exclusive
<1>6. CASE CancelWrite(c)
  <2> DEFINE j == canc[c].job
  <2>1. /\ j \in Jobs
        /\ canc'[c].pc = "done"
        /\ canc[c].pc \in {"write", "writeRow"}
        /\ row' = [row EXCEPT ![j] = "cancelled"]
        /\ inMap \ {j} \subseteq inMap'
        /\ canc[c].pc # "write" => inMap' = inMap
        /\ UNCHANGED <<flag, raced>>
    BY <1>6 DEF CancelWrite, Targeted
  <2>2. canc[c].pc = "write" => ~Working(j) /\ call[j] = "done"
    BY DEF Bookkeeping, Flagged, Registered, Working
  <2>3. canc[c].pc = "writeRow" => row[j] # "none"
    BY DEF Bookkeeping, Looked
  <2>4. call[j] \notin {"idle", "find", "insert", "refused"}
    BY <2>1, <2>2, <2>3 DEF Bookkeeping, Unwritten
  <2>5. Unraced(j) => ~Working(j) /\ call[j] \in {"threw", "done"}
    BY <2>1, <2>2 DEF Exclusive, BlindCancels
  <2>6. Bookkeeping'
    <3> USE <1>1, <1>2, <2>1, <2>2, <2>4 DEF Bookkeeping
    <3>1. Registered' /\ Flagged'
      BY DEF Registered, Flagged
    <3>2. Unwritten'
      BY DEF Unwritten
    <3>3. Handled'
      BY DEF Handled
    <3>4. Looked'
      BY DEF Looked, Targeted
    <3> QED
      BY <3>1, <3>2, <3>3, <3>4
  <2>7. ClaimShown' /\ OneClaim'
    BY <1>1, <1>2, <2>1, <2>5 DEF Exclusive, ClaimShown, OneClaim, Unraced, Claims
  <2>8. BlindCancels'
    BY <1>1, <1>2, <2>1 DEF Exclusive, BlindCancels, Unraced, Targeted
  <2> QED
    BY <2>6, <2>7, <2>8 DEF Exclusive
<1> QED
  BY <1>3, <1>4, <1>5, <1>6 DEF CancelAction, CancelStep

LEMMA CrashExclusive ==
  ASSUME Base, Bookkeeping, Exclusive, Crash
  PROVE  Bookkeeping' /\ Exclusive'
<1> USE DEF Base, TypeOK, Crash, rowVars, history
<1>1. \A k \in Jobs : ~Claims(k)' /\ call'[k] # "inserted"
  BY DEF Claims, Working, Window, Asking, Checking
<1>2. \A c \in Cancels : canc'[c].pc \notin {"find", "writeRow", "write"}
  BY DEF Cancel, CancelPc
<1>3. inMap' = {} /\ flag' = {}
  OBVIOUS
<1>4. Unwritten'
  BY DEF Bookkeeping, Unwritten, Window
<1> QED
  BY <1>1, <1>2, <1>3, <1>4 DEF Bookkeeping, Exclusive, Registered, Handled, Flagged,
     Looked, ClaimShown, BlindCancels, OneClaim, Claims

LEMMA ExclusiveStep ==
  Base /\ Bookkeeping /\ Exclusive /\ [Next]_vars => Bookkeeping' /\ Exclusive'
<1> SUFFICES ASSUME Base, Bookkeeping, Exclusive, [Next]_vars
             PROVE  Bookkeeping' /\ Exclusive'
  OBVIOUS
<1>1. CASE UNCHANGED vars
  BY <1>1 DEF vars, Bookkeeping, Exclusive, Registered, Unwritten, Handled, Flagged,
     Looked, ClaimShown, BlindCancels, OneClaim, Claims, Unraced, Working, rowVars,
     handleVars, history
<1> QED
  BY <1>1, NextSplit, CallExclusive, ExecExclusive, CancelExclusive, CrashExclusive

\* Two jobs of one type never work on the workspace together, however many requests
\* and cancels there are, unless their starts or a cancel raced in one of the two
\* ways that raced records.
THEOREM OneWorker == Spec => []OneWorkerPerType
<1> DEFINE IInv == Base /\ Bookkeeping /\ Exclusive
<1>1. Init => IInv
  BY TypeInit, ExclusiveInit DEF Base
<1>2. IInv /\ [Next]_vars => IInv'
  BY BaseStep, ExclusiveStep
<1>3. IInv => OneWorkerPerType
  BY DEF Exclusive, OneClaim, Claims, Unraced, OneWorkerPerType
<1> QED
  BY <1>1, <1>2, <1>3, PTL DEF Spec

-----------------------------------------------------------------------------
(* Cancelled jobs stay cancelled                                            *)

\* execute will not write the row of the job any more, provided that where it
\* still waits for the agent the flag is there to be seen.
Ahead(j) == exec[j] \in {"config"} \cup Asking
Done(j) == exec[j] \notin Checking \cup {"record", "failRecord", "failStage"}
Harmless(j) == Done(j) /\ (Ahead(j) => j \in flag)

FlagSeen   == \A j \in flag \ late : Done(j)
BlindLate  == \A c \in Cancels : canc[c].pc \in {"find", "writeRow"} => canc[c].job \in late
RowIsFinal == \A j \in Jobs \ late : row[j] = "cancelled" => Harmless(j) /\ call[j] = "done"

Sticking == FlagSeen /\ BlindLate /\ RowIsFinal

\* From such a place execute reaches only such places, and writes no row.
LEMMA HarmlessStays ==
  ASSUME TypeOK, NEW j \in Jobs, ExecAction(j), Harmless(j)
  PROVE  Harmless(j)' /\ UNCHANGED row
<1> USE DEF TypeOK, Harmless, Ahead, Done, Asking, Checking, handleVars, rowVars, Unless
<1>1. CASE Settles(j)
  BY <1>1 DEF Settles
<1>2. CASE Start(j) \/ ConfigThrows(j)
  BY <1>2 DEF Start, ConfigThrows
<1>3. CASE PromptFails(j)
  BY <1>3 DEF PromptFails, PromptTimeout, Catch, Catches
<1>4. CASE \/ Found(j) \/ Save(j) \/ Missing(j) \/ Record(j) \/ FailRecord(j) \/ FailStage(j)
           \/ Cleanup(j)
  BY <1>4 DEF Found, Save, Missing, Record, FailRecord, FailStage, Cleanup
<1>5. CASE ExecThrows(j)
  BY <1>5 DEF ExecThrows
<1> QED
  BY <1>1, <1>2, <1>3, <1>4, <1>5 DEF ExecAction, ExecStep

\* Every step keeps the three parts, and none of them writes over a cancelled row
\* that they speak of.
LEMMA StickingStep ==
  Base /\ Bookkeeping /\ Sticking /\ [Next]_vars =>
    /\ Sticking'
    /\ \A j \in Jobs : row[j] = "cancelled" /\ j \notin late => row'[j] = "cancelled"
<1> DEFINE Kept == \A j \in Jobs : row[j] = "cancelled" /\ j \notin late => row'[j] = "cancelled"
<1> SUFFICES ASSUME Base, Bookkeeping, Sticking, [Next]_vars
             PROVE  Sticking' /\ Kept
  OBVIOUS
<1> USE DEF Base, TypeOK, Sticking, FlagSeen, BlindLate, RowIsFinal
<1>1. ASSUME NEW j \in Jobs, CallAction(j)
      PROVE  Sticking' /\ Kept
  <2>1. /\ UNCHANGED <<canc, flag, late>>
        /\ \A k \in Jobs \ {j} : call'[k] = call[k] /\ exec'[k] = exec[k] /\ row'[k] = row[k]
        /\ call[j] # "done"
        /\ row' = row \/ InsertJob(j)
    BY <1>1 DEF CallAction, CallStep, Request, FindActive, InsertJob, Register,
       CallRefused, CallThrows, rowVars, handleVars, history
  <2>2. \A k \in Jobs \ late : row[k] = "cancelled" => k # j
    BY <2>1
  <2>3. \A k \in flag : k # j
    BY <2>1 DEF Bookkeeping, Registered
  <2>4. \A k \in Jobs : row[k] = "cancelled" => row'[k] = "cancelled"
    <3>1. InsertJob(j) => row[j] = "none"
      BY DEF InsertJob, Bookkeeping, Unwritten
    <3> QED
      BY <2>1, <3>1
  <2>5. \A k \in Jobs : row'[k] = "cancelled" => row[k] = "cancelled"
    BY <2>1 DEF InsertJob, InsertedAs
  <2> QED
    BY <2>1, <2>2, <2>3, <2>4, <2>5 DEF Harmless, Done, Ahead
<1>2. ASSUME NEW j \in Jobs, ExecAction(j)
      PROVE  Sticking' /\ Kept
  <2>1. /\ UNCHANGED <<call, canc, late, flag>>
        /\ \A k \in Jobs \ {j} : exec'[k] = exec[k] /\ row'[k] = row[k]
        /\ row'[j] # row[j] => row'[j] \in {"completed", "failed"}
    <3>1. row'[j] # row[j] => Record(j) \/ FailRecord(j)
      BY <1>2 DEF ExecAction, ExecStep, Settles, Start, ConfigThrows, PromptFails, Found,
         Missing, Save, FailStage, Cleanup, ExecThrows, rowVars
    <3> QED
      BY <1>2, <3>1, ExecMoves, ExecReleases DEF Record, FailRecord
  <2>2. \A k \in Jobs : Harmless(k) => Harmless(k)' /\ row'[k] = row[k]
    BY <1>2, <2>1, HarmlessStays DEF Harmless, Done, Ahead
  <2>3. FlagSeen'
    BY <2>1, <2>2 DEF Harmless
  <2>4. RowIsFinal' /\ Kept
    BY <2>1, <2>2
  <2> QED
    BY <2>1, <2>3, <2>4
<1>3. ASSUME NEW c \in Cancels, CancelAction(c)
      PROVE  Sticking' /\ Kept
  <2>1. UNCHANGED <<call, exec>> /\ flag \subseteq flag' /\ late \subseteq late'
    BY <1>3 DEF CancelAction, CancelHandle, CancelLookup, CancelStep, CancelFind,
       CancelWrite, handleVars, history
  <2>2. FlagSeen'
    <3>1. \A j \in Jobs : CancelHandle(c, j) /\ ~Settled(j) => Done(j)
      BY DEF Settled, Done, Checking, Ending
    <3> QED
      BY <1>3, <2>1, <3>1 DEF Done, CancelAction, CancelHandle, CancelLookup, CancelStep,
         CancelFind, CancelWrite, handleVars, history
  <2>3. BlindLate'
    <3>1. \A d \in Cancels \ {c} : canc'[d] = canc[d]
      BY <1>3 DEF CancelAction, CancelHandle, CancelLookup, CancelStep, CancelFind,
         CancelWrite
    <3>2. canc'[c].pc \in {"find", "writeRow"} => canc'[c].job \in late'
      <4>1. CASE \E j \in Jobs : CancelHandle(c, j) \/ CancelLookup(c, j)
        BY <4>1 DEF CancelHandle, CancelLookup
      <4>2. CASE CancelFind(c) \/ CancelWrite(c)
        BY <2>1, <4>2 DEF CancelFind, CancelWrite, Cancel
      <4> QED
        BY <1>3, <4>1, <4>2 DEF CancelAction, CancelStep
    <3> QED
      BY <2>1, <3>1, <3>2
  <2>4. RowIsFinal' /\ Kept
    <3>1. CASE UNCHANGED row
      BY <2>1, <3>1 DEF Harmless, Done, Ahead
    <3>2. CASE CancelWrite(c)
      <4>1. canc[c].pc = "write" => canc[c].job \in flag /\ call[canc[c].job] = "done"
        BY DEF Bookkeeping, Flagged, Registered
      <4>2. canc[c].job \notin late => Harmless(canc[c].job) /\ call[canc[c].job] = "done"
        BY <3>2, <4>1 DEF CancelWrite, Harmless
      <4> QED
        BY <2>1, <3>2, <4>2 DEF CancelWrite, Harmless, Done, Ahead, Targeted, history
    <3> QED
      BY <1>3, <3>1, <3>2 DEF CancelAction, CancelHandle, CancelLookup, CancelStep,
         CancelFind, rowVars
  <2> QED
    BY <2>2, <2>3, <2>4
<1>4. CASE Crash
  <2>1. Kept /\ FlagSeen' /\ BlindLate'
    BY <1>4 DEF Crash, rowVars, Cancel, CancelPc
  <2>2. \A j \in Jobs : Harmless(j)'
    BY <1>4 DEF Crash, Harmless, Done, Ahead, Asking, Checking
  <2>3. RowIsFinal'
    BY <1>4, <2>2 DEF Crash, rowVars, history, Window
  <2> QED
    BY <2>1, <2>3
<1>5. CASE UNCHANGED vars
  BY <1>5 DEF vars, rowVars, handleVars, history, Harmless, Done, Ahead
<1> QED
  BY <1>1, <1>2, <1>3, <1>4, <1>5, NextSplit

\* A job cancelled before its agent settled stays cancelled: the retry, the catch
\* block and the timeout of the stopped agent all leave its row alone.
THEOREM CancelIsFinal == Spec => CancelSticks
<1> DEFINE IInv == Base /\ Bookkeeping /\ Exclusive /\ Sticking
<1>1. Init => IInv
  BY TypeInit, ExclusiveInit DEF Base, Init, Sticking, FlagSeen, BlindLate, RowIsFinal
<1>2. IInv /\ [Next]_vars => IInv'
  BY BaseStep, ExclusiveStep, StickingStep
<1>3. IInv /\ [Next]_vars =>
        [\A j \in Jobs : row[j] = "cancelled" /\ j \notin late => row'[j] = "cancelled"]_vars
  BY StickingStep
<1> QED
  BY <1>1, <1>2, <1>3, PTL DEF Spec, CancelSticks

-----------------------------------------------------------------------------
(* Who leaves the stage at "generating"                                     *)

\* A request or a job that will still write the stage, and a cancelled job, which
\* will not.
WillWriteStage(j) ==
    call[j] \in {"find", "refused"} \cup Window \/ Working(j) \/ exec[j] \in {"failRecord", "failStage"}
CancelNamed(j) == \E c \in Cancels : canc[c].job = j
Caused == stage = "generating" /\ mishaps = 0 => \E j \in Jobs : WillWriteStage(j) \/ CancelNamed(j)
Unnamed == \A c \in Cancels : canc[c].pc = "idle" => canc[c].job = NoJob

\* A job that will write the stage goes on to do so, step by step, or writes it now.
LEMMA StageOwed ==
  ASSUME Base, Bookkeeping, NEW j \in Jobs, CallAction(j) \/ ExecAction(j),
         mishaps' = mishaps, stage' = "generating", WillWriteStage(j)
  PROVE  WillWriteStage(j)'
<1> USE DEF Base, TypeOK, WillWriteStage, Working, Window, Asking, Checking, rowVars, handleVars
<1>1. CASE CallAction(j)
  <2>1. CASE Register(j)
    BY <2>1 DEF Register, Bookkeeping, Registered
  <2>2. CASE Request(j) \/ FindActive(j) \/ InsertJob(j) \/ CallRefused(j) \/ CallThrows(j)
    BY <2>2 DEF Request, FindActive, InsertJob, CallRefused, CallThrows
  <2> QED
    BY <1>1, <2>1, <2>2 DEF CallAction, CallStep
<1>2. CASE ExecAction(j)
  <2> USE DEF ExecFrame
  <2>0. call[j] = "done"
    BY <1>2, ExecMoves DEF Launched
  <2>1. CASE Settles(j) \/ Start(j)
    BY <2>0, <2>1 DEF Settles, Start, Unless
  <2>2. CASE PromptFails(j) \/ Missing(j)
    BY <2>0, <2>2 DEF PromptFails, PromptTimeout, Missing, Catch, Catches
  <2>3. CASE Found(j) \/ Save(j)
    BY <2>0, <2>3 DEF Found, Save
  <2>4. CASE Record(j) \/ FailRecord(j) \/ FailStage(j) \/ Cleanup(j)
    BY <2>0, <2>4 DEF Record, FailRecord, FailStage, StageOnFailure, Cleanup, Ending
  <2>5. CASE ConfigThrows(j) \/ ExecThrows(j)
    BY <2>5 DEF ConfigThrows, ExecThrows
  <2> QED
    BY <1>2, <2>1, <2>2, <2>3, <2>4, <2>5 DEF ExecAction, ExecStep
<1> QED
  BY <1>1, <1>2

LEMMA CausedStep == Base /\ Bookkeeping /\ Caused /\ Unnamed /\ [Next]_vars => (Caused /\ Unnamed)'
<1> SUFFICES ASSUME Base, Bookkeeping, Caused, Unnamed, [Next]_vars
             PROVE  Caused' /\ Unnamed'
  OBVIOUS
<1> USE DEF Base, TypeOK
<1>1. ASSUME NEW j \in Jobs, CallAction(j) \/ ExecAction(j)
      PROVE  Caused' /\ Unnamed'
  <2>1. UNCHANGED canc
    BY <1>1, ExecMoves DEF CallAction, CallStep, Request, FindActive, InsertJob, Register,
       CallRefused, CallThrows
  <2>2. Unnamed' /\ \A k \in Jobs : CancelNamed(k)' = CancelNamed(k)
    BY <2>1 DEF Unnamed, CancelNamed
  <2>3. \A k \in Jobs \ {j} : WillWriteStage(k)' = WillWriteStage(k)
    <3>1. \A k \in Jobs \ {j} :
              /\ call'[k] = call[k] /\ exec'[k] = exec[k]
              /\ k \in flag' <=> k \in flag
      BY <1>1, ExecMoves, ExecReleases DEF CallAction, CallStep, Request, FindActive, InsertJob,
         Register, CallRefused, CallThrows, handleVars
    <3> QED
      BY <3>1 DEF WillWriteStage, Working
  <2>4. CASE Request(j)
    <3>1. WillWriteStage(j)'
      BY <2>4 DEF Request, WillWriteStage
    <3> QED
      BY <2>2, <3>1 DEF Caused
  <2>5. ASSUME ~Request(j), stage' = "generating", mishaps' = 0
        PROVE  \E k \in Jobs : (WillWriteStage(k) \/ CancelNamed(k))'
    <3>1. stage = "generating" /\ mishaps = 0
      BY <1>1, <2>5 DEF CallAction, CallStep, FindActive, InsertJob, Register,
         CallRefused, CallThrows, ExecAction, ExecStep, Settles, Start, ConfigThrows,
         PromptFails, Found, Missing, Save, Record, FailRecord, FailStage, StageOnFailure,
         Cleanup, ExecThrows, rowVars
    <3>2. PICK k \in Jobs : WillWriteStage(k) \/ CancelNamed(k)
      BY <3>1 DEF Caused
    <3>3. (WillWriteStage(k) \/ CancelNamed(k))'
      BY <1>1, <2>2, <2>3, <2>5, <3>1, <3>2, StageOwed
    <3> QED
      BY <3>3
  <2>6. Caused'
    BY <2>2, <2>4, <2>5 DEF Caused
  <2> QED
    BY <2>2, <2>6
<1>2. ASSUME NEW c \in Cancels, CancelAction(c)
      PROVE  Caused' /\ Unnamed'
  <2>1. /\ UNCHANGED <<stage, mishaps, call, exec>>
        /\ canc' \in [Cancels -> Cancel]
        /\ \A d \in Cancels \ {c} : canc'[d] = canc[d]
        /\ canc'[c].pc # "idle"
        /\ canc[c].pc # "idle" => canc'[c].job = canc[c].job
    BY <1>2 DEF CancelAction, CancelHandle, CancelLookup, CancelStep, CancelFind, CancelWrite,
       Cancel, CancelPc, rowVars
  <2>2. Unnamed'
    BY <2>1 DEF Unnamed
  <2>3. \A k \in Jobs : CancelNamed(k) => CancelNamed(k)'
    BY <2>1 DEF CancelNamed, Unnamed
  <2>4. \A k \in Jobs : WillWriteStage(k) => WillWriteStage(k)' \/ CancelNamed(k)'
    <3>1. \A k \in Jobs : k \in flag' => k \in flag \/ canc'[c].job = k
      BY <1>2 DEF CancelAction, CancelHandle, CancelLookup, CancelStep, CancelFind, CancelWrite,
         handleVars
    <3> QED
      BY <2>1, <3>1 DEF WillWriteStage, Working, CancelNamed
  <2> QED
    BY <2>1, <2>2, <2>3, <2>4 DEF Caused
<1>3. CASE Crash
  BY <1>3 DEF Crash, Caused, Unnamed
<1>4. CASE UNCHANGED vars
  BY <1>4 DEF vars, Caused, Unnamed, WillWriteStage, CancelNamed, Working, rowVars, handleVars
<1> QED
  BY <1>1, <1>2, <1>3, <1>4, NextSplit

\* While nothing throws, the stage says "generating" only for a request or a job that
\* will still write it, or because a job was cancelled.
THEOREM StageHasCause == Spec => []GeneratingHasCause
<1> DEFINE IInv == Base /\ Bookkeeping /\ Exclusive /\ Caused /\ Unnamed
<1>1. Init => IInv
  BY TypeInit, ExclusiveInit DEF Base, Init, Caused, Unnamed
<1>2. IInv /\ [Next]_vars => IInv'
  BY BaseStep, ExclusiveStep, CausedStep
<1>3. IInv => GeneratingHasCause
  BY DEF Caused, WillWriteStage, CancelNamed, GeneratingHasCause
<1> QED
  BY <1>1, <1>2, <1>3, PTL DEF Spec
=============================================================================
