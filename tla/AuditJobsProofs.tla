--------------------------- MODULE AuditJobsProofs ---------------------------
(***************************************************************************)
(* Machine-checked theorems about AuditJobs, for any number of jobs, any   *)
(* profiles of modules and any number of prompts and mishaps: its types, a *)
(* partial is about its module, a job that ended completed has its         *)
(* features in the table, and a job whose row said cancelled is never      *)
(* reported completed; and, in the second half, about ScenarioRun: any     *)
(* scenario, any number of requests to run it and any bounds.              *)
(***************************************************************************)
EXTENDS AuditJobs, ScenarioRun, FiniteSetTheorems, WellFoundedInduction, TLAPS

-----------------------------------------------------------------------------
(* The invariant                                                            *)

Answers == Modules \cup {NoModule}
Pcs == Executing \cup {"none", "insert", "over"}
ExecType == [pc : Pcs, i : Nat, try : Nat, merged : SUBSET Seq(Modules)]
HandleType == [live : BOOLEAN, cancelled : BOOLEAN, status : Status]
PiType == [work : Answers, next : Answers, text : Answers, settled : BOOLEAN]

\* The steps that work on one module, and those that have asked the agent about it.
Early == {"load", "prompt", "accept", "wait", "reply"}
Asked == {"prompt", "accept", "wait", "reply"}
InProfile(j) ==
    /\ exec[j].pc \in {"none", "insert"} => exec[j].i = 1
    /\ exec[j].pc \in Early => exec[j].i \in 1..Len(Profile[j])
    /\ exec[j].pc = "merge" => exec[j].i \in 1..Len(Profile[j]) + 1

Typed ==
    /\ exec \in [Jobs -> ExecType] /\ handle \in [Jobs -> HandleType]
    /\ pi \in [Jobs -> PiType] /\ row \in [Jobs -> Status]
    /\ counted \in [Jobs -> SUBSET Modules]
    /\ partials \in [Modules -> Answers]
    /\ \A j \in Jobs : InProfile(j)

\* Two jobs that execute at once are both marked.
Exclusive == \A j, k \in Jobs :
    j # k /\ exec[j].pc \in Executing /\ exec[k].pc \in Executing => j \in shared

\* The agent works on what was asked of it last, and on nothing else.
Replying(j) == exec[j].pc # "over" =>
    /\ pi[j].next = NoModule
    /\ IF exec[j].pc = "wait" THEN pi[j].work = Module(j) ELSE pi[j].work = NoModule
    /\ exec[j].pc \in {"accept", "wait"} => pi[j].text = NoModule
    /\ exec[j].pc = "accept" => ~pi[j].settled
    /\ exec[j].pc = "reply" => pi[j].text \in {Module(j), NoModule}
RepliesInv == ~timedOut => RepliesAreOwn /\ \A j \in Jobs : Replying(j)

\* A row that says cancelled is that of a handle that was, for as long as the job goes on.
CancelOk(j) ==
    /\ handle[j].status = "cancelled" => handle[j].cancelled
    /\ row[j] = "cancelled" => /\ handle[j].status # "completed"
                               /\ exec[j].pc \in Executing => handle[j].cancelled

\* Where the content of a partial that a job has counted is, step by step.
Merging(j) ==
    /\ exec[j].pc \in {"none", "insert"} => counted[j] = {}
    /\ exec[j].pc \in Early => \A c \in counted[j] :
          \E k \in 1..(exec[j].i - 1) : partials[Profile[j][k]] = c
    /\ exec[j].pc \in Asked => partials[Module(j)] = NoModule
    /\ exec[j].pc = "merge" => \A c \in counted[j] :
          \/ <<c>> \in exec[j].merged
          \/ \E k \in exec[j].i..Len(Profile[j]) : partials[Profile[j][k]] = c
    /\ exec[j].pc = "upsert" => \A c \in counted[j] : <<c>> \in exec[j].merged
    /\ exec[j].pc = "delete" => \A c \in counted[j] : <<c>> \in features
    /\ handle[j].status = "completed" \/ row[j] = "completed" =>
          exec[j].pc \in {"final", "over"} /\ \A c \in counted[j] : <<c>> \in features
MergingInv == \A j \in Jobs : j \notin shared => Merging(j)

Inv == Typed /\ Exclusive /\ RepliesInv /\ MergingInv /\ \A j \in Jobs : CancelOk(j)

-----------------------------------------------------------------------------
(* Moves of one job                                                         *)

\* The other jobs are left alone.
Frame(j) == \A k \in Jobs \ {j} :
    /\ exec'[k] = exec[k] /\ handle'[k] = handle[k] /\ pi'[k] = pi[k]
    /\ row'[k] = row[k] /\ counted'[k] = counted[k]

LEMMA ProfileType ==
    ASSUME NEW j \in Jobs
    PROVE  /\ Len(Profile[j]) \in Nat \ {0}
           /\ \A k \in 1..Len(Profile[j]) : Profile[j][k] \in Modules
BY AuditAssumption

LEMMA ModuleType ==
    ASSUME NEW j \in Jobs, exec[j].i \in 1..Len(Profile[j])
    PROVE  Module(j) \in Modules
BY ProfileType DEF Module

LEMMA GoMove ==
    ASSUME Typed, NEW j \in Jobs, NEW pc \in Pcs, Go(j, pc)
    PROVE  /\ exec' \in [Jobs -> ExecType]
           /\ exec'[j].pc = pc /\ exec'[j].i = exec[j].i /\ exec'[j].merged = exec[j].merged
           /\ \A k \in Jobs \ {j} : exec'[k] = exec[k]
BY DEF Typed, Go, ExecType

LEMMA NextModuleMove ==
    ASSUME Typed, NEW j \in Jobs, NextModule(j), exec[j].i \in 1..Len(Profile[j])
    PROVE  /\ exec' \in [Jobs -> ExecType]
           /\ \/ /\ exec'[j].pc = "load" /\ exec'[j].i = exec[j].i + 1
                 /\ exec'[j].i \in 1..Len(Profile[j])
              \/ exec'[j].pc = "merge" /\ exec'[j].i = 1 /\ exec[j].i = Len(Profile[j])
           /\ \A k \in Jobs \ {j} : exec'[k] = exec[k]
<1> DEFINE e == exec[j]
           more == e.i < Len(Profile[j])
           pc == IF more THEN "load" ELSE "merge"
           i == IF more THEN e.i + 1 ELSE 1
           a == [e EXCEPT !.pc = pc]
           b == [a EXCEPT !.i = i]
           c == [b EXCEPT !.try = 0]
<1>1. e \in ExecType /\ e.i \in Nat /\ pc \in Pcs /\ i \in Nat /\ Len(Profile[j]) \in Nat
    BY ProfileType DEF Typed, ExecType, Pcs, Executing
<1>2. exec' = [exec EXCEPT ![j] = c]
    BY DEF NextModule, Typed, ExecType
<1>3. \/ pc = "load" /\ i = e.i + 1 /\ i \in 1..Len(Profile[j])
      \/ pc = "merge" /\ i = 1 /\ e.i = Len(Profile[j])
    BY <1>1
<1> HIDE DEF e, pc, i
<1>4. a \in ExecType /\ a.pc = pc
    BY <1>1 DEF ExecType
<1> HIDE DEF a
<1>5. b \in ExecType /\ b.pc = pc /\ b.i = i
    BY <1>1, <1>4 DEF ExecType
<1> HIDE DEF b
<1>6. c \in ExecType /\ c.pc = pc /\ c.i = i
    BY <1>5 DEF ExecType
<1> HIDE DEF c
<1>7. exec' \in [Jobs -> ExecType] /\ exec'[j] = c /\ \A k \in Jobs \ {j} : exec'[k] = exec[k]
    BY <1>2, <1>6 DEF Typed
<1> QED
    BY <1>3, <1>6, <1>7 DEF e

LEMMA Quiets ==
    /\ NoExec \in ExecType /\ QuietPi \in PiType /\ NoHandle \in HandleType
    /\ QuietPi.work = NoModule /\ QuietPi.next = NoModule
    /\ NoHandle.status = "none"
BY DEF NoExec, ExecType, Pcs, Executing, QuietPi, PiType, Answers, NoHandle, HandleType, Status

LEMMA LeavesMove ==
    ASSUME Typed, NEW j \in Jobs, NEW saves, Leaves(j, saves)
    PROVE  /\ exec' \in [Jobs -> ExecType] /\ exec'[j].pc \in {"final", "over"}
           /\ \A k \in Jobs \ {j} : exec'[k] = exec[k]
           /\ pi' \in [Jobs -> PiType] /\ pi'[j].work = NoModule /\ pi'[j].next = NoModule
           /\ \A k \in Jobs \ {j} : pi'[k] = pi[k]
<1> DEFINE pc == IF saves /\ j \notin poisoned THEN "final" ELSE "over"
           new == [NoExec EXCEPT !.pc = pc]
<1>1. exec' = [exec EXCEPT ![j] = new] /\ pi' = [pi EXCEPT ![j] = QuietPi]
    BY DEF Leaves
<1>2. pc \in {"final", "over"}
    OBVIOUS
<1> HIDE DEF pc
<1>3. new \in ExecType /\ new.pc = pc
    BY <1>2, Quiets DEF ExecType, Pcs, Executing
<1> HIDE DEF new
<1> QED
    BY <1>1, <1>2, <1>3, Quiets DEF Typed

\* Only the two ways a handle's status can change.
LEMMA HandleMove ==
    ASSUME Typed, NEW j \in Jobs, NEW s \in Status, handle' = [handle EXCEPT ![j].status = s]
    PROVE  /\ handle' \in [Jobs -> HandleType]
           /\ handle'[j].status = s /\ handle'[j].cancelled = handle[j].cancelled
           /\ \A k \in Jobs \ {j} : handle'[k] = handle[k]
<1> DEFINE new == [handle[j] EXCEPT !.status = s]
<1>1. handle' = [handle EXCEPT ![j] = new]
    BY DEF Typed
<1>2. /\ new \in HandleType /\ new.status = s /\ new.cancelled = handle[j].cancelled
    BY DEF Typed, HandleType
<1> HIDE DEF new
<1> QED
    BY <1>1, <1>2 DEF Typed

LEMMA LiveMove ==
    ASSUME Typed, NEW j \in Jobs, handle' = [handle EXCEPT ![j].live = FALSE]
    PROVE  /\ handle' \in [Jobs -> HandleType]
           /\ handle'[j].status = handle[j].status /\ handle'[j].cancelled = handle[j].cancelled
           /\ \A k \in Jobs \ {j} : handle'[k] = handle[k]
<1> DEFINE new == [handle[j] EXCEPT !.live = FALSE]
<1>1. handle' = [handle EXCEPT ![j] = new]
    BY DEF Typed
<1>2. /\ new \in HandleType /\ new.status = handle[j].status
      /\ new.cancelled = handle[j].cancelled
    BY DEF Typed, HandleType
<1> HIDE DEF new
<1> QED
    BY <1>1, <1>2 DEF Typed

-----------------------------------------------------------------------------
(* One job's part of the invariant, and the other jobs' while it moves      *)

Types ==
    /\ exec \in [Jobs -> ExecType] /\ handle \in [Jobs -> HandleType]
    /\ pi \in [Jobs -> PiType] /\ row \in [Jobs -> Status]
    /\ counted \in [Jobs -> SUBSET Modules]
    /\ partials \in [Modules -> Answers]
Local(j) ==
    /\ InProfile(j) /\ CancelOk(j)
    /\ ~timedOut => Replying(j)
    /\ j \notin shared => Merging(j)

LEMMA Locals == Inv <=> /\ Types /\ Exclusive /\ (~timedOut => RepliesAreOwn)
                        /\ \A j \in Jobs : Local(j)
BY DEF Inv, Types, Typed, Local, RepliesInv, MergingInv

\* Nobody else's partials are written while a job executes alone.
LEMMA FrameKeeps ==
    ASSUME Inv, NEW j \in Jobs, Frame(j), Types', Local(j)',
           shared \subseteq shared', features \subseteq features',
           ~timedOut' => ~timedOut /\ RepliesAreOwn',
           partials' = partials \/ exec[j].pc \in Executing,
           exec'[j].pc \in Executing =>
              \/ exec[j].pc \in Executing
              \/ \A k \in Jobs \ {j} : exec[k].pc \in Executing => j \in shared' /\ k \in shared'
    PROVE  Inv'
<1>1. ASSUME NEW k \in Jobs \ {j}
      PROVE  Local(k)'
    <2>1. /\ exec'[k] = exec[k] /\ handle'[k] = handle[k] /\ pi'[k] = pi[k]
          /\ row'[k] = row[k] /\ counted'[k] = counted[k]
        BY <1>1 DEF Frame
    <2>2. Local(k)
        BY Locals
    <2>3. InProfile(k)' /\ CancelOk(k)'
        BY <2>1, <2>2 DEF Local, InProfile, CancelOk
    <2>4. ~timedOut' => Replying(k)'
        BY <2>1, <2>2 DEF Local, Replying, Module
    <2>5. ASSUME k \notin shared'
          PROVE  Merging(k)'
        <3>1. Merging(k)
            BY <2>2, <2>5 DEF Local
        <3>2. partials' = partials \/ exec[k].pc \notin Executing
            BY <1>1, <2>5 DEF Inv, Exclusive
        <3>3. CASE partials' = partials
            BY <2>1, <3>1, <3>3 DEF Merging, Module
        <3>4. CASE exec[k].pc \notin Executing
            BY <2>1, <3>1, <3>4 DEF Merging, Executing, Early, Asked
        <3> QED
            BY <3>2, <3>3, <3>4
    <2> QED
        BY <2>3, <2>4, <2>5 DEF Local
<1>2. Exclusive'
    <2>1. \A k \in Jobs \ {j} : exec'[k].pc = exec[k].pc
        BY DEF Frame
    <2> QED
        BY <2>1 DEF Exclusive, Inv
<1>3. /\ Types' /\ (~timedOut' => RepliesAreOwn') /\ \A k \in Jobs : Local(k)'
    BY <1>1
<1> QED
    BY <1>2, <1>3 DEF Inv, Types, Typed, Local, RepliesInv, MergingInv

-----------------------------------------------------------------------------
(* A job's own steps                                                        *)

LEMMA StartKeeps ==
    ASSUME Inv, NEW j \in Jobs, StartFullAudit(j)
    PROVE  Inv'
<1>1. Go(j, "insert") /\ exec[j].pc = "none" /\ "insert" \in Pcs
    BY DEF StartFullAudit, Go, Pcs
<1>2. /\ exec' \in [Jobs -> ExecType]
      /\ exec'[j].pc = "insert" /\ exec'[j].i = exec[j].i
      /\ \A k \in Jobs \ {j} : exec'[k] = exec[k]
    BY <1>1, GoMove, Zenon DEF Inv
<1>3. UNCHANGED <<row, handle, pi, partials, features, counted, timedOut, shared>>
    BY Zenon DEF StartFullAudit, Db
<1>4. Local(j)
    BY Locals
<1>5. InProfile(j)'
    BY <1>1, <1>2, <1>4 DEF Local, InProfile, Early
<1>6. CancelOk(j)'
    BY <1>2, <1>3, <1>4 DEF Local, CancelOk, Executing
<1>7. ~timedOut' => Replying(j)'
    BY <1>1, <1>2, <1>3, <1>4 DEF Local, Replying
<1>8. j \notin shared' => Merging(j)'
    BY <1>1, <1>2, <1>3, <1>4 DEF Local, Merging, Early, Asked
<1>9. Frame(j) /\ Types'
    BY <1>2, <1>3 DEF Frame, Types, Inv, Typed
<1>10. ~timedOut' => ~timedOut /\ RepliesAreOwn'
    <2>1. timedOut' = timedOut /\ partials' = partials
        BY <1>3
    <2>2. ~timedOut' => ~timedOut
        BY <2>1, Zenon
    <2> QED
        BY <2>1, <2>2 DEF Inv, RepliesInv, RepliesAreOwn
<1>11. Local(j)'
    BY <1>5, <1>6, <1>7, <1>8 DEF Local
<1> QED
    BY <1>2, <1>3, <1>9, <1>10, <1>11, FrameKeeps DEF Executing

\* The same for a step that no partial, prompt or marker is about.
LEMMA PlainKeeps ==
    ASSUME Inv, NEW j \in Jobs, Frame(j), Types', Local(j)',
           partials' = partials, timedOut' = timedOut, shared' = shared,
           features \subseteq features',
           exec'[j].pc \in Executing => exec[j].pc \in Executing
    PROVE  Inv'
<1>1. timedOut' = timedOut /\ partials' = partials /\ shared' = shared
    OBVIOUS
<1>2. ~timedOut' => ~timedOut
    BY Zenon
<1>3. ~timedOut' => ~timedOut /\ RepliesAreOwn'
    BY <1>1, <1>2 DEF Inv, RepliesInv, RepliesAreOwn
<1>4. shared \subseteq shared'
    BY <1>1
<1> QED
    BY <1>1, <1>3, <1>4, FrameKeeps

LEMMA InsertedKeeps ==
    ASSUME Inv, NEW j \in Jobs, Inserted(j)
    PROVE  Inv'
<1> DEFINE a == [handle[j] EXCEPT !.live = TRUE]
           new == [a EXCEPT !.status = "running"]
           others == {k \in Jobs \ {j} : exec[k].pc \in Executing}
<1>1. Go(j, "load") /\ exec[j].pc = "insert" /\ "load" \in Pcs
    BY DEF Inserted, Go, Pcs, Executing
<1>2. /\ exec' \in [Jobs -> ExecType]
      /\ exec'[j].pc = "load" /\ exec'[j].i = exec[j].i
      /\ \A k \in Jobs \ {j} : exec'[k] = exec[k]
    BY <1>1, GoMove, Zenon DEF Inv
<1>3. /\ UNCHANGED <<pi, partials, features, counted, timedOut>>
      /\ row' = [row EXCEPT ![j] = "running"]
      /\ shared' = IF others = {} THEN shared ELSE shared \cup others \cup {j}
    BY Zenon DEF Inserted, Db
<1>4. handle' = [handle EXCEPT ![j] = new]
    BY DEF Inserted, Inv, Typed
<1>5. new \in HandleType /\ new.status = "running"
    BY DEF Inv, Typed, HandleType, Status
<1> HIDE DEF new
<1>6. handle' \in [Jobs -> HandleType] /\ handle'[j] = new /\ \A k \in Jobs \ {j} : handle'[k] = handle[k]
    BY <1>4, <1>5 DEF Inv, Typed
<1>7. row' \in [Jobs -> Status] /\ row'[j] = "running" /\ \A k \in Jobs \ {j} : row'[k] = row[k]
    BY <1>3 DEF Inv, Typed, Status
<1>8. Local(j)
    BY Locals
<1>9. InProfile(j)'
    BY <1>1, <1>2, <1>8, ProfileType DEF Local, InProfile, Early
<1>10. CancelOk(j)'
    BY <1>5, <1>6, <1>7 DEF CancelOk
<1>11. ~timedOut' => Replying(j)'
    BY <1>1, <1>2, <1>3, <1>8 DEF Local, Replying
<1>12. shared \subseteq shared'
    BY <1>3
<1>13. j \notin shared' => Merging(j)'
    BY <1>1, <1>2, <1>3, <1>5, <1>6, <1>7, <1>8, <1>12 DEF Local, Merging, Early, Asked
<1>14. Local(j)'
    BY <1>9, <1>10, <1>11, <1>13 DEF Local
<1>15. Frame(j) /\ Types'
    BY <1>2, <1>3, <1>6, <1>7 DEF Frame, Types, Inv, Typed
<1>16. ~timedOut' => ~timedOut /\ RepliesAreOwn'
    <2>1. ~timedOut' => ~timedOut
        BY <1>3, Zenon
    <2> QED
        BY <1>3, <2>1 DEF Inv, RepliesInv, RepliesAreOwn
<1>17. \A k \in Jobs \ {j} : exec[k].pc \in Executing => j \in shared' /\ k \in shared'
    BY <1>3
<1> QED
    BY <1>3, <1>12, <1>14, <1>15, <1>16, <1>17, FrameKeeps

LEMMA InsertFailsKeeps ==
    ASSUME Inv, NEW j \in Jobs, InsertFails(j)
    PROVE  Inv'
<1>1. Go(j, "over") /\ exec[j].pc = "insert" /\ "over" \in Pcs
    BY DEF InsertFails, Go, Pcs
<1>2. /\ exec' \in [Jobs -> ExecType] /\ exec'[j].pc = "over"
      /\ \A k \in Jobs \ {j} : exec'[k] = exec[k]
    BY <1>1, GoMove, Zenon DEF Inv
<1>3. UNCHANGED <<row, handle, pi, partials, features, counted, timedOut, shared>>
    BY Zenon DEF InsertFails, Db
<1>4. Local(j)
    BY Locals
<1>5. InProfile(j)' /\ Replying(j)'
    BY <1>2 DEF InProfile, Early, Replying
<1>6. CancelOk(j)'
    BY <1>2, <1>3, <1>4 DEF Local, CancelOk, Executing
<1>7. j \notin shared' => Merging(j)'
    BY <1>1, <1>2, <1>3, <1>4 DEF Local, Merging, Early, Asked
<1>8. Local(j)'
    BY <1>5, <1>6, <1>7 DEF Local
<1>9. Frame(j) /\ Types'
    BY <1>2, <1>3 DEF Frame, Types, Inv, Typed
<1> QED
    BY <1>2, <1>3, <1>8, <1>9, PlainKeeps DEF Executing

LEMMA CancelKeeps ==
    ASSUME Inv, NEW j \in Jobs, CancelJob(j)
    PROVE  Inv'
<1> DEFINE a == [handle[j] EXCEPT !.cancelled = TRUE]
           new == [a EXCEPT !.status = "cancelled"]
<1>1. handle' = [handle EXCEPT ![j] = new]
    BY DEF CancelJob, Inv, Typed
<1>2. new \in HandleType /\ new.status = "cancelled" /\ new.cancelled
    BY DEF Inv, Typed, HandleType, Status
<1> HIDE DEF new
<1>3. /\ handle' \in [Jobs -> HandleType] /\ handle'[j] = new
      /\ \A k \in Jobs \ {j} : handle'[k] = handle[k]
    BY <1>1, <1>2 DEF Inv, Typed
<1>4. UNCHANGED <<row, exec, pi, partials, features, counted, timedOut, shared>>
    BY Zenon DEF CancelJob, Db
<1>5. Local(j)
    BY Locals
<1>6. InProfile(j)' /\ (~timedOut' => Replying(j)') /\ CancelOk(j)'
    <2>1. ~timedOut' => ~timedOut
        BY <1>4, Zenon
    <2> QED
        BY <1>2, <1>3, <1>4, <1>5, <2>1 DEF Local, InProfile, Replying, CancelOk, Module
<1>7. j \notin shared' => Merging(j)'
    BY <1>2, <1>3, <1>4, <1>5 DEF Local, Merging, Module
<1>8. Local(j)'
    BY <1>6, <1>7 DEF Local
<1>9. Frame(j) /\ Types'
    BY <1>3, <1>4 DEF Frame, Types, Inv, Typed
<1> QED
    BY <1>4, <1>8, <1>9, PlainKeeps

-----------------------------------------------------------------------------
(* Asking the agent                                                         *)

LEMMA PiMove ==
    ASSUME Typed, NEW j \in Jobs, NEW new \in PiType, pi' = [pi EXCEPT ![j] = new]
    PROVE  pi' \in [Jobs -> PiType] /\ pi'[j] = new /\ \A k \in Jobs \ {j} : pi'[k] = pi[k]
BY DEF Typed

LEMMA ResetMove ==
    ASSUME Typed, NEW j \in Jobs, pi' = ResetSettled(j)
    PROVE  /\ pi' \in [Jobs -> PiType] /\ \A k \in Jobs \ {j} : pi'[k] = pi[k]
           /\ pi'[j].work = pi[j].work /\ pi'[j].next = pi[j].next
           /\ pi'[j].text = NoModule /\ ~pi'[j].settled
<1> DEFINE a == [pi[j] EXCEPT !.settled = FALSE]
           new == [a EXCEPT !.text = NoModule]
<1>1. pi' = [pi EXCEPT ![j] = new]
    BY DEF ResetSettled, Typed
<1>2. a \in PiType /\ ~a.settled /\ a.work = pi[j].work /\ a.next = pi[j].next
    BY DEF Typed, PiType
<1> HIDE DEF a
<1>3. /\ new \in PiType /\ ~new.settled /\ new.text = NoModule
      /\ new.work = pi[j].work /\ new.next = pi[j].next
    BY <1>2 DEF PiType, Answers
<1> HIDE DEF new
<1> QED
    BY <1>1, <1>3, PiMove

LEMMA TakenMove ==
    ASSUME Typed, NEW j \in Jobs, exec[j].i \in 1..Len(Profile[j]), pi' = Taken(j)
    PROVE  /\ pi' \in [Jobs -> PiType] /\ \A k \in Jobs \ {j} : pi'[k] = pi[k]
           /\ pi'[j].text = pi[j].text /\ pi'[j].settled = pi[j].settled
           /\ pi[j].work = NoModule => pi'[j].work = Module(j) /\ pi'[j].next = pi[j].next
<1> DEFINE p == pi[j]
           work == IF p.work = NoModule THEN Module(j) ELSE p.work
           next == IF p.work = NoModule THEN p.next ELSE Module(j)
           a == [p EXCEPT !.work = work]
           new == [a EXCEPT !.next = next]
<1>1. p \in PiType /\ Module(j) \in Answers
    BY ModuleType DEF Typed, Answers
<1>2. work \in Answers /\ next \in Answers
    BY <1>1 DEF PiType
<1>3. pi' = [pi EXCEPT ![j] = new]
    BY DEF Taken, Typed, PiType
<1> HIDE DEF p, work, next
<1>4. a \in PiType /\ a.work = work /\ a.text = p.text /\ a.settled = p.settled
    BY <1>1, <1>2 DEF PiType
<1> HIDE DEF a
<1>5. /\ new \in PiType /\ new.work = work /\ new.next = next
      /\ new.text = p.text /\ new.settled = p.settled
    BY <1>2, <1>4 DEF PiType
<1> HIDE DEF new
<1>6. pi' \in [Jobs -> PiType] /\ pi'[j] = new /\ \A k \in Jobs \ {j} : pi'[k] = pi[k]
    BY <1>3, <1>5, PiMove
<1> QED
    BY <1>5, <1>6 DEF p, work, next

LEMMA SendKeeps ==
    ASSUME Inv, NEW j \in Jobs, SendPrompt(j)
    PROVE  Inv'
<1>1. Go(j, "accept") /\ exec[j].pc = "prompt" /\ "accept" \in Pcs /\ pi' = ResetSettled(j)
    BY DEF SendPrompt, Pcs, Executing
<1>2. /\ exec' \in [Jobs -> ExecType]
      /\ exec'[j].pc = "accept" /\ exec'[j].i = exec[j].i
      /\ \A k \in Jobs \ {j} : exec'[k] = exec[k]
    BY <1>1, GoMove, Zenon DEF Inv
<1>3. /\ pi' \in [Jobs -> PiType] /\ \A k \in Jobs \ {j} : pi'[k] = pi[k]
      /\ pi'[j].work = pi[j].work /\ pi'[j].next = pi[j].next
      /\ pi'[j].text = NoModule /\ ~pi'[j].settled
    BY <1>1, ResetMove, Zenon DEF Inv
<1>4. UNCHANGED <<row, handle, partials, features, counted, timedOut, shared>>
    BY Zenon DEF SendPrompt, Db
<1>5. Local(j)
    BY Locals
<1>6. ~timedOut' => Replying(j)'
    BY <1>1, <1>2, <1>3, <1>4, <1>5 DEF Local, Replying
<1>7. InProfile(j)' /\ CancelOk(j)'
    BY <1>1, <1>2, <1>4, <1>5 DEF Local, InProfile, Early, CancelOk, Executing
<1>8. j \notin shared' => Merging(j)'
    BY <1>1, <1>2, <1>4, <1>5 DEF Local, Merging, Early, Asked, Module
<1>9. Local(j)'
    BY <1>6, <1>7, <1>8 DEF Local
<1>10. Frame(j) /\ Types'
    BY <1>2, <1>3, <1>4 DEF Frame, Types, Inv, Typed
<1> QED
    BY <1>1, <1>4, <1>9, <1>10, PlainKeeps DEF Executing

LEMMA AcceptKeeps ==
    ASSUME Inv, NEW j \in Jobs, Accept(j)
    PROVE  Inv'
<1> DEFINE pc == IF pi[j].settled THEN "reply" ELSE "wait"
<1>1. Go(j, pc) /\ exec[j].pc = "accept" /\ pc \in Pcs /\ pc \in {"wait", "reply"} /\ pi' = Taken(j)
    BY DEF Accept, Pcs, Executing
<1>2. ~pi[j].settled => pc = "wait"
    OBVIOUS
<1>3. Local(j)
    BY Locals
<1>4. exec[j].i \in 1..Len(Profile[j])
    BY <1>1, <1>3 DEF Local, InProfile, Early
<1> HIDE DEF pc
<1>5. /\ exec' \in [Jobs -> ExecType]
      /\ exec'[j].pc = pc /\ exec'[j].i = exec[j].i
      /\ \A k \in Jobs \ {j} : exec'[k] = exec[k]
    BY <1>1, GoMove, Zenon DEF Inv
<1>6. /\ pi' \in [Jobs -> PiType] /\ \A k \in Jobs \ {j} : pi'[k] = pi[k]
      /\ pi'[j].text = pi[j].text
      /\ pi[j].work = NoModule => pi'[j].work = Module(j) /\ pi'[j].next = pi[j].next
    BY <1>1, <1>4, TakenMove, Zenon DEF Inv
<1>7. UNCHANGED <<row, handle, partials, features, counted, timedOut, shared>>
    BY Zenon DEF Accept, Db
<1>8. ~timedOut' => Replying(j)'
    BY <1>1, <1>2, <1>3, <1>5, <1>6, <1>7 DEF Local, Replying, Module
<1>9. InProfile(j)' /\ CancelOk(j)'
    BY <1>1, <1>3, <1>5, <1>7 DEF Local, InProfile, Early, CancelOk, Executing
<1>10. j \notin shared' => Merging(j)'
    BY <1>1, <1>3, <1>5, <1>7 DEF Local, Merging, Early, Asked, Module
<1>11. Local(j)'
    BY <1>8, <1>9, <1>10 DEF Local
<1>12. Frame(j) /\ Types'
    BY <1>5, <1>6, <1>7 DEF Frame, Types, Inv, Typed
<1> QED
    BY <1>1, <1>7, <1>11, <1>12, PlainKeeps DEF Executing

LEMMA SettlesKeeps ==
    ASSUME Inv, NEW j \in Jobs, NEW said \in {"reply", "junk", "nothing"}, AgentSettles(j, said)
    PROVE  Inv'
<1> DEFINE p == pi[j]
           new == [work |-> p.next, next |-> NoModule, settled |-> TRUE, text |-> Text(j, said)]
<1>1. p \in PiType /\ NoModule \in Answers
    BY DEF Inv, Typed, Answers
<1>2. pi' = [pi EXCEPT ![j] = new]
    BY DEF AgentSettles
<1>3. Text(j, said) \in {p.work, NoModule, p.text}
    BY DEF Text
<1>4. new \in PiType
    BY <1>1, <1>3 DEF PiType
<1>5. new.work = p.next /\ new.next = NoModule /\ new.text \in {p.work, NoModule, p.text}
    BY <1>3
<1> HIDE DEF new, p
<1>6. pi' \in [Jobs -> PiType] /\ pi'[j] = new /\ \A k \in Jobs \ {j} : pi'[k] = pi[k]
    BY <1>2, <1>4, PiMove DEF Inv
<1>7. /\ UNCHANGED <<row, handle, partials, features, counted, timedOut, shared>>
      /\ exec[j].pc \in Executing /\ pi[j].work # NoModule
    BY Zenon DEF AgentSettles, Db
<1>8. /\ exec' \in [Jobs -> ExecType] /\ exec'[j].i = exec[j].i
      /\ exec'[j].merged = exec[j].merged
      /\ exec'[j].pc = IF exec[j].pc = "wait" THEN "reply" ELSE exec[j].pc
      /\ \A k \in Jobs \ {j} : exec'[k] = exec[k]
    <2>1. CASE exec[j].pc = "wait"
        <3>1. Go(j, "reply") /\ "reply" \in Pcs
            BY <2>1 DEF AgentSettles, Go, Pcs, Executing
        <3> QED
            BY <2>1, <3>1, GoMove DEF Inv
    <2>2. CASE exec[j].pc # "wait"
        BY <2>2 DEF AgentSettles, Inv, Typed
    <2> QED
        BY <2>1, <2>2
<1>9. Local(j)
    BY Locals
<1>10. ~timedOut' => Replying(j)'
    <2> SUFFICES ASSUME ~timedOut' PROVE Replying(j)'
        OBVIOUS
    <2>1. Replying(j)
        BY <1>7, <1>9, Zenon DEF Local
    <2>2. exec[j].pc = "wait" /\ p.work = Module(j) /\ p.text = NoModule /\ p.next = NoModule
        BY <1>7, <2>1 DEF Replying, Executing, p
    <2> QED
        BY <1>5, <1>6, <1>8, <2>2 DEF Replying, Module
<1>11. InProfile(j)' /\ CancelOk(j)'
    BY <1>7, <1>8, <1>9 DEF Local, InProfile, Early, CancelOk, Executing
<1>12. j \notin shared' => Merging(j)'
    BY <1>7, <1>8, <1>9 DEF Local, Merging, Early, Asked, Module
<1>13. Local(j)'
    BY <1>10, <1>11, <1>12 DEF Local
<1>14. Frame(j) /\ Types'
    BY <1>6, <1>7, <1>8 DEF Frame, Types, Inv, Typed
<1> QED
    BY <1>7, <1>13, <1>14, PlainKeeps

-----------------------------------------------------------------------------
(* The end of a module                                                      *)

LEMMA NextKeeps ==
    ASSUME Inv, NEW j \in Jobs, exec[j].pc \in Early, NextModule(j),
           row' = row, handle' = handle, shared' = shared,
           j \notin shared => \A c \in counted'[j] :
               \E k \in 1..exec[j].i : partials'[Profile[j][k]] = c
    PROVE  /\ exec' \in [Jobs -> ExecType] /\ \A k \in Jobs \ {j} : exec'[k] = exec[k]
           /\ exec'[j].pc \in {"load", "merge"}
           /\ InProfile(j)' /\ CancelOk(j)' /\ (j \notin shared' => Merging(j)')
<1>1. Local(j)
    BY Locals
<1>2. exec[j].i \in 1..Len(Profile[j]) /\ exec[j].pc \in Executing
    BY <1>1 DEF Local, InProfile, Early, Executing
<1>3. /\ exec' \in [Jobs -> ExecType]
      /\ \/ /\ exec'[j].pc = "load" /\ exec'[j].i = exec[j].i + 1
            /\ exec'[j].i \in 1..Len(Profile[j])
         \/ exec'[j].pc = "merge" /\ exec'[j].i = 1 /\ exec[j].i = Len(Profile[j])
      /\ \A k \in Jobs \ {j} : exec'[k] = exec[k]
    BY <1>2, NextModuleMove DEF Inv
<1>4. Len(Profile[j]) \in Nat \ {0}
    BY ProfileType
<1>5. InProfile(j)'
    BY <1>3, <1>4 DEF InProfile, Early
<1>6. CancelOk(j)'
    BY <1>1, <1>2 DEF Local, CancelOk
<1>7. ASSUME j \notin shared'
      PROVE  Merging(j)'
    <2>1. ~(handle[j].status = "completed" \/ row[j] = "completed")
        BY <1>1, <1>7 DEF Local, Merging, Early
    <2>2. \A c \in counted'[j] : \E k \in 1..exec[j].i : partials'[Profile[j][k]] = c
        BY <1>7
    <2>3. CASE exec'[j].pc = "load" /\ exec'[j].i = exec[j].i + 1
        <3>1. exec'[j].i - 1 = exec[j].i
            BY <1>2, <2>3
        <3> QED
            BY <2>1, <2>2, <2>3, <3>1 DEF Merging, Asked
    <2>4. CASE exec'[j].pc = "merge" /\ exec'[j].i = 1 /\ exec[j].i = Len(Profile[j])
        BY <2>1, <2>2, <2>4 DEF Merging, Asked, Early
    <2> QED
        BY <1>3, <2>3, <2>4
<1> QED
    BY <1>3, <1>5, <1>6, <1>7

\* What a job has counted so far is in the partials of the modules before.
LEMMA Before ==
    ASSUME Inv, NEW j \in Jobs, exec[j].pc \in Early, j \notin shared
    PROVE  /\ \A c \in counted[j] : \E k \in 1..exec[j].i : partials[Profile[j][k]] = c
           /\ exec[j].i \in 1..Len(Profile[j])
<1>1. Local(j)
    BY Locals
<1>2. exec[j].i \in 1..Len(Profile[j])
    BY <1>1 DEF Local, InProfile
<1>3. \A c \in counted[j] : \E k \in 1..(exec[j].i - 1) : partials[Profile[j][k]] = c
    BY <1>1 DEF Local, Merging
<1>4. 1..(exec[j].i - 1) \subseteq 1..exec[j].i
    BY <1>2
<1> QED
    BY <1>2, <1>3, <1>4

LEMMA CountedMove ==
    ASSUME Typed, NEW j \in Jobs, NEW c \in Modules,
           counted' = counted \/ counted' = [counted EXCEPT ![j] = @ \cup {c}]
    PROVE  /\ counted' \in [Jobs -> SUBSET Modules]
           /\ counted'[j] \subseteq counted[j] \cup {c}
           /\ \A k \in Jobs \ {j} : counted'[k] = counted[k]
BY DEF Typed

LEMMA LoadKeeps ==
    ASSUME Inv, NEW j \in Jobs, Load(j)
    PROVE  Inv'
<1>1. Local(j) /\ exec[j].pc = "load"
    BY Locals DEF Load
<1>2. exec[j].i \in 1..Len(Profile[j]) /\ Module(j) \in Modules
    BY <1>1, ModuleType DEF Local, InProfile, Early
<1>3. /\ row' = row /\ pi' = pi /\ partials' = partials /\ features' = features
      /\ timedOut' = timedOut /\ shared' = shared
    BY Zenon DEF Load, Db
<1>4. handle' = handle
    BY DEF Load, Completes, Reports
<1>5. ~timedOut' => ~timedOut
    BY <1>3, Zenon
<1>6. CASE partials[Module(j)] # NoModule
    <2>1. Completes(j, partials[Module(j)]) /\ NextModule(j)
        BY <1>6 DEF Load
    <2>2. partials[Module(j)] \in Modules
        BY <1>2, <1>6 DEF Inv, Typed, Answers
    <2>3. \/ counted' = counted
          \/ counted' = [counted EXCEPT ![j] = @ \cup {partials[Module(j)]}]
        BY <2>1 DEF Completes
    <2>4. /\ counted' \in [Jobs -> SUBSET Modules]
          /\ counted'[j] \subseteq counted[j] \cup {partials[Module(j)]}
          /\ \A k \in Jobs \ {j} : counted'[k] = counted[k]
        BY <2>2, <2>3, CountedMove DEF Inv
    <2>5. j \notin shared => \A c \in counted'[j] :
              \E k \in 1..exec[j].i : partials'[Profile[j][k]] = c
        BY <1>1, <1>2, <1>3, <2>4, Before DEF Module, Early
    <2>6. /\ exec' \in [Jobs -> ExecType] /\ \A k \in Jobs \ {j} : exec'[k] = exec[k]
          /\ exec'[j].pc \in {"load", "merge"}
          /\ InProfile(j)' /\ CancelOk(j)' /\ (j \notin shared' => Merging(j)')
        BY <1>1, <1>3, <1>4, <2>1, <2>5, NextKeeps DEF Early
    <2>7. ~timedOut' => Replying(j)'
        BY <1>1, <1>3, <1>5, <2>6 DEF Local, Replying
    <2>8. Local(j)'
        BY <2>6, <2>7 DEF Local
    <2>9. Frame(j) /\ Types'
        BY <1>3, <1>4, <2>4, <2>6 DEF Frame, Types, Inv, Typed
    <2> QED
        BY <1>1, <1>3, <2>8, <2>9, PlainKeeps DEF Executing
<1>7. CASE partials[Module(j)] = NoModule
    <2>1. Go(j, "prompt") /\ counted' = counted /\ "prompt" \in Pcs
        BY <1>7 DEF Load, Reports, Pcs, Executing
    <2>2. /\ exec' \in [Jobs -> ExecType]
          /\ exec'[j].pc = "prompt" /\ exec'[j].i = exec[j].i
          /\ \A k \in Jobs \ {j} : exec'[k] = exec[k]
        BY <2>1, GoMove, Zenon DEF Inv
    <2>3. ~timedOut' => Replying(j)'
        BY <1>1, <1>3, <1>5, <2>2 DEF Local, Replying
    <2>4. InProfile(j)' /\ CancelOk(j)'
        BY <1>1, <1>3, <1>4, <2>2 DEF Local, InProfile, Early, CancelOk, Executing
    <2>5. j \notin shared' => Merging(j)'
        BY <1>1, <1>3, <1>4, <1>7, <2>1, <2>2 DEF Local, Merging, Early, Asked, Module
    <2>6. Local(j)'
        BY <2>3, <2>4, <2>5 DEF Local
    <2>7. Frame(j) /\ Types'
        BY <1>3, <1>4, <2>1, <2>2 DEF Frame, Types, Inv, Typed
    <2> QED
        BY <1>1, <1>3, <2>6, <2>7, PlainKeeps DEF Executing
<1> QED
    BY <1>6, <1>7

LEMMA FailsKeeps ==
    ASSUME Inv, NEW j \in Jobs, PromptFails(j)
    PROVE  Inv'
<1>1. Local(j) /\ exec[j].pc \in {"accept", "wait"}
    BY Locals DEF PromptFails
<1>2. exec[j].i \in 1..Len(Profile[j])
    BY <1>1 DEF Local, InProfile, Early
<1>3. /\ row' = row /\ partials' = partials /\ features' = features /\ shared' = shared
      /\ NextModule(j)
    BY Zenon DEF PromptFails, Db
<1>4. handle' = handle /\ counted' = counted
    BY DEF PromptFails, Reports
<1>5. ~timedOut' => ~timedOut /\ pi'[j].work = NoModule
    BY Zenon DEF PromptFails
<1>6. \/ pi' = pi
      \/ exec[j].pc = "accept" /\ pi' = Taken(j)
    BY DEF PromptFails
<1>7. /\ pi' \in [Jobs -> PiType] /\ \A k \in Jobs \ {j} : pi'[k] = pi[k]
      /\ pi' = pi \/ (pi[j].work = NoModule => pi'[j].next = pi[j].next)
    BY <1>2, <1>6, TakenMove DEF Inv, Typed
<1>8. j \notin shared => \A c \in counted'[j] :
          \E k \in 1..exec[j].i : partials'[Profile[j][k]] = c
    BY <1>1, <1>3, <1>4, Before DEF Early
<1>9. /\ exec' \in [Jobs -> ExecType] /\ \A k \in Jobs \ {j} : exec'[k] = exec[k]
      /\ exec'[j].pc \in {"load", "merge"}
      /\ InProfile(j)' /\ CancelOk(j)' /\ (j \notin shared' => Merging(j)')
    BY <1>1, <1>3, <1>4, <1>8, NextKeeps DEF Early
<1>10. ASSUME ~timedOut'
       PROVE  Replying(j)'
    <2>1. Replying(j) /\ pi'[j].work = NoModule
        BY <1>1, <1>5, <1>10, Zenon DEF Local
    <2>2. pi'[j].next = NoModule
        BY <1>1, <1>6, <1>7, <2>1 DEF Replying
    <2> QED
        BY <1>9, <2>1, <2>2 DEF Replying
<1>11. Local(j)'
    BY <1>9, <1>10 DEF Local
<1>12. Frame(j) /\ Types'
    BY <1>3, <1>4, <1>7, <1>9 DEF Frame, Types, Inv, Typed
<1>13. ~timedOut' => ~timedOut /\ RepliesAreOwn'
    BY <1>3, <1>5 DEF Inv, RepliesInv, RepliesAreOwn
<1> QED
    BY <1>1, <1>3, <1>11, <1>12, <1>13, FrameKeeps DEF Executing

LEMMA SavePartialKeeps ==
    ASSUME Inv, NEW j \in Jobs, SavePartial(j)
    PROVE  Inv'
<1>1. Local(j) /\ exec[j].pc = "reply" /\ pi[j].text # NoModule
    BY Locals DEF SavePartial
<1>2. exec[j].i \in 1..Len(Profile[j]) /\ Module(j) \in Modules /\ pi[j].text \in Modules
    BY <1>1, ModuleType DEF Local, InProfile, Early, Inv, Typed, PiType, Answers
<1>3. /\ row' = row /\ pi' = pi /\ features' = features /\ timedOut' = timedOut
      /\ shared' = shared /\ NextModule(j) /\ Completes(j, pi[j].text)
      /\ partials' = [partials EXCEPT ![Module(j)] = pi[j].text]
    BY Zenon DEF SavePartial
<1>4. /\ handle' = handle
      /\ counted' = counted \/ counted' = [counted EXCEPT ![j] = @ \cup {pi[j].text}]
    BY <1>3 DEF Completes
<1>5. ~timedOut' => ~timedOut
    BY <1>3, Zenon
<1>6. /\ partials' \in [Modules -> Answers] /\ partials'[Module(j)] = pi[j].text
      /\ \A m \in Modules \ {Module(j)} : partials'[m] = partials[m]
    BY <1>2, <1>3 DEF Inv, Typed, Answers
<1>7. /\ counted' \in [Jobs -> SUBSET Modules]
      /\ counted'[j] \subseteq counted[j] \cup {pi[j].text}
      /\ \A k \in Jobs \ {j} : counted'[k] = counted[k]
    BY <1>2, <1>4, CountedMove DEF Inv
<1>8. ASSUME j \notin shared
      PROVE  \A c \in counted'[j] : \E k \in 1..exec[j].i : partials'[Profile[j][k]] = c
    <2>1. partials[Module(j)] = NoModule
        BY <1>1, <1>8 DEF Local, Merging, Asked
    <2>2. \A c \in counted[j] : \E k \in 1..exec[j].i : partials[Profile[j][k]] = c
        BY <1>1, <1>8, Before DEF Early
    <2>3. ASSUME NEW c \in counted[j]
          PROVE  \E k \in 1..exec[j].i : partials'[Profile[j][k]] = c
        <3>1. PICK k \in 1..exec[j].i : partials[Profile[j][k]] = c
            BY <2>2
        <3>2. c \in Modules /\ NoModule \notin Modules
            BY AuditAssumption DEF Inv, Typed
        <3>3. Profile[j][k] \in Modules \ {Module(j)}
            BY <1>2, <2>1, <3>1, <3>2, ProfileType
        <3> QED
            BY <1>6, <3>1, <3>3
    <2>4. partials'[Profile[j][exec[j].i]] = pi[j].text
        BY <1>6 DEF Module
    <2> QED
        BY <1>2, <1>7, <2>3, <2>4
<1>9. /\ exec' \in [Jobs -> ExecType] /\ \A k \in Jobs \ {j} : exec'[k] = exec[k]
      /\ exec'[j].pc \in {"load", "merge"}
      /\ InProfile(j)' /\ CancelOk(j)' /\ (j \notin shared' => Merging(j)')
    BY <1>1, <1>3, <1>4, <1>8, NextKeeps DEF Early
<1>10. ~timedOut' => Replying(j)'
    BY <1>1, <1>3, <1>5, <1>9 DEF Local, Replying
<1>11. Local(j)'
    BY <1>9, <1>10 DEF Local
<1>12. Frame(j) /\ Types'
    BY <1>3, <1>4, <1>6, <1>7, <1>9 DEF Frame, Types, Inv, Typed
<1>13. ASSUME ~timedOut'
       PROVE  ~timedOut /\ RepliesAreOwn'
    <2>1. ~timedOut
        BY <1>5, <1>13
    <2>2. pi[j].text = Module(j)
        BY <1>1, <2>1 DEF Local, Replying
    <2>3. \A m \in Modules : partials[m] \in {m, NoModule}
        BY <2>1 DEF Inv, RepliesInv, RepliesAreOwn
    <2> QED
        BY <1>6, <2>1, <2>2, <2>3 DEF RepliesAreOwn
<1> QED
    BY <1>1, <1>3, <1>11, <1>12, <1>13, FrameKeeps DEF Executing

LEMMA NoPartialKeeps ==
    ASSUME Inv, NEW j \in Jobs, NoPartial(j)
    PROVE  Inv'
<1>1. Local(j) /\ exec[j].pc = "reply"
    BY Locals DEF NoPartial
<1>2. exec[j].i \in 1..Len(Profile[j])
    BY <1>1 DEF Local, InProfile, Early
<1>3. /\ row' = row /\ pi' = pi /\ partials' = partials /\ features' = features
      /\ timedOut' = timedOut /\ shared' = shared
    BY Zenon DEF NoPartial, Db
<1>4. handle' = handle /\ counted' = counted
    BY DEF NoPartial, Reports
<1>5. ~timedOut' => ~timedOut
    BY <1>3, Zenon
<1>6. CASE NextModule(j)
    <2>1. j \notin shared => \A c \in counted'[j] :
              \E k \in 1..exec[j].i : partials'[Profile[j][k]] = c
        BY <1>1, <1>3, <1>4, Before DEF Early
    <2>2. /\ exec' \in [Jobs -> ExecType] /\ \A k \in Jobs \ {j} : exec'[k] = exec[k]
          /\ exec'[j].pc \in {"load", "merge"}
          /\ InProfile(j)' /\ CancelOk(j)' /\ (j \notin shared' => Merging(j)')
        BY <1>1, <1>3, <1>4, <1>6, <2>1, NextKeeps DEF Early
    <2>3. ~timedOut' => Replying(j)'
        BY <1>1, <1>3, <1>5, <2>2 DEF Local, Replying
    <2>4. Local(j)'
        BY <2>2, <2>3 DEF Local
    <2>5. Frame(j) /\ Types'
        BY <1>3, <1>4, <2>2 DEF Frame, Types, Inv, Typed
    <2> QED
        BY <1>1, <1>3, <2>4, <2>5, PlainKeeps DEF Executing
<1>7. CASE exec' = [exec EXCEPT ![j].pc = "prompt", ![j].try = @ + 1]
    <2> DEFINE a == [exec[j] EXCEPT !.pc = "prompt"]
               new == [a EXCEPT !.try = exec[j].try + 1]
    <2>1. exec' = [exec EXCEPT ![j] = new]
        BY <1>7 DEF Inv, Typed, ExecType
    <2>2. exec[j] \in ExecType /\ "prompt" \in Pcs
        BY DEF Inv, Typed, Pcs, Executing
    <2>3. a \in ExecType /\ a.pc = "prompt" /\ a.i = exec[j].i /\ exec[j].try + 1 \in Nat
        BY <2>2 DEF ExecType
    <2> HIDE DEF a
    <2>4. new \in ExecType /\ new.pc = "prompt" /\ new.i = exec[j].i
        BY <2>3 DEF ExecType
    <2> HIDE DEF new
    <2>5. /\ exec' \in [Jobs -> ExecType]
          /\ exec'[j].pc = "prompt" /\ exec'[j].i = exec[j].i
          /\ \A k \in Jobs \ {j} : exec'[k] = exec[k]
        BY <2>1, <2>4 DEF Inv, Typed
    <2>6. ~timedOut' => Replying(j)'
        BY <1>1, <1>3, <1>5, <2>5 DEF Local, Replying
    <2>7. InProfile(j)' /\ CancelOk(j)'
        BY <1>1, <1>3, <1>4, <2>5 DEF Local, InProfile, Early, CancelOk, Executing
    <2>8. j \notin shared' => Merging(j)'
        BY <1>1, <1>3, <1>4, <2>5 DEF Local, Merging, Early, Asked, Module
    <2>9. Local(j)'
        BY <2>6, <2>7, <2>8 DEF Local
    <2>10. Frame(j) /\ Types'
        BY <1>3, <1>4, <2>5 DEF Frame, Types, Inv, Typed
    <2> QED
        BY <1>1, <1>3, <2>9, <2>10, PlainKeeps DEF Executing
<1> QED
    BY <1>6, <1>7 DEF NoPartial

-----------------------------------------------------------------------------
(* Merging                                                                  *)

LEMMA MergeKeeps ==
    ASSUME Inv, NEW j \in Jobs, Merge(j)
    PROVE  Inv'
<1> DEFINE e == exec[j]
           m == Module(j)
           c == partials[m]
           merged == IF c = NoModule THEN e.merged ELSE e.merged \cup {FeatureOf(e.merged, m, c)}
           a == [e EXCEPT !.i = e.i + 1]
           new == [a EXCEPT !.merged = merged]
<1>1. Local(j) /\ e.pc = "merge" /\ e.i \in 1..Len(Profile[j])
    BY Locals, ProfileType DEF Merge, Local, InProfile
<1>2. m \in Modules /\ e \in ExecType /\ Len(Profile[j]) \in Nat
    BY <1>1, ModuleType, ProfileType DEF Inv, Typed
<1>3. c = NoModule \/ c \in Modules
    BY <1>2 DEF Inv, Typed, Answers
<1>4. merged \in SUBSET Seq(Modules)
    <2>1. CASE c = NoModule
        BY <1>2, <2>1 DEF ExecType
    <2>2. CASE c # NoModule
        <3>1. c \in Modules /\ m \in Modules
            BY <1>2, <1>3, <2>2
        <3> HIDE DEF c, m
        <3>2. FeatureOf(e.merged, m, c) \in Seq(Modules)
            BY <3>1 DEF FeatureOf
        <3> QED
            BY <1>2, <2>2, <3>2 DEF ExecType
    <2> QED
        BY <2>1, <2>2
<1>5. e.merged \subseteq merged /\ (c # NoModule => <<c>> \in merged)
    BY DEF FeatureOf
<1>6. exec' = [exec EXCEPT ![j] = new]
    BY DEF Merge, Inv, Typed, ExecType
<1>7. /\ UNCHANGED <<row, handle, pi, features, counted, timedOut, shared>>
      /\ partials' = partials
    BY Zenon DEF Merge, Db
<1> HIDE DEF merged, m, c
<1>8. a \in ExecType /\ a.pc = "merge" /\ a.i = e.i + 1
    BY <1>1, <1>2 DEF ExecType
<1> HIDE DEF a
<1>9. new \in ExecType /\ new.pc = "merge" /\ new.i = e.i + 1 /\ new.merged = merged
    BY <1>4, <1>8 DEF ExecType
<1> HIDE DEF new
<1>10. exec' \in [Jobs -> ExecType] /\ exec'[j] = new /\ \A k \in Jobs \ {j} : exec'[k] = exec[k]
    BY <1>6, <1>9 DEF Inv, Typed
<1>11. InProfile(j)' /\ CancelOk(j)'
    BY <1>1, <1>2, <1>7, <1>9, <1>10 DEF Local, InProfile, Early, CancelOk, Executing
<1>12. ~timedOut' => ~timedOut
    BY <1>7, Zenon
<1>13. ~timedOut' => Replying(j)'
    BY <1>1, <1>7, <1>9, <1>10, <1>12 DEF Local, Replying
<1>14. ASSUME j \notin shared'
       PROVE  Merging(j)'
    <2>1. Merging(j)
        BY <1>1, <1>7, <1>14 DEF Local
    <2>2. ~(handle[j].status = "completed" \/ row[j] = "completed")
        BY <1>1, <2>1 DEF Merging
    <2>3. ASSUME NEW d \in counted[j]
          PROVE  \/ <<d>> \in new.merged
                 \/ \E k \in new.i..Len(Profile[j]) : partials[Profile[j][k]] = d
        <3>1. d # NoModule
            BY AuditAssumption DEF Inv, Typed
        <3>2. \/ <<d>> \in e.merged
              \/ \E k \in e.i..Len(Profile[j]) : partials[Profile[j][k]] = d
            BY <1>1, <2>1 DEF Merging
        <3>3. CASE <<d>> \in e.merged
            BY <1>5, <1>9, <3>3
        <3>4. ASSUME NEW k \in e.i..Len(Profile[j]), partials[Profile[j][k]] = d
              PROVE  \/ <<d>> \in new.merged
                     \/ \E n \in new.i..Len(Profile[j]) : partials[Profile[j][n]] = d
            <4>1. CASE k = e.i
                BY <1>5, <1>9, <3>1, <3>4, <4>1 DEF c, m, Module
            <4>2. CASE k # e.i
                <5>1. k \in new.i..Len(Profile[j])
                    BY <1>1, <1>2, <1>9, <3>4, <4>2
                <5> QED
                    BY <3>4, <5>1
            <4> QED
                BY <4>1, <4>2
        <3> QED
            BY <3>2, <3>3, <3>4
    <2> QED
        BY <1>7, <1>9, <1>10, <2>2, <2>3 DEF Merging, Early, Asked
<1>15. Local(j)'
    BY <1>11, <1>13, <1>14 DEF Local
<1>16. Frame(j) /\ Types'
    BY <1>7, <1>10 DEF Frame, Types, Inv, Typed
<1> QED
    BY <1>1, <1>7, <1>15, <1>16, PlainKeeps DEF Executing

\* A throw: the client is stopped, and the job left with its last save.
LEMMA FailedKeeps ==
    ASSUME Inv, NEW j \in Jobs, Failed(j), exec[j].pc \in {"load", "merge", "upsert", "delete"},
           row' = row, partials' = partials, features' = features, counted' = counted,
           timedOut' = timedOut, shared' = shared
    PROVE  Inv'
<1>1. Local(j)
    BY Locals
<1>2. Leaves(j, TRUE) /\ handle' = [handle EXCEPT ![j].status = "failed"] /\ "failed" \in Status
    BY DEF Failed, Status
<1>3. /\ exec' \in [Jobs -> ExecType] /\ exec'[j].pc \in {"final", "over"}
      /\ \A k \in Jobs \ {j} : exec'[k] = exec[k]
      /\ pi' \in [Jobs -> PiType] /\ pi'[j].work = NoModule /\ pi'[j].next = NoModule
      /\ \A k \in Jobs \ {j} : pi'[k] = pi[k]
    BY <1>2, LeavesMove, Zenon DEF Inv
<1>4. /\ handle' \in [Jobs -> HandleType]
      /\ handle'[j].status = "failed" /\ handle'[j].cancelled = handle[j].cancelled
      /\ \A k \in Jobs \ {j} : handle'[k] = handle[k]
    BY <1>2, HandleMove, Zenon DEF Inv
<1>5. InProfile(j)' /\ Replying(j)'
    BY <1>3 DEF InProfile, Early, Replying
<1>6. CancelOk(j)'
    BY <1>1, <1>4 DEF Local, CancelOk, Executing
<1>7. j \notin shared' => Merging(j)'
    BY <1>1, <1>3, <1>4 DEF Local, Merging, Early, Asked
<1>8. Local(j)'
    BY <1>5, <1>6, <1>7 DEF Local
<1>9. Frame(j) /\ Types'
    BY <1>3, <1>4 DEF Frame, Types, Inv, Typed
<1> QED
    BY <1>8, <1>9, PlainKeeps DEF Executing

LEMMA MergedKeeps ==
    ASSUME Inv, NEW j \in Jobs, Merged(j)
    PROVE  Inv'
<1>1. Local(j) /\ exec[j].pc = "merge" /\ exec[j].i > Len(Profile[j])
    BY Locals DEF Merged
<1>2. /\ row' = row /\ partials' = partials /\ features' = features /\ counted' = counted
      /\ timedOut' = timedOut /\ shared' = shared
    BY Zenon DEF Merged, Db
<1>3. CASE exec[j].merged = {}
    BY <1>1, <1>2, <1>3, FailedKeeps DEF Merged
<1>4. CASE exec[j].merged # {}
    <2>1. Go(j, "upsert") /\ handle' = handle /\ pi' = pi /\ "upsert" \in Pcs
        BY <1>4 DEF Merged, Pcs, Executing
    <2>2. /\ exec' \in [Jobs -> ExecType]
          /\ exec'[j].pc = "upsert" /\ exec'[j].merged = exec[j].merged
          /\ \A k \in Jobs \ {j} : exec'[k] = exec[k]
        BY <2>1, GoMove, Zenon DEF Inv
    <2>3. exec[j].i..Len(Profile[j]) = {}
        BY <1>1, ProfileType DEF Inv, Typed, ExecType
    <2>4. InProfile(j)' /\ CancelOk(j)'
        BY <1>1, <1>2, <2>1, <2>2 DEF Local, InProfile, Early, CancelOk, Executing
    <2>5. ~timedOut' => ~timedOut
        BY <1>2, Zenon
    <2>6. ~timedOut' => Replying(j)'
        BY <1>1, <2>1, <2>2, <2>5 DEF Local, Replying
    <2>7. j \notin shared' => Merging(j)'
        BY <1>1, <1>2, <2>1, <2>2, <2>3 DEF Local, Merging, Early, Asked
    <2>8. Local(j)'
        BY <2>4, <2>6, <2>7 DEF Local
    <2>9. Frame(j) /\ Types'
        BY <1>2, <2>1, <2>2 DEF Frame, Types, Inv, Typed
    <2> QED
        BY <1>1, <1>2, <2>8, <2>9, PlainKeeps DEF Executing
<1> QED
    BY <1>3, <1>4

LEMMA UpsertKeeps ==
    ASSUME Inv, NEW j \in Jobs, Upsert(j)
    PROVE  Inv'
<1>1. Local(j) /\ exec[j].pc = "upsert"
    BY Locals DEF Upsert
<1>2. /\ row' = row /\ handle' = handle /\ pi' = pi /\ partials' = partials
      /\ counted' = counted /\ timedOut' = timedOut /\ shared' = shared
    BY Zenon DEF Upsert
<1>3. ~timedOut' => ~timedOut
    BY <1>2, Zenon
<1>4. CASE exec' = exec /\ \E f \in exec[j].merged \ features : features' = features \cup {f}
    <2>1. features \subseteq features'
        BY <1>4
    <2>2. InProfile(j)' /\ CancelOk(j)' /\ (~timedOut' => Replying(j)')
        BY <1>1, <1>2, <1>3, <1>4 DEF Local, InProfile, CancelOk, Replying, Module
    <2>3. j \notin shared' => Merging(j)'
        BY <1>1, <1>2, <1>4, <2>1 DEF Local, Merging, Module, Early, Asked
    <2>4. Local(j)'
        BY <2>2, <2>3 DEF Local
    <2>5. Frame(j) /\ Types'
        BY <1>2, <1>4 DEF Frame, Types, Inv, Typed
    <2> QED
        BY <1>2, <1>4, <2>1, <2>4, <2>5, PlainKeeps
<1>5. CASE AllWritten(j) /\ Go(j, "delete") /\ features' = features
    <2>1. "delete" \in Pcs
        BY DEF Pcs, Executing
    <2>2. /\ exec' \in [Jobs -> ExecType]
          /\ exec'[j].pc = "delete" /\ exec'[j].merged = exec[j].merged
          /\ \A k \in Jobs \ {j} : exec'[k] = exec[k]
        BY <1>5, <2>1, GoMove, Zenon DEF Inv
    <2>3. InProfile(j)' /\ CancelOk(j)'
        BY <1>1, <1>2, <2>2 DEF Local, InProfile, Early, CancelOk, Executing
    <2>4. ~timedOut' => Replying(j)'
        BY <1>1, <1>2, <1>3, <2>2 DEF Local, Replying
    <2>5. j \notin shared' => Merging(j)'
        BY <1>1, <1>2, <1>5, <2>2 DEF Local, Merging, Early, Asked, AllWritten
    <2>6. Local(j)'
        BY <2>3, <2>4, <2>5 DEF Local
    <2>7. Frame(j) /\ Types'
        BY <1>2, <2>2 DEF Frame, Types, Inv, Typed
    <2> QED
        BY <1>1, <1>2, <1>5, <2>6, <2>7, PlainKeeps DEF Executing
<1> QED
    BY <1>4, <1>5 DEF Upsert

\* All partials go: a job that executes beside this one is marked, and not promised anything.
LEMMA DeleteKeeps ==
    ASSUME Inv, NEW j \in Jobs, Delete(j)
    PROVE  Inv'
<1>1. Local(j) /\ exec[j].pc = "delete"
    BY Locals DEF Delete
<1>2. /\ row' = row /\ features' = features /\ counted' = counted
      /\ timedOut' = timedOut /\ shared' = shared
      /\ partials' = [m \in Modules |-> NoModule]
    BY Zenon DEF Delete
<1>3. \E saves \in BOOLEAN : Leaves(j, saves)
    BY DEF Delete
<1>4. /\ exec' \in [Jobs -> ExecType] /\ exec'[j].pc \in {"final", "over"}
      /\ \A k \in Jobs \ {j} : exec'[k] = exec[k]
      /\ pi' \in [Jobs -> PiType] /\ pi'[j].work = NoModule /\ pi'[j].next = NoModule
      /\ \A k \in Jobs \ {j} : pi'[k] = pi[k]
    BY <1>3, LeavesMove, Zenon DEF Inv
<1>5. /\ handle' \in [Jobs -> HandleType] /\ \A k \in Jobs \ {j} : handle'[k] = handle[k]
      /\ handle'[j].cancelled = handle[j].cancelled
      /\ \/ ~handle[j].cancelled /\ handle'[j].status = "completed"
         \/ handle'[j].status = handle[j].status
    <2>1. CASE NotCancelled(j)
        <3>1. handle' = [handle EXCEPT ![j].status = "completed"] /\ "completed" \in Status
            BY <2>1 DEF Delete, Status
        <3>2. /\ handle' \in [Jobs -> HandleType]
              /\ handle'[j].status = "completed" /\ handle'[j].cancelled = handle[j].cancelled
              /\ \A k \in Jobs \ {j} : handle'[k] = handle[k]
            BY <3>1, HandleMove, Zenon DEF Inv
        <3> QED
            BY <2>1, <3>2 DEF NotCancelled
    <2>2. CASE ~NotCancelled(j)
        BY <2>2, LiveMove DEF Delete, Inv
    <2> QED
        BY <2>1, <2>2
<1>6. InProfile(j)' /\ Replying(j)'
    BY <1>4 DEF InProfile, Early, Replying
<1>7. CancelOk(j)'
    BY <1>1, <1>2, <1>5 DEF Local, CancelOk, Executing
<1>8. j \notin shared' => Merging(j)'
    BY <1>1, <1>2, <1>4, <1>5 DEF Local, Merging, Early, Asked
<1>9. Local(j)'
    BY <1>6, <1>7, <1>8 DEF Local
<1>10. Frame(j) /\ Types'
    BY <1>2, <1>4, <1>5 DEF Frame, Types, Inv, Typed, Answers
<1>11. ~timedOut' => ~timedOut /\ RepliesAreOwn'
    <2>1. ~timedOut' => ~timedOut
        BY <1>2, Zenon
    <2> QED
        BY <1>2, <2>1 DEF RepliesAreOwn
<1> QED
    BY <1>1, <1>2, <1>9, <1>10, <1>11, FrameKeeps DEF Executing

LEMMA QueryFailsKeeps ==
    ASSUME Inv, NEW j \in Jobs, QueryFails(j)
    PROVE  Inv'
<1>1. /\ row' = row /\ partials' = partials /\ features' = features /\ counted' = counted
      /\ timedOut' = timedOut /\ shared' = shared
    BY Zenon DEF QueryFails, Db
<1> QED
    BY <1>1, FailedKeeps DEF QueryFails

-----------------------------------------------------------------------------
(* Saves, restarts and the page                                             *)

\* A save writes the handle's status, and its last one ends the job.
LEMMA SavedKeeps ==
    ASSUME Inv, NEW j \in Jobs,
           row' = row \/ row' = [row EXCEPT ![j] = handle[j].status],
           \/ exec' = exec /\ handle' = handle
           \/ Go(j, "over") /\ handle' = [handle EXCEPT ![j].live = FALSE],
           pi' = pi, partials' = partials, features' = features, counted' = counted,
           timedOut' = timedOut, shared' = shared
    PROVE  Inv'
<1>1. Local(j)
    BY Locals
<1>2. ~timedOut' => ~timedOut
    BY Zenon
<1>3. /\ row' \in [Jobs -> Status] /\ \A k \in Jobs \ {j} : row'[k] = row[k]
      /\ row'[j] \in {row[j], handle[j].status}
    BY DEF Inv, Typed, HandleType
<1>4. /\ exec' \in [Jobs -> ExecType] /\ handle' \in [Jobs -> HandleType]
      /\ handle'[j].status = handle[j].status /\ handle'[j].cancelled = handle[j].cancelled
      /\ exec'[j] = exec[j] \/ exec'[j].pc = "over"
      /\ \A k \in Jobs \ {j} : exec'[k] = exec[k] /\ handle'[k] = handle[k]
    <2>1. CASE exec' = exec /\ handle' = handle
        BY <2>1 DEF Inv, Typed
    <2>2. CASE Go(j, "over") /\ handle' = [handle EXCEPT ![j].live = FALSE]
        <3>1. "over" \in Pcs
            BY DEF Pcs
        <3>2. /\ exec' \in [Jobs -> ExecType] /\ exec'[j].pc = "over"
              /\ \A k \in Jobs \ {j} : exec'[k] = exec[k]
            BY <2>2, <3>1, GoMove, Zenon DEF Inv
        <3>3. /\ handle' \in [Jobs -> HandleType]
              /\ handle'[j].status = handle[j].status
              /\ handle'[j].cancelled = handle[j].cancelled
              /\ \A k \in Jobs \ {j} : handle'[k] = handle[k]
            BY <2>2, LiveMove, Zenon DEF Inv
        <3> QED
            BY <3>2, <3>3
    <2> QED
        BY <2>1, <2>2
<1>5. InProfile(j)' /\ CancelOk(j)'
    BY <1>1, <1>3, <1>4 DEF Local, InProfile, Early, CancelOk, Executing
<1>6. ~timedOut' => Replying(j)'
    BY <1>1, <1>2, <1>4 DEF Local, Replying, Module
<1>7. ASSUME j \notin shared'
      PROVE  Merging(j)'
    <2>1. Merging(j)
        BY <1>1, <1>7 DEF Local
    <2>2. CASE exec'[j] = exec[j]
        BY <1>3, <1>4, <2>1, <2>2 DEF Merging, Module
    <2>3. CASE exec'[j].pc = "over"
        BY <1>3, <1>4, <2>1, <2>3 DEF Merging, Early, Asked
    <2> QED
        BY <1>4, <2>2, <2>3
<1>8. Local(j)'
    BY <1>5, <1>6, <1>7 DEF Local
<1>9. Frame(j) /\ Types'
    BY <1>3, <1>4 DEF Frame, Types, Inv, Typed
<1> QED
    BY <1>4, <1>8, <1>9, PlainKeeps DEF Executing

LEMMA SaveKeeps ==
    ASSUME Inv, NEW j \in Jobs, Save(j) \/ SaveFails(j)
    PROVE  Inv'
<1>1. /\ pi' = pi /\ partials' = partials /\ features' = features /\ counted' = counted
      /\ timedOut' = timedOut /\ shared' = shared
    BY Zenon DEF Save, SaveFails, Db
<1>2. row' = row \/ row' = [row EXCEPT ![j] = handle[j].status]
    BY Zenon DEF Save, SaveFails
<1>3. \/ exec' = exec /\ handle' = handle
      \/ Go(j, "over") /\ handle' = [handle EXCEPT ![j].live = FALSE]
    BY DEF Save, SaveFails
<1> QED
    BY <1>1, <1>2, <1>3, SavedKeeps

LEMMA RestartKeeps ==
    ASSUME Inv, Restart
    PROVE  Inv'
<1>1. /\ partials' = partials /\ features' = features /\ counted' = counted
      /\ timedOut' = timedOut /\ shared' = shared /\ row' = Recovered
      /\ handle' = [j \in Jobs |-> NoHandle] /\ pi' = [j \in Jobs |-> QuietPi]
    BY Zenon DEF Restart, Db
<1>2. ~timedOut' => ~timedOut
    BY <1>1, Zenon
<1> DEFINE over == [NoExec EXCEPT !.pc = "over"]
<1>3. /\ over \in ExecType /\ over.pc = "over"
      /\ NoExec \in ExecType /\ NoExec.pc = "none" /\ NoExec.i = 1
    BY DEF NoExec, ExecType, Pcs, Executing
<1>4. exec' = [j \in Jobs |-> IF exec[j].pc = "none" THEN NoExec ELSE over]
    BY DEF Restart
<1> HIDE DEF over
<1>5. Types'
    <2>1. row' \in [Jobs -> Status]
        BY <1>1 DEF Recovered, Inv, Typed, Status
    <2> QED
        BY <1>1, <1>3, <1>4, <2>1, Quiets DEF Types, Inv, Typed
<1>6. Exclusive'
    BY <1>3, <1>4 DEF Exclusive, Executing
<1>7. ~timedOut' => RepliesAreOwn'
    BY <1>1, <1>2 DEF Inv, RepliesInv, RepliesAreOwn
<1>8. ASSUME NEW j \in Jobs
      PROVE  Local(j)'
    <2>1. Local(j)
        BY Locals
    <2>2. /\ exec'[j].pc = IF exec[j].pc = "none" THEN "none" ELSE "over"
          /\ exec[j].pc = "none" => exec'[j].i = 1
        BY <1>3, <1>4
    <2>3. /\ handle'[j].status = "none" /\ pi'[j].work = NoModule /\ pi'[j].next = NoModule
        BY <1>1, Quiets
    <2>4. /\ row'[j] \in {"completed", "cancelled"} => row[j] = row'[j]
        BY <1>1 DEF Recovered
    <2>5. InProfile(j)' /\ Replying(j)' /\ CancelOk(j)'
        BY <2>2, <2>3 DEF InProfile, Early, Replying, CancelOk, Executing
    <2>6. j \notin shared' => Merging(j)'
        BY <1>1, <2>1, <2>2, <2>3, <2>4 DEF Local, Merging, Early, Asked
    <2> QED
        BY <2>5, <2>6 DEF Local
<1> QED
    BY <1>5, <1>6, <1>7, <1>8 DEF Inv, Types, Typed, Local, RepliesInv, MergingInv

LEMMA Stutters ==
    ASSUME Inv, row' = row, handle' = handle, exec' = exec, pi' = pi, partials' = partials,
           features' = features, counted' = counted, timedOut' = timedOut, shared' = shared
    PROVE  Inv'
<1>1. /\ row' = row /\ handle' = handle /\ exec' = exec /\ pi' = pi /\ partials' = partials
      /\ features' = features /\ counted' = counted /\ shared' = shared
    OBVIOUS
<1>2. ~timedOut' => ~timedOut
    BY Zenon
<1>3. \A j \in Jobs : InProfile(j)' /\ CancelOk(j)'
    BY <1>1 DEF Inv, Typed, InProfile, CancelOk
<1>4. Typed' /\ Exclusive'
    BY <1>1, <1>3 DEF Inv, Typed, Exclusive
<1>5. RepliesInv'
    BY <1>1, <1>2 DEF Inv, RepliesInv, RepliesAreOwn, Replying, Module
<1>6. MergingInv'
    BY <1>1 DEF Inv, MergingInv, Merging, Module
<1> QED
    BY <1>3, <1>4, <1>5, <1>6 DEF Inv

LEMMA Initially == Init => Inv
<1> SUFFICES ASSUME Init PROVE Inv
    OBVIOUS
<1>1. /\ \A j \in Jobs : /\ exec[j] = NoExec /\ handle[j] = NoHandle /\ pi[j] = QuietPi
                         /\ row[j] = "none" /\ counted[j] = {}
      /\ \A m \in Modules : partials[m] = NoModule
    BY DEF Init
<1>2. NoExec.pc = "none" /\ NoExec.i = 1 /\ NoHandle.status = "none"
    BY DEF NoExec, NoHandle
<1>3. Types
    BY Quiets DEF Init, Types, Status, Answers
<1>4. \A j \in Jobs : InProfile(j) /\ CancelOk(j) /\ Replying(j) /\ Merging(j)
    BY <1>1, <1>2, Quiets DEF InProfile, Early, CancelOk, Executing, Replying, Merging, Asked
<1>5. Exclusive /\ RepliesAreOwn
    BY <1>1, <1>2 DEF Exclusive, Executing, RepliesAreOwn
<1> QED
    BY <1>3, <1>4, <1>5 DEF Inv, Types, Typed, RepliesInv, MergingInv

-----------------------------------------------------------------------------
(* The theorems                                                             *)

LEMMA StepKeeps ==
    ASSUME Inv, [Next]_vars
    PROVE  Inv'
<1>1. CASE UNCHANGED vars
    BY <1>1, Stutters DEF vars
<1>2. CASE \E j \in Jobs : Step(j)
    <2>1. PICK j \in Jobs : Step(j)
        BY <1>2
    <2> QED
        BY <2>1, InsertedKeeps, LoadKeeps, SendKeeps, AcceptKeeps, FailsKeeps, SavePartialKeeps,
           NoPartialKeeps, MergeKeeps, MergedKeeps, UpsertKeeps, DeleteKeeps DEF Step
<1>3. CASE \E j \in Jobs : Settles(j) \/ Save(j) \/ SaveFails(j)
    BY <1>3, SettlesKeeps, SaveKeeps DEF Settles
<1>4. CASE \E j \in Jobs : StartFullAudit(j) \/ InsertFails(j) \/ CancelJob(j) \/ QueryFails(j)
    BY <1>4, StartKeeps, InsertFailsKeeps, CancelKeeps, QueryFailsKeeps
<1>5. CASE Restart
    BY <1>5, RestartKeeps
<1>6. CASE PostAnswered \/ Polls \/ PollAnswered
    <2>1. /\ row' = row /\ handle' = handle /\ exec' = exec /\ pi' = pi /\ partials' = partials
          /\ features' = features /\ counted' = counted /\ timedOut' = timedOut
          /\ shared' = shared
        BY <1>6, Zenon DEF PostAnswered, Polls, PollAnswered, PageFrame, Db
    <2> QED
        BY <2>1, Stutters
<1> QED
    BY <1>1, <1>2, <1>3, <1>4, <1>5, <1>6, Zenon DEF Next

LEMMA Always == Spec => []Inv
<1>1. Inv /\ [Next]_vars => Inv'
    BY StepKeeps
<1> QED
    BY Initially, <1>1, PTL DEF Spec

\* The saves a job has queued.
SavesTyped == chain \in [Jobs -> Seq(Saves)]

LEMMA QueueTyped ==
    ASSUME SavesTyped, NEW j \in Jobs, NEW save \in Saves, Queue(j, save)
    PROVE  SavesTyped'
<1>1. Append(chain[j], save) \in Seq(Saves)
    BY DEF SavesTyped
<1> QED
    BY <1>1 DEF SavesTyped, Queue

LEMMA SavesStep ==
    ASSUME SavesTyped, [Next]_vars
    PROVE  SavesTyped'
<1>1. ASSUME UNCHANGED chain PROVE SavesTyped'
    BY <1>1 DEF SavesTyped
<1>2. \A j \in Jobs : Reports(j) => SavesTyped'
    BY <1>1, QueueTyped DEF Reports, Saves
<1>3. \A j \in Jobs : \A c : Completes(j, c) => SavesTyped'
    BY <1>1, QueueTyped DEF Completes, Saves
<1>4. \A j \in Jobs : Failed(j) => SavesTyped'
    BY QueueTyped DEF Failed, Saves
<1>5. ASSUME NEW j \in Jobs, CancelJob(j) \/ Delete(j) PROVE SavesTyped'
    BY <1>1, <1>5, QueueTyped DEF CancelJob, Delete, Saves
<1>6. ASSUME NEW j \in Jobs, Load(j) \/ SavePartial(j) PROVE SavesTyped'
    BY <1>2, <1>3, <1>6 DEF Load, SavePartial
<1>7. ASSUME NEW j \in Jobs, PromptFails(j) \/ NoPartial(j) PROVE SavesTyped'
    BY <1>1, <1>2, <1>7 DEF PromptFails, NoPartial
<1>8. ASSUME NEW j \in Jobs, Merged(j) \/ QueryFails(j) PROVE SavesTyped'
    BY <1>1, <1>4, <1>8 DEF Merged, QueryFails
<1>9. ASSUME NEW j \in Jobs, Save(j) PROVE SavesTyped'
    <2>1. Tail(chain[j]) \in Seq(Saves)
        BY <1>9 DEF Save, SavesTyped
    <2> QED
        BY <1>9, <2>1 DEF Save, SavesTyped
<1>10. ASSUME NEW j \in Jobs, SaveFails(j) PROVE SavesTyped'
    BY <1>10 DEF SaveFails, SavesTyped
<1>11. CASE Restart
    BY <1>11 DEF Restart, SavesTyped
<1>12. ASSUME NEW j \in Jobs, \/ StartFullAudit(j) \/ Inserted(j) \/ InsertFails(j)
                              \/ SendPrompt(j) \/ Accept(j) \/ Settles(j) \/ Merge(j) \/ Upsert(j)
       PROVE  SavesTyped'
    BY <1>1, <1>12 DEF StartFullAudit, Inserted, InsertFails, SendPrompt, Accept, Settles,
                       AgentSettles, Merge, Upsert
<1>13. CASE PostAnswered \/ Polls \/ PollAnswered \/ UNCHANGED vars
    BY <1>1, <1>13 DEF PostAnswered, Polls, PollAnswered, PageFrame, vars
<1> QED
    BY <1>5, <1>6, <1>7, <1>8, <1>9, <1>10, <1>11, <1>12, <1>13, Zenon DEF Next, Step

\* Types of the job rows, the handles, the executions, the queued saves, the agent's text
\* and the partials (AuditJobService, AuditService, AuditMergeService).
THEOREM TypesHold == Spec => []TypeOK
<1>1. Inv /\ SavesTyped => TypeOK
    <2> SUFFICES ASSUME Inv, SavesTyped PROVE TypeOK
        OBVIOUS
    <2>1. \A j \in Jobs : handle[j] \in HandleType /\ exec[j] \in ExecType /\ pi[j] \in PiType
        BY DEF Inv, Typed
    <2>2. \A j \in Jobs : /\ handle[j].status \in Status /\ exec[j].pc \in Pcs
                          /\ pi[j].text \in Answers
        BY <2>1 DEF HandleType, ExecType, PiType
    <2> QED
        BY <2>2 DEF Inv, Typed, SavesTyped, TypeOK, Pcs, Answers
<1>2. Init => SavesTyped
    BY DEF Init, SavesTyped
<1>3. SavesTyped /\ [Next]_vars => SavesTyped'
    BY SavesStep
<1> QED
    BY Always, <1>1, <1>2, <1>3, PTL DEF Spec

\* As long as no prompt was given up that the agent may still answer, what is stored for a
\* module is about that module, for any number of retries and of jobs at the same time.
THEOREM RepliesAreTheirOwn == Spec => []RepliesAreOwn
<1>1. Init => RepliesAreOwn
    BY DEF Init, RepliesAreOwn
<1>2. Inv /\ [Next]_vars => (~timedOut' => RepliesAreOwn')
    BY StepKeeps DEF Inv, RepliesInv
<1>3. Inv /\ [Next]_vars => RepliesAreOwn'
    BY <1>2 DEF RepliesAreOwn
<1> QED
    BY Always, <1>1, <1>3, PTL DEF Spec

\* A job that ended completed and never ran beside another one has the features of every
\* partial it counted in the project's table, whether it wrote the partial or found it.
THEOREM CompletedMerges == Spec => []CompletedIsMerged
<1>1. Inv => CompletedIsMerged
    BY DEF Inv, MergingInv, Merging, CompletedIsMerged
<1> QED
    BY Always, <1>1, PTL

\* No save, failed save or restart turns a row that says cancelled into a completed one:
\* while the job goes on its handle stays cancelled, and afterwards it never completes.
THEOREM CancelIsFinal == Spec => CancelledNeverCompletes
<1>1. Inv /\ [Next]_vars => \A j \in Jobs : row[j] = "cancelled" => row'[j] # "completed"
    <2> SUFFICES ASSUME Inv, [Next]_vars, NEW j \in Jobs, row[j] = "cancelled",
                        row'[j] = "completed"
                 PROVE  FALSE
        OBVIOUS
    <2>1. handle[j].status # "completed"
        BY DEF Inv, CancelOk
    <2>2. CASE \E k \in Jobs : Save(k)
        BY <2>1, <2>2 DEF Save, Inv, Typed
    <2>3. CASE \E k \in Jobs : Inserted(k)
        BY <2>3 DEF Inserted, Inv, Typed
    <2>4. CASE Restart
        BY <2>4 DEF Restart, Recovered
    <2>5. CASE row' = row
        BY <2>5
    <2> QED
        BY <2>2, <2>3, <2>4, <2>5, Zenon
        DEF Next, Step, Settles, vars, StartFullAudit, InsertFails, CancelJob, Load, SendPrompt,
            Accept, AgentSettles, PromptFails, SavePartial, NoPartial, Merge, Merged, Upsert,
            Delete, QueryFails, SaveFails, PostAnswered, Polls, PollAnswered, PageFrame
<1> QED
    BY Always, <1>1, PTL DEF Spec, CancelledNeverCompletes

-----------------------------------------------------------------------------
(***************************************************************************)
(* One scenario (ScenarioRun).  Each tracker call announces every step it  *)
(* changes (Honest), so a page that was subscribed from run_started on has *)
(* what the tracker has.  That its run_finished is the run's own needs the *)
(* one slot of the server to be the run's: while nobody raced, at most one *)
(* request is past the check of the flag.                                  *)
(***************************************************************************)

-----------------------------------------------------------------------------
(* The largest of a finite set of numbers                                   *)

Less == {ss \in Nat \X Nat : ss[1] < ss[2]}
LEMMA LessWellFounded == IsWellFoundedOn(Less, Nat)
BY NatLessThanWellFounded DEF OpToRel, Less

LEMMA SmallestElement ==
    ASSUME NEW T, T \subseteq Nat, T # {}
    PROVE  \E x \in T : \A y \in T : ~(<<y, x>> \in Less)
<1> HIDE DEF Less
<1>1. ASSUME NEW R, IsWellFoundedOn(R, Nat)
      PROVE  \E x \in T : \A y \in T : ~(<<y, x>> \in R)
    <2> QED
        BY <1>1, WFMin
<1> QED
    BY <1>1, LessWellFounded, Zenon

\* A finite set of numbers has a largest element: the smallest of those without one
\* would be left without one when an element is taken away.
LEMMA LargestExists ==
    ASSUME NEW S \in SUBSET Nat, IsFiniteSet(S), S # {}
    PROVE  \E x \in S : \A y \in S : x >= y
<1> DEFINE Topped(U) == \E x \in U : \A y \in U : x >= y
           Bad == {n \in Nat : \E U \in SUBSET S : U # {} /\ Cardinality(U) = n /\ ~Topped(U)}
<1>1. SUFFICES ASSUME Bad # {} PROVE FALSE
    <2>1. Cardinality(S) \in Nat
        BY FS_CardinalityType
    <2> QED
        BY <2>1
<1>2. PICK n \in Bad : \A m \in Bad : ~(<<m, n>> \in Less)
    <2>1. Bad \subseteq Nat
        OBVIOUS
    <2> HIDE DEF Bad
    <2> QED
        BY <1>1, <2>1, SmallestElement
<1>3. \A m \in Bad : ~(m < n)
    BY <1>2 DEF Less
<1>4. PICK U \in SUBSET S : U # {} /\ Cardinality(U) = n /\ ~Topped(U)
    OBVIOUS
<1>5. PICK a : a \in U
    BY <1>4
<1>6. /\ IsFiniteSet(U) /\ Cardinality(U \ {a}) = n - 1 /\ Cardinality(U \ {a}) \in Nat
    <2>1. IsFiniteSet(U)
        BY FS_Subset
    <2>2. IsFiniteSet(U \ {a}) /\ Cardinality(U \ {a}) = Cardinality(U) - 1
        BY <1>5, <2>1, FS_RemoveElement
    <2> QED
        BY <1>4, <2>1, <2>2, FS_CardinalityType
<1>7. CASE U \ {a} = {}
    BY <1>4, <1>5, <1>7
<1>8. CASE U \ {a} # {}
    <2>1. n - 1 \notin Bad
        BY <1>3, <1>6
    <2>2. PICK x \in U \ {a} : \A y \in U \ {a} : x >= y
        BY <1>6, <1>8, <2>1
    <2>3. CASE x >= a
        BY <1>4, <2>2, <2>3
    <2>4. CASE ~(x >= a)
        BY <1>4, <1>5, <2>2, <2>4
    <2> QED
        BY <2>3, <2>4
<1> QED
    BY <1>7, <1>8

LEMMA MaxIsElement ==
    ASSUME NEW S \in SUBSET Nat, IsFiniteSet(S), S # {}
    PROVE  Max(S) \in S
BY LargestExists DEF Max


LEMMA MinIsElement ==
    ASSUME NEW S \in SUBSET Nat, S # {}
    PROVE  Min(S) \in S
<1>1. PICK x \in S : \A y \in S : ~(<<y, x>> \in Less)
    BY SmallestElement
<1>2. ASSUME NEW y \in S PROVE x <= y
    <2>1. x \in Nat /\ y \in Nat
        OBVIOUS
    <2>2. ~(y < x)
        BY <1>1, <2>1 DEF Less
    <2> QED
        BY <2>1, <2>2
<1> QED
    BY <1>2 DEF Min

-----------------------------------------------------------------------------
(* Trackers                                                                 *)

Tracker == [st : [Steps -> StepStatus], cur : 1 .. LastStep + 1, healing : BOOLEAN,
            failedAt : 0 .. LastStep, attempt : Nat, out : SUBSET Steps]

\* A tracker call that takes t to u announces every step whose status it changes.
Honest(t, u) ==
    /\ u \in Tracker /\ t.out \subseteq u.out
    /\ \A i \in Steps \ u.out : u.st[i] = t.st[i]

LEMMA StepFacts ==
    /\ LastStep \in Nat /\ Steps = 1 .. LastStep /\ IsFiniteSet(Steps)
    /\ \A S \in SUBSET Steps : S # {} => Max(S) \in S /\ Min(S) \in S
<1>1. Len(Phase) \in Nat /\ Steps = 1 .. Len(Phase)
    <2> DEFINE Phases == {"given", "when", "and", "then"}
    <2>1. Phase \in Seq(Phases)
        BY ScenarioAssumption DEF ScenarioAssumption
    <2> HIDE DEF Phases
    <2>2. Len(Phase) \in Nat /\ DOMAIN Phase = 1 .. Len(Phase)
        BY <2>1
    <2> QED
        BY <2>2 DEF Steps
<1>2. IsFiniteSet(1 .. Len(Phase)) /\ Cardinality(1 .. Len(Phase)) = Len(Phase)
    <2>1. IsFiniteSet(1 .. Len(Phase))
          /\ Cardinality(1 .. Len(Phase)) = IF 1 > Len(Phase) THEN 0 ELSE Len(Phase) - 1 + 1
        <3>1. 1 \in Int /\ Len(Phase) \in Int
            BY <1>1
        <3> QED
            BY <3>1, FS_Interval, Zenon
    <2> QED
        BY <1>1, <2>1
<1>3. LastStep = Len(Phase)
    BY <1>1, <1>2 DEF LastStep
<1>4. ASSUME NEW S \in SUBSET Steps, S # {} PROVE Max(S) \in S /\ Min(S) \in S
    <2>1. S \in SUBSET Nat
        BY <1>1
    <2>2. IsFiniteSet(S)
        BY <1>1, <1>2, FS_Subset
    <2> QED
        BY <1>4, <2>1, <2>2, MaxIsElement, MinIsElement
<1> QED
    BY <1>1, <1>2, <1>3, <1>4

LEMMA LargestStep ==
    ASSUME NEW S \in SUBSET Steps, S # {}
    PROVE  /\ Max(S) \in 1 .. LastStep + 1 /\ Max(S) + 1 \in 1 .. LastStep + 1
           /\ Max(S) \in Steps
<1>1. Max(S) \in Steps
    BY StepFacts
<1>2. LastStep \in Nat /\ Steps = 1 .. LastStep
    BY StepFacts
<1> HIDE DEF Steps, LastStep
<1> QED
    BY <1>1, <1>2

LEMMA HonestSelf == ASSUME NEW t \in Tracker PROVE Honest(t, t)
BY DEF Honest

LEMMA HonestTrans ==
    ASSUME NEW t, NEW u, NEW v, Honest(t, u), Honest(u, v)
    PROVE  Honest(t, v)
BY DEF Honest

\* Fields other than the statuses and the announcements may change.
LEMMA HonestFields ==
    ASSUME NEW t \in Tracker, NEW u \in Tracker, u.st = t.st, u.out = t.out
    PROVE  Honest(t, u)
BY DEF Honest

LEMMA SetStepOK ==
    ASSUME NEW t \in Tracker, NEW i, NEW s \in StepStatus
    PROVE  Honest(t, SetStep(t, i, s)) /\ SetStep(t, i, s).out \in SUBSET Steps
<1>1. CASE i \notin Steps
    BY <1>1, HonestSelf DEF SetStep, Tracker
<1>2. CASE i \in Steps
    <2> DEFINE u == [t EXCEPT !.st[i] = s, !.cur = i, !.out = @ \cup {i}]
    <2>1. i \in 1 .. LastStep + 1
        BY <1>2, StepFacts
    <2>2. u \in Tracker /\ u.out = t.out \cup {i} /\ u.st = [t.st EXCEPT ![i] = s]
        BY <1>2, <2>1 DEF Tracker
    <2>3. SetStep(t, i, s) = u
        BY <1>2 DEF SetStep
    <2> HIDE DEF u
    <2> QED
        BY <1>2, <2>2, <2>3 DEF Honest, Tracker
<1> QED
    BY <1>1, <1>2

LEMMA SetStepsOK ==
    ASSUME NEW t \in Tracker, NEW S \in SUBSET Steps, NEW s \in StepStatus
    PROVE  /\ Honest(t, SetSteps(t, S, s))
           /\ SetSteps(t, S, s).st = [i \in Steps |-> IF i \in S THEN s ELSE t.st[i]]
           /\ SetSteps(t, S, s).cur = IF S = {} THEN t.cur ELSE Max(S)
<1>1. CASE S = {}
    <2>1. SetSteps(t, S, s) = t
        BY <1>1 DEF SetSteps
    <2>2. t.st = [i \in Steps |-> t.st[i]]
        BY DEF Tracker
    <2> QED
        BY <1>1, <2>1, <2>2, HonestSelf
<1>2. CASE S # {}
    <2> DEFINE st == [i \in Steps |-> IF i \in S THEN s ELSE t.st[i]]
               u == [t EXCEPT !.st = st, !.cur = Max(S), !.out = @ \cup S]
    <2>1. Max(S) \in 1 .. LastStep + 1
        BY <1>2, LargestStep
    <2>2. st \in [Steps -> StepStatus]
        BY DEF Tracker
    <2>3. u \in Tracker /\ u.out = t.out \cup S /\ u.st = st /\ u.cur = Max(S)
        BY <1>2, <2>1, <2>2 DEF Tracker
    <2>4. SetSteps(t, S, s) = u
        BY <1>2 DEF SetSteps
    <2>5. \A i \in Steps \ S : st[i] = t.st[i]
        OBVIOUS
    <2>6. Honest(t, u)
        BY <2>3, <2>5 DEF Honest
    <2> HIDE DEF u
    <2> QED
        BY <1>2, <2>3, <2>4, <2>6
<1> QED
    BY <1>1, <1>2

LEMMA MarkAllThenOK ==
    ASSUME NEW t \in Tracker
    PROVE  /\ Honest(t, MarkAllThen(t)) /\ MarkAllThen(t) \in Tracker
           /\ Unpassed(MarkAllThen(t)) \subseteq Steps
<1>1. Thens \cap Unpassed(t) \in SUBSET Steps
    BY DEF Unpassed
<1>2. Honest(t, MarkAllThen(t))
    BY <1>1, SetStepsOK DEF MarkAllThen, StepStatus
<1> QED
    BY <1>2 DEF Honest, Unpassed

LEMMA ActiveStepType ==
    ASSUME NEW t \in Tracker
    PROVE  ActiveStep(t) \in Steps \cup {0}
<1> DEFINE busy == {i \in Steps : i >= t.cur /\ t.st[i] \in {"running", "healing"}}
<1>1. busy \in SUBSET Steps
    OBVIOUS
<1>2. busy # {} => Min(busy) \in Steps
    BY <1>1, StepFacts
<1>3. t.failedAt # 0 => t.failedAt \in Steps
    BY StepFacts DEF Tracker
<1> HIDE DEF busy
<1> QED
    BY <1>2, <1>3 DEF ActiveStep, busy

LEMMA EnterHealingOK == ASSUME NEW t \in Tracker PROVE Honest(t, EnterHealing(t))
<1> DEFINE h == [t EXCEPT !.healing = TRUE]
           i == IF t.failedAt # 0 THEN t.failedAt ELSE ActiveStep(t)
<1>1. h \in Tracker /\ h.st = t.st /\ h.out = t.out
    BY DEF Tracker
<1> HIDE DEF h
<1>9. Honest(t, h)
    BY <1>1, HonestFields
<1>2. Honest(h, SetStep(h, i, "healing"))
    BY <1>1, SetStepOK DEF StepStatus
<1>3. EnterHealing(t) = IF Heals(i) THEN SetStep(h, i, "healing") ELSE h
    BY DEF EnterHealing, h
<1> HIDE DEF i
<1> QED
    BY <1>2, <1>3, <1>9, HonestTrans

LEMMA OnReadOK == ASSUME NEW t \in Tracker PROVE Honest(t, OnRead(t))
BY EnterHealingOK, HonestSelf DEF OnRead

LEMMA OnRunStartOK == ASSUME NEW t \in Tracker PROVE Honest(t, OnRunStart(t))
BY SetStepOK DEF OnRunStart, StepStatus

LEMMA AdvanceOK == ASSUME NEW t \in Tracker PROVE Honest(t, AdvanceThroughGiven(t))
<1> DEFINE S == {i \in Steps : i >= t.cur /\ \A j \in t.cur .. i : Phase[j] = "given"}
           v == SetSteps(t, S, "pass")
           u == [v EXCEPT !.cur = Max(S) + 1]
<1>1. S \in SUBSET Steps /\ "pass" \in StepStatus
    BY DEF StepStatus
<1>2. AdvanceThroughGiven(t) = IF S = {} THEN t ELSE u
    BY DEF AdvanceThroughGiven
<1> HIDE DEF S
<1>3. Honest(t, v) /\ v \in Tracker
    BY <1>1, SetStepsOK DEF Honest
<1>4. ASSUME S # {} PROVE Honest(v, u)
    <2>1. Max(S) + 1 \in 1 .. LastStep + 1
        BY <1>1, <1>4, LargestStep
    <2> HIDE DEF v
    <2>2. u \in Tracker /\ u.st = v.st /\ u.out = v.out
        BY <1>3, <2>1 DEF Tracker
    <2> QED
        BY <1>3, <2>2, HonestFields
<1> HIDE DEF u, v
<1> QED
    BY <1>2, <1>3, <1>4, HonestTrans, HonestSelf

LEMMA OnPlaywrightStartOK == ASSUME NEW t \in Tracker PROVE Honest(t, OnPlaywrightStart(t))
<1> DEFINE n == [t EXCEPT !.attempt = @ + 1]
           g == AdvanceThroughGiven(n)
<1>1. n \in Tracker /\ n.st = t.st /\ n.out = t.out
    BY DEF Tracker
<1>2. "running" \in StepStatus
    BY DEF StepStatus
<1>3. OnPlaywrightStart(t) = IF n.attempt = 1 THEN SetStep(g, g.cur, "running")
        ELSE IF t.healing THEN SetStep(n, t.failedAt, "running") ELSE n
    BY DEF OnPlaywrightStart
<1> HIDE DEF n
<1>6. Honest(t, n)
    BY <1>1, HonestFields
<1>4. Honest(n, g) /\ g \in Tracker
    BY <1>1, AdvanceOK DEF Honest
<1> HIDE DEF g
<1>5. Honest(g, SetStep(g, g.cur, "running")) /\ Honest(n, SetStep(n, t.failedAt, "running"))
    BY <1>1, <1>2, <1>4, SetStepOK
<1> QED
    BY <1>3, <1>4, <1>5, <1>6, HonestTrans

LEMMA OnPlaywrightFailedOK == ASSUME NEW t \in Tracker PROVE Honest(t, OnPlaywrightFailed(t))
<1> DEFINE i == ActiveStep(t)
           f == SetStep(t, i, "fail")
           u == [f EXCEPT !.failedAt = i, !.healing = TRUE]
<1>1. Honest(t, f) /\ f \in Tracker
    BY SetStepOK DEF Honest, StepStatus
<1>2. i \in 0 .. LastStep
    BY ActiveStepType, StepFacts
<1>3. OnPlaywrightFailed(t) = IF Heals(i) THEN u ELSE f
    BY DEF OnPlaywrightFailed
<1> HIDE DEF f, i
<1>4. u \in Tracker /\ u.st = f.st /\ u.out = f.out
    BY <1>1, <1>2 DEF Tracker
<1>5. Honest(f, u)
    BY <1>1, <1>4, HonestFields
<1> HIDE DEF u
<1> QED
    BY <1>1, <1>3, <1>5, HonestTrans

LEMMA OnPlaywrightPassedOK == ASSUME NEW t \in Tracker PROVE Honest(t, OnPlaywrightPassed(t))
<1> DEFINE n == [t EXCEPT !.healing = FALSE, !.failedAt = 0]
           S == {i \in Unpassed(t) : i < ThenCursor}
           v == SetSteps(n, S, "pass")
<1>1. n \in Tracker /\ n.st = t.st /\ n.out = t.out
    <2>1. 0 \in 0 .. LastStep
        BY StepFacts
    <2> QED
        BY <2>1 DEF Tracker
<1>2. S \in SUBSET Steps /\ "pass" \in StepStatus
    BY DEF Unpassed, StepStatus
<1>3. OnPlaywrightPassed(t) = MarkAllThen(v)
    BY DEF OnPlaywrightPassed
<1> HIDE DEF n, S
<1>4. Honest(t, n) /\ Honest(n, v) /\ v \in Tracker
    BY <1>1, <1>2, HonestFields, SetStepsOK DEF Honest
<1> HIDE DEF v
<1> QED
    BY <1>3, <1>4, MarkAllThenOK, HonestTrans

LEMMA OnExpectFailedOK == ASSUME NEW t \in Tracker PROVE Honest(t, OnExpectFailed(t))
BY SetStepOK, HonestSelf DEF OnExpectFailed, StepStatus

\* A run that succeeded leaves every step green.
LEMMA OnSettledOK ==
    ASSUME NEW t \in Tracker, NEW success \in BOOLEAN
    PROVE  /\ Honest(t, OnSettled(t, success))
           /\ success => \A i \in Steps : OnSettled(t, success).st[i] = "pass"
<1>1. CASE success
    <2> DEFINE m == MarkAllThen(t)
               v == SetSteps(m, Unpassed(m), "pass")
               u == [v EXCEPT !.cur = LastStep + 1]
    <2>1. Honest(t, m) /\ m \in Tracker /\ Unpassed(m) \in SUBSET Steps /\ "pass" \in StepStatus
        BY MarkAllThenOK DEF StepStatus
    <2>2. OnSettled(t, success) = u
        BY <1>1 DEF OnSettled
    <2> HIDE DEF m
    <2>3. /\ Honest(m, v) /\ v \in Tracker
          /\ v.st = [i \in Steps |-> IF i \in Unpassed(m) THEN "pass" ELSE m.st[i]]
        BY <2>1, SetStepsOK DEF Honest
    <2> HIDE DEF v
    <2>9. LastStep + 1 \in 1 .. LastStep + 1
        BY StepFacts
    <2>4. u \in Tracker /\ u.st = v.st /\ u.out = v.out
        BY <2>3, <2>9 DEF Tracker
    <2>5. Honest(v, u)
        BY <2>3, <2>4, HonestFields
    <2> HIDE DEF u
    <2>6. \A i \in Steps : u.st[i] = "pass"
        BY <2>3, <2>4 DEF Unpassed
    <2> QED
        BY <2>1, <2>2, <2>3, <2>5, <2>6, HonestTrans
<1>2. CASE ~success
    <2>1. {i \in Unpassed(t) : i >= t.cur /\ t.st[i] # "fail"} \in SUBSET Steps
        BY DEF Unpassed
    <2> QED
        BY <1>2, <2>1, SetStepsOK DEF OnSettled, StepStatus
<1> QED
    BY <1>1, <1>2

-----------------------------------------------------------------------------
(* The invariant                                                            *)

PageType == [open : BOOLEAN, run : Runs \cup {NoRun}, steps : [Steps -> StepStatus],
             fin : {"none", "passed", "failed"}, busy : BOOLEAN, post : Runs \cup {NoRun},
             poll : Runs \cup {"none", "idle"}, same : BOOLEAN, followed : BOOLEAN,
             lost : BOOLEAN]

ScenarioTyped ==
    /\ running \in BOOLEAN /\ raced \in BOOLEAN
    /\ client \in Runs \cup {NoRun} /\ snapshot \in Runs \cup {NoRun}
    /\ runPc \in [Runs -> ExecPc]
    /\ tracker \in [Runs -> {t \in Tracker : t.out = {}}]
    /\ outcome \in [Runs -> Outcomes]
    /\ dash \in PageType

\* What a run has to show depends on how far it is.
Courses ==
    \A r \in Runs :
        /\ runPc[r] \in {"idle", "prep"} => tracker[r] = NewTracker /\ outcome[r] = "none"
        /\ runPc[r] \in {"ctx", "accept", "wait"} => outcome[r] = "none"
        /\ runPc[r] = "persist" => outcome[r] # "none"

\* A request past the check of the flag leaves no room for another.
OneWorks ==
    ~raced => \A r, q \in Runs : runPc[r] \in {"prep"} \cup InExecuteRun
                              /\ runPc[q] \in {"prep"} \cup InExecuteRun => r = q

\* A page that follows a run has its socket and saw the run start.
Follows ==
    dash.followed => /\ dash.open
                     /\ dash.run \in Runs => runPc[dash.run] \notin {"idle", "prep"}

ScenarioInv == ScenarioTyped /\ Courses /\ OneWorks /\ SlotIsOwned /\ Follows /\ FollowedRunShown

LEMMA ScenarioInitOK == ScenarioInit => ScenarioInv
<1> SUFFICES ASSUME ScenarioInit PROVE ScenarioInv
    OBVIOUS
<1> USE DEF ScenarioInit
<1>0. NewTracker \in Tracker /\ NewTracker.out = {} /\ Pending \in [Steps -> StepStatus]
    <2>1. 1 \in 1 .. LastStep + 1 /\ 0 \in 0 .. LastStep
        BY StepFacts
    <2>2. Pending \in [Steps -> StepStatus]
        BY DEF Pending, StepStatus
    <2> QED
        BY <2>1, <2>2 DEF NewTracker, Tracker
<1>1. dash \in PageType
    BY <1>0 DEF FreshDash, PageType
<1>2. tracker \in [Runs -> {t \in Tracker : t.out = {}}]
    BY <1>0
<1>3. runPc \in [Runs -> ExecPc] /\ outcome \in [Runs -> Outcomes]
    BY DEF ExecPc, Outcomes
<1>4. ScenarioTyped
    BY <1>1, <1>2, <1>3 DEF ScenarioTyped
<1>5. Courses
    BY DEF Courses
<1>6. OneWorks /\ SlotIsOwned
    <2>1. NoRun \notin Runs
        BY ScenarioAssumption DEF ScenarioAssumption
    <2> QED
        BY <2>1 DEF OneWorks, SlotIsOwned, InExecuteRun
<1>7. ~dash.followed
    BY DEF FreshDash
<1> QED
    BY <1>4, <1>5, <1>6, <1>7 DEF ScenarioInv, Follows, FollowedRunShown

-----------------------------------------------------------------------------
(* Runs                                                                     *)

\* A step that leaves the slot, the trackers and the outcomes alone.
LEMMA Slot ==
    ASSUME OneWorks, SlotIsOwned,
           \A r \in Runs : runPc'[r] \in {"prep"} \cup InExecuteRun => runPc[r] \in {"prep"} \cup InExecuteRun,
           \A r \in Runs : runPc'[r] \in InExecuteRun <=> runPc[r] \in InExecuteRun,
           UNCHANGED <<service, raced>>
    PROVE  OneWorks' /\ SlotIsOwned'
BY DEF OneWorks, SlotIsOwned, service

\* What Stepped does to a page that follows the run.
LEMMA SteppedOK ==
    ASSUME NEW p \in PageType, NEW r \in Runs, NEW t, NEW u, Honest(t, u), t.out = {},
           p.followed /\ p.run = r => p.steps = t.st
    PROVE  /\ Stepped(p, r, u) \in PageType
           /\ Stepped(p, r, u) = [p EXCEPT !.steps = Stepped(p, r, u).steps]
           /\ p.followed /\ p.run = r => Stepped(p, r, u).steps = u.st
           /\ ~(p.followed /\ p.run = r) => Stepped(p, r, u) = p
<1>1. CASE ~p.followed \/ p.run # r
    BY <1>1 DEF Stepped, PageType
<1>2. CASE p.followed /\ p.run = r
    <2> DEFINE st == [i \in Steps |-> IF i \in u.out THEN u.st[i] ELSE p.steps[i]]
    <2>1. Stepped(p, r, u) = [p EXCEPT !.steps = st]
        BY <1>2 DEF Stepped
    <2>2. u.st \in [Steps -> StepStatus]
        BY DEF Honest, Tracker
    <2>3. \A i \in Steps : st[i] = u.st[i]
        BY <1>2 DEF Honest
    <2>4. st = u.st
        BY <2>2, <2>3
    <2> HIDE DEF st
    <2>5. st \in [Steps -> StepStatus]
        BY <2>2, <2>4
    <2>6. [p EXCEPT !.steps = st] \in PageType /\ [p EXCEPT !.steps = st].steps = st
        BY <2>5 DEF PageType
    <2> QED
        BY <1>2, <2>1, <2>4, <2>6
<1> QED
    BY <1>1, <1>2

\* A tracker call and its messages, while the run goes on.
LEMMA TrackOK ==
    ASSUME ScenarioInv, NEW r \in Runs, runPc[r] \in {"accept", "wait"}, NEW t, Honest(tracker[r], t),
           Track(r, t), UNCHANGED <<service, runPc, outcome, raced>>
    PROVE  ScenarioInv'
<1> USE DEF service
<1>1. tracker[r] \in Tracker /\ tracker[r].out = {}
    BY DEF ScenarioInv, ScenarioTyped
<1>2. dash.followed /\ dash.run = r => dash.steps = tracker[r].st
    BY DEF ScenarioInv, FollowedRunShown
<1>3. dash \in PageType
    BY DEF ScenarioInv, ScenarioTyped
<1>4. /\ dash' \in PageType /\ dash' = [dash EXCEPT !.steps = dash'.steps]
      /\ dash.followed /\ dash.run = r => dash'.steps = t.st
      /\ ~(dash.followed /\ dash.run = r) => dash' = dash
    BY <1>1, <1>2, <1>3, SteppedOK DEF Track
<1>5. dash'.followed = dash.followed /\ dash'.run = dash.run /\ dash'.fin = dash.fin
      /\ dash'.open = dash.open
    BY <1>3, <1>4 DEF PageType
<1> DEFINE u == [t EXCEPT !.out = {}]
<1>6. u \in Tracker /\ u.out = {} /\ u.st = t.st
    BY DEF Honest, Tracker
<1>7. tracker' = [tracker EXCEPT ![r] = u]
    BY DEF Track
<1> HIDE DEF u
<1>8. tracker' \in [Runs -> {x \in Tracker : x.out = {}}]
    BY <1>6, <1>7 DEF ScenarioInv, ScenarioTyped
<1>9. ScenarioTyped'
    BY <1>4, <1>8 DEF ScenarioInv, ScenarioTyped
<1>10. tracker'[r].st = t.st /\ \A q \in Runs \ {r} : tracker'[q] = tracker[q]
    BY <1>6, <1>7 DEF ScenarioInv, ScenarioTyped
<1>11. Courses'
    BY <1>10 DEF ScenarioInv, Courses
<1>12. OneWorks' /\ SlotIsOwned'
    BY DEF ScenarioInv, OneWorks, SlotIsOwned
<1>13. Follows'
    BY <1>5 DEF ScenarioInv, Follows
<1>14. outcome[r] = "none"
    BY DEF ScenarioInv, Courses
<1>15. dash.followed /\ dash.run = r => dash.fin = "none"
    BY <1>14 DEF ScenarioInv, FollowedRunShown
<1>16. FollowedRunShown'
    <2>1. CASE dash.followed /\ dash.run = r
        BY <2>1, <1>4, <1>5, <1>10, <1>14, <1>15 DEF FollowedRunShown
    <2>2. CASE ~(dash.followed /\ dash.run = r)
        BY <2>2, <1>4, <1>10 DEF ScenarioInv, FollowedRunShown
    <2> QED
        BY <2>1, <2>2
<1> QED
    BY <1>9, <1>11, <1>12, <1>13, <1>16 DEF ScenarioInv

\* The end of a run, while it works.
LEMMA EndsOK ==
    ASSUME ScenarioInv, NEW r \in Runs, runPc[r] \in {"ctx", "accept", "wait"}, NEW success \in BOOLEAN,
           Ends(r, success), UNCHANGED <<service, raced>>
    PROVE  ScenarioInv'
<1> USE DEF service
<1> DEFINE t == OnSettled(tracker[r], success)
           o == IF success THEN "passed" ELSE "failed"
           p == Stepped(dash, r, t)
           u == [t EXCEPT !.out = {}]
<1>1. tracker[r] \in Tracker /\ tracker[r].out = {}
    BY DEF ScenarioInv, ScenarioTyped
<1>2. dash.followed /\ dash.run = r => dash.steps = tracker[r].st
    BY DEF ScenarioInv, FollowedRunShown, InExecuteRun
<1>3. dash \in PageType
    BY DEF ScenarioInv, ScenarioTyped
<1>4. Honest(tracker[r], t) /\ (success => \A i \in Steps : t.st[i] = "pass")
    BY <1>1, OnSettledOK
<1>5. /\ tracker' = [tracker EXCEPT ![r] = u] /\ outcome' = [outcome EXCEPT ![r] = o]
      /\ dash' = Finished(p, r, o) /\ runPc' = [runPc EXCEPT ![r] = "persist"]
    BY DEF Ends
<1> HIDE DEF t, o
<1>6. u \in Tracker /\ u.out = {} /\ u.st = t.st
    BY <1>4 DEF Honest, Tracker
<1>7. /\ p \in PageType /\ p = [dash EXCEPT !.steps = p.steps]
      /\ dash.followed /\ dash.run = r => p.steps = t.st
      /\ ~(dash.followed /\ dash.run = r) => p = dash
    BY <1>1, <1>2, <1>3, <1>4, SteppedOK
<1> HIDE DEF p, u
<1>8. /\ p.followed = dash.followed /\ p.run = dash.run /\ p.open = dash.open
      /\ p.fin = dash.fin
    BY <1>3, <1>7 DEF PageType
<1>9. o \in {"passed", "failed"} /\ (o = "passed" => success)
    BY DEF o
<1>10. /\ dash' \in PageType /\ dash'.followed = dash.followed /\ dash'.run = dash.run
       /\ dash'.open = dash.open /\ dash'.steps = p.steps
       /\ dash'.fin = IF dash.open /\ dash.run = r THEN o ELSE dash.fin
    BY <1>7, <1>8, <1>5, <1>9 DEF Finished, PageType
<1>11. tracker' \in [Runs -> {x \in Tracker : x.out = {}}]
    BY <1>5, <1>6 DEF ScenarioInv, ScenarioTyped
<1>12. runPc' \in [Runs -> ExecPc] /\ outcome' \in [Runs -> Outcomes]
    BY <1>5, <1>9 DEF ScenarioInv, ScenarioTyped, ExecPc, InExecuteRun, Outcomes
<1>13. ScenarioTyped'
    BY <1>10, <1>11, <1>12 DEF ScenarioInv, ScenarioTyped
<1>14. /\ runPc'[r] = "persist" /\ outcome'[r] = o /\ tracker'[r].st = t.st
       /\ \A q \in Runs \ {r} : runPc'[q] = runPc[q] /\ outcome'[q] = outcome[q]
                             /\ tracker'[q] = tracker[q]
    BY <1>5, <1>6 DEF ScenarioInv, ScenarioTyped
<1>15. Courses'
    BY <1>14, <1>9 DEF ScenarioInv, Courses
<1>16. \A q \in Runs : /\ runPc'[q] \in {"prep"} \cup InExecuteRun => runPc[q] \in {"prep"} \cup InExecuteRun
                       /\ runPc'[q] \in InExecuteRun <=> runPc[q] \in InExecuteRun
    BY <1>14 DEF InExecuteRun
<1>17. OneWorks' /\ SlotIsOwned'
    BY <1>16, Slot DEF ScenarioInv
<1>18. Follows'
    BY <1>10, <1>14 DEF ScenarioInv, Follows
<1>19. FollowedRunShown'
    <2>1. CASE dash.followed /\ dash.run = r
        <3>1. dash.open
            BY <2>1 DEF ScenarioInv, Follows
        <3>2. dash'.fin = o /\ dash'.run = r /\ dash'.steps = t.st
            BY <2>1, <3>1, <1>10, <1>7
        <3> QED
            BY <3>2, <1>4, <1>9, <1>14 DEF FollowedRunShown
    <2>2. CASE ~dash.followed
        BY <2>2, <1>10 DEF FollowedRunShown
    <2>3. CASE dash.followed /\ dash.run # r
        BY <2>3, <1>7, <1>10, <1>14 DEF ScenarioInv, FollowedRunShown
    <2> QED
        BY <2>1, <2>2, <2>3
<1> QED
    BY <1>13, <1>15, <1>17, <1>18, <1>19 DEF ScenarioInv

LEMMA RequestOK ==
    ASSUME ScenarioInv, NEW r \in Runs, NEW mine \in BOOLEAN, Request(r, mine)
    PROVE  ScenarioInv'
<1> USE DEF service
<1>1. /\ runPc[r] = "idle" /\ runPc' = [runPc EXCEPT ![r] = IF Admitted THEN "prep" ELSE "over"]
      /\ raced' = (raced \/ (Admitted /\ \E q \in Runs : runPc[q] = "prep"))
      /\ UNCHANGED <<service, tracker, outcome>>
    BY DEF Request
<1>2. runPc'[r] = (IF Admitted THEN "prep" ELSE "over") /\ \A q \in Runs \ {r} : runPc'[q] = runPc[q]
    BY <1>1 DEF ScenarioInv, ScenarioTyped
<1>3. dash \in PageType
    BY DEF ScenarioInv, ScenarioTyped
<1>4. dash' \in PageType /\ (dash' = dash \/ ~dash'.followed)
    <2>1. CASE ~mine
        BY <1>3, <2>1 DEF Request
    <2>2. CASE mine
        <3>1. Pending \in [Steps -> StepStatus] /\ Admitted \in BOOLEAN
            BY DEF Pending, StepStatus, Admitted
        <3>2. dash' = [dash EXCEPT !.run = NoRun, !.steps = Pending, !.fin = "none",
                          !.followed = FALSE, !.busy = Admitted,
                          !.post = IF Admitted THEN r ELSE NoRun]
            BY <2>2 DEF Request
        <3> HIDE DEF Admitted
        <3> QED
            BY <1>3, <3>1, <3>2 DEF PageType
    <2> QED
        BY <2>1, <2>2
<1>5. ScenarioTyped'
    <2>1. runPc' \in [Runs -> ExecPc]
        BY <1>1 DEF ScenarioInv, ScenarioTyped, ExecPc
    <2>2. raced' \in BOOLEAN
        BY <1>1 DEF ScenarioInv, ScenarioTyped
    <2> QED
        BY <1>1, <1>4, <2>1, <2>2 DEF ScenarioInv, ScenarioTyped
<1>6. Courses'
    BY <1>1, <1>2 DEF ScenarioInv, Courses
<1>7. Admitted /\ ~raced' => \A q \in Runs : runPc[q] \notin {"prep"} \cup InExecuteRun
    <2>1. NoRun \notin Runs
        BY ScenarioAssumption DEF ScenarioAssumption
    <2> QED
        BY <2>1, <1>1 DEF ScenarioInv, SlotIsOwned, Admitted
<1>8. OneWorks'
    <2>1. CASE Admitted
        BY <2>1, <1>2, <1>7 DEF OneWorks
    <2>2. CASE ~Admitted
        <3>1. \A q \in Runs : runPc'[q] \in {"prep"} \cup InExecuteRun => runPc[q] \in {"prep"} \cup InExecuteRun
            BY <2>2, <1>2 DEF InExecuteRun
        <3>2. raced' = raced
            BY <2>2, <1>1 DEF ScenarioInv, ScenarioTyped
        <3> QED
            BY <3>1, <3>2 DEF ScenarioInv, OneWorks
    <2> QED
        BY <2>1, <2>2
<1>9. \A q \in Runs : runPc'[q] \in InExecuteRun <=> runPc[q] \in InExecuteRun
    BY <1>1, <1>2 DEF InExecuteRun
<1>10. SlotIsOwned'
    BY <1>1, <1>9 DEF ScenarioInv, SlotIsOwned
<1>11. CASE dash' = dash
    <2>1. dash.followed => dash.run # r
        BY <1>1 DEF ScenarioInv, Follows
    <2> QED
        BY <2>1, <1>1, <1>2, <1>5, <1>6, <1>8, <1>10, <1>11 DEF ScenarioInv, Follows, FollowedRunShown
<1>12. CASE ~dash'.followed
    BY <1>5, <1>6, <1>8, <1>10, <1>12 DEF ScenarioInv, Follows, FollowedRunShown
<1> QED
    BY <1>4, <1>11, <1>12

LEMMA PrepFailsOK == ASSUME ScenarioInv, NEW r \in Runs, PrepFails(r) PROVE ScenarioInv'
<1> USE DEF service
<1>1. /\ runPc[r] = "prep" /\ runPc' = [runPc EXCEPT ![r] = "over"]
      /\ UNCHANGED <<service, tracker, outcome, raced>>
    BY DEF PrepFails
<1>2. runPc'[r] = "over" /\ \A q \in Runs \ {r} : runPc'[q] = runPc[q]
    BY <1>1 DEF ScenarioInv, ScenarioTyped
<1>3. dash \in PageType
    BY DEF ScenarioInv, ScenarioTyped
<1>4. /\ dash' \in PageType /\ dash'.followed = dash.followed /\ dash'.run = dash.run
      /\ dash'.open = dash.open /\ dash'.steps = dash.steps /\ dash'.fin = dash.fin
    BY <1>3 DEF PrepFails, PageType
<1>5. ScenarioTyped'
    BY <1>1, <1>4 DEF ScenarioInv, ScenarioTyped, ExecPc
<1>6. Courses'
    BY <1>1, <1>2 DEF ScenarioInv, Courses
<1>7. OneWorks' /\ SlotIsOwned'
    <2>1. \A q \in Runs : /\ runPc'[q] \in {"prep"} \cup InExecuteRun => runPc[q] \in {"prep"} \cup InExecuteRun
                          /\ runPc'[q] \in InExecuteRun <=> runPc[q] \in InExecuteRun
        BY <1>1, <1>2 DEF InExecuteRun
    <2> QED
        BY <2>1, <1>1, Slot DEF ScenarioInv
<1>8. Follows' /\ FollowedRunShown'
    <2>1. dash.followed => dash.run # r
        BY <1>1 DEF ScenarioInv, Follows
    <2> QED
        BY <2>1, <1>1, <1>2, <1>4 DEF ScenarioInv, Follows, FollowedRunShown
<1> QED
    BY <1>5, <1>6, <1>7, <1>8 DEF ScenarioInv

LEMMA LaunchOK == ASSUME ScenarioInv, NEW r \in Runs, Launch(r) PROVE ScenarioInv'
<1> USE DEF service
<1> DEFINE t == OnRunStart(tracker[r])
           p == IF dash.post = r THEN [dash EXCEPT !.post = NoRun] ELSE dash
           b == Begun(p, r)
           u == [t EXCEPT !.out = {}]
<1>0. r # NoRun
    BY ScenarioAssumption DEF ScenarioAssumption
<1>1. /\ runPc[r] = "prep" /\ runPc' = [runPc EXCEPT ![r] = "ctx"]
      /\ running' = TRUE /\ snapshot' = r /\ client' = r
      /\ UNCHANGED <<outcome, raced>>
    BY DEF Launch
<1>2. tracker' = [tracker EXCEPT ![r] = u] /\ dash' = Stepped(b, r, t)
    BY DEF Launch
<1>3. tracker[r] = NewTracker /\ outcome[r] = "none"
    BY <1>1 DEF ScenarioInv, Courses
<1>4. NewTracker \in Tracker /\ NewTracker.out = {} /\ NewTracker.st = Pending
    BY <1>3 DEF ScenarioInv, ScenarioTyped, NewTracker
<1>5. Honest(NewTracker, t)
    BY <1>3, <1>4, OnRunStartOK
<1> HIDE DEF t
<1>6. u \in Tracker /\ u.out = {} /\ u.st = t.st
    BY <1>5 DEF Honest, Tracker
<1>7. dash \in PageType
    BY DEF ScenarioInv, ScenarioTyped
<1>8. /\ p \in PageType /\ p.followed = dash.followed /\ p.run = dash.run
      /\ p.open = dash.open /\ p.steps = dash.steps /\ p.fin = dash.fin
    BY <1>7 DEF PageType
<1> HIDE DEF p, u
<1>9. Pending \in [Steps -> StepStatus]
    BY DEF Pending, StepStatus
<1>10. /\ b \in PageType
       /\ ~dash.open => b = p
       /\ dash.open => b.run = r /\ b.steps = Pending /\ b.fin = "none" /\ b.followed /\ b.open
    BY <1>8, <1>9 DEF Begun, PageType
<1>11. ~dash.open => ~b.followed
    BY <1>8, <1>10 DEF ScenarioInv, Follows
<1> HIDE DEF b
<1>12. /\ dash' \in PageType /\ dash' = [b EXCEPT !.steps = dash'.steps]
       /\ b.followed /\ b.run = r => dash'.steps = t.st
       /\ ~(b.followed /\ b.run = r) => dash' = b
    <2>1. b.followed /\ b.run = r => b.steps = NewTracker.st
        BY <1>4, <1>10, <1>11
    <2> QED
        BY <1>2, <1>4, <1>5, <1>10, <2>1, SteppedOK
<1>13. /\ dash'.followed = b.followed /\ dash'.run = b.run /\ dash'.open = b.open
       /\ dash'.fin = b.fin
    BY <1>10, <1>12 DEF PageType
<1>14. tracker' \in [Runs -> {x \in Tracker : x.out = {}}]
    BY <1>2, <1>6 DEF ScenarioInv, ScenarioTyped
<1>15. ScenarioTyped'
    <2>1. runPc' \in [Runs -> ExecPc]
        BY <1>1 DEF ScenarioInv, ScenarioTyped, ExecPc, InExecuteRun
    <2> QED
        BY <1>1, <1>12, <1>14, <2>1 DEF ScenarioInv, ScenarioTyped
<1>16. /\ runPc'[r] = "ctx" /\ tracker'[r].st = t.st
       /\ \A q \in Runs \ {r} : runPc'[q] = runPc[q] /\ tracker'[q] = tracker[q]
    BY <1>1, <1>2, <1>6 DEF ScenarioInv, ScenarioTyped
<1>17. Courses'
    BY <1>1, <1>3, <1>16 DEF ScenarioInv, Courses
<1>18. OneWorks'
    BY <1>1, <1>16 DEF ScenarioInv, OneWorks, InExecuteRun
<1>19. SlotIsOwned'
    <2>1. SUFFICES ASSUME ~raced' PROVE SlotIsOwned'
        BY DEF SlotIsOwned
    <2>2. \A q \in Runs : runPc'[q] \in InExecuteRun <=> q = r
        BY <1>1, <1>16, <2>1 DEF ScenarioInv, OneWorks, InExecuteRun
    <2> QED
        BY <1>0, <1>1, <2>2 DEF SlotIsOwned
<1>20. Follows' /\ FollowedRunShown'
    <2>1. CASE dash.open
        BY <2>1, <1>1, <1>3, <1>10, <1>12, <1>13, <1>16 DEF Follows, FollowedRunShown
    <2>2. CASE ~dash.open
        BY <2>2, <1>11, <1>13 DEF Follows, FollowedRunShown
    <2> QED
        BY <2>1, <2>2
<1> QED
    BY <1>15, <1>17, <1>18, <1>19, <1>20 DEF ScenarioInv

\* Waiting on, or nothing that the page and the slot show.
LEMMA WaitsOK ==
    ASSUME ScenarioInv, NEW r \in Runs, runPc[r] \in {"ctx", "accept"},
           NEW e \in {"accept", "wait"}, runPc' = [runPc EXCEPT ![r] = e],
           UNCHANGED <<service, tracker, outcome, dash, raced>>
    PROVE  ScenarioInv'
<1> USE DEF service
<1>1. runPc'[r] = e /\ \A q \in Runs \ {r} : runPc'[q] = runPc[q]
    BY DEF ScenarioInv, ScenarioTyped
<1>2. ScenarioTyped'
    BY DEF ScenarioInv, ScenarioTyped, ExecPc, InExecuteRun
<1>3. Courses'
    BY <1>1 DEF ScenarioInv, Courses
<1>4. OneWorks' /\ SlotIsOwned'
    <2>1. \A q \in Runs : /\ runPc'[q] \in {"prep"} \cup InExecuteRun => runPc[q] \in {"prep"} \cup InExecuteRun
                          /\ runPc'[q] \in InExecuteRun <=> runPc[q] \in InExecuteRun
        BY <1>1 DEF InExecuteRun
    <2> QED
        BY <2>1, Slot DEF ScenarioInv
<1>5. Follows' /\ FollowedRunShown'
    BY <1>1 DEF ScenarioInv, Follows, FollowedRunShown
<1> QED
    BY <1>2, <1>3, <1>4, <1>5 DEF ScenarioInv

LEMMA PromptOK == ASSUME ScenarioInv, NEW r \in Runs, Prompt(r) PROVE ScenarioInv'
<1>1. runPc[r] = "ctx" /\ UNCHANGED <<service, raced>>
    BY DEF Prompt
<1>2. CASE Throws(r)
    BY <1>1, <1>2, EndsOK DEF Throws
<1>3. CASE runPc' = [runPc EXCEPT ![r] = "accept"] /\ UNCHANGED <<tracker, outcome, dash>>
    BY <1>1, <1>3, WaitsOK
<1> QED
    BY <1>2, <1>3 DEF Prompt

LEMMA PersistOK == ASSUME ScenarioInv, NEW r \in Runs, Persist(r) PROVE ScenarioInv'
<1> USE DEF service
<1> DEFINE n == [NewTracker EXCEPT !.attempt = tracker[r].attempt]
<1>0. NoRun \notin Runs
    BY ScenarioAssumption DEF ScenarioAssumption
<1>1. /\ runPc[r] = "persist" /\ runPc' = [runPc EXCEPT ![r] = "over"]
      /\ running' = FALSE /\ client' = NoRun /\ snapshot' = NoRun
      /\ tracker' = [tracker EXCEPT ![r] = n]
      /\ UNCHANGED <<outcome, dash, raced>>
    BY DEF Persist
<1>2. n \in Tracker /\ n.out = {}
    <2>1. 1 \in 1 .. LastStep + 1 /\ 0 \in 0 .. LastStep
        BY StepFacts
    <2>2. Pending \in [Steps -> StepStatus]
        BY DEF Pending, StepStatus
    <2>3. tracker[r].attempt \in Nat
        BY DEF ScenarioInv, ScenarioTyped, Tracker
    <2> QED
        BY <2>1, <2>2, <2>3 DEF NewTracker, Tracker
<1> HIDE DEF n
<1>3. runPc'[r] = "over" /\ \A q \in Runs \ {r} : runPc'[q] = runPc[q] /\ tracker'[q] = tracker[q]
    BY <1>1 DEF ScenarioInv, ScenarioTyped
<1>4. ScenarioTyped'
    <2>1. tracker' \in [Runs -> {x \in Tracker : x.out = {}}] /\ runPc' \in [Runs -> ExecPc]
        BY <1>1, <1>2 DEF ScenarioInv, ScenarioTyped, ExecPc
    <2> QED
        BY <1>1, <2>1 DEF ScenarioInv, ScenarioTyped
<1>5. Courses'
    BY <1>1, <1>3 DEF ScenarioInv, Courses
<1>6. OneWorks'
    BY <1>1, <1>3 DEF ScenarioInv, OneWorks, InExecuteRun
<1>7. SlotIsOwned'
    <2>1. SUFFICES ASSUME ~raced' PROVE SlotIsOwned'
        BY DEF SlotIsOwned
    <2>2. \A q \in Runs : runPc'[q] \notin InExecuteRun
        BY <1>1, <1>3, <2>1 DEF ScenarioInv, OneWorks, InExecuteRun
    <2> QED
        BY <1>0, <1>1, <2>2 DEF SlotIsOwned
<1>8. Follows' /\ FollowedRunShown'
    BY <1>1, <1>3 DEF ScenarioInv, Follows, FollowedRunShown
<1> QED
    BY <1>4, <1>5, <1>6, <1>7, <1>8 DEF ScenarioInv

\* A step of the page, or of nothing that the invariant speaks of.
LEMMA PageOK ==
    ASSUME ScenarioInv, UNCHANGED <<service, runPc, tracker, outcome, raced>>,
           dash' = dash \/ (dash' \in PageType /\ (dash'.followed =>
                /\ dash.followed /\ dash'.open = dash.open /\ dash'.run = dash.run
                /\ dash'.steps = dash.steps /\ dash'.fin = dash.fin))
    PROVE  ScenarioInv'
<1> USE DEF service
<1>1. ScenarioTyped'
    BY DEF ScenarioInv, ScenarioTyped
<1>2. Courses' /\ OneWorks' /\ SlotIsOwned'
    BY DEF ScenarioInv, Courses, OneWorks, SlotIsOwned
<1>3. Follows' /\ FollowedRunShown'
    BY DEF ScenarioInv, Follows, FollowedRunShown
<1> QED
    BY <1>1, <1>2, <1>3 DEF ScenarioInv

LEMMA FreshType == FreshDash \in PageType /\ ~FreshDash.followed
<1>1. Pending \in [Steps -> StepStatus]
    BY DEF Pending, StepStatus
<1> QED
    BY <1>1 DEF FreshDash, PageType

LEMMA PageStepOK ==
    ASSUME ScenarioInv, SyncRunStatus \/ StatusAnswered \/ SocketCloses \/ Reload
    PROVE  ScenarioInv'
<1> USE DEF service
<1>1. dash \in PageType
    BY DEF ScenarioInv, ScenarioTyped
<1>2. Pending \in [Steps -> StepStatus]
    BY DEF Pending, StepStatus
<1>3. UNCHANGED <<service, runPc, tracker, outcome, raced>>
    BY DEF SyncRunStatus, StatusAnswered, SocketCloses, Reload, DashFrame
<1>4. CASE SyncRunStatus
    <2>1. Answer \in Runs \cup {"none", "idle"}
        BY DEF Answer, ScenarioInv, ScenarioTyped
    <2>2. dash' = [dash EXCEPT !.poll = Answer, !.same = (dash.run = Answer)]
        BY <1>4 DEF SyncRunStatus
    <2>3. dash' \in PageType /\ dash'.followed = dash.followed /\ dash'.open = dash.open
          /\ dash'.run = dash.run /\ dash'.steps = dash.steps /\ dash'.fin = dash.fin
        BY <1>1, <2>1, <2>2 DEF PageType
    <2> QED
        BY <1>3, <2>3, PageOK
<1>5. CASE StatusAnswered
    <2> DEFINE p == [dash EXCEPT !.poll = "none", !.same = FALSE]
    <2>1. p \in PageType /\ p.followed = dash.followed /\ p.open = dash.open
          /\ p.run = dash.run /\ p.steps = dash.steps /\ p.fin = dash.fin
        BY <1>1 DEF PageType
    <2>2. \/ dash' = Freed(p)
          \/ dash.poll \in Runs /\ dash' = Hydrated(p, dash.poll)
          \/ dash' = [p EXCEPT !.busy = TRUE]
        BY <1>5 DEF StatusAnswered
    <2> HIDE DEF p
    <2>3. CASE dash' = Freed(p) \/ dash' = [p EXCEPT !.busy = TRUE]
        <3>1. dash' \in PageType /\ dash'.followed = dash.followed /\ dash'.open = dash.open
              /\ dash'.run = dash.run /\ dash'.steps = dash.steps /\ dash'.fin = dash.fin
            BY <2>1, <2>3 DEF Freed, PageType
        <3> QED
            BY <1>3, <3>1, PageOK
    <2>4. CASE dash.poll \in Runs /\ dash' = Hydrated(p, dash.poll)
        <3>1. dash' \in PageType /\ ~dash'.followed
            BY <1>2, <2>1, <2>4 DEF Hydrated, PageType
        <3> QED
            BY <1>3, <3>1, PageOK
    <2> QED
        BY <2>2, <2>3, <2>4
<1>6. CASE SocketCloses
    <2>1. dash' = [dash EXCEPT !.open = FALSE, !.steps = Pending, !.followed = FALSE, !.lost = TRUE]
        BY <1>6 DEF SocketCloses
    <2>2. dash' \in PageType /\ ~dash'.followed
        BY <1>1, <1>2, <2>1 DEF PageType
    <2> QED
        BY <1>3, <2>2, PageOK
<1>7. CASE Reload
    BY <1>3, <1>7, FreshType, PageOK DEF Reload
<1> QED
    BY <1>4, <1>5, <1>6, <1>7

LEMMA AgentStepOK == ASSUME ScenarioInv, NEW r \in Runs, AgentStep(r) PROVE ScenarioInv'
<1> USE DEF EventFrame
<1>1. tracker[r] \in Tracker
    BY DEF ScenarioInv, ScenarioTyped
<1>2. CASE PiSettles(r)
    <2>1. runPc[r] = "wait" /\ Ends(r, Success(r)) /\ UNCHANGED <<service, raced>>
        BY <1>2 DEF PiSettles, Succeeds
    <2>2. Success(r) \in BOOLEAN
        BY DEF Success
    <2> QED
        BY <2>1, <2>2, EndsOK
<1>3. CASE AgentDies(r)
    BY <1>3, PageOK DEF AgentDies, service
<1>4. CASE Muses(r) \/ BashPrints(r) \/ \E b \in BOOLEAN : BashStarts(r, b) \/ BashEnds(r, b)
    <2>1. runPc[r] \in {"accept", "wait"} /\ UNCHANGED <<service, runPc, outcome, raced>>
        BY <1>4 DEF Muses, BashPrints, BashStarts, BashEnds, Talks
    <2>2. PICK t : Honest(tracker[r], t) /\ Track(r, t)
        <3>1. CASE Muses(r)
            BY <1>1, <3>1, EnterHealingOK, OnReadOK DEF Muses
        <3>2. CASE BashPrints(r)
            BY <1>1, <3>2, OnExpectFailedOK, MarkAllThenOK DEF BashPrints
        <3>3. ASSUME NEW b \in BOOLEAN, BashStarts(r, b)
              PROVE  \E t : Honest(tracker[r], t) /\ Track(r, t)
            BY <1>1, <3>3, OnPlaywrightStartOK DEF BashStarts
        <3>4. ASSUME NEW b \in BOOLEAN, BashEnds(r, b)
              PROVE  \E t : Honest(tracker[r], t) /\ Track(r, t)
            <4>1. CASE b
                BY <1>1, <3>4, <4>1, OnPlaywrightPassedOK DEF BashEnds
            <4>2. CASE ~b
                BY <1>1, <3>4, <4>2, OnPlaywrightFailedOK DEF BashEnds
            <4> QED
                BY <4>1, <4>2
        <3> QED
            BY <1>4, <3>1, <3>2, <3>3, <3>4
    <2> QED
        BY <2>1, <2>2, TrackOK
<1> QED
    BY <1>2, <1>3, <1>4 DEF AgentStep

LEMMA ScenarioStepOK == ASSUME ScenarioInv, [ScenarioNext]_scenarioVars PROVE ScenarioInv'
<1>1. CASE UNCHANGED scenarioVars
    <2>1. UNCHANGED <<service, runPc, tracker, outcome, raced>> /\ dash' = dash
        BY <1>1 DEF scenarioVars, service
    <2> QED
        BY <2>1, PageOK, Zenon
<1>2. ASSUME NEW r \in Runs, NEW mine \in BOOLEAN, Request(r, mine) PROVE ScenarioInv'
    BY <1>2, RequestOK
<1>3. ASSUME NEW r \in Runs, ServerStep(r) PROVE ScenarioInv'
    <2>1. CASE Accepted(r)
        BY <2>1, WaitsOK DEF Accepted
    <2> QED
        BY <1>3, <2>1, PrepFailsOK, LaunchOK, PromptOK, PersistOK DEF ServerStep
<1>4. ASSUME NEW r \in Runs, GivesUp(r) PROVE ScenarioInv'
    BY <1>4, EndsOK DEF GivesUp, TimesOut, Throws
<1>5. ASSUME NEW r \in Runs, AgentStep(r) PROVE ScenarioInv'
    BY <1>5, AgentStepOK
<1>6. CASE Cancel
    BY <1>6, PageOK DEF Cancel, service
<1>7. CASE SyncRunStatus \/ StatusAnswered \/ SocketCloses \/ Reload
    BY <1>7, PageStepOK
<1> QED
    BY <1>1, <1>2, <1>3, <1>4, <1>5, <1>6, <1>7 DEF ScenarioNext

-----------------------------------------------------------------------------
(* Theorems                                                                 *)

\* Types of the server's, the trackers' and the page's state (run-service.ts, gherkin-step-
\* tracker.ts, App.tsx of the test-dashboard).
THEOREM ScenarioTypesHold == ScenarioSpec => []ScenarioTypeOK
<1>1. ScenarioInv => ScenarioTypeOK
    BY DEF ScenarioInv, ScenarioTyped, ScenarioTypeOK, Tracker, PageType
<1> QED
    BY <1>1, ScenarioInitOK, ScenarioStepOK, PTL DEF ScenarioSpec

\* Unless two requests raced past the check of the flag, the server's one slot is the
\* executing run's; and a page that followed a run from run_started on shows exactly what
\* its tracker says and how it ended, green only when every step is.
THEOREM OneRunIsShown == ScenarioSpec => []OneRunShown
<1>1. ScenarioInv => OneRunShown
    BY DEF ScenarioInv, OneRunShown
<1> QED
    BY <1>1, ScenarioInitOK, ScenarioStepOK, PTL DEF ScenarioSpec
=============================================================================
