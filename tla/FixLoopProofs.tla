--------------------------- MODULE FixLoopProofs ---------------------------
(* Machine-checked theorems about FixLoop, for every set of analyses,      *)
(* patches, calls and verify runs, every limit on iterations and every     *)
(* bound on restarts: it implements IterationLog, a result is the verdict  *)
(* of the run it names, the rows explain what the files hold, and types.   *)
EXTENDS FixLoop, SequenceTheorems, TLAPS

USE FixLoopAssumption

\* The inductive invariant: the rows are numbered from 1 without gaps and within the
\* limit; a call that may still insert read a number below the limit, of rows that
\* exist; a poller writes to a row that exists.
RowsInv ==
    /\ iters \in Seq(Iteration)
    /\ Len(iters) <= MaxIterations
    /\ \A i \in 1..Len(iters) : iters[i].n = i

CallInv ==
    /\ call \in [Calls -> Call]
    /\ \A c \in Calls :
           /\ call[c].row <= Len(iters)
           /\ call[c].latest <= Len(iters)
           /\ call[c].pc \in {"patch", "write"} => call[c].latest < MaxIterations

PollInv ==
    /\ poll \in [Verifies -> [row : Nat, left : Nat]]
    /\ \A v \in Verifies : poll[v].row <= Len(iters)

FilesInv == files \in [Files -> SUBSET Patches] /\ sugs \subseteq Analyses

Inv == RowsInv /\ CallInv /\ PollInv /\ FilesInv

LEMMA NoCallTyped == NoCall \in Call
BY DEF NoCall, Call, CallPc

LEMMA LatestIsLength ==
  ASSUME RowsInv
  PROVE  Latest = Len(iters) /\ Len(iters) \in Nat
<1>1. CASE iters = <<>>
  BY <1>1 DEF Latest
<1>2. CASE iters # <<>>
  <2>1. Len(iters) \in Nat /\ Len(iters) # 0
    BY <1>2, EmptySeq, LenProperties DEF RowsInv
  <2> QED
    BY <1>2, <2>1 DEF RowsInv, Latest
<1> QED
  BY <1>1, <1>2

LEMMA InvInit == Init => Inv
<1> SUFFICES ASSUME Init
             PROVE  Inv
  OBVIOUS
<1>1. RowsInv
  BY DEF Init, RowsInv
<1>2. CallInv
  BY NoCallTyped DEF Init, CallInv, NoCall
<1>3. PollInv
  BY DEF Init, PollInv, NoPoll
<1>4. FilesInv
  BY DEF Init, FilesInv
<1> QED
  BY <1>1, <1>2, <1>3, <1>4 DEF Inv

\* A row is inserted only under the next number, and only below the limit: the
\* UNIQUE key makes up for the number that was read before patching.
LEMMA InsertedNext ==
  ASSUME RowsInv, CallInv, NEW c \in Calls, InsertIteration(c)
  PROVE  /\ call[c].latest + 1 = Len(iters) + 1
         /\ Len(iters) < MaxIterations
         /\ RowPatches(c) \subseteq Patches
         /\ iters' = Append(iters, [n |-> Len(iters) + 1, patches |-> RowPatches(c),
                                    verify |-> NoRun, result |-> "null"])
<1>1. call[c].latest \in Nat /\ call[c].sel \subseteq Patches
  BY DEF CallInv, Call
<1>2. Len(iters) \in Nat
  BY LenProperties DEF RowsInv
<1>3. ~(call[c].latest + 1 \in 1..Len(iters))
  BY <1>1, <1>2 DEF InsertIteration, NumberFree, RowsInv
<1>4. call[c].latest = Len(iters)
  BY <1>1, <1>2, <1>3 DEF CallInv
<1>5. Len(iters) < MaxIterations
  BY <1>4 DEF CallInv, InsertIteration
<1> QED
  BY <1>1, <1>4, <1>5 DEF InsertIteration, RowPatches

\* Recording a verdict changes neither the number of a row nor how many there are.
LEMMA PollTouchesResult ==
  ASSUME RowsInv, PollInv, NEW v \in Verifies, Poll(v)
  PROVE  \/ iters' = iters
         \/ /\ poll[v].row \in 1..Len(iters)
            /\ ResultOf(v) \in Results \ {"null"}
            /\ iters' = [iters EXCEPT ![poll[v].row].verify = v,
                                      ![poll[v].row].result = ResultOf(v)]
<1>1. ResultOf(v) \in Results \ {"null"}
  BY DEF ResultOf, Results
<1>2. poll[v].row \in Nat /\ poll[v].row <= Len(iters) /\ Len(iters) \in Nat
  BY LenProperties DEF PollInv, RowsInv
<1> QED
  BY <1>1, <1>2 DEF Poll

LEMMA RowsStep ==
  ASSUME Inv, [Next]_vars
  PROVE  RowsInv' /\ Len(iters') \in Nat /\ Len(iters) <= Len(iters')
<1> USE DEF Inv
<1>0. Len(iters) \in Nat
  BY LenProperties DEF RowsInv
<1>1. ASSUME UNCHANGED iters
      PROVE  RowsInv' /\ Len(iters') \in Nat /\ Len(iters) <= Len(iters')
  BY <1>0, <1>1 DEF RowsInv
<1>2. ASSUME NEW c \in Calls, InsertIteration(c)
      PROVE  RowsInv' /\ Len(iters') \in Nat /\ Len(iters) <= Len(iters')
  <2> DEFINE new == [n |-> Len(iters) + 1, patches |-> RowPatches(c),
                     verify |-> NoRun, result |-> "null"]
  <2>1. new \in Iteration
    <3>1. RowPatches(c) \subseteq Patches
      BY <1>2, InsertedNext
    <3> QED
      BY <1>0, <3>1 DEF Iteration, Results
  <2>2. iters' = Append(iters, new) /\ Len(iters) < MaxIterations
    BY <1>2, InsertedNext
  <2> HIDE DEF new
  <2>3. /\ iters' \in Seq(Iteration)
        /\ Len(iters') = Len(iters) + 1
        /\ \A i \in 1..Len(iters) : iters'[i] = iters[i]
        /\ iters'[Len(iters) + 1] = new
    BY <2>1, <2>2, AppendProperties DEF RowsInv
  <2>4. new.n = Len(iters) + 1
    BY DEF new
  <2> QED
    BY <1>0, <2>2, <2>3, <2>4 DEF RowsInv
<1>3. ASSUME NEW v \in Verifies, Poll(v)
      PROVE  RowsInv' /\ Len(iters') \in Nat /\ Len(iters) <= Len(iters')
  <2>1. CASE iters' = iters
    BY <2>1, <1>1
  <2>2. ASSUME /\ poll[v].row \in 1..Len(iters)
               /\ ResultOf(v) \in Results \ {"null"}
               /\ iters' = [iters EXCEPT ![poll[v].row].verify = v,
                                         ![poll[v].row].result = ResultOf(v)]
        PROVE  RowsInv' /\ Len(iters') \in Nat /\ Len(iters) <= Len(iters')
    <3> DEFINE k == poll[v].row
               row == [iters[k] EXCEPT !.verify = v, !.result = ResultOf(v)]
    <3>1. iters \in [1..Len(iters) -> Iteration]
      BY LenProperties DEF RowsInv
    <3>2. row \in Iteration /\ row.n = iters[k].n
      BY <2>2, <3>1 DEF Iteration
    <3>3. iters' = [iters EXCEPT ![k] = row]
      BY <2>2, <3>1
    <3> HIDE DEF row
    <3>4. iters' \in [1..Len(iters) -> Iteration] /\ \A i \in 1..Len(iters) : iters'[i].n = iters[i].n
      BY <2>2, <3>1, <3>2, <3>3
    <3>5. iters' \in Seq(Iteration) /\ Len(iters') = Len(iters)
      BY <1>0, <3>4, IsASeq, LenProperties, <2>2, <3>1, <3>2, <3>3, ExceptSeq DEF RowsInv
    <3> QED
      BY <1>0, <3>4, <3>5 DEF RowsInv
  <2> QED
    BY <1>3, <2>1, <2>2, PollTouchesResult
<1> QED
  BY <1>1, <1>2, <1>3 DEF Next, vars, StartAnalysis, AnalysisEnds, ApplyAll, Apply, PatchRead,
     PatchSkipped, PatchFails, CheckLimit, PatchWrite, InsertRefused, VerifyRequest,
     VerifyThrows, StartVerify, RunSettles, UserRun, Crash

\* A step that changes one call keeps CallInv when the new record does.
LEMMA CallChanged ==
  ASSUME CallInv, Len(iters) \in Nat, Len(iters') \in Nat, Len(iters) <= Len(iters'),
         NEW c \in Calls, NEW new \in Call,
         call' = [call EXCEPT ![c] = new],
         new.row <= Len(iters'),
         new.latest <= Len(iters'),
         new.pc \in {"patch", "write"} => new.latest < MaxIterations
  PROVE  CallInv'
<1>1. call' \in [Calls -> Call]
  BY DEF CallInv
<1>2. ASSUME NEW d \in Calls
      PROVE  /\ call'[d].row <= Len(iters')
             /\ call'[d].latest <= Len(iters')
             /\ call'[d].pc \in {"patch", "write"} => call'[d].latest < MaxIterations
  <2>1. CASE d = c
    BY <2>1 DEF CallInv
  <2>2. CASE d # c
    BY <2>2 DEF CallInv, Call
  <2> QED
    BY <2>1, <2>2
<1> QED
  BY <1>1, <1>2 DEF CallInv

\* Ending a call keeps it too.
LEMMA CallEnded ==
  ASSUME CallInv, Len(iters) \in Nat, Len(iters') \in Nat, Len(iters) <= Len(iters'),
         NEW c \in Calls, call' = [call EXCEPT ![c] = NoCall]
  PROVE  CallInv'
<1>1. NoCall \in Call
  BY NoCallTyped
<1>2. /\ NoCall.row <= Len(iters') /\ NoCall.latest <= Len(iters')
      /\ NoCall.pc \in {"patch", "write"} => NoCall.latest < MaxIterations
  BY DEF NoCall
<1> QED
  BY <1>1, <1>2, CallChanged, Zenon

LEMMA CallStep ==
  ASSUME Inv, [Next]_vars, Len(iters) \in Nat, Len(iters') \in Nat, Len(iters) <= Len(iters')
  PROVE  CallInv'
<1> USE DEF Inv
<1>1. ASSUME NEW c \in Calls, NEW new \in Call, call' = [call EXCEPT ![c] = new],
             new.row = 0, new.latest = 0, new.pc = "limit"
      PROVE  CallInv'
  <2>1. /\ new.row <= Len(iters') /\ new.latest <= Len(iters')
        /\ new.pc \in {"patch", "write"} => new.latest < MaxIterations
    BY <1>1
  <2> QED
    BY <1>1, <2>1, CallChanged, Zenon
<1>2. ASSUME NEW c \in Calls, NEW s \in Analyses,
             ApplyAll(c, s) \/ \E sel \in Selections(s) : Apply(c, s, sel)
      PROVE  CallInv'
  <2>1. CASE ApplyAll(c, s)
    <3> DEFINE new == [NoCall EXCEPT !.pc = "limit", !.sug = s, !.sel = PatchesOf[s],
                                     !.todo = PatchesOf[s]]
    <3>1. new \in Call /\ new.row = 0 /\ new.latest = 0 /\ new.pc = "limit"
      BY DEF NoCall, Call, CallPc
    <3>2. call' = [call EXCEPT ![c] = new]
      BY <2>1 DEF ApplyAll
    <3> HIDE DEF new
    <3> QED
      BY <3>1, <3>2, <1>1
  <2>2. ASSUME NEW sel \in Selections(s), Apply(c, s, sel)
        PROVE  CallInv'
    <3> DEFINE new == [NoCall EXCEPT !.pc = "limit", !.sug = s, !.sel = sel, !.todo = sel,
                                     !.auto = TRUE]
    <3>1. sel \subseteq Patches
      BY DEF Selections
    <3>2. new \in Call /\ new.row = 0 /\ new.latest = 0 /\ new.pc = "limit"
      BY <3>1 DEF NoCall, Call, CallPc
    <3>3. call' = [call EXCEPT ![c] = new]
      BY <2>2 DEF Apply
    <3> HIDE DEF new
    <3> QED
      BY <3>2, <3>3, <1>1
  <2> QED
    BY <1>2, <2>1, <2>2
<1>3. ASSUME NEW c \in Calls, CheckLimit(c)
      PROVE  CallInv'
  <2>1. Latest \in Nat /\ Latest = Len(iters)
    BY LatestIsLength
  <2>2. CASE LimitReached(Latest)
    BY <1>3, <2>2, CallEnded DEF CheckLimit
  <2>3. CASE ~LimitReached(Latest)
    <3> DEFINE new == [call[c] EXCEPT !.pc = "patch", !.latest = Latest]
    <3>1. new \in Call /\ new.row = call[c].row /\ new.latest = Latest
      BY <2>1 DEF CallInv, Call, CallPc
    <3>2. call' = [call EXCEPT ![c] = new]
      BY <1>3, <2>3 DEF CheckLimit, CallInv
    <3>3. new.row <= Len(iters') /\ new.latest <= Len(iters') /\ new.latest < MaxIterations
      BY <2>1, <2>3, <3>1 DEF LimitReached, CallInv, Call
    <3> HIDE DEF new
    <3> QED
      BY <3>1, <3>2, <3>3, CallChanged
  <2> QED
    BY <2>2, <2>3
<1>4. ASSUME NEW c \in Calls, call[c].pc \in {"patch", "write"}, NEW new \in Call,
             call' = [call EXCEPT ![c] = new],
             new.row = call[c].row, new.latest = call[c].latest
      PROVE  CallInv'
  BY <1>4, CallChanged DEF CallInv, Call
<1>5. ASSUME NEW c \in Calls, NEW p \in Patches, PatchRead(c, p)
      PROVE  CallInv'
  <2> DEFINE new == [call[c] EXCEPT !.pc = "write", !.open = {p}, !.text = files[FileOf[p]]]
  <2>1. files[FileOf[p]] \subseteq Patches
    BY DEF Files, FilesInv
  <2>2. new \in Call /\ new.row = call[c].row /\ new.latest = call[c].latest
    BY <2>1 DEF CallInv, Call, CallPc
  <2>3. call' = [call EXCEPT ![c] = new]
    BY <1>5 DEF PatchRead, CallInv
  <2> HIDE DEF new
  <2> QED
    BY <1>4, <1>5, <2>2, <2>3 DEF PatchRead
<1>6. ASSUME NEW c \in Calls, NEW p \in Patches, PatchSkipped(c, p)
      PROVE  CallInv'
  <2> DEFINE new == [call[c] EXCEPT !.todo = @ \ {p}]
  <2>1. new \in Call /\ new.row = call[c].row /\ new.latest = call[c].latest
    BY DEF CallInv, Call
  <2>2. call' = [call EXCEPT ![c] = new]
    BY <1>6 DEF PatchSkipped, CallInv
  <2> HIDE DEF new
  <2> QED
    BY <1>4, <1>6, <2>1, <2>2 DEF PatchSkipped
<1>7. ASSUME NEW c \in Calls, PatchWrite(c)
      PROVE  CallInv'
  <2> DEFINE new == [call[c] EXCEPT !.pc = "patch", !.todo = @ \ call[c].open,
                                    !.open = {}, !.text = {}]
  <2>1. new \in Call /\ new.row = call[c].row /\ new.latest = call[c].latest
    BY DEF CallInv, Call, CallPc
  <2>2. call' = [call EXCEPT ![c] = new]
    BY <1>7 DEF PatchWrite, CallInv
  <2> HIDE DEF new
  <2> QED
    BY <1>4, <1>7, <2>1, <2>2 DEF PatchWrite
<1>8. ASSUME NEW c \in Calls, NEW k \in Nat, k <= Len(iters'),
             call' = [call EXCEPT ![c] = [NoCall EXCEPT !.pc = "verify", !.row = k]]
      PROVE  CallInv'
  <2> DEFINE new == [NoCall EXCEPT !.pc = "verify", !.row = k]
  <2>1. new \in Call
    BY DEF NoCall, Call, CallPc
  <2>2. /\ new.row <= Len(iters') /\ new.latest <= Len(iters')
        /\ new.pc \in {"patch", "write"} => new.latest < MaxIterations
    BY <1>8 DEF NoCall
  <2>3. call' = [call EXCEPT ![c] = new]
    BY <1>8
  <2> HIDE DEF new
  <2> QED
    BY <2>1, <2>2, <2>3, CallChanged, Zenon
<1>9. ASSUME NEW c \in Calls, InsertIteration(c)
      PROVE  CallInv'
  <2>1. Len(iters') = Len(iters) + 1
    <3> DEFINE new == [n |-> Len(iters) + 1, patches |-> RowPatches(c),
                       verify |-> NoRun, result |-> "null"]
    <3>1. RowPatches(c) \subseteq Patches /\ iters' = Append(iters, new)
      BY <1>9, InsertedNext
    <3>2. new \in Iteration
      BY <3>1 DEF Iteration, Results
    <3> HIDE DEF new
    <3> QED
      BY <3>1, <3>2, AppendProperties DEF RowsInv
  <2>2. CASE call[c].auto
    <3>1. call' = [call EXCEPT ![c] = [NoCall EXCEPT !.pc = "verify", !.row = Len(iters) + 1]]
      BY <1>9, <2>2 DEF InsertIteration
    <3>2. Len(iters) + 1 \in Nat /\ Len(iters) + 1 <= Len(iters')
      BY <2>1
    <3> QED
      BY <1>8, <3>1, <3>2, Zenon
  <2>3. CASE ~call[c].auto
    BY <1>9, <2>3, CallEnded DEF InsertIteration
  <2> QED
    BY <2>2, <2>3
<1>10. ASSUME NEW c \in Calls, VerifyRequest(c)
       PROVE  CallInv'
  BY <1>8, <1>10 DEF VerifyRequest
<1>11. ASSUME NEW c \in Calls,
              \/ InsertRefused(c) \/ VerifyThrows(c)
              \/ \E p \in Patches : PatchFails(c, p)
              \/ \E v \in Verifies : StartVerify(c, v)
       PROVE  CallInv'
  BY <1>11, CallEnded DEF InsertRefused, VerifyThrows, PatchFails, StartVerify
<1>12. CASE Crash
  BY <1>12, NoCallTyped DEF Crash, CallInv, NoCall
<1>13. CASE UNCHANGED call
  BY <1>13 DEF CallInv, Call
<1> QED
  BY <1>2, <1>3, <1>5, <1>6, <1>7, <1>9, <1>10, <1>11, <1>12, <1>13
  DEF Next, vars, StartAnalysis, AnalysisEnds, RunSettles, UserRun, Poll

\* Everything the log depends on holds throughout, whatever applies, verify runs
\* and restarts interleave.
LEMMA InvStep == Inv /\ [Next]_vars => Inv'
<1> SUFFICES ASSUME Inv, [Next]_vars
             PROVE  Inv'
  OBVIOUS
<1> USE DEF Inv
<1>0. Len(iters) \in Nat
  BY LenProperties DEF RowsInv
<1>1. RowsInv' /\ Len(iters') \in Nat /\ Len(iters) <= Len(iters')
  BY RowsStep
<1>2. CallInv'
  BY <1>0, <1>1, CallStep
<1>3. PollInv'
  <2>1. CASE poll' = poll
    BY <1>0, <1>1, <2>1 DEF PollInv
  <2>2. ASSUME NEW c \in Calls, NEW v \in Verifies, StartVerify(c, v)
        PROVE  PollInv'
    <3>1. call[c].row \in Nat /\ call[c].row <= Len(iters)
      BY DEF CallInv, Call
    <3> QED
      BY <1>0, <1>1, <2>2, <3>1 DEF StartVerify, PollInv
  <2>3. ASSUME NEW v \in Verifies, Poll(v)
        PROVE  PollInv'
    <3>1. CASE poll' = [poll EXCEPT ![v] = NoPoll]
      BY <1>0, <1>1, <3>1 DEF PollInv, NoPoll
    <3>2. CASE poll' = [poll EXCEPT ![v].left = @ - 1]
      <4>1. poll[v].left - 1 \in Nat
        BY <2>3 DEF Poll, PollInv
      <4>2. poll' \in [Verifies -> [row : Nat, left : Nat]]
        BY <3>2, <4>1 DEF PollInv
      <4>3. \A w \in Verifies : poll'[w].row = poll[w].row
        BY <3>2 DEF PollInv
      <4> QED
        BY <1>0, <1>1, <4>2, <4>3 DEF PollInv
    <3> QED
      BY <2>3, <3>1, <3>2 DEF Poll
  <2>4. CASE Crash
    BY <1>0, <1>1, <2>4 DEF Crash, PollInv, NoPoll
  <2> QED
    BY <2>1, <2>2, <2>3, <2>4, ZenonT(30) DEF Next, vars, StartAnalysis, AnalysisEnds, ApplyAll, Apply,
       PatchRead, PatchSkipped, PatchFails, CheckLimit, PatchWrite, InsertIteration,
       InsertRefused, VerifyRequest, VerifyThrows, RunSettles, UserRun
<1>4. FilesInv'
  <2>1. ASSUME NEW c \in Calls, PatchWrite(c)
        PROVE  FilesInv'
    <3>1. call[c].text \subseteq Patches /\ call[c].open \subseteq Patches
      BY DEF CallInv, Call
    <3>2. PICK p \in call[c].open :
              files' = [files EXCEPT ![FileOf[p]] = call[c].text \cup {p}]
      BY <2>1 DEF PatchWrite
    <3>3. call[c].text \cup {p} \subseteq Patches
      BY <3>1
    <3>4. files' \in [Files -> SUBSET Patches]
      BY <3>2, <3>3 DEF FilesInv
    <3> QED
      BY <2>1, <3>4 DEF PatchWrite, FilesInv
  <2>2. ASSUME NEW s \in Analyses, AnalysisEnds(s)
        PROVE  FilesInv'
    BY <2>2 DEF AnalysisEnds, FilesInv
  <2>3. CASE UNCHANGED <<files, sugs>>
    BY <2>3 DEF FilesInv
  <2> QED
    BY <2>1, <2>2, <2>3 DEF Next, vars, StartAnalysis, ApplyAll, Apply, PatchRead,
       PatchSkipped, PatchFails, CheckLimit, InsertIteration, InsertRefused, VerifyRequest,
       VerifyThrows, StartVerify, RunSettles, UserRun, Poll, Crash
<1> QED
  BY <1>1, <1>2, <1>3, <1>4

-----------------------------------------------------------------------------
(* The refinement                                                          *)

LEMMA HistoryInit == Init => Log!Init
BY DEF Init, Log!Init, History

\* Inserting a row is AddRound of the log.
LEMMA InsertAddsRound ==
  ASSUME Inv, NEW c \in Calls, InsertIteration(c)
  PROVE  Log!AddRound
<1> USE DEF Inv
<1> DEFINE k == Len(iters)
           new == [n |-> k + 1, patches |-> RowPatches(c), verify |-> NoRun, result |-> "null"]
<1>1. /\ k \in Nat /\ k < MaxIterations
      /\ RowPatches(c) \in SUBSET Patches
      /\ iters' = Append(iters, new)
  BY InsertedNext, LenProperties DEF RowsInv
<1>2. new \in Iteration
  BY <1>1 DEF Iteration, Results
<1>3. /\ iters \in Seq(Iteration) /\ iters' \in Seq(Iteration)
      /\ DOMAIN iters = 1..k /\ DOMAIN iters' = 1..(k + 1)
      /\ \A i \in 1..k : iters'[i] = iters[i]
      /\ iters'[k + 1] = new
  <2> HIDE DEF new
  <2> QED
    BY <1>1, <1>2, AppendProperties, LenProperties DEF RowsInv
<1> DEFINE round == Log!Round(k + 1, RowPatches(c))
<1>4. /\ DOMAIN History = 1..k /\ Len(History) = k
      /\ DOMAIN History' = 1..(k + 1)
      /\ \A i \in 1..k : History'[i] = History[i]
      /\ History'[k + 1] = round
  BY <1>1, <1>3 DEF History, Log!Round
<1>5. History' = Append(History, round)
  BY <1>1, <1>3, <1>4 DEF History
<1> QED
  BY <1>1, <1>4, <1>5 DEF Log!AddRound

\* Recording a verdict is Judge of the log, or changes nothing a reader sees.
LEMMA PollJudges ==
  ASSUME Inv, NEW v \in Verifies, Poll(v)
  PROVE  Log!Judge \/ UNCHANGED History
<1> USE DEF Inv
<1>1. CASE iters' = iters
  BY <1>1 DEF History
<1>2. ASSUME /\ poll[v].row \in 1..Len(iters)
             /\ ResultOf(v) \in Results \ {"null"}
             /\ iters' = [iters EXCEPT ![poll[v].row].verify = v,
                                       ![poll[v].row].result = ResultOf(v)]
      PROVE  Log!Judge
  <2> DEFINE k == poll[v].row
  <2>1. iters \in [1..Len(iters) -> Iteration] /\ DOMAIN iters = 1..Len(iters)
    BY LenProperties DEF RowsInv
  <2>2. DOMAIN iters' = DOMAIN iters
    BY <1>2, <2>1
  <2>3. /\ iters'[k].n = iters[k].n
        /\ iters'[k].patches = iters[k].patches
        /\ iters'[k].result = ResultOf(v)
    BY <1>2, <2>1 DEF Iteration
  <2>4. \A i \in DOMAIN iters : i # k => iters'[i] = iters[i]
    BY <1>2, <2>1
  <2>5. k \in DOMAIN History /\ DOMAIN History = DOMAIN iters
    BY <1>2, <2>1 DEF History
  <2>6. History' = [History EXCEPT ![k].result = ResultOf(v)]
    <3> DEFINE H == [History EXCEPT ![k].result = ResultOf(v)]
    <3>1. DOMAIN History' = DOMAIN iters /\ DOMAIN H = DOMAIN iters
      BY <2>2, <2>5 DEF History
    <3>2. ASSUME NEW i \in DOMAIN iters
          PROVE  History'[i] = H[i]
      <4>1. CASE i = k
        BY <2>2, <2>3, <2>5, <4>1 DEF History
      <4>2. CASE i # k
        BY <2>2, <2>4, <2>5, <4>2 DEF History
      <4> QED
        BY <4>1, <4>2
    <3> QED
      BY <3>1, <3>2 DEF History
  <2> QED
    BY <1>2, <2>5, <2>6 DEF Log!Judge
<1> QED
  BY <1>1, <1>2, PollTouchesResult

LEMMA HistoryStep == Inv /\ [Next]_vars => [Log!Next]_History
<1> SUFFICES ASSUME Inv, [Next]_vars
             PROVE  Log!Next \/ UNCHANGED History
  OBVIOUS
<1>1. ASSUME NEW c \in Calls, InsertIteration(c)
      PROVE  Log!Next
  BY <1>1, InsertAddsRound DEF Log!Next
<1>2. ASSUME NEW v \in Verifies, Poll(v)
      PROVE  Log!Next \/ UNCHANGED History
  BY <1>2, PollJudges DEF Log!Next
<1>3. CASE UNCHANGED iters
  BY <1>3 DEF History
<1> QED
  BY <1>1, <1>2, <1>3, ZenonT(30) DEF Next, vars, StartAnalysis, AnalysisEnds, ApplyAll, Apply, PatchRead,
     PatchSkipped, PatchFails, CheckLimit, PatchWrite, InsertRefused, VerifyRequest,
     VerifyThrows, StartVerify, RunSettles, UserRun, Crash

\* The repair history is an append-only log of at most MaxIterations rounds, however
\* apply calls, verify runs, their pollers and restarts interleave.
THEOREM Implements == Spec => ImplementsLog
<1>1. Init => Log!Init
  BY HistoryInit
<1>2. Inv /\ [Next]_vars => [Log!Next]_History
  BY HistoryStep
<1>3. Init => Inv
  BY InvInit
<1>4. Inv /\ [Next]_vars => Inv'
  BY InvStep
<1> QED
  BY <1>1, <1>2, <1>3, <1>4, PTL DEF Spec, ImplementsLog, Log!Spec

-----------------------------------------------------------------------------
(* Results are verdicts                                                    *)

\* A settled run keeps its status and a run with failing tests keeps them, so what a
\* poller read when it judged a row stays true of the run the row names.
VerdictInv ==
    /\ run \in [Runs -> RunStatus]
    /\ ResultIsVerdict

\* Statuses only move away from "none" and "running".
LEMMA SettledStays ==
  ASSUME run \in [Runs -> RunStatus], [Next]_vars
  PROVE  /\ run' \in [Runs -> RunStatus]
         /\ \A r \in Runs : run[r] \in Settled => run'[r] = run[r]
         /\ red \subseteq red'
<1>1. ASSUME NEW v \in Verifies, run' = [run EXCEPT ![v] = "running"], run[v] = "none",
             UNCHANGED red
      PROVE  /\ run' \in [Runs -> RunStatus]
             /\ \A r \in Runs : run[r] \in Settled => run'[r] = run[r]
             /\ red \subseteq red'
  BY <1>1 DEF Runs, RunStatus, Settled
<1>2. ASSUME NEW v \in Verifies, NEW st \in Settled, NEW failures \in BOOLEAN,
             RunSettles(v, st, failures)
      PROVE  /\ run' \in [Runs -> RunStatus]
             /\ \A r \in Runs : run[r] \in Settled => run'[r] = run[r]
             /\ red \subseteq red'
  <2>1. run' = [run EXCEPT ![v] = st] /\ run[v] = "running" /\ red \subseteq red'
    BY <1>2 DEF RunSettles
  <2> QED
    BY <2>1 DEF Runs, RunStatus, Settled
<1>3. CASE UNCHANGED <<run, red>>
  BY <1>3
<1> QED
  BY <1>1, <1>2, <1>3 DEF Next, vars, StartAnalysis, AnalysisEnds, ApplyAll, Apply, PatchRead,
     PatchSkipped, PatchFails, CheckLimit, PatchWrite, InsertIteration, InsertRefused,
     VerifyRequest, VerifyThrows, StartVerify, UserRun, RunSettles, Poll, Crash

\* What inserting and judging do to the rows, index by index.
LEMMA InsertedRow ==
  ASSUME Inv, NEW c \in Calls, InsertIteration(c)
  PROVE  /\ Len(iters) \in Nat /\ Len(iters') = Len(iters) + 1
         /\ \A i \in 1..Len(iters) : iters'[i] = iters[i]
         /\ iters'[Len(iters) + 1].patches = call[c].sel
         /\ iters'[Len(iters) + 1].verify = NoRun
         /\ iters'[Len(iters) + 1].result = "null"
<1> USE DEF Inv
<1> DEFINE new == [n |-> Len(iters) + 1, patches |-> RowPatches(c),
                   verify |-> NoRun, result |-> "null"]
<1>1. Len(iters) \in Nat /\ RowPatches(c) \subseteq Patches /\ iters' = Append(iters, new)
  BY InsertedNext, LenProperties DEF RowsInv
<1>2. new \in Iteration
  BY <1>1 DEF Iteration, Results
<1> HIDE DEF new
<1>3. /\ Len(iters') = Len(iters) + 1
      /\ \A i \in 1..Len(iters) : iters'[i] = iters[i]
      /\ iters'[Len(iters) + 1] = new
  BY <1>1, <1>2, AppendProperties DEF RowsInv
<1>4. new.patches = call[c].sel /\ new.verify = NoRun /\ new.result = "null"
  BY DEF new, RowPatches
<1> QED
  BY <1>1, <1>3, <1>4

LEMMA JudgedRow ==
  ASSUME Inv, NEW v \in Verifies, Poll(v), iters' # iters
  PROVE  /\ ~KeepsPolling(run[v])
         /\ Len(iters) \in Nat /\ Len(iters') = Len(iters)
         /\ \A i \in 1..Len(iters) :
               /\ iters'[i].patches = iters[i].patches
               /\ \/ iters'[i] = iters[i]
                  \/ iters'[i].verify = v /\ iters'[i].result = ResultOf(v)
<1> USE DEF Inv
<1> DEFINE k == poll[v].row
<1>1. /\ k \in 1..Len(iters)
      /\ iters' = [iters EXCEPT ![k].verify = v, ![k].result = ResultOf(v)]
      /\ ~KeepsPolling(run[v])
  BY PollTouchesResult DEF Poll
<1>2. /\ iters \in [1..Len(iters) -> Iteration] /\ Len(iters) \in Nat
      /\ DOMAIN iters = 1..Len(iters)
  BY LenProperties DEF RowsInv
<1>3. /\ DOMAIN iters' = 1..Len(iters)
      /\ iters'[k].patches = iters[k].patches
      /\ iters'[k].verify = v /\ iters'[k].result = ResultOf(v)
      /\ \A i \in 1..Len(iters) : i # k => iters'[i] = iters[i]
  BY <1>1, <1>2 DEF Iteration
<1>4. Len(iters') = Len(iters)
  BY <1>1, <1>2, <1>3, ExceptSeq, LenProperties DEF RowsInv
<1> QED
  BY <1>1, <1>2, <1>3, <1>4

LEMMA VerdictStep == Inv /\ VerdictInv /\ [Next]_vars => VerdictInv'
<1> SUFFICES ASSUME Inv, VerdictInv, [Next]_vars
             PROVE  VerdictInv'
  OBVIOUS
<1> USE DEF VerdictInv
<1>0. /\ run' \in [Runs -> RunStatus]
      /\ \A r \in Runs : run[r] \in Settled => run'[r] = run[r]
      /\ red \subseteq red'
  BY SettledStays
<1>1. iters \in [1..Len(iters) -> Iteration]
  BY LenProperties DEF Inv, RowsInv
<1> DEFINE Told(it) ==
        /\ (it.verify = NoRun) = (it.result = "null")
        /\ it.result = "passed" => run'[it.verify] = "passed"
        /\ it.result = "failed" => it.verify \in red'
        /\ it.result = "skipped" => run'[it.verify] \in Settled \ {"passed"}
\* A row that is not touched: its run has settled already.
<1>2. ASSUME NEW i \in 1..Len(iters)
      PROVE  Told(iters[i])
  <2>1. iters[i].verify \in Verifies \cup {NoRun} /\ iters[i].result \in Results
    BY <1>1 DEF Iteration
  <2>2. CASE iters[i].result = "null"
    BY <2>2 DEF ResultIsVerdict
  <2>3. CASE iters[i].result # "null"
    <3>1. iters[i].verify \in Runs
      BY <2>1, <2>3 DEF ResultIsVerdict, Runs
    <3> QED
      BY <1>0, <2>1, <2>3, <3>1 DEF ResultIsVerdict, Settled
  <2> QED
    BY <2>2, <2>3
<1>3. ASSUME NEW c \in Calls, InsertIteration(c)
      PROVE  ResultIsVerdict'
  <2>1. ASSUME NEW i \in 1..Len(iters')
        PROVE  Told(iters'[i])
    <3>1. CASE i \in 1..Len(iters)
      BY <1>2, <1>3, <3>1, InsertedRow
    <3>2. CASE i = Len(iters) + 1
      <4>1. iters'[i].verify = NoRun /\ iters'[i].result = "null"
        BY <1>3, <3>2, InsertedRow
      <4>2. iters'[i].result \notin {"passed", "failed", "skipped"}
        BY <4>1
      <4> QED
        BY <4>1, <4>2
    <3>3. Len(iters) \in Nat /\ Len(iters') = Len(iters) + 1
      BY <1>3, InsertedRow
    <3> QED
      BY <3>1, <3>2, <3>3
  <2> QED
    BY <2>1 DEF ResultIsVerdict
<1>4. ASSUME NEW v \in Verifies, Poll(v), iters' # iters
      PROVE  ResultIsVerdict'
  <2>1. UNCHANGED <<run, red>>
    BY <1>4 DEF Poll
  <2>2. v \in Runs /\ v # NoRun /\ run[v] \in Settled
    BY <1>4, JudgedRow DEF Runs, KeepsPolling, RunStatus
  <2>3. ASSUME NEW it, it.verify = v, it.result = ResultOf(v)
        PROVE  Told(it)
    BY <2>1, <2>2, <2>3 DEF ResultOf
  <2>4. ASSUME NEW i \in 1..Len(iters')
        PROVE  Told(iters'[i])
    BY <1>2, <1>4, <2>3, JudgedRow
  <2> QED
    BY <2>4 DEF ResultIsVerdict
<1>5. CASE UNCHANGED iters
  BY <1>0, <1>2, <1>5 DEF ResultIsVerdict
<1> HIDE DEF Told
<1> QED
  BY <1>0, <1>3, <1>4, <1>5 DEF Next, vars, StartAnalysis, AnalysisEnds, ApplyAll, Apply,
     PatchRead, PatchSkipped, PatchFails, CheckLimit, PatchWrite, InsertRefused,
     VerifyRequest, VerifyThrows, StartVerify, RunSettles, UserRun, Crash

LEMMA VerdictInit == Init => VerdictInv
BY DEF Init, VerdictInv, ResultIsVerdict, Runs, RunStatus, Settled

\* The result of an iteration is the verdict of the verify run it names, whenever its
\* poller looked and whatever runs, judgements and restarts came in between.
THEOREM ResultsHonest == Spec => []ResultIsVerdict
<1>1. Init => Inv /\ VerdictInv
  BY InvInit, VerdictInit
<1>2. Inv /\ VerdictInv /\ [Next]_vars => (Inv /\ VerdictInv)'
  BY InvStep, VerdictStep
<1>3. VerdictInv => ResultIsVerdict
  BY DEF VerdictInv
<1> QED
  BY <1>1, <1>2, <1>3, PTL DEF Spec

-----------------------------------------------------------------------------
(* Files are what the history says                                         *)

Applying(c) == call[c].pc \in {"patch", "write"}
Done(c) == call[c].sel \ call[c].todo
Named(p) == \E i \in 1..Len(iters) : p \in iters[i].patches
Pending(p) == \E c \in Calls : Applying(c) /\ p \in Done(c)

\* What a call has still to do is part of what it was asked, and the one patch whose
\* file it has open is not done.
Shaped(k) ==
    /\ k.todo \subseteq k.sel
    /\ k.pc = "limit" => k.todo = k.sel
    /\ k.pc = "write" => \E p \in k.todo : k.open = {p}

CallShape == \A c \in Calls : Shaped(call[c])

\* The text a call has read is still the text of the file, and nobody else has the
\* file open, unless the file is torn.
TextFresh ==
    \A c \in Calls, p \in Patches :
        call[c].pc = "write" /\ call[c].open = {p} /\ FileOf[p] \notin torn =>
            /\ call[c].text = files[FileOf[p]]
            /\ ~OpenElsewhere(c, FileOf[p])

\* A file holds what the rows name and what the calls under way have done so far.
FilesExplained ==
    \A f \in Files \ torn :
        files[f] = {p \in Patches : FileOf[p] = f /\ (Named(p) \/ Pending(p))}

TextInv == CallShape /\ TextFresh /\ FilesExplained

LEMMA TextInit == Init => TextInv
BY DEF Init, TextInv, CallShape, Shaped, TextFresh, FilesExplained, NoCall, Named, Pending, Applying

\* Steps that change neither a call nor a file nor the patches of a row.
LEMMA TextFrame ==
  ASSUME TextInv, UNCHANGED <<call, files, torn>>, \A p \in Patches : Named(p)' = Named(p)
  PROVE  TextInv'
<1>1. CallShape' /\ TextFresh'
  BY DEF TextInv, CallShape, TextFresh, OpenElsewhere
<1>2. \A p \in Patches : Pending(p)' = Pending(p)
  BY DEF Pending, Applying, Done
<1>3. FilesExplained'
  BY <1>2 DEF TextInv, FilesExplained
<1> QED
  BY <1>1, <1>3 DEF TextInv

\* A call that is not patching starts, ends or begins to patch with nothing done.
LEMMA QuietCall ==
  ASSUME CallInv, TextInv, NEW c \in Calls, NEW new \in Call,
         call' = [call EXCEPT ![c] = new], UNCHANGED <<iters, files, torn>>,
         ~Applying(c), new.pc # "write", new.todo \subseteq new.sel,
         new.pc \in {"limit", "patch"} => new.todo = new.sel
  PROVE  TextInv'
<1>1. call'[c] = new /\ \A d \in Calls : d # c => call'[d] = call[d]
  BY DEF CallInv
<1>2. CallShape'
  BY <1>1 DEF TextInv, CallShape, Shaped
<1>3. \A d \in Calls : call'[d].pc = "write" => call'[d] = call[d] /\ d # c
  BY <1>1
<1>4. TextFresh'
  BY <1>1, <1>3 DEF TextInv, TextFresh, OpenElsewhere
<1>5. ASSUME NEW p \in Patches
      PROVE  Named(p)' = Named(p) /\ Pending(p)' = Pending(p)
  BY <1>1 DEF Named, Pending, Applying, Done
<1>6. FilesExplained'
  BY <1>5 DEF TextInv, FilesExplained
<1> QED
  BY <1>2, <1>4, <1>6 DEF TextInv

\* Calls give up: what they were asked to change is torn from now on.
LEMMA CallsDropped ==
  ASSUME CallInv, TextInv, NEW D \in SUBSET Calls,
         call' = [d \in Calls |-> IF d \in D THEN NoCall ELSE call[d]],
         UNCHANGED <<iters, files>>, torn \subseteq torn',
         \A c \in D : Applying(c) => {FileOf[q] : q \in call[c].sel} \subseteq torn'
  PROVE  TextInv'
<1>1. CallShape'
  BY DEF TextInv, CallShape, Shaped, NoCall
<1>2. \A d \in Calls : call'[d].pc = "write" => call'[d] = call[d]
  BY DEF NoCall
<1>3. TextFresh'
  BY <1>2 DEF TextInv, TextFresh, OpenElsewhere
<1>4. ASSUME NEW p \in Patches, FileOf[p] \notin torn'
      PROVE  Named(p)' = Named(p) /\ Pending(p)' = Pending(p)
  <2>1. ASSUME NEW d \in D, Applying(d)
        PROVE  p \notin Done(d)
    BY <1>4, <2>1 DEF Done
  <2>2. ASSUME NEW d \in Calls
        PROVE  (Applying(d) /\ p \in Done(d))' = (Applying(d) /\ p \in Done(d))
    <3>1. CASE d \in D
      BY <2>1, <3>1 DEF Applying, NoCall
    <3>2. CASE d \notin D
      BY <3>2 DEF Applying, Done
    <3> QED
      BY <3>1, <3>2
  <2>3. Pending(p)' = Pending(p)
    BY <2>2 DEF Pending
  <2> QED
    BY <2>3 DEF Named
<1>5. FilesExplained'
  BY <1>4 DEF TextInv, FilesExplained
<1> QED
  BY <1>1, <1>3, <1>5 DEF TextInv

LEMMA ReadText ==
  ASSUME Inv, TextInv, NEW c \in Calls, NEW p \in Patches, PatchRead(c, p)
  PROVE  TextInv'
<1> USE DEF Inv
<1> DEFINE f == FileOf[p]
<1>1. /\ call' = [call EXCEPT ![c].pc = "write", ![c].open = {p}, ![c].text = files[f]]
      /\ call[c].pc = "patch" /\ p \in call[c].todo
      /\ torn' = IF OpenElsewhere(c, f) THEN torn \cup {f} ELSE torn
      /\ UNCHANGED <<iters, files>>
  BY DEF PatchRead
<1>2. /\ call'[c].pc = "write" /\ call'[c].open = {p} /\ call'[c].text = files[f]
      /\ call'[c].sel = call[c].sel /\ call'[c].todo = call[c].todo
      /\ \A d \in Calls : d # c => call'[d] = call[d]
  BY <1>1 DEF CallInv, Call
<1>3. CallShape'
  <2>1. Shaped(call[c])
    BY DEF TextInv, CallShape
  <2>2. Shaped(call'[c])
    BY <1>1, <1>2, <2>1 DEF Shaped
  <2> QED
    BY <1>2, <2>2 DEF TextInv, CallShape
<1>4. ASSUME NEW d \in Calls, NEW q \in Patches,
             call'[d].pc = "write", call'[d].open = {q}, FileOf[q] \notin torn'
      PROVE  call'[d].text = files[FileOf[q]] /\ ~OpenElsewhere(d, FileOf[q])'
  <2>1. CASE d = c
    <3>1. q = p /\ ~OpenElsewhere(c, f)
      BY <1>1, <1>2, <1>4, <2>1
    <3> QED
      BY <1>2, <2>1, <3>1 DEF OpenElsewhere
  <2>2. CASE d # c
    <3>1. /\ call[d].pc = "write" /\ call[d].open = {q} /\ call'[d].text = call[d].text
          /\ FileOf[q] \notin torn
      BY <1>1, <1>2, <1>4, <2>2
    <3>2. call[d].text = files[FileOf[q]] /\ ~OpenElsewhere(d, FileOf[q])
      BY <3>1 DEF TextInv, TextFresh
    <3>3. FileOf[q] # f
      BY <1>1, <1>4, <2>2, <3>1 DEF OpenElsewhere
    <3>4. ~OpenElsewhere(d, FileOf[q])'
      BY <1>2, <3>2, <3>3 DEF OpenElsewhere
    <3> QED
      BY <3>1, <3>2, <3>4
  <2> QED
    BY <2>1, <2>2
<1>5. TextFresh'
  <2>1. UNCHANGED files
    BY <1>1
  <2> QED
    BY <1>4, <2>1, Zenon DEF TextFresh
<1>6. \A d \in Calls : (Applying(d) <=> Applying(d)') /\ Done(d)' = Done(d)
  <2>1. Applying(c) /\ Applying(c)' /\ Done(c)' = Done(c)
    BY <1>1, <1>2 DEF Applying, Done
  <2> QED
    BY <1>2, <2>1 DEF Applying, Done
<1>7. \A q \in Patches : Named(q)' = Named(q) /\ Pending(q)' = Pending(q)
  BY <1>1, <1>6 DEF Named, Pending
<1>8. FilesExplained'
  BY <1>1, <1>7 DEF TextInv, FilesExplained
<1> QED
  BY <1>3, <1>5, <1>8 DEF TextInv

LEMMA SkipText ==
  ASSUME Inv, TextInv, NEW c \in Calls, NEW p \in Patches, PatchSkipped(c, p)
  PROVE  TextInv'
<1> USE DEF Inv
<1>1. /\ call' = [call EXCEPT ![c].todo = @ \ {p}]
      /\ call[c].pc = "patch" /\ p \in call[c].todo /\ p \in files[FileOf[p]]
      /\ UNCHANGED <<iters, files, torn>>
  BY DEF PatchSkipped, AlreadyApplied
<1>2. /\ call'[c].pc = "patch" /\ call'[c].sel = call[c].sel
      /\ call'[c].todo = call[c].todo \ {p}
      /\ \A d \in Calls : d # c => call'[d] = call[d]
  BY <1>1 DEF CallInv, Call
<1>3. CallShape'
  BY <1>1, <1>2 DEF TextInv, CallShape, Shaped
<1>4. \A d \in Calls : call'[d].pc = "write" => call'[d] = call[d] /\ d # c
  BY <1>2
<1>5. \A d \in Calls : call[d].pc = "write" => call'[d] = call[d]
  BY <1>1, <1>2
<1>6. TextFresh'
  BY <1>1, <1>4, <1>5 DEF TextInv, TextFresh, OpenElsewhere
<1>7. ASSUME NEW q \in Patches, FileOf[q] \notin torn
      PROVE  (Named(q) \/ Pending(q))' = (Named(q) \/ Pending(q))
  <2>1. Named(q)' = Named(q)
    BY <1>1 DEF Named
  <2>2. CASE q # p
    <3>1. \A d \in Calls : (Applying(d) /\ q \in Done(d))' = (Applying(d) /\ q \in Done(d))
      BY <1>1, <1>2, <2>2 DEF Applying, Done
    <3>2. Pending(q)' = Pending(q)
      BY <3>1 DEF Pending
    <3> QED
      BY <2>1, <3>2
  <2>3. CASE q = p
    <3>1. FileOf[p] \in Files \ torn
      BY <1>7, <2>3 DEF Files
    <3>2. Named(p) \/ Pending(p)
      BY <1>1, <3>1 DEF TextInv, FilesExplained
    <3>3. (Applying(c) /\ p \in Done(c))'
      BY <1>1, <1>2 DEF Applying, Done, TextInv, CallShape, Shaped
    <3>4. Pending(p)'
      BY <3>3 DEF Pending
    <3> QED
      BY <2>3, <3>2, <3>4
  <2> QED
    BY <2>2, <2>3
<1>8. FilesExplained'
  BY <1>1, <1>7 DEF TextInv, FilesExplained
<1> QED
  BY <1>3, <1>6, <1>8 DEF TextInv

LEMMA WriteText ==
  ASSUME Inv, TextInv, NEW c \in Calls, PatchWrite(c)
  PROVE  TextInv'
<1> USE DEF Inv
<1>1. PICK p \in call[c].todo : call[c].open = {p}
  BY DEF PatchWrite, TextInv, CallShape, Shaped
<1> DEFINE f == FileOf[p]
<1>2. /\ p \in Patches /\ p \in call[c].sel /\ f \in Files
  BY DEF TextInv, CallShape, Shaped, CallInv, Call, Files
<1>3. /\ call[c].pc = "write"
      /\ files' = [files EXCEPT ![f] = call[c].text \cup {p}]
      /\ call' = [call EXCEPT ![c].pc = "patch", ![c].todo = @ \ call[c].open,
                              ![c].open = {}, ![c].text = {}]
      /\ UNCHANGED <<iters, torn>>
  BY <1>1 DEF PatchWrite
<1>4. /\ call'[c].pc = "patch" /\ call'[c].sel = call[c].sel
      /\ call'[c].todo = call[c].todo \ {p}
      /\ \A d \in Calls : d # c => call'[d] = call[d]
  BY <1>1, <1>3 DEF CallInv, Call
<1>5. /\ files'[f] = call[c].text \cup {p}
      /\ \A g \in Files : g # f => files'[g] = files[g]
  BY <1>2, <1>3 DEF FilesInv
<1>6. CallShape'
  BY <1>1, <1>4 DEF TextInv, CallShape, Shaped
<1>7. ASSUME NEW d \in Calls, NEW q \in Patches,
             call'[d].pc = "write", call'[d].open = {q}, FileOf[q] \notin torn'
      PROVE  call'[d].text = files'[FileOf[q]] /\ ~OpenElsewhere(d, FileOf[q])'
  <2>1. /\ d # c /\ call[d].pc = "write" /\ call[d].open = {q} /\ FileOf[q] \notin torn
        /\ call'[d] = call[d]
    BY <1>3, <1>4, <1>7
  <2>2. call[d].text = files[FileOf[q]] /\ ~OpenElsewhere(d, FileOf[q])
    BY <2>1 DEF TextInv, TextFresh
  <2>3. FileOf[q] # f
    BY <1>1, <1>3, <2>1, <2>2 DEF OpenElsewhere
  <2>4. FileOf[q] \in Files
    BY DEF Files
  <2>5. ~OpenElsewhere(d, FileOf[q])'
    BY <1>4, <2>2 DEF OpenElsewhere
  <2> QED
    BY <1>5, <2>1, <2>2, <2>3, <2>4, <2>5
<1>8. TextFresh'
  BY <1>7, Zenon DEF TextFresh
<1>9. ASSUME NEW q \in Patches, q # p
      PROVE  (Named(q) \/ Pending(q))' = (Named(q) \/ Pending(q))
  <2>1. Named(q)' = Named(q)
    BY <1>3 DEF Named
  <2>2. \A d \in Calls : (Applying(d) /\ q \in Done(d))' = (Applying(d) /\ q \in Done(d))
    BY <1>3, <1>4, <1>9 DEF Applying, Done
  <2>3. Pending(q)' = Pending(q)
    BY <2>2 DEF Pending
  <2> QED
    BY <2>1, <2>3
<1>10. Pending(p)'
  <2>1. (Applying(c) /\ p \in Done(c))'
    BY <1>2, <1>4 DEF Applying, Done
  <2> QED
    BY <2>1 DEF Pending
<1>11. ASSUME NEW g \in Files \ torn
       PROVE  files'[g] = {q \in Patches : FileOf[q] = g /\ (Named(q) \/ Pending(q))'}
  <2>1. files[g] = {q \in Patches : FileOf[q] = g /\ (Named(q) \/ Pending(q))}
    BY DEF TextInv, FilesExplained
  <2>2. CASE g # f
    BY <1>5, <1>9, <2>1, <2>2
  <2>3. CASE g = f
    <3>1. call[c].text = files[g]
      BY <1>1, <1>2, <1>3, <2>3 DEF TextInv, TextFresh
    <3>2. files'[g] = files[g] \cup {p}
      BY <1>5, <2>3, <3>1
    <3> QED
      BY <1>2, <1>9, <1>10, <2>1, <2>3, <3>2
  <2> QED
    BY <2>2, <2>3
<1>12. FilesExplained'
  BY <1>3, <1>11 DEF FilesExplained
<1> QED
  BY <1>6, <1>8, <1>12 DEF TextInv

LEMMA InsertText ==
  ASSUME Inv, TextInv, NEW c \in Calls, InsertIteration(c)
  PROVE  TextInv'
<1> USE DEF Inv
<1>1. /\ call[c].pc = "patch" /\ call[c].todo = {}
      /\ \E new \in {NoCall, [NoCall EXCEPT !.pc = "verify", !.row = Len(iters) + 1]} :
             call' = [call EXCEPT ![c] = new]
      /\ UNCHANGED <<files, torn>>
  BY DEF InsertIteration
<1>2. /\ Shaped(call'[c]) /\ call'[c].pc \notin {"patch", "write"}
      /\ \A d \in Calls : d # c => call'[d] = call[d]
  <2>1. PICK new \in {NoCall, [NoCall EXCEPT !.pc = "verify", !.row = Len(iters) + 1]} :
            call' = [call EXCEPT ![c] = new]
    BY <1>1
  <2>2. call'[c] = new /\ \A d \in Calls : d # c => call'[d] = call[d]
    BY <2>1 DEF CallInv
  <2>3. new.todo = {} /\ new.pc \in {"idle", "verify"}
    <3>1. CASE new = NoCall
      BY <3>1 DEF NoCall
    <3>2. CASE new = [NoCall EXCEPT !.pc = "verify", !.row = Len(iters) + 1]
      BY <3>2 DEF NoCall
    <3> QED
      BY <3>1, <3>2
  <2>4. Shaped(new)
    BY <2>3 DEF Shaped
  <2> QED
    BY <2>2, <2>3, <2>4
<1>3. CallShape'
  BY <1>2 DEF TextInv, CallShape
<1>4. \A d \in Calls : (call'[d].pc = "write" \/ call[d].pc = "write") => call'[d] = call[d]
  BY <1>1, <1>2
<1>5. TextFresh'
  BY <1>1, <1>4 DEF TextInv, TextFresh, OpenElsewhere
<1>6. ASSUME NEW p \in Patches
      PROVE  (Named(p) \/ Pending(p))' = (Named(p) \/ Pending(p))
  <2>1. Named(p)' <=> Named(p) \/ p \in call[c].sel
    BY InsertedRow DEF Named
  <2>2. Pending(p) <=> Pending(p)' \/ p \in call[c].sel
    <3>1. Applying(c) /\ Done(c) = call[c].sel /\ ~Applying(c)'
      BY <1>1, <1>2 DEF Applying, Done
    <3>2. \A d \in Calls : d # c => (Applying(d) /\ p \in Done(d))' = (Applying(d) /\ p \in Done(d))
      BY <1>2 DEF Applying, Done
    <3> QED
      BY <3>1, <3>2 DEF Pending
  <2> QED
    BY <2>1, <2>2
<1>7. FilesExplained'
  BY <1>1, <1>6 DEF TextInv, FilesExplained
<1> QED
  BY <1>3, <1>5, <1>7 DEF TextInv

LEMMA TextStep == Inv /\ TextInv /\ [Next]_vars => TextInv'
<1> SUFFICES ASSUME Inv, TextInv, [Next]_vars
             PROVE  TextInv'
  OBVIOUS
<1> USE DEF Inv
<1>1. ASSUME UNCHANGED <<call, files, torn, iters>>
      PROVE  TextInv'
  BY <1>1, TextFrame DEF Named
<1>2. ASSUME NEW v \in Verifies, Poll(v)
      PROVE  TextInv'
  <2>1. CASE iters' = iters
    BY <1>1, <1>2, <2>1 DEF Poll
  <2>2. CASE iters' # iters
    <3>1. \A p \in Patches : Named(p)' = Named(p)
      BY <1>2, <2>2, JudgedRow DEF Named
    <3> QED
      BY <1>2, <3>1, TextFrame DEF Poll
  <2> QED
    BY <2>1, <2>2
<1>3. ASSUME NEW c \in Calls, NEW new \in Call, call' = [call EXCEPT ![c] = new],
             new.pc = "limit", new.todo = new.sel,
             call[c].pc = "idle", UNCHANGED <<iters, files, torn>>
      PROVE  TextInv'
  BY <1>3, QuietCall DEF Applying
<1>4. ASSUME NEW c \in Calls, NEW s \in Analyses, NEW sel \in Selections(s), Apply(c, s, sel)
      PROVE  TextInv'
  <2> DEFINE new == [NoCall EXCEPT !.pc = "limit", !.sug = s, !.sel = sel, !.todo = sel,
                                   !.auto = TRUE]
  <2>1. sel \subseteq Patches
    BY DEF Selections
  <2>2. new \in Call /\ new.pc = "limit" /\ new.todo = new.sel
    BY <2>1 DEF NoCall, Call, CallPc
  <2>3. call' = [call EXCEPT ![c] = new] /\ call[c].pc = "idle"
    BY <1>4 DEF Apply
  <2> HIDE DEF new
  <2> QED
    BY <1>3, <1>4, <2>2, <2>3 DEF Apply
<1>5. ASSUME NEW c \in Calls, NEW s \in Analyses, ApplyAll(c, s)
      PROVE  TextInv'
  <2> DEFINE new == [NoCall EXCEPT !.pc = "limit", !.sug = s, !.sel = PatchesOf[s],
                                   !.todo = PatchesOf[s]]
  <2>1. new \in Call /\ new.pc = "limit" /\ new.todo = new.sel
    BY DEF NoCall, Call, CallPc
  <2>2. call' = [call EXCEPT ![c] = new] /\ call[c].pc = "idle"
    BY <1>5 DEF ApplyAll
  <2> HIDE DEF new
  <2> QED
    BY <1>3, <1>5, <2>1, <2>2 DEF ApplyAll
<1>6. ASSUME NEW c \in Calls, ~Applying(c), UNCHANGED <<iters, files, torn>>,
             NEW new \in Call, call' = [call EXCEPT ![c] = new],
             new.pc \in {"idle", "verify"}, new.todo = {}
      PROVE  TextInv'
  BY <1>6, QuietCall
<1>7. NoCall \in Call /\ NoCall.pc = "idle" /\ NoCall.todo = {}
  BY NoCallTyped DEF NoCall
<1>8. ASSUME NEW c \in Calls, CheckLimit(c)
      PROVE  TextInv'
  <2>1. call[c].pc = "limit" /\ ~Applying(c) /\ UNCHANGED <<iters, files, torn>>
    BY <1>8 DEF CheckLimit, Applying
  <2>2. CASE LimitReached(Latest)
    BY <1>6, <1>7, <1>8, <2>1, <2>2 DEF CheckLimit
  <2>3. CASE ~LimitReached(Latest)
    <3> DEFINE new == [call[c] EXCEPT !.pc = "patch", !.latest = Latest]
    <3>1. new \in Call /\ new.pc = "patch" /\ new.todo = call[c].todo /\ new.sel = call[c].sel
      BY LatestIsLength DEF CallInv, Call, CallPc
    <3>2. call' = [call EXCEPT ![c] = new]
      BY <1>8, <2>3 DEF CheckLimit, CallInv
    <3>3. call[c].todo = call[c].sel
      BY <2>1 DEF TextInv, CallShape, Shaped
    <3> HIDE DEF new
    <3> QED
      BY <2>1, <3>1, <3>2, <3>3, QuietCall
  <2> QED
    BY <2>2, <2>3
<1>9. ASSUME NEW c \in Calls, VerifyRequest(c)
      PROVE  TextInv'
  <2> DEFINE new == [NoCall EXCEPT !.pc = "verify", !.row = Len(iters)]
  <2>1. new \in Call /\ new.pc = "verify" /\ new.todo = {}
    BY LenProperties DEF NoCall, Call, CallPc, RowsInv
  <2>2. call' = [call EXCEPT ![c] = new] /\ ~Applying(c) /\ UNCHANGED <<iters, files, torn>>
    BY <1>9 DEF VerifyRequest, Applying
  <2> HIDE DEF new
  <2> QED
    BY <1>6, <2>1, <2>2
<1>10. ASSUME NEW c \in Calls, VerifyThrows(c) \/ \E v \in Verifies : StartVerify(c, v)
       PROVE  TextInv'
  BY <1>6, <1>7, <1>10 DEF VerifyThrows, StartVerify, Applying
<1>11. ASSUME NEW c \in Calls, InsertRefused(c) \/ \E p \in Patches : PatchFails(c, p)
       PROVE  TextInv'
  <2>1. /\ call' = [d \in Calls |-> IF d \in {c} THEN NoCall ELSE call[d]]
        /\ torn' = torn \cup {FileOf[q] : q \in call[c].sel}
        /\ UNCHANGED <<iters, files>>
    BY <1>11 DEF InsertRefused, PatchFails, CallInv
  <2> DEFINE D == {c}
  <2>2. D \in SUBSET Calls /\ torn \subseteq torn'
        /\ \A d \in D : Applying(d) => {FileOf[q] : q \in call[d].sel} \subseteq torn'
    BY <2>1
  <2>3. call' = [d \in Calls |-> IF d \in D THEN NoCall ELSE call[d]]
    BY <2>1
  <2> HIDE DEF D
  <2> QED
    BY <2>1, <2>2, <2>3, CallsDropped
<1>12. CASE Crash
  <2> DEFINE D == {d \in Calls : call[d].pc \in {"patch", "write"}}
  <2>1. /\ call' = [d \in Calls |-> IF d \in Calls THEN NoCall ELSE call[d]]
        /\ torn' = torn \cup {FileOf[q] : q \in UNION {call[c].sel : c \in D}}
        /\ UNCHANGED <<iters, files>>
    BY <1>12 DEF Crash
  <2>2. \A c \in Calls : Applying(c) => {FileOf[q] : q \in call[c].sel} \subseteq torn'
    BY <2>1 DEF Applying
  <2> QED
    BY <2>1, <2>2, CallsDropped
<1> QED
  BY <1>1, <1>2, <1>4, <1>5, <1>8, <1>9, <1>10, <1>11, <1>12,
     ReadText, SkipText, WriteText, InsertText
  DEF Next, vars, StartAnalysis, AnalysisEnds, RunSettles, UserRun

\* Once no apply is under way, every file that no two applies had open together and no
\* failed apply touched is what the rows of the history make it.
THEOREM HistoryExplains == Spec => []HistoryExplainsFiles
<1>1. Init => Inv /\ TextInv
  BY InvInit, TextInit
<1>2. Inv /\ TextInv /\ [Next]_vars => (Inv /\ TextInv)'
  BY InvStep, TextStep
<1>3. TextInv => HistoryExplainsFiles
  BY DEF TextInv, FilesExplained, HistoryExplainsFiles, Pending, Applying, Named
<1> QED
  BY <1>1, <1>2, <1>3, PTL DEF Spec


-----------------------------------------------------------------------------
(* Types                                                                    *)

\* What the invariant above leaves out.
RunsTyped ==
    /\ run \in [Runs -> RunStatus] /\ red \subseteq Runs
    /\ slot \in Verifies \cup {NoRun} /\ torn \subseteq Files
    /\ poll \in [Verifies -> [row : Nat, left : 0..MaxPolls]]

LEMMA RunsInit == Init => RunsTyped
BY DEF Init, RunsTyped, Runs, RunStatus, Settled, NoPoll

LEMMA RunsStep ==
    ASSUME Inv, RunsTyped, [Next]_vars
    PROVE  RunsTyped'
<1>1. \A c \in Calls : call[c].sel \subseteq Patches /\ call[c].row \in Nat
  BY DEF Inv, CallInv, Call
<1>2. \A p \in Patches : FileOf[p] \in Files
  BY DEF Files
<1>3. ASSUME UNCHANGED <<run, red, slot, poll>>, torn' \subseteq Files
      PROVE  RunsTyped'
  BY <1>3 DEF RunsTyped
<1>4. ASSUME UNCHANGED torn, UNCHANGED <<run, red, slot, poll>>
      PROVE  RunsTyped'
  BY <1>3, <1>4 DEF RunsTyped
<1>5. ASSUME NEW c \in Calls, NEW p \in Patches, PatchRead(c, p) \/ PatchFails(c, p)
      PROVE  RunsTyped'
  BY <1>1, <1>2, <1>3, <1>5 DEF PatchRead, PatchFails, RunsTyped
<1>6. ASSUME NEW c \in Calls, InsertRefused(c)
      PROVE  RunsTyped'
  BY <1>1, <1>2, <1>3, <1>6 DEF InsertRefused, RunsTyped
<1>7. ASSUME NEW c \in Calls, NEW v \in Verifies, StartVerify(c, v)
      PROVE  RunsTyped'
  <2>1. [row |-> call[c].row, left |-> MaxPolls] \in [row : Nat, left : 0..MaxPolls]
    BY <1>1
  <2>2. run' \in [Runs -> RunStatus]
    BY <1>7 DEF StartVerify, RunsTyped, RunStatus
  <2>3. poll' \in [Verifies -> [row : Nat, left : 0..MaxPolls]]
    BY <1>7, <2>1 DEF StartVerify, RunsTyped
  <2> QED
    BY <1>7, <2>2, <2>3 DEF StartVerify, RunsTyped
<1>8. ASSUME NEW v \in Verifies, UserRun(v)
      PROVE  RunsTyped'
  BY <1>8 DEF UserRun, RunsTyped, RunStatus
<1>9. ASSUME NEW v \in Verifies, NEW st \in Settled, NEW failures \in BOOLEAN,
             RunSettles(v, st, failures)
      PROVE  RunsTyped'
  BY <1>9 DEF RunSettles, RunsTyped, RunStatus, Runs
<1>10. ASSUME NEW v \in Verifies, Poll(v)
       PROVE  RunsTyped'
  <2>1. poll[v].row \in Nat /\ poll[v].left \in 0..MaxPolls /\ poll[v].left > 0
    BY <1>10 DEF Poll, RunsTyped
  <2>2. [poll[v] EXCEPT !.left = @ - 1] \in [row : Nat, left : 0..MaxPolls]
    BY <2>1 DEF RunsTyped
  <2>3. NoPoll \in [row : Nat, left : 0..MaxPolls]
    BY DEF NoPoll
  <2>4. poll' \in [Verifies -> [row : Nat, left : 0..MaxPolls]]
    BY <1>10, <2>2, <2>3 DEF Poll, RunsTyped
  <2> QED
    BY <1>10, <2>4 DEF Poll, RunsTyped
<1>11. CASE Crash
  <2>1. poll' \in [Verifies -> [row : Nat, left : 0..MaxPolls]]
    BY <1>11 DEF Crash, NoPoll
  <2>2. torn' \subseteq Files
    BY <1>1, <1>2, <1>11 DEF Crash, RunsTyped
  <2> QED
    BY <1>11, <2>1, <2>2 DEF Crash, RunsTyped
<1>12. ASSUME NEW s \in Analyses, StartAnalysis(s) \/ AnalysisEnds(s)
       PROVE  RunsTyped'
  BY <1>4, <1>12 DEF StartAnalysis, AnalysisEnds
<1>13. ASSUME NEW c \in Calls, NEW s \in Analyses,
              ApplyAll(c, s) \/ \E sel \in Selections(s) : Apply(c, s, sel)
       PROVE  RunsTyped'
  BY <1>4, <1>13 DEF ApplyAll, Apply
<1>14. ASSUME NEW c \in Calls, \/ \E p \in Patches : PatchSkipped(c, p)
                               \/ CheckLimit(c) \/ PatchWrite(c) \/ InsertIteration(c)
                               \/ VerifyRequest(c) \/ VerifyThrows(c)
       PROVE  RunsTyped'
  BY <1>4, <1>14 DEF PatchSkipped, CheckLimit, PatchWrite, InsertIteration, VerifyRequest,
                     VerifyThrows
<1>15. CASE UNCHANGED vars
  BY <1>4, <1>15 DEF vars
<1> QED
  BY <1>5, <1>6, <1>7, <1>8, <1>9, <1>10, <1>11, <1>12, <1>13, <1>14, <1>15 DEF Next

\* Types of the runs, the rows of fix_iterations, the requests, the files and the pollers
\* (fix-service.ts, fix-apply-service.ts): no poller outlives its row or its limit.
THEOREM TypesHold == Spec => []TypeOK
<1>1. Inv /\ RunsTyped => TypeOK
  <2> SUFFICES ASSUME Inv, RunsTyped
               PROVE  poll \in [Verifies -> [row : 0..Len(iters), left : 0..MaxPolls]]
    BY DEF Inv, RunsTyped, RowsInv, CallInv, FilesInv, TypeOK
  <2>1. Len(iters) \in Nat
    BY LenProperties DEF Inv, RowsInv
  <2>2. \A v \in Verifies : poll[v] \in [row : 0..Len(iters), left : 0..MaxPolls]
    BY <2>1 DEF Inv, PollInv, RunsTyped
  <2> QED
    BY <2>2 DEF RunsTyped
<1>2. Init => Inv /\ RunsTyped
  BY InvInit, RunsInit
<1>3. Inv /\ RunsTyped /\ [Next]_vars => (Inv /\ RunsTyped)'
  BY InvStep, RunsStep
<1> QED
  BY <1>1, <1>2, <1>3, PTL DEF Spec

=============================================================================
