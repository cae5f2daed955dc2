--------------------------- MODULE RecorderProofs ---------------------------
(***************************************************************************)
(* Machine-checked theorems about Recorder, for every set of sessions,     *)
(* projects, modules, stop requests and editors, and every limit: a        *)
(* workflow row at 'recorded' has its file, what updates write back is a   *)
(* row, and containers, rows and the limits counted on rows agree.         *)
(***************************************************************************)
EXTENDS Recorder, FiniteSetTheorems, TLAPS

USE RecorderAssumption

-----------------------------------------------------------------------------
(* The workflow row                                                        *)

Fields == {"stage", "module", "recorded"}
\* What an update will write: the row it read with the patch over it.
Merge(u) == [f \in Fields |-> IF f \in DOMAIN u.patch THEN u.patch[f] ELSE u.read[f]]
Waits(u) == u \notin {NoUpdate, DidUpdate}
HasFiles(fs, p, r) == r["stage"] = "recorded" => <<p, r["recorded"]>> \in fs

\* The recordings there are or have been: a recording only goes as git takes it.
Seen == files \cup pulled

\* Every row, and every row an update under way will write, points at a recording
\* seen: a stale read is as good as a fresh one, since what was seen was seen.
RowsHaveFiles ==
    /\ row = [p \in Projects |-> row[p]]
    /\ \A p \in Projects : DOMAIN row[p] = Fields /\ HasFiles(Seen, p, row[p])
UpdatesHaveFiles ==
    /\ upd = [a \in Actors \cup Editors |-> upd[a]]
    /\ \A a \in Actors \cup Editors : Waits(upd[a]) =>
          upd[a].project \in Projects /\ HasFiles(Seen, upd[a].project, Merge(upd[a]))
FilesInv == RowsHaveFiles /\ UpdatesHaveFiles

LEMMA FilesInit == Init => FilesInv
<1> SUFFICES ASSUME Init PROVE FilesInv
    OBVIOUS
<1>1. RowsHaveFiles
    BY DEF Init, RowsHaveFiles, HasFiles, Fields
<1>2. UpdatesHaveFiles
    BY DEF Init, UpdatesHaveFiles, Waits
<1> QED
    BY <1>1, <1>2 DEF FilesInv

\* No row loses its recording as more are seen.
LEMMA FilesFrame ==
    ASSUME FilesInv, Seen \subseteq Seen', UNCHANGED <<row, upd>>
    PROVE  FilesInv'
<1>1. \A p, r : HasFiles(Seen, p, r) => HasFiles(Seen', p, r)
    BY DEF HasFiles
<1>2. RowsHaveFiles'
    BY <1>1 DEF FilesInv, RowsHaveFiles
<1>3. UpdatesHaveFiles'
    BY <1>1 DEF FilesInv, UpdatesHaveFiles
<1> QED
    BY <1>2, <1>3 DEF FilesInv

\* One update, or none, is another: the others still point at what was seen.
LEMMA UpdatesFrame ==
    ASSUME UpdatesHaveFiles, Seen \subseteq Seen',
           NEW a \in Actors \cup Editors, NEW v, upd' = [upd EXCEPT ![a] = v],
           Waits(v) => v.project \in Projects /\ HasFiles(Seen', v.project, Merge(v))
    PROVE  UpdatesHaveFiles'
<1>1. upd'[a] = v /\ \A b \in Actors \cup Editors : b # a => upd'[b] = upd[b]
    BY DEF UpdatesHaveFiles
<1>2. ASSUME NEW b \in Actors \cup Editors, Waits(upd'[b])
      PROVE  upd'[b].project \in Projects /\ HasFiles(Seen', upd'[b].project, Merge(upd'[b]))
    <2>1. CASE b = a
        BY <1>1, <1>2, <2>1
    <2>2. CASE b # a
        <3>1. /\ upd[b].project \in Projects
              /\ HasFiles(Seen, upd[b].project, Merge(upd[b]))
            BY <1>1, <1>2, <2>2 DEF UpdatesHaveFiles
        <3> QED
            BY <1>1, <2>2, <3>1 DEF HasFiles
    <2> QED
        BY <2>1, <2>2
<1>3. upd' = [b \in Actors \cup Editors |-> upd'[b]]
    BY DEF UpdatesHaveFiles
<1> QED
    BY <1>2, <1>3 DEF UpdatesHaveFiles, Waits, Merge

\* An update begins, or ends, and the row stays.
LEMMA UpdateChanges ==
    ASSUME FilesInv, Seen \subseteq Seen', row' = row,
           NEW a \in Actors \cup Editors, NEW v, upd' = [upd EXCEPT ![a] = v],
           Waits(v) => v.project \in Projects /\ HasFiles(Seen', v.project, Merge(v))
    PROVE  FilesInv'
<1>1. RowsHaveFiles'
    BY DEF FilesInv, RowsHaveFiles, HasFiles
<1>2. UpdatesHaveFiles'
    BY UpdatesFrame DEF FilesInv
<1> QED
    BY <1>1, <1>2 DEF FilesInv

\* The patches of update's callers: those that set the stage to recorded come with
\* a recording.
Honest(fs, p, patch) ==
    \/ "stage" \in DOMAIN patch /\ patch["stage"] = "other"
    \/ patch = <<>>
    \/ \E m \in Modules : patch = [module |-> m]
    \/ \E m \in Modules : <<p, m>> \in fs /\ patch = Recorded(m)

\* What update reads, with such a patch over it, points at a recording seen.
LEMMA PatchesHaveFiles ==
    ASSUME FilesInv, Seen \subseteq Seen', NEW p \in Projects, NEW patch,
           Honest(Seen', p, patch),
           NEW u, u = [project |-> p, patch |-> patch, read |-> row[p]]
    PROVE  u.project \in Projects /\ HasFiles(Seen', u.project, Merge(u))
<1>1. u.project = p /\ u.patch = patch /\ u.read = row[p]
    OBVIOUS
<1> DEFINE M == Merge(u)
<1>2. \A f \in Fields : M[f] = IF f \in DOMAIN patch THEN patch[f] ELSE row[p][f]
    BY <1>1 DEF Merge
<1>3. HasFiles(Seen, p, row[p])
    BY DEF FilesInv, RowsHaveFiles
<1> HIDE DEF M
<1>4. CASE "stage" \in DOMAIN patch /\ patch["stage"] = "other"
    <2>1. M["stage"] = "other"
        BY <1>2, <1>4 DEF Fields
    <2> QED
        BY <1>1, <2>1 DEF HasFiles, M
<1>5. CASE patch = <<>>
    <2>1. \A f \in Fields : M[f] = row[p][f]
        BY <1>2, <1>5 DEF Fields
    <2> QED
        BY <1>1, <1>3, <2>1 DEF HasFiles, M, Fields
<1>6. ASSUME NEW m \in Modules, <<p, m>> \in Seen', patch = Recorded(m)
      PROVE  HasFiles(Seen', p, M)
    <2>1. M["recorded"] = m
        BY <1>2, <1>6 DEF Fields, Recorded
    <2> QED
        BY <1>6, <2>1 DEF HasFiles
<1>7. ASSUME NEW m \in Modules, patch = [module |-> m]
      PROVE  HasFiles(Seen', p, M)
    <2>1. M["stage"] = row[p]["stage"] /\ M["recorded"] = row[p]["recorded"]
        BY <1>2, <1>7 DEF Fields
    <2> QED
        BY <1>3, <2>1 DEF HasFiles
<1> QED
    BY <1>1, <1>4, <1>5, <1>6, <1>7 DEF M, Honest

LEMMA MarkFiles ==
    ASSUME FilesInv, NEW a \in Actors, MarkRecorded(a), project[act[a].cur] \in Projects,
           module[act[a].cur] \in Modules
    PROVE  FilesInv'
<1> DEFINE s == act[a].cur
           u == [project |-> project[s], patch |-> Recorded(module[s]), read |-> row[project[s]]]
<1>1. CASE HasRecording(s)
    <2>1. upd' = [upd EXCEPT ![a] = u] /\ UNCHANGED <<files, pulled, row>>
        BY <1>1 DEF MarkRecorded, Reads
    <2>2. u.project \in Projects /\ HasFiles(Seen', u.project, Merge(u))
        <3>1. <<project[s], module[s]>> \in Seen' /\ Seen \subseteq Seen'
            BY <1>1, <2>1 DEF HasRecording, Seen
        <3> QED
            BY <2>1, <3>1, PatchesHaveFiles DEF Honest
    <2> HIDE DEF u
    <2> QED
        BY <2>1, <2>2, UpdateChanges DEF Seen
<1>2. CASE ~HasRecording(s)
    BY <1>2, FilesFrame DEF MarkRecorded, Seen
<1> QED
    BY <1>1, <1>2

LEMMA EditFiles ==
    ASSUME FilesInv, NEW e \in Editors, NEW p \in Projects, Edit(e, p)
    PROVE  FilesInv'
<1>1. PICK patch : Reads(e, p, patch) /\ Seen \subseteq Seen' /\ Honest(Seen', p, patch)
    <2>1. pulled' = pulled
        BY DEF Edit
    <2>2. ASSUME NEW patch \in {[stage |-> "other"], <<>>}, Reads(e, p, patch), UNCHANGED files
          PROVE  Seen \subseteq Seen' /\ Honest(Seen', p, patch)
        BY <2>1, <2>2 DEF Honest, Seen
    <2>3. ASSUME NEW m \in Modules, Reads(e, p, Recorded(m)), files' = files \cup {<<p, m>>}
          PROVE  Seen \subseteq Seen' /\ Honest(Seen', p, Recorded(m))
        BY <2>1, <2>3 DEF Honest, Seen
    <2>4. ASSUME NEW m \in Modules, NEW patch \in GenerationPatches(m), Reads(e, p, patch),
                 UNCHANGED files
          PROVE  Seen \subseteq Seen' /\ Honest(Seen', p, patch)
        BY <2>1, <2>4 DEF Honest, Seen, GenerationPatches, Recorded
    <2> QED
        BY <2>2, <2>3, <2>4, Zenon DEF Edit
<1> DEFINE u == [project |-> p, patch |-> patch, read |-> row[p]]
<1>2. upd' = [upd EXCEPT ![e] = u] /\ row' = row
    BY <1>1 DEF Reads, Edit
<1>3. u.project \in Projects /\ HasFiles(Seen', u.project, Merge(u))
    BY <1>1, PatchesHaveFiles
<1> HIDE DEF u
<1> QED
    BY <1>1, <1>2, <1>3, UpdateChanges

\* update's UPDATE puts the merged row in place.
LEMMA WriteFiles ==
    ASSUME FilesInv, NEW a \in Actors \cup Editors, Write(a)
    PROVE  FilesInv'
<1> DEFINE u == upd[a]
           p == u.project
           v == IF a \in Editors THEN DidUpdate ELSE NoUpdate
<1>1. Waits(u) /\ Seen' = Seen
    BY DEF Write, Waits, Seen
<1>2. p \in Projects /\ HasFiles(Seen, p, Merge(u))
    BY <1>1 DEF FilesInv, UpdatesHaveFiles
<1>3. row' = [row EXCEPT ![p] = Merge(u)]
    <2>1. row' = [row EXCEPT ![p] = [f \in DOMAIN row[p] |->
                      IF f \in DOMAIN u.patch THEN u.patch[f] ELSE u.read[f]]]
        BY DEF Write
    <2>2. DOMAIN row[p] = Fields
        BY <1>2 DEF FilesInv, RowsHaveFiles
    <2> QED
        BY <2>1, <2>2 DEF Merge
<1>4. RowsHaveFiles'
    <2>1. row' = [q \in Projects |-> row'[q]]
        BY <1>3 DEF FilesInv, RowsHaveFiles
    <2>2. ASSUME NEW q \in Projects
          PROVE  DOMAIN row'[q] = Fields /\ HasFiles(Seen', q, row'[q])
        <3>1. CASE q = p
            <4>1. row'[q] = Merge(u)
                BY <1>2, <1>3, <3>1 DEF FilesInv, RowsHaveFiles
            <4>2. DOMAIN Merge(u) = Fields
                BY DEF Merge
            <4> QED
                BY <1>1, <1>2, <3>1, <4>1, <4>2
        <3>2. CASE q # p
            <4>1. row'[q] = row[q]
                BY <1>3, <3>2 DEF FilesInv, RowsHaveFiles
            <4> QED
                BY <1>1, <4>1 DEF FilesInv, RowsHaveFiles
        <3> QED
            BY <3>1, <3>2
    <2> QED
        BY <2>1, <2>2 DEF RowsHaveFiles, HasFiles
<1>5. UpdatesHaveFiles'
    <2>1. upd' = [upd EXCEPT ![a] = v]
        BY DEF Write
    <2>2. ~Waits(v)
        BY DEF Waits
    <2> HIDE DEF v
    <2> QED
        BY <1>1, <2>1, <2>2, UpdatesFrame DEF FilesInv
<1> QED
    BY <1>4, <1>5 DEF FilesInv

LEMMA CrashFiles ==
    ASSUME FilesInv, Crash
    PROVE  FilesInv'
<1>1. Seen' = Seen /\ row' = row
    BY DEF Crash, Seen
<1>2. upd' = [a \in Actors \cup Editors |->
                IF a \in Editors /\ upd[a] # NoUpdate THEN DidUpdate ELSE NoUpdate]
    BY DEF Crash
<1>3. RowsHaveFiles'
    BY <1>1 DEF FilesInv, RowsHaveFiles, HasFiles
<1>4. UpdatesHaveFiles'
    BY <1>2 DEF UpdatesHaveFiles, Waits
<1> QED
    BY <1>3, <1>4 DEF FilesInv

-----------------------------------------------------------------------------
(* Containers and their rows                                                *)

\* The variables the proofs look into.
Typed ==
    /\ project \in [Sessions -> Projects]
    /\ module \in [Sessions -> Modules]
    /\ status \in [Sessions -> {"none", "active", "stopped"}]
    /\ idle \in SUBSET Sessions /\ up \in SUBSET Sessions
    /\ act \in [Actors -> Act]
    /\ lost \in SUBSET Sessions

\* A session that has a row has been through its start, and only such sessions are
\* visited by a loop; whoever is about to write 'stopped' has stopped the container.
RowMeansDone == \A s \in Sessions : status[s] # "none" => act[s].pc = "done"
Visited ==
    \A a \in Actors :
        /\ \A s \in act[a].todo : status[s] # "none"
        /\ act[a].cur # None => status[act[a].cur] # "none"
        /\ act[a].at # "none" => act[a].cur # None
        /\ act[a].at \in {"row", "mark", "write"} => act[a].cur \notin up \ lost
Container == Typed /\ RowMeansDone /\ Visited /\ ContainersAreKnown

USE DEF Actors

LEMMA ContainerInit == Init => Container
<1> SUFFICES ASSUME Init PROVE Container
    OBVIOUS
<1>1. Typed
    BY DEF Init, Typed, Act, NoAct
<1>2. RowMeansDone /\ Visited /\ ContainersAreKnown
    BY DEF Init, RowMeansDone, Visited, ContainersAreKnown, NoAct
<1> QED
    BY <1>1, <1>2 DEF Container

LEMMA GoesTyped ==
    ASSUME Typed, NEW a \in Actors, NEW todo \in SUBSET Sessions,
           NEW pc \in {"idle", "reconcile", "stop", "reconcileAll", "countProject",
                       "launch", "insert", "done"},
           Goes(a, pc, todo)
    PROVE  act' \in [Actors -> Act]
BY DEF Goes, Typed, Act

LEMMA TypedStep ==
    ASSUME Typed, Next
    PROVE  Typed'
<1> USE DEF Typed, Act
<1>1. ASSUME NEW s \in Sessions, Start(s) \/ ReadsOwn(s) \/ ReconcileAll(s) PROVE Typed'
    BY <1>1 DEF Start, ReadsOwn, ReconcileAll, Goes, Active, ActiveOf
<1>2. ASSUME NEW s \in Sessions, Reconcile(s) PROVE Typed'
    <2>1. PICK t \in act[s].todo :
              /\ act' = [act EXCEPT ![s] = [act[s] EXCEPT !.todo = act[s].todo \ {t}]]
              /\ status' \in {status, [status EXCEPT ![t] = "stopped"]}
              /\ idle' \subseteq idle /\ lost' \subseteq lost \cup {t}
        BY <1>2 DEF Reconcile
    <2>2. act[s].todo \subseteq Sessions /\ [act[s] EXCEPT !.todo = act[s].todo \ {t}] \in Act
        OBVIOUS
    <2>3. act' \in [Actors -> Act]
        BY <2>1, <2>2
    <2>4. status' \in [Sessions -> {"none", "active", "stopped"}]
        BY <2>1, <2>2
    <2>5. idle' \in SUBSET Sessions /\ lost' \in SUBSET Sessions
        BY <2>1, <2>2
    <2> QED
        BY <1>2, <2>3, <2>4, <2>5 DEF Reconcile
<1>3. ASSUME NEW s \in Sessions, CountGlobal(s) \/ CountProject(s) PROVE Typed'
    <2>1. \E pc \in {"done", "countProject", "launch"} : Goes(s, pc, {})
        BY <1>3 DEF CountGlobal, CountProject
    <2>2. act' \in [Actors -> Act]
        BY <2>1, GoesTyped
    <2>3. UNCHANGED <<project, module, status, idle, up, lost>>
        BY <1>3 DEF CountGlobal, CountProject
    <2> QED
        BY <2>2, <2>3
<1>4. ASSUME NEW s \in Sessions, Launch(s) \/ Insert(s) PROVE Typed'
    BY <1>4, SMTT(30) DEF Launch, Insert, Goes
<1>5. ASSUME NEW s \in Sessions, Records(s) \/ Exits(s) \/ Idles(s) \/ TouchSession(s)
      PROVE  Typed'
    BY <1>5 DEF Records, Exits, Idles, TouchSession
<1>6. ASSUME NEW s \in Sessions, NEW a \in Stoppers, Stop(a, s) PROVE Typed'
    <2>1. act' \in [Actors -> Act]
        BY <1>6, GoesTyped DEF Stop
    <2> QED
        BY <1>6, <2>1 DEF Stop
<1>7. ASSUME NEW a \in Actors, StopRead(a) PROVE Typed'
    <2>1. PICK s \in act[a].todo : act' = [act EXCEPT ![a] =
              IF AlreadyStopped(s) THEN [act[a] EXCEPT !.todo = act[a].todo \ {s}]
              ELSE [act[a] EXCEPT !.todo = act[a].todo \ {s}, !.cur = s, !.at = "container"]]
        BY <1>7 DEF StopRead
    <2>2. s \in Sessions /\ act[a] \in Act /\ act[a].todo \subseteq Sessions
        OBVIOUS
    <2>3. [act[a] EXCEPT !.todo = act[a].todo \ {s}] \in Act
        BY <2>2
    <2>4. [act[a] EXCEPT !.todo = act[a].todo \ {s}, !.cur = s, !.at = "container"] \in Act
        BY <2>2
    <2>5. act' \in [Actors -> Act]
        BY <2>1, <2>3, <2>4
    <2> QED
        BY <1>7, <2>5 DEF StopRead
<1>8. ASSUME NEW a \in Actors, StopsContainer(a) PROVE Typed'
    BY <1>8 DEF StopsContainer, StopContainer
<1>9. ASSUME NEW a \in Actors, StopRow(a) PROVE Typed'
    BY <1>9 DEF StopRow, Stopped
<1>10. ASSUME NEW a \in Actors, MarkRecorded(a) PROVE Typed'
    BY <1>10 DEF MarkRecorded, Stopped
<1>11. ASSUME NEW a \in Actors \cup Editors, Write(a) PROVE Typed'
    BY <1>11 DEF Write, Stopped
<1>12. ASSUME NEW e \in Editors, NEW p \in Projects, Edit(e, p) PROVE Typed'
    BY <1>12 DEF Edit
<1>13. CASE CleanupIdle
    <2>1. act' \in [Actors -> Act]
        BY <1>13, GoesTyped DEF CleanupIdle, Active
    <2> QED
        BY <1>13, <2>1 DEF CleanupIdle
<1>14. CASE Crash
    BY <1>14 DEF Crash, NoAct
<1>15. ASSUME NEW p \in Projects, NEW m \in Modules, Syncs(p, m) PROVE Typed'
    BY <1>15 DEF Syncs
<1> QED
    BY <1>1, <1>2, <1>3, <1>4, <1>5, <1>6, <1>7, <1>8, <1>9, <1>10, <1>11, <1>12, <1>13,
       <1>14, <1>15, Zenon DEF Next

\* A step that leaves rows and containers alone and moves one request: what its
\* loop has left has rows, and it is still a start if it was.
LEMMA Moves ==
    ASSUME Container, UNCHANGED <<status, up, lost>>, NEW a \in Actors,
           \A b \in Actors \ {a} : act'[b] = act[b],
           \A s \in act'[a].todo : status[s] # "none",
           act'[a].cur # None => status[act'[a].cur] # "none",
           act'[a].at # "none" => act'[a].cur # None,
           act'[a].at \in {"row", "mark", "write"} => act'[a].cur \notin up \ lost,
           a \in Sessions => /\ status[a] # "none" => act'[a].pc = "done"
                             /\ act[a].pc = "insert" => act'[a].pc = "insert"
    PROVE  RowMeansDone' /\ Visited' /\ ContainersAreKnown'
<1>1. RowMeansDone'
    BY DEF Container, RowMeansDone
<1>2. Visited'
    <2>1. ASSUME NEW b \in Actors
          PROVE  /\ \A s \in act'[b].todo : status[s] # "none"
                 /\ act'[b].cur # None => status[act'[b].cur] # "none"
                 /\ act'[b].at # "none" => act'[b].cur # None
                 /\ act'[b].at \in {"row", "mark", "write"} => act'[b].cur \notin up \ lost
        BY DEF Container, Visited
    <2> QED
        BY <2>1 DEF Visited
<1>3. ContainersAreKnown'
    BY DEF Container, ContainersAreKnown, Typed
<1> QED
    BY <1>1, <1>2, <1>3

LEMMA GoesMoves ==
    ASSUME Container, UNCHANGED <<status, up, lost>>, NEW a \in Actors,
           NEW pc, NEW todo, Goes(a, pc, todo),
           \A s \in todo : status[s] # "none",
           a \in Sessions => (status[a] # "none" => pc = "done") /\ act[a].pc # "insert"
    PROVE  RowMeansDone' /\ Visited' /\ ContainersAreKnown'
<1>1. /\ \A b \in Actors \ {a} : act'[b] = act[b]
      /\ act'[a].pc = pc /\ act'[a].todo = todo
      /\ act'[a].cur = act[a].cur /\ act'[a].at = act[a].at
    BY DEF Goes, Container, Typed, Act
<1>2. /\ act[a].cur # None => status[act[a].cur] # "none"
      /\ act[a].at # "none" => act[a].cur # None
      /\ act[a].at \in {"row", "mark", "write"} => act[a].cur \notin up \ lost
    BY DEF Container, Visited
<1>3. /\ \A s \in act'[a].todo : status[s] # "none"
      /\ act'[a].cur # None => status[act'[a].cur] # "none"
      /\ act'[a].at # "none" => act'[a].cur # None
      /\ act'[a].at \in {"row", "mark", "write"} => act'[a].cur \notin up \ lost
      /\ a \in Sessions => /\ status[a] # "none" => act'[a].pc = "done"
                           /\ act[a].pc = "insert" => act'[a].pc = "insert"
    BY <1>1, <1>2
<1> QED
    BY <1>1, <1>3, Moves, Zenon

LEMMA StoppedMoves ==
    ASSUME Container, UNCHANGED <<status, up, lost>>, NEW a \in Actors, Stopped(a)
    PROVE  RowMeansDone' /\ Visited' /\ ContainersAreKnown'
<1>1. /\ \A b \in Actors \ {a} : act'[b] = act[b]
      /\ act'[a].pc = act[a].pc /\ act'[a].todo = act[a].todo
      /\ act'[a].cur = None /\ act'[a].at = "none"
    BY DEF Stopped, Container, Typed, Act
<1>2. \A s \in act[a].todo : status[s] # "none"
    BY DEF Container, Visited
<1>3. a \in Sessions /\ status[a] # "none" => act[a].pc = "done"
    BY DEF Container, RowMeansDone
<1>4. /\ \A s \in act'[a].todo : status[s] # "none"
      /\ act'[a].cur # None => status[act'[a].cur] # "none"
      /\ act'[a].at # "none" => act'[a].cur # None
      /\ act'[a].at \in {"row", "mark", "write"} => act'[a].cur \notin up \ lost
      /\ a \in Sessions => /\ status[a] # "none" => act'[a].pc = "done"
                           /\ act[a].pc = "insert" => act'[a].pc = "insert"
    BY <1>1, <1>2, <1>3
<1> QED
    BY <1>1, <1>4, Moves, Zenon

\* A start has no row before it inserts one.
LEMMA StartHasNoRow ==
    ASSUME Container, NEW s \in Sessions, act[s].pc # "done"
    PROVE  status[s] = "none"
BY DEF Container, RowMeansDone, Typed

LEMMA StartStep ==
    ASSUME Container, NEW s \in Sessions,
           Start(s) \/ ReadsOwn(s) \/ ReconcileAll(s) \/ CountGlobal(s) \/ CountProject(s)
    PROVE  RowMeansDone' /\ Visited' /\ ContainersAreKnown'
<1>1. PICK pc, todo : Goes(s, pc, todo) /\ todo \subseteq Active
    <2>1. {} \subseteq Active /\ ActiveOf(project[s]) \subseteq Active
        BY DEF ActiveOf
    <2>2. CASE Start(s) \/ ReadsOwn(s) \/ ReconcileAll(s)
        BY <2>1, <2>2, Zenon DEF Start, ReadsOwn, ReconcileAll
    <2>3. CASE CountGlobal(s) \/ CountProject(s)
        BY <2>1, <2>3, Zenon DEF CountGlobal, CountProject
    <2> QED
        BY <2>2, <2>3
<1>2. \A t \in todo : status[t] # "none"
    BY <1>1 DEF Active
<1>3. act[s].pc \notin {"done", "insert"} /\ UNCHANGED <<status, up, lost>>
    BY DEF Start, ReadsOwn, ReconcileAll, CountGlobal, CountProject
<1>4. /\ s \in Actors
      /\ s \in Sessions => (status[s] # "none" => pc = "done") /\ act[s].pc # "insert"
    BY <1>3, StartHasNoRow
<1> QED
    BY <1>1, <1>2, <1>3, <1>4, GoesMoves, Zenon

LEMMA ReconcileStep ==
    ASSUME Container, NEW s \in Sessions, Reconcile(s)
    PROVE  RowMeansDone' /\ Visited' /\ ContainersAreKnown'
<1>1. PICK t \in act[s].todo :
          /\ act' = [act EXCEPT ![s].todo = @ \ {t}]
          /\ \/ t \in up /\ UNCHANGED <<status, lost>>
             \/ status' = [status EXCEPT ![t] = "stopped"] /\ lost' = lost \cup ({t} \cap up)
    BY DEF Reconcile
<1>2. /\ \A b \in Actors \ {s} : act'[b] = act[b]
      /\ act'[s].pc = act[s].pc /\ act'[s].todo \subseteq act[s].todo
      /\ act'[s].cur = act[s].cur /\ act'[s].at = act[s].at
    BY <1>1 DEF Container, Typed, Act
<1>3. t \in Sessions /\ status[t] # "none"
    BY <1>1 DEF Container, Visited, Typed, Act
<1>4. up' = up
    BY DEF Reconcile
<1>5. /\ lost \subseteq lost' /\ lost' \subseteq lost \cup {t}
      /\ \A x \in Sessions : x # t => status'[x] = status[x]
      /\ status'[t] # "none"
      /\ status'[t] = status[t] \/ t \notin up \ lost'
    BY <1>1, <1>3 DEF Container, Typed
<1>6. RowMeansDone'
    BY <1>2, <1>3, <1>5 DEF Container, RowMeansDone
<1>7. Visited'
    <2>1. ASSUME NEW b \in Actors
          PROVE  /\ \A x \in act'[b].todo : status'[x] # "none"
                 /\ act'[b].cur # None => status'[act'[b].cur] # "none"
                 /\ act'[b].at # "none" => act'[b].cur # None
                 /\ act'[b].at \in {"row", "mark", "write"} => act'[b].cur \notin up' \ lost'
        <3>1. /\ act'[b].todo \subseteq act[b].todo /\ act[b].todo \subseteq Sessions
              /\ act'[b].cur = act[b].cur /\ act'[b].at = act[b].at
              /\ act[b].cur \in Sessions \cup {None}
            BY <1>2 DEF Container, Typed, Act
        <3> QED
            BY <1>4, <1>5, <3>1 DEF Container, Visited
    <2> QED
        BY <2>1 DEF Visited
<1>8. ContainersAreKnown'
    BY <1>2, <1>4, <1>5 DEF Container, ContainersAreKnown, Typed
<1> QED
    BY <1>6, <1>7, <1>8

LEMMA LaunchStep ==
    ASSUME Container, NEW s \in Sessions, Launch(s)
    PROVE  RowMeansDone' /\ Visited' /\ ContainersAreKnown'
<1>1. PICK pc \in {"insert", "done"} :
          /\ Goes(s, pc, {})
          /\ \A x \in Sessions : x # s => (x \in up' \ lost' <=> x \in up \ lost)
          /\ pc = "insert" \/ (s \in up' \ lost' => s \in up \ lost)
    <2>1. CASE /\ up' = up \cup {s} /\ lost' = lost /\ Goes(s, "insert", {})
        BY <2>1
    <2>2. CASE /\ UNCHANGED <<up, lost>> /\ Goes(s, "done", {})
        BY <2>2
    <2>3. CASE /\ up' = up \cup {s} /\ lost' = lost \cup {s} /\ Goes(s, "done", {})
        BY <2>3
    <2> QED
        BY <2>1, <2>2, <2>3 DEF Launch
<1>2. /\ \A b \in Actors \ {s} : act'[b] = act[b]
      /\ act'[s].pc = pc /\ act'[s].todo = {}
      /\ act'[s].cur = act[s].cur /\ act'[s].at = act[s].at
    BY <1>1 DEF Goes, Container, Typed, Act
<1>3. status' = status /\ act[s].pc = "launch" /\ status[s] = "none"
    BY StartHasNoRow DEF Launch
<1>4. RowMeansDone'
    BY <1>2, <1>3 DEF Container, RowMeansDone
<1>5. Visited'
    <2>1. ASSUME NEW b \in Actors
          PROVE  /\ \A x \in act'[b].todo : status'[x] # "none"
                 /\ act'[b].cur # None => status'[act'[b].cur] # "none"
                 /\ act'[b].at # "none" => act'[b].cur # None
                 /\ act'[b].at \in {"row", "mark", "write"} => act'[b].cur \notin up' \ lost'
        <3>1. /\ act'[b].todo \subseteq act[b].todo
              /\ act'[b].cur = act[b].cur /\ act'[b].at = act[b].at
            BY <1>2
        <3>2. /\ act[b].cur # None => act[b].cur \in Sessions \ {s}
              /\ act[b].at \in {"row", "mark", "write"} => act[b].cur # None
            BY <1>3 DEF Container, Visited, Typed, Act
        <3> QED
            BY <1>1, <1>3, <3>1, <3>2 DEF Container, Visited
    <2> QED
        BY <2>1 DEF Visited
<1>6. ContainersAreKnown'
    <2>1. ASSUME NEW x \in up' \ lost'
          PROVE  status'[x] = "active" \/ act'[x].pc = "insert"
        <3>1. x \in Sessions
            BY DEF Container, Typed, Launch
        <3>2. CASE x = s
            BY <1>1, <1>2, <1>3, <3>2 DEF Container, ContainersAreKnown
        <3>3. CASE x # s
            BY <1>1, <1>2, <1>3, <3>1, <3>3 DEF Container, ContainersAreKnown
        <3> QED
            BY <3>2, <3>3
    <2> QED
        BY <2>1 DEF ContainersAreKnown
<1> QED
    BY <1>4, <1>5, <1>6

LEMMA InsertStep ==
    ASSUME Container, NEW s \in Sessions, Insert(s)
    PROVE  RowMeansDone' /\ Visited' /\ ContainersAreKnown'
<1>1. /\ Goes(s, "done", {}) /\ up' = up
      /\ lost \subseteq lost' /\ lost' \subseteq lost \cup {s}
      /\ \A x \in Sessions : x # s => status'[x] = status[x]
      /\ status'[s] = "active" \/ (status' = status /\ s \notin up' \ lost')
    BY DEF Insert, Container, Typed
<1>2. /\ \A b \in Actors \ {s} : act'[b] = act[b]
      /\ act'[s].pc = "done" /\ act'[s].todo = {}
      /\ act'[s].cur = act[s].cur /\ act'[s].at = act[s].at
    BY <1>1 DEF Goes, Container, Typed, Act
<1>3. status[s] = "none"
    BY StartHasNoRow DEF Insert
<1>4. RowMeansDone'
    BY <1>1, <1>2, <1>3 DEF Container, RowMeansDone
<1>5. Visited'
    <2>1. ASSUME NEW b \in Actors
          PROVE  /\ \A x \in act'[b].todo : status'[x] # "none"
                 /\ act'[b].cur # None => status'[act'[b].cur] # "none"
                 /\ act'[b].at # "none" => act'[b].cur # None
                 /\ act'[b].at \in {"row", "mark", "write"} => act'[b].cur \notin up' \ lost'
        <3>1. /\ act'[b].todo \subseteq act[b].todo
              /\ act'[b].cur = act[b].cur /\ act'[b].at = act[b].at
            BY <1>2
        <3>2. /\ act[b].cur # None => act[b].cur \in Sessions \ {s}
              /\ act[b].todo \subseteq Sessions \ {s}
            BY <1>3 DEF Container, Visited, Typed, Act
        <3>3. /\ \A x \in act[b].todo : status[x] # "none"
              /\ act[b].cur # None => status[act[b].cur] # "none"
              /\ act[b].at # "none" => act[b].cur # None
              /\ act[b].at \in {"row", "mark", "write"} => act[b].cur \notin up \ lost
            BY DEF Container, Visited
        <3> QED
            BY <1>1, <3>1, <3>2, <3>3
    <2> QED
        BY <2>1 DEF Visited
<1>6. ContainersAreKnown'
    <2>1. ASSUME NEW x \in up' \ lost'
          PROVE  status'[x] = "active" \/ act'[x].pc = "insert"
        <3>1. x \in Sessions /\ x \in up \ lost
            BY <1>1 DEF Container, Typed
        <3>2. CASE x = s
            BY <1>1, <3>2
        <3>3. CASE x # s
            BY <1>1, <1>2, <3>1, <3>3 DEF Container, ContainersAreKnown
        <3> QED
            BY <3>2, <3>3
    <2> QED
        BY <2>1 DEF ContainersAreKnown
<1> QED
    BY <1>4, <1>5, <1>6

LEMMA StopReadStep ==
    ASSUME Container, NEW a \in Actors, StopRead(a)
    PROVE  RowMeansDone' /\ Visited' /\ ContainersAreKnown'
<1>1. PICK s \in act[a].todo : act' = [act EXCEPT ![a] =
          IF AlreadyStopped(s) THEN [act[a] EXCEPT !.todo = act[a].todo \ {s}]
          ELSE [act[a] EXCEPT !.todo = act[a].todo \ {s}, !.cur = s, !.at = "container"]]
    BY DEF StopRead
<1>2. act[a] \in Act /\ act = [b \in Actors |-> act[b]]
    BY DEF Container, Typed
<1>3. /\ \A b \in Actors \ {a} : act'[b] = act[b]
      /\ act'[a].pc = act[a].pc /\ act'[a].todo \subseteq act[a].todo
      /\ \/ act'[a].cur = act[a].cur /\ act'[a].at = act[a].at
         \/ act'[a].cur = s /\ act'[a].at = "container"
    BY <1>1, <1>2 DEF Act
<1>4. s \in Sessions
    BY <1>2 DEF Act
<1>5. /\ \A x \in act[a].todo : status[x] # "none"
      /\ act[a].cur # None => status[act[a].cur] # "none"
      /\ act[a].at # "none" => act[a].cur # None
      /\ act[a].at \in {"row", "mark", "write"} => act[a].cur \notin up \ lost
      /\ a \in Sessions /\ status[a] # "none" => act[a].pc = "done"
    BY DEF Container, Visited, RowMeansDone
<1>6. /\ \A x \in act'[a].todo : status[x] # "none"
      /\ act'[a].cur # None => status[act'[a].cur] # "none"
      /\ act'[a].at # "none" => act'[a].cur # None
      /\ act'[a].at \in {"row", "mark", "write"} => act'[a].cur \notin up \ lost
      /\ a \in Sessions => /\ status[a] # "none" => act'[a].pc = "done"
                           /\ act[a].pc = "insert" => act'[a].pc = "insert"
    BY <1>3, <1>4, <1>5
<1>7. UNCHANGED <<status, up, lost>>
    BY DEF StopRead
<1> QED
    BY <1>3, <1>6, <1>7, Moves, Zenon

\* From here on the session's container is gone, or counted as lost.
LEMMA StopsContainerStep ==
    ASSUME Container, NEW a \in Actors, StopsContainer(a)
    PROVE  RowMeansDone' /\ Visited' /\ ContainersAreKnown'
<1> DEFINE s == act[a].cur
<1>1. /\ status' = status
      /\ \A x : x # s => (x \in up' \ lost' <=> x \in up \ lost)
      /\ s \notin up' \ lost'
    BY DEF StopsContainer, StopContainer
<1>2. /\ \A b \in Actors \ {a} : act'[b] = act[b]
      /\ act'[a].pc = act[a].pc /\ act'[a].todo = act[a].todo
      /\ act'[a].cur = s /\ act'[a].at = "row"
    BY DEF StopsContainer, StopContainer, Container, Typed, Act
<1>3. s # None /\ act[a].at = "container"
    BY DEF StopsContainer, StopContainer, Container, Visited
<1> HIDE DEF s
<1>4. RowMeansDone'
    BY <1>1, <1>2 DEF Container, RowMeansDone
<1>5. Visited'
    <2>1. ASSUME NEW b \in Actors
          PROVE  /\ \A x \in act'[b].todo : status'[x] # "none"
                 /\ act'[b].cur # None => status'[act'[b].cur] # "none"
                 /\ act'[b].at # "none" => act'[b].cur # None
                 /\ act'[b].at \in {"row", "mark", "write"} => act'[b].cur \notin up' \ lost'
        <3>1. /\ act'[b].todo = act[b].todo /\ act'[b].cur = act[b].cur
              /\ b # a => act'[b].at = act[b].at
              /\ b = a => act[b].cur = s
            BY <1>2 DEF s
        <3> QED
            BY <1>1, <1>3, <3>1 DEF Container, Visited
    <2> QED
        BY <2>1 DEF Visited
<1>6. ContainersAreKnown'
    <2>1. ASSUME NEW x \in up' \ lost'
          PROVE  status'[x] = "active" \/ act'[x].pc = "insert"
        <3>1. x # s /\ x \in up \ lost /\ x \in Sessions
            BY <1>1 DEF Container, Typed
        <3> QED
            BY <1>1, <1>2, <3>1 DEF Container, ContainersAreKnown
    <2> QED
        BY <2>1 DEF ContainersAreKnown
<1> QED
    BY <1>4, <1>5, <1>6

LEMMA StopRowStep ==
    ASSUME Container, NEW a \in Actors, StopRow(a)
    PROVE  RowMeansDone' /\ Visited' /\ ContainersAreKnown'
<1> DEFINE s == act[a].cur
<1>1. CASE Stopped(a) /\ UNCHANGED status
    BY <1>1, StoppedMoves DEF StopRow
<1>2. CASE status' = [status EXCEPT ![s] = "stopped"] /\ act' = [act EXCEPT ![a].at = "mark"]
    <2>1. s \in Sessions /\ status[s] # "none" /\ s \notin up \ lost
        BY DEF StopRow, Container, Visited, Typed, Act
    <2>2. /\ \A b \in Actors \ {a} : act'[b] = act[b]
          /\ act'[a].pc = act[a].pc /\ act'[a].todo = act[a].todo
          /\ act'[a].cur = s /\ act'[a].at = "mark"
        BY <1>2 DEF Container, Typed, Act
    <2>3. /\ \A x \in Sessions : x # s => status'[x] = status[x]
          /\ status'[s] # "none" /\ up' = up /\ lost' = lost
        BY <1>2, <2>1 DEF Container, Typed, StopRow
    <2> HIDE DEF s
    <2>4. RowMeansDone'
        BY <2>1, <2>2, <2>3 DEF Container, RowMeansDone
    <2>5. Visited'
        <3>1. ASSUME NEW b \in Actors
              PROVE  /\ \A x \in act'[b].todo : status'[x] # "none"
                     /\ act'[b].cur # None => status'[act'[b].cur] # "none"
                     /\ act'[b].at # "none" => act'[b].cur # None
                     /\ act'[b].at \in {"row", "mark", "write"} => act'[b].cur \notin up' \ lost'
            <4>1. /\ act'[b].todo = act[b].todo /\ act'[b].cur = act[b].cur
                  /\ b # a => act'[b].at = act[b].at
                  /\ b = a => act[b].cur = s
                  /\ act[b].todo \subseteq Sessions /\ act[b].cur \in Sessions \cup {None}
                BY <2>2 DEF s, Container, Typed, Act
            <4> QED
                BY <2>1, <2>3, <4>1 DEF Container, Visited
        <3> QED
            BY <3>1 DEF Visited
    <2>6. ContainersAreKnown'
        <3>1. ASSUME NEW x \in up' \ lost'
              PROVE  status'[x] = "active" \/ act'[x].pc = "insert"
            <4>1. x # s /\ x \in up \ lost /\ x \in Sessions
                BY <2>1, <2>3 DEF Container, Typed
            <4> QED
                BY <2>2, <2>3, <4>1 DEF Container, ContainersAreKnown
        <3> QED
            BY <3>1 DEF ContainersAreKnown
    <2> QED
        BY <2>4, <2>5, <2>6
<1> QED
    BY <1>1, <1>2 DEF StopRow

LEMMA ContainerStep ==
    ASSUME Container, Next
    PROVE  Container'
<1> DEFINE G == RowMeansDone' /\ Visited' /\ ContainersAreKnown'
<1>1. ASSUME NEW s \in Sessions,
             Start(s) \/ ReadsOwn(s) \/ ReconcileAll(s) \/ CountGlobal(s) \/ CountProject(s)
      PROVE  G
    BY <1>1, StartStep
<1>2. ASSUME NEW s \in Sessions, Reconcile(s) \/ Launch(s) \/ Insert(s)
      PROVE  G
    BY <1>2, ReconcileStep, LaunchStep, InsertStep
<1>3. ASSUME NEW s \in Sessions, Records(s) \/ Exits(s) \/ Idles(s) \/ TouchSession(s)
      PROVE  G
    <2>1. act' = act /\ status' = status /\ up' \ lost' \subseteq up \ lost
        BY <1>3 DEF Records, Exits, Idles, TouchSession
    <2> QED
        BY <2>1 DEF Container, RowMeansDone, Visited, ContainersAreKnown
<1>4. ASSUME NEW s \in Sessions, NEW a \in Stoppers, Stop(a, s)
      PROVE  G
    <2>1. Goes(a, "stop", {s}) /\ UNCHANGED <<status, up, lost>> /\ \A x \in {s} : status[x] # "none"
        BY <1>4 DEF Stop
    <2>2. a \in Actors /\ a \notin Sessions
        OBVIOUS
    <2> QED
        BY <2>1, <2>2, GoesMoves, Zenon
<1>5. ASSUME NEW a \in Actors, StopRead(a) \/ StopsContainer(a) \/ StopRow(a)
      PROVE  G
    BY <1>5, StopReadStep, StopsContainerStep, StopRowStep
<1>6. ASSUME NEW a \in Actors, MarkRecorded(a)
      PROVE  G
    <2>1. UNCHANGED <<status, up, lost>>
        BY <1>6 DEF MarkRecorded
    <2>2. CASE Stopped(a)
        BY <2>1, <2>2, StoppedMoves
    <2>3. CASE act[a].at = "mark" /\ act' = [act EXCEPT ![a].at = "write"]
        <3>1. /\ \A b \in Actors \ {a} : act'[b] = act[b]
              /\ act'[a].pc = act[a].pc /\ act'[a].todo = act[a].todo
              /\ act'[a].cur = act[a].cur /\ act'[a].at = "write"
            BY <2>3 DEF Container, Typed, Act
        <3>2. /\ \A x \in act[a].todo : status[x] # "none"
              /\ act[a].cur # None /\ status[act[a].cur] # "none"
              /\ act[a].cur \notin up \ lost
              /\ a \in Sessions /\ status[a] # "none" => act[a].pc = "done"
            BY <2>3 DEF Container, Visited, RowMeansDone
        <3>3. /\ \A x \in act'[a].todo : status[x] # "none"
              /\ act'[a].cur # None => status[act'[a].cur] # "none"
              /\ act'[a].at # "none" => act'[a].cur # None
              /\ act'[a].at \in {"row", "mark", "write"} => act'[a].cur \notin up \ lost
              /\ a \in Sessions => /\ status[a] # "none" => act'[a].pc = "done"
                                   /\ act[a].pc = "insert" => act'[a].pc = "insert"
            BY <3>1, <3>2
        <3> QED
            BY <2>1, <3>1, <3>3, Moves, Zenon
    <2> QED
        BY <1>6, <2>2, <2>3 DEF MarkRecorded
<1>7. ASSUME NEW a \in Actors \cup Editors, Write(a)
      PROVE  G
    <2>1. UNCHANGED <<status, up, lost>>
        BY <1>7 DEF Write
    <2>2. CASE a \in Actors
        <3>1. Stopped(a)
            BY <1>7, <2>2 DEF Write
        <3> QED
            BY <2>1, <2>2, <3>1, StoppedMoves
    <2>3. CASE a \notin Actors
        <3>1. act' = act
            BY <1>7, <2>3 DEF Write
        <3> QED
            BY <2>1, <3>1 DEF Container, RowMeansDone, Visited, ContainersAreKnown
    <2> QED
        BY <2>2, <2>3
<1>8. ASSUME NEW e \in Editors, NEW p \in Projects, Edit(e, p)
      PROVE  G
    <2>1. UNCHANGED <<status, up, lost, act>>
        BY <1>8 DEF Edit
    <2> QED
        BY <2>1 DEF Container, RowMeansDone, Visited, ContainersAreKnown
<1>9. ASSUME CleanupIdle PROVE G
    <2>1. /\ Goes(Cleaner, "stop", Active \cap idle) /\ UNCHANGED <<status, up, lost>>
          /\ \A x \in Active \cap idle : status[x] # "none"
        BY <1>9 DEF CleanupIdle, Active
    <2>2. Cleaner \in Actors /\ Cleaner \notin Sessions
        OBVIOUS
    <2> QED
        BY <2>1, <2>2, GoesMoves, Zenon
<1>10. ASSUME Crash PROVE G
    <2>1. /\ UNCHANGED <<status, up>>
          /\ lost' = lost \cup {s \in up : act[s].pc = "insert"}
        BY <1>10 DEF Crash
    <2>2. \A a \in Actors :
              /\ act'[a].todo = {} /\ act'[a].cur = None /\ act'[a].at = "none"
              /\ a \in Sessions /\ act[a].pc # "idle" => act'[a].pc = "done"
        BY <1>10 DEF Crash, NoAct
    <2>3. RowMeansDone'
        BY <2>1, <2>2 DEF Container, RowMeansDone
    <2>4. Visited'
        BY <2>2 DEF Visited
    <2>5. ContainersAreKnown'
        BY <2>1, <2>2 DEF Container, ContainersAreKnown
    <2> QED
        BY <2>3, <2>4, <2>5
<1>11. ASSUME NEW p \in Projects, NEW m \in Modules, Syncs(p, m)
       PROVE  G
    <2>1. UNCHANGED <<status, up, lost, act>>
        BY <1>11 DEF Syncs
    <2> QED
        BY <2>1 DEF Container, RowMeansDone, Visited, ContainersAreKnown
<1>12. G
    BY <1>1, <1>2, <1>3, <1>4, <1>5, <1>6, <1>7, <1>8, <1>9, <1>10, <1>11, Zenon DEF Next
<1> QED
    BY <1>12, TypedStep DEF Container

\* The whole of it, over the run of the program.
LEMMA ContainerAlways == Spec => []Container
<1>1. Container /\ UNCHANGED vars => Container'
    BY DEF Container, Typed, RowMeansDone, Visited, ContainersAreKnown, vars
<1> QED
    BY ContainerInit, ContainerStep, <1>1, PTL DEF Spec

-----------------------------------------------------------------------------
(* Recordings                                                               *)

LEMMA FilesStep ==
    ASSUME FilesInv, Container, Next
    PROVE  FilesInv'
<1>1. ASSUME NEW s \in Sessions,
             \/ Start(s) \/ Reconcile(s) \/ ReadsOwn(s) \/ ReconcileAll(s)
             \/ CountGlobal(s) \/ CountProject(s) \/ Launch(s) \/ Insert(s)
      PROVE  FilesInv'
    BY <1>1, FilesFrame DEF Start, Reconcile, ReadsOwn, ReconcileAll, CountGlobal,
       CountProject, Launch, Insert, Seen
<1>2. ASSUME NEW s \in Sessions, Records(s) \/ Exits(s) \/ Idles(s) \/ TouchSession(s)
      PROVE  FilesInv'
    BY <1>2, FilesFrame DEF Records, Exits, Idles, TouchSession, Seen
<1>3. ASSUME NEW a, NEW s, Stop(a, s)
      PROVE  FilesInv'
    BY <1>3, FilesFrame DEF Stop, Seen
<1>4. ASSUME NEW a \in Actors, StopRead(a) \/ StopsContainer(a) \/ StopRow(a)
      PROVE  FilesInv'
    BY <1>4, FilesFrame DEF StopRead, StopsContainer, StopRow, Seen
<1>5. ASSUME NEW a \in Actors, MarkRecorded(a)
      PROVE  FilesInv'
    <2>1. act[a].cur \in Sessions
        BY <1>5 DEF MarkRecorded, Container, Visited, Typed, Act
    <2> QED
        BY <1>5, <2>1, MarkFiles DEF Container, Typed
<1>6. ASSUME NEW a \in Actors \cup Editors, Write(a)
      PROVE  FilesInv'
    BY <1>6, WriteFiles
<1>7. ASSUME NEW e \in Editors, NEW p \in Projects, Edit(e, p)
      PROVE  FilesInv'
    BY <1>7, EditFiles
<1>8. CASE CleanupIdle
    BY <1>8, FilesFrame DEF CleanupIdle, Seen
<1>9. CASE Crash
    BY <1>9, CrashFiles
<1>10. ASSUME NEW p \in Projects, NEW m \in Modules, Syncs(p, m)
       PROVE  FilesInv'
    BY <1>10, FilesFrame DEF Syncs, Seen
<1> QED
    BY <1>1, <1>2, <1>3, <1>4, <1>5, <1>6, <1>7, <1>8, <1>9, <1>10, Zenon DEF Next

\* A project at stage 'recorded' has the recording its row points at on disk, unless git
\* took it away, whatever stale rows overlapping updates write back and whatever modules
\* generations name (recorder-service.ts:207-228, workflow-state-repository.ts:50-83).
THEOREM RecordedHasFile == Spec => []RecordedStageHasFile
<1>1. FilesInv /\ UNCHANGED vars => FilesInv'
    BY FilesFrame DEF vars, Seen
<1>2. FilesInv => RecordedStageHasFile
    BY DEF FilesInv, RowsHaveFiles, HasFiles, RecordedStageHasFile, Seen
<1> QED
    BY FilesInit, FilesStep, ContainerAlways, <1>1, <1>2, PTL DEF Spec

-----------------------------------------------------------------------------
(* Types                                                                    *)

\* What an update is to write is a row, whatever it read and whatever its patch names.
RowsTyped ==
    /\ row \in [Projects -> Row] /\ files \in SUBSET (Projects \X Modules)
    /\ \A a \in Actors \cup Editors : Waits(upd[a]) => Merge(upd[a]) \in Row

\* The columns a patch names hold what the row may hold.
Fits(patch) ==
    /\ "stage" \in DOMAIN patch => patch["stage"] \in {"recorded", "other"}
    /\ "module" \in DOMAIN patch => patch["module"] \in Modules \cup {None}
    /\ "recorded" \in DOMAIN patch => patch["recorded"] \in Modules \cup {None}

LEMMA PatchedIsRow ==
    ASSUME NEW r \in Row, NEW patch, Fits(patch), NEW p,
           NEW u, u = [project |-> p, patch |-> patch, read |-> r]
    PROVE  Merge(u) \in Row
<1> DEFINE M == Merge(u)
<1>1. M = [f \in Fields |-> IF f \in DOMAIN patch THEN patch[f] ELSE r[f]]
    BY DEF Merge
<1>2. /\ M["stage"] \in {"recorded", "other"} /\ M["module"] \in Modules \cup {None}
      /\ M["recorded"] \in Modules \cup {None}
    BY <1>1 DEF Fits, Fields, Row
<1>3. M = [f \in Fields |-> M[f]]
    BY <1>1
<1> HIDE DEF M
<1>4. M \in Row
    BY <1>2, <1>3 DEF Fields, Row
<1> QED
    BY <1>4 DEF M

LEMMA RowsFrame ==
    ASSUME RowsTyped, UNCHANGED <<row, upd>>, files' \in SUBSET (Projects \X Modules)
    PROVE  RowsTyped'
BY DEF RowsTyped, Merge

\* An update begins, with such a patch.
LEMMA ReadsTyped ==
    ASSUME FilesInv, RowsTyped, NEW a \in Actors \cup Editors, NEW p \in Projects, NEW patch,
           Fits(patch), Reads(a, p, patch), row' = row,
           files' \in SUBSET (Projects \X Modules)
    PROVE  RowsTyped'
<1> DEFINE u == [project |-> p, patch |-> patch, read |-> row[p]]
<1>1. row[p] \in Row
    BY DEF RowsTyped
<1>2. Merge(u) \in Row
    BY <1>1, PatchedIsRow
<1>3. upd' = [upd EXCEPT ![a] = u]
    BY DEF Reads
<1> HIDE DEF u
<1>4. \A b \in Actors \cup Editors : upd'[b] = IF b = a THEN u ELSE upd[b]
    BY <1>3 DEF FilesInv, UpdatesHaveFiles
<1>5. ASSUME NEW b \in Actors \cup Editors, Waits(upd'[b]) PROVE Merge(upd'[b]) \in Row
    BY <1>2, <1>4, <1>5 DEF RowsTyped
<1> QED
    BY <1>5 DEF RowsTyped, Waits, Merge

LEMMA EditTyped ==
    ASSUME FilesInv, RowsTyped, NEW e \in Editors, NEW p \in Projects, Edit(e, p)
    PROVE  RowsTyped'
<1>1. PICK patch : Reads(e, p, patch) /\ Fits(patch)
    <2>1. \A patch \in {[stage |-> "other"], <<>>} : Fits(patch)
        BY DEF Fits
    <2>2. \A m \in Modules : /\ Fits(Recorded(m))
                             /\ \A patch \in GenerationPatches(m) : Fits(patch)
        BY DEF Fits, Recorded, GenerationPatches
    <2> QED
        BY <2>1, <2>2, Zenon DEF Edit
<1>2. files' = files \/ \E m \in Modules : files' = files \cup {<<p, m>>}
    BY Zenon DEF Edit
<1>3. files' \in SUBSET (Projects \X Modules) /\ row' = row
    BY <1>2 DEF Edit, RowsTyped
<1> QED
    BY <1>1, <1>3, ReadsTyped

LEMMA WriteTyped ==
    ASSUME FilesInv, RowsTyped, NEW a \in Actors \cup Editors, Write(a)
    PROVE  RowsTyped'
<1> DEFINE u == upd[a]
           p == u.project
           v == IF a \in Editors THEN DidUpdate ELSE NoUpdate
<1>1. p \in Projects /\ Merge(u) \in Row
    BY DEF Write, Waits, RowsTyped, FilesInv, UpdatesHaveFiles
<1>2. row' = [row EXCEPT ![p] = Merge(u)]
    <2>1. DOMAIN row[p] = Fields
        BY <1>1 DEF FilesInv, RowsHaveFiles
    <2> QED
        BY <2>1 DEF Write, Merge
<1>3. ~Waits(v) /\ upd' = [upd EXCEPT ![a] = v] /\ files' = files
    BY DEF Write, Waits
<1> HIDE DEF v
<1>4. row' \in [Projects -> Row]
    BY <1>1, <1>2 DEF RowsTyped
<1>5. \A b \in Actors \cup Editors : upd'[b] = IF b = a THEN v ELSE upd[b]
    BY <1>3 DEF FilesInv, UpdatesHaveFiles
<1>6. ASSUME NEW b \in Actors \cup Editors, Waits(upd'[b]) PROVE Merge(upd'[b]) \in Row
    BY <1>3, <1>5, <1>6 DEF RowsTyped
<1> QED
    BY <1>3, <1>4, <1>6 DEF RowsTyped, Waits, Merge

LEMMA RowsStep ==
    ASSUME FilesInv, RowsTyped, Container, Next
    PROVE  RowsTyped'
<1>1. ASSUME UNCHANGED <<row, files, upd>> PROVE RowsTyped'
    BY <1>1, RowsFrame DEF RowsTyped
<1>2. ASSUME NEW s \in Sessions,
             \/ Start(s) \/ Reconcile(s) \/ ReadsOwn(s) \/ ReconcileAll(s)
             \/ CountGlobal(s) \/ CountProject(s) \/ Launch(s) \/ Insert(s)
             \/ Exits(s) \/ Idles(s) \/ TouchSession(s)
      PROVE  RowsTyped'
    BY <1>1, <1>2 DEF Start, Reconcile, ReadsOwn, ReconcileAll, CountGlobal, CountProject,
                      Launch, Insert, Exits, Idles, TouchSession
<1>3. ASSUME NEW s \in Sessions, Records(s) PROVE RowsTyped'
    <2>1. project[s] \in Projects /\ module[s] \in Modules
        BY DEF Container, Typed
    <2>2. files' \in SUBSET (Projects \X Modules)
        BY <1>3, <2>1 DEF Records, RowsTyped
    <2> QED
        BY <1>3, <2>2, RowsFrame DEF Records
<1>4. ASSUME NEW a, NEW s, Stop(a, s) PROVE RowsTyped'
    BY <1>1, <1>4 DEF Stop
<1>5. ASSUME NEW a \in Actors, StopRead(a) \/ StopsContainer(a) \/ StopRow(a)
      PROVE  RowsTyped'
    BY <1>1, <1>5 DEF StopRead, StopsContainer, StopRow
<1>6. ASSUME NEW a \in Actors, MarkRecorded(a) PROVE RowsTyped'
    <2> DEFINE s == act[a].cur
    <2>1. s \in Sessions
        BY <1>6 DEF MarkRecorded, Container, Visited, Typed, Act
    <2>2. project[s] \in Projects /\ module[s] \in Modules
        BY <2>1 DEF Container, Typed
    <2>3. Fits(Recorded(module[s]))
        BY <2>2 DEF Fits, Recorded
    <2>4. row' = row /\ files' = files /\ files' \in SUBSET (Projects \X Modules)
        BY <1>6 DEF MarkRecorded, RowsTyped
    <2>5. Reads(a, project[s], Recorded(module[s])) \/ UNCHANGED upd
        BY <1>6 DEF MarkRecorded
    <2> HIDE DEF s
    <2> QED
        BY <1>1, <2>2, <2>3, <2>4, <2>5, ReadsTyped
<1>7. CASE Crash
    <2>1. \A a \in Actors \cup Editors : ~Waits(upd'[a])
        BY <1>7 DEF Crash, Waits
    <2>2. row' = row /\ files' = files
        BY <1>7 DEF Crash
    <2> QED
        BY <2>1, <2>2 DEF RowsTyped, Waits, Merge
<1>8. CASE CleanupIdle
    BY <1>1, <1>8 DEF CleanupIdle
<1>9. ASSUME NEW p \in Projects, NEW m \in Modules, Syncs(p, m) PROVE RowsTyped'
    <2>1. files' \in SUBSET (Projects \X Modules)
        BY <1>9 DEF Syncs, RowsTyped
    <2> QED
        BY <1>9, <2>1, RowsFrame DEF Syncs
<1> QED
    BY <1>2, <1>3, <1>4, <1>5, <1>6, <1>7, <1>8, <1>9, EditTyped, WriteTyped, Zenon DEF Next

\* The count of failures, the projects whose starts overlapped, what git took away.
CountsTyped ==
    /\ mishaps \in 0..MaxMishaps
    /\ raced \in SUBSET (Projects \cup {None})
    /\ pulled \in SUBSET (Projects \X Modules)

LEMMA CountsStep ==
    ASSUME CountsTyped, Container, Next
    PROVE  CountsTyped'
<1>1. ASSUME UNCHANGED <<raced, pulled>>, UNCHANGED mishaps \/ Mishap PROVE CountsTyped'
    BY <1>1 DEF CountsTyped, Mishap
<1>2. ASSUME NEW s \in Sessions, CountGlobal(s) \/ CountProject(s) PROVE CountsTyped'
    <2>1. project[s] \in Projects
        BY DEF Container, Typed
    <2> QED
        BY <1>2, <2>1 DEF CountGlobal, CountProject, CountsTyped
<1>3. ASSUME NEW s \in Sessions,
             \/ Start(s) \/ Reconcile(s) \/ ReadsOwn(s) \/ ReconcileAll(s)
             \/ Launch(s) \/ Insert(s) \/ Records(s) \/ Exits(s) \/ Idles(s) \/ TouchSession(s)
             \/ \E a \in Stoppers : Stop(a, s)
      PROVE  CountsTyped'
    BY <1>1, <1>3, Zenon
    DEF Start, Reconcile, ReadsOwn, ReconcileAll, Launch, Insert, Records, Exits, Idles,
        TouchSession, Stop
<1>4. ASSUME NEW a \in Actors, \/ StopRead(a) \/ StopsContainer(a) \/ StopRow(a)
                               \/ MarkRecorded(a)
      PROVE  CountsTyped'
    BY <1>1, <1>4, Zenon DEF StopRead, StopsContainer, StopContainer, StopRow, MarkRecorded
<1>5. ASSUME NEW a \in Actors \cup Editors, Write(a) PROVE CountsTyped'
    BY <1>1, <1>5 DEF Write
<1>6. ASSUME NEW e \in Editors, NEW p \in Projects, Edit(e, p) PROVE CountsTyped'
    BY <1>1, <1>6 DEF Edit
<1>7. CASE CleanupIdle \/ Crash
    BY <1>1, <1>7 DEF CleanupIdle, Crash
<1>8. ASSUME NEW p \in Projects, NEW m \in Modules, Syncs(p, m) PROVE CountsTyped'
    BY <1>8 DEF Syncs, Mishap, CountsTyped
<1> QED
    BY <1>2, <1>3, <1>4, <1>5, <1>6, <1>7, <1>8, Zenon DEF Next

\* Types of the sessions and their requests, the containers, the recordings and the rows of
\* workflow_states (recorder-service.ts, workflow-state-repository.ts): what overlapping
\* updates write back, each from what it read, is still a row.
THEOREM TypesHold == Spec => []TypeOK
<1>1. Container /\ RowsTyped /\ CountsTyped => TypeOK
    BY DEF Container, Typed, RowsTyped, CountsTyped, TypeOK
<1>2. Init => RowsTyped /\ CountsTyped
    <2>1. [stage |-> "other", module |-> None, recorded |-> None] \in Row
        BY DEF Row
    <2> QED
        BY <2>1 DEF Init, RowsTyped, CountsTyped, Waits
<1>3. UNCHANGED vars /\ RowsTyped /\ CountsTyped => (RowsTyped /\ CountsTyped)'
    BY DEF vars, RowsTyped, CountsTyped, Merge, Waits
<1>4. FilesInv /\ UNCHANGED vars => FilesInv'
    BY FilesFrame DEF vars, Seen
<1>5. FilesInv /\ Container /\ RowsTyped /\ CountsTyped /\ Next => (RowsTyped /\ CountsTyped)'
    BY RowsStep, CountsStep
<1> QED
    BY FilesInit, FilesStep, ContainerAlways, <1>1, <1>2, <1>3, <1>4, <1>5, PTL DEF Spec

-----------------------------------------------------------------------------
(* Limits                                                                   *)

\* A start takes part in a limit from its count on, not from its insert on: what is
\* bounded is rows and counted starts together.
InStart(s) == act[s].pc \in {"launch", "insert"}
Counted == {s \in Sessions : status[s] = "active" \/ InStart(s) \/ act[s].pc = "countProject"}
CountedOf(p) == {s \in Sessions : project[s] = p /\ (status[s] = "active" \/ InStart(s))}
Limits ==
    /\ IsFiniteSet(Counted)
    /\ None \notin raced => Cardinality(Counted) <= MaxGlobal
    /\ \A p \in Projects \ raced : Cardinality(CountedOf(p)) <= MaxPerProject

LEMMA AddOne ==
    ASSUME NEW S, IsFiniteSet(S), NEW x, NEW T, T \subseteq S \cup {x},
           NEW n \in Nat, Cardinality(S) < n
    PROVE  IsFiniteSet(T) /\ Cardinality(T) <= n
<1>1. /\ Cardinality(S) \in Nat /\ IsFiniteSet(S \cup {x})
      /\ Cardinality(S \cup {x}) \in {Cardinality(S), Cardinality(S) + 1}
    BY FS_AddElement, FS_CardinalityType
<1>2. IsFiniteSet(T) /\ Cardinality(T) <= Cardinality(S \cup {x})
    BY <1>1, FS_Subset
<1> QED
    BY <1>1, <1>2, FS_CardinalityType

\* Rows and counted starts only leave.
LEMMA LimitsShrink ==
    ASSUME Limits, raced \subseteq raced', project' = project,
           \A s \in Sessions :
              status'[s] = "active" \/ InStart(s)' => status[s] = "active" \/ InStart(s),
           \A s \in Sessions : act'[s].pc = "countProject" => act[s].pc = "countProject"
    PROVE  Limits'
<1>1. Counted' \subseteq Counted
    BY DEF Counted
<1>2. IsFiniteSet(Counted') /\ Cardinality(Counted') <= Cardinality(Counted)
    BY <1>1, FS_Subset DEF Limits
<1>3. Cardinality(Counted) \in Nat /\ Cardinality(Counted') \in Nat
    BY <1>2, FS_CardinalityType DEF Limits
<1>4. ASSUME NEW p \in Projects \ raced'
      PROVE  Cardinality(CountedOf(p)') <= MaxPerProject
    <2>1. CountedOf(p)' \subseteq CountedOf(p) /\ CountedOf(p) \subseteq Counted
        BY DEF CountedOf, Counted
    <2>2. IsFiniteSet(CountedOf(p))
        BY <2>1, FS_Subset DEF Limits
    <2>3. /\ IsFiniteSet(CountedOf(p)')
          /\ Cardinality(CountedOf(p)') <= Cardinality(CountedOf(p))
        BY <2>1, <2>2, FS_Subset
    <2>4. Cardinality(CountedOf(p)) <= MaxPerProject
        BY DEF Limits
    <2> QED
        BY <2>2, <2>3, <2>4, FS_CardinalityType
<1>5. None \notin raced' => Cardinality(Counted') <= MaxGlobal
    BY <1>2, <1>3 DEF Limits
<1> QED
    BY <1>2, <1>4, <1>5 DEF Limits

\* The count of all rows: nobody else is between its count and its insert, or the
\* starts raced.
LEMMA CountGlobalLimits ==
    ASSUME Limits, Container, NEW s \in Sessions, CountGlobal(s)
    PROVE  Limits'
<1>1. /\ \A x \in Sessions \ {s} : act'[x] = act[x]
      /\ act[s].pc = "reconcileAll" /\ act'[s].pc \in {"done", "countProject"}
      /\ act'[s].pc = "countProject" => ~ (Cardinality(Active) >= MaxGlobal)
    BY DEF CountGlobal, Goes, Full, Container, Typed, Act
<1>2. /\ UNCHANGED <<project, status>> /\ raced \subseteq raced'
      /\ None \notin raced' => Launching = {} /\ None \notin raced
    BY DEF CountGlobal
<1>3. CASE act'[s].pc = "done"
    BY <1>1, <1>2, <1>3, LimitsShrink DEF InStart
<1>4. CASE act'[s].pc = "countProject"
    <2>1. Counted' \subseteq Counted \cup {s}
        BY <1>1, <1>2 DEF Counted, InStart
    <2>2. IsFiniteSet(Counted')
        BY <2>1, FS_AddElement, FS_Subset DEF Limits
    <2>3. ASSUME None \notin raced'
          PROVE  Cardinality(Counted') <= MaxGlobal
        <3>1. Counted' \subseteq Active \cup {s} /\ Active \subseteq Counted
            BY <1>1, <1>2, <2>3 DEF Counted, Active, Launching, InStart
        <3>2. IsFiniteSet(Active) /\ Cardinality(Active) < MaxGlobal
            BY <1>1, <1>4, <3>1, FS_Subset, FS_CardinalityType DEF Limits
        <3> QED
            BY <3>1, <3>2, AddOne
    <2>4. ASSUME NEW p \in Projects \ raced'
          PROVE  Cardinality(CountedOf(p)') <= MaxPerProject
        <3>1. CountedOf(p)' = CountedOf(p)
            BY <1>1, <1>2, <1>4 DEF CountedOf, InStart
        <3> QED
            BY <1>2, <3>1 DEF Limits
    <2> QED
        BY <2>2, <2>3, <2>4 DEF Limits
<1> QED
    BY <1>1, <1>3, <1>4

LEMMA CountProjectLimits ==
    ASSUME Limits, Container, NEW s \in Sessions, CountProject(s)
    PROVE  Limits'
<1>1. /\ \A x \in Sessions \ {s} : act'[x] = act[x]
      /\ act[s].pc = "countProject" /\ act'[s].pc \in {"done", "launch"}
      /\ act'[s].pc = "launch" => ~ (Cardinality(ActiveOf(project[s])) >= MaxPerProject)
    BY DEF CountProject, Goes, Full, Container, Typed, Act
<1>2. /\ UNCHANGED <<project, status>> /\ raced \subseteq raced'
      /\ project[s] \notin raced' => \A t \in Launching \ {s} : project[t] # project[s]
    BY DEF CountProject
<1>3. CASE act'[s].pc = "done"
    BY <1>1, <1>2, <1>3, LimitsShrink DEF InStart
<1>4. CASE act'[s].pc = "launch"
    <2>1. Counted' \subseteq Counted
        BY <1>1, <1>2 DEF Counted, InStart
    <2>2. IsFiniteSet(Counted') /\ Cardinality(Counted') <= Cardinality(Counted)
        BY <2>1, FS_Subset DEF Limits
    <2>3. None \notin raced' => Cardinality(Counted') <= MaxGlobal
        BY <1>2, <2>2, FS_CardinalityType DEF Limits
    <2>4. ASSUME NEW p \in Projects \ raced'
          PROVE  Cardinality(CountedOf(p)') <= MaxPerProject
        <3>1. CASE p = project[s]
            <4>1. /\ CountedOf(p)' \subseteq ActiveOf(p) \cup {s}
                  /\ ActiveOf(p) \subseteq Counted
                BY <1>1, <1>2, <2>4, <3>1
                DEF Counted, CountedOf, Active, ActiveOf, Launching, InStart
            <4>2. IsFiniteSet(ActiveOf(p)) /\ Cardinality(ActiveOf(p)) < MaxPerProject
                BY <1>1, <1>4, <3>1, <4>1, FS_Subset, FS_CardinalityType DEF Limits
            <4> QED
                BY <4>1, <4>2, AddOne
        <3>2. CASE p # project[s]
            <4>1. CountedOf(p)' = CountedOf(p)
                BY <1>1, <1>2, <3>2 DEF CountedOf, InStart
            <4> QED
                BY <1>2, <4>1 DEF Limits
        <3> QED
            BY <3>1, <3>2
    <2> QED
        BY <2>2, <2>3, <2>4 DEF Limits
<1> QED
    BY <1>1, <1>3, <1>4

LEMMA LimitsInit == Init => Limits
<1> SUFFICES ASSUME Init PROVE Limits
    OBVIOUS
<1>1. Counted = {} /\ \A p : CountedOf(p) = {}
    BY DEF Init, Counted, CountedOf, InStart, NoAct
<1> QED
    BY <1>1, FS_EmptySet DEF Limits

LEMMA LimitsStep ==
    ASSUME Limits, Container, Next
    PROVE  Limits'
<1>1. ASSUME NEW s \in Sessions, CountGlobal(s) \/ CountProject(s)
      PROVE  Limits'
    BY <1>1, CountGlobalLimits, CountProjectLimits
<1> DEFINE Leaving ==
              /\ project' = project /\ raced' = raced
              /\ \A x \in Sessions :
                    status'[x] = "active" \/ InStart(x)' => status[x] = "active" \/ InStart(x)
              /\ \A x \in Sessions :
                    act'[x].pc = "countProject" => act[x].pc = "countProject"
<1>2. ASSUME Leaving PROVE Limits'
    BY <1>2, LimitsShrink
<1>3. ASSUME UNCHANGED <<project, raced, status>>,
             \A x \in Sessions : act'[x].pc = act[x].pc \/ act'[x].pc \in {"reconcile", "stop", "reconcileAll", "done"}
      PROVE  Leaving
    BY <1>3 DEF InStart
<1>4. ASSUME NEW a \in Actors, NEW pc \in {"reconcile", "stop", "reconcileAll"}, NEW todo,
             Goes(a, pc, todo), UNCHANGED <<project, raced, status>>
      PROVE  Limits'
    <2>1. \A x \in Sessions : act'[x].pc = act[x].pc \/ act'[x].pc = pc
        BY <1>4 DEF Goes, Container, Typed, Act
    <2> QED
        BY <1>2, <1>3, <1>4, <2>1
<1>5. ASSUME NEW a \in Actors, Stopped(a), UNCHANGED <<project, raced, status>>
      PROVE  Limits'
    <2>1. \A x \in Sessions : act'[x].pc = act[x].pc
        BY <1>5 DEF Stopped, Container, Typed, Act
    <2> QED
        BY <1>2, <1>3, <1>5, <2>1
<1>6. ASSUME NEW s \in Sessions, Start(s) \/ ReadsOwn(s) \/ ReconcileAll(s)
      PROVE  Limits'
    BY <1>4, <1>6 DEF Start, ReadsOwn, ReconcileAll
<1>7. ASSUME NEW s \in Sessions, Reconcile(s)
      PROVE  Limits'
    <2>1. \A x \in Sessions : act'[x].pc = act[x].pc
        BY <1>7 DEF Reconcile, Container, Typed, Act
    <2>2. \A x \in Sessions : status'[x] \in {status[x], "stopped"}
        BY <1>7 DEF Reconcile, Container, Typed, Act
    <2> QED
        BY <1>2, <1>7, <2>1, <2>2 DEF InStart, Reconcile
<1>8. ASSUME NEW s \in Sessions, Launch(s)
      PROVE  Limits'
    <2>1. /\ act[s].pc = "launch" /\ act'[s].pc \in {"insert", "done"}
          /\ \A x \in Sessions \ {s} : act'[x] = act[x]
          /\ UNCHANGED <<project, raced, status>>
        BY <1>8 DEF Launch, Goes, Container, Typed, Act
    <2> QED
        BY <1>2, <2>1 DEF InStart
<1>9. ASSUME NEW s \in Sessions, Insert(s)
      PROVE  Limits'
    <2>1. /\ act[s].pc = "insert" /\ act'[s].pc = "done"
          /\ \A x \in Sessions \ {s} : act'[x] = act[x] /\ status'[x] = status[x]
          /\ UNCHANGED <<project, raced>>
        BY <1>9 DEF Insert, Goes, Container, Typed, Act
    <2> QED
        BY <1>2, <2>1 DEF InStart
<1>10. ASSUME NEW s \in Sessions, Records(s) \/ Exits(s) \/ Idles(s) \/ TouchSession(s)
       PROVE  Limits'
    BY <1>2, <1>3, <1>10 DEF Records, Exits, Idles, TouchSession
<1>11. ASSUME NEW s \in Sessions, NEW a \in Stoppers, Stop(a, s)
       PROVE  Limits'
    BY <1>4, <1>11 DEF Stop
<1>12. ASSUME NEW a \in Actors, StopRead(a)
       PROVE  Limits'
    <2>1. PICK s \in act[a].todo : act' = [act EXCEPT ![a] =
              IF AlreadyStopped(s) THEN [act[a] EXCEPT !.todo = act[a].todo \ {s}]
              ELSE [act[a] EXCEPT !.todo = act[a].todo \ {s}, !.cur = s, !.at = "container"]]
        BY <1>12 DEF StopRead
    <2>2. act[a] \in Act /\ act = [b \in Actors |-> act[b]]
        BY DEF Container, Typed
    <2>3. \A x \in Sessions : act'[x].pc = act[x].pc
        BY <2>1, <2>2 DEF Act
    <2> QED
        BY <1>2, <1>3, <1>12, <2>3 DEF StopRead
<1>13. ASSUME NEW a \in Actors, StopsContainer(a)
       PROVE  Limits'
    <2>1. \A x \in Sessions : act'[x].pc = act[x].pc
        BY <1>13 DEF StopsContainer, StopContainer, Container, Typed, Act
    <2> QED
        BY <1>2, <1>3, <1>13, <2>1 DEF StopsContainer
<1>14. ASSUME NEW a \in Actors, StopRow(a)
       PROVE  Limits'
    <2>1. CASE Stopped(a) /\ UNCHANGED status
        BY <1>5, <1>14, <2>1 DEF StopRow
    <2>2. CASE /\ status' = [status EXCEPT ![act[a].cur] = "stopped"]
               /\ act' = [act EXCEPT ![a].at = "mark"]
        <3>1. \A x \in Sessions : act'[x].pc = act[x].pc
            BY <2>2 DEF Container, Typed, Act
        <3>2. \A x \in Sessions : status'[x] \in {status[x], "stopped"}
            BY <2>2 DEF Container, Typed
        <3> QED
            BY <1>2, <1>14, <3>1, <3>2 DEF InStart, StopRow
    <2> QED
        BY <1>14, <2>1, <2>2 DEF StopRow
<1>15. ASSUME NEW a \in Actors, MarkRecorded(a)
       PROVE  Limits'
    <2>1. UNCHANGED <<project, raced, status>>
        BY <1>15 DEF MarkRecorded
    <2>2. CASE Stopped(a)
        BY <1>5, <2>1, <2>2
    <2>3. CASE act' = [act EXCEPT ![a].at = "write"]
        <3>1. \A x \in Sessions : act'[x].pc = act[x].pc
            BY <2>3 DEF Container, Typed, Act
        <3> QED
            BY <1>2, <1>3, <2>1, <3>1
    <2> QED
        BY <1>15, <2>2, <2>3 DEF MarkRecorded
<1>16. ASSUME NEW a \in Actors \cup Editors, Write(a)
       PROVE  Limits'
    <2>1. UNCHANGED <<project, raced, status>>
        BY <1>16 DEF Write
    <2>2. CASE a \in Actors
        <3>1. Stopped(a)
            BY <1>16, <2>2 DEF Write
        <3> QED
            BY <1>5, <2>1, <2>2, <3>1
    <2>3. CASE a \notin Actors
        <3>1. act' = act
            BY <1>16, <2>3 DEF Write
        <3> QED
            BY <1>2, <1>3, <2>1, <3>1
    <2> QED
        BY <2>2, <2>3
<1>17. ASSUME NEW e \in Editors, NEW p \in Projects, Edit(e, p)
       PROVE  Limits'
    BY <1>2, <1>3, <1>17 DEF Edit
<1>18. CASE CleanupIdle
    BY <1>4, <1>18 DEF CleanupIdle
<1>19. CASE Crash
    <2>1. \A x \in Sessions : act'[x].pc = act[x].pc \/ act'[x].pc = "done"
        BY <1>19 DEF Crash, NoAct
    <2> QED
        BY <1>2, <1>3, <1>19, <2>1 DEF Crash
<1>20. ASSUME NEW p \in Projects, NEW m \in Modules, Syncs(p, m)
       PROVE  Limits'
    BY <1>2, <1>3, <1>20 DEF Syncs
<1> QED
    BY <1>1, <1>6, <1>7, <1>8, <1>9, <1>10, <1>11, <1>12, <1>13, <1>14, <1>15, <1>16,
       <1>17, <1>18, <1>19, <1>20, Zenon DEF Next

\* The limits hold although they are counted long before the row is inserted, as long
\* as no two starts overlap from the count to the insert, and no container runs
\* without a row or a start that is about to insert it, whatever stops, reconciles,
\* cleanups and crashes overlap (recorder-service.ts:58-77, 104-164, 186-198).
THEOREM Accounted == Spec => []SessionsAccounted
<1>1. Limits /\ UNCHANGED vars => Limits'
    <2> SUFFICES ASSUME Limits, UNCHANGED vars PROVE Limits'
        OBVIOUS
    <2>1. Counted' = Counted /\ \A p : CountedOf(p)' = CountedOf(p)
        BY DEF vars, Counted, CountedOf, InStart
    <2> QED
        BY <2>1 DEF Limits, vars
<1>2. Limits => LimitsHold
    <2> SUFFICES ASSUME Limits PROVE LimitsHold
        OBVIOUS
    <2>1. Active \subseteq Counted /\ IsFiniteSet(Counted)
        BY DEF Limits, Counted, Active
    <2>2. Cardinality(Active) <= Cardinality(Counted) /\ Cardinality(Active) \in Nat
          /\ Cardinality(Counted) \in Nat
        BY <2>1, FS_Subset, FS_CardinalityType
    <2>3. ASSUME NEW p \in Projects \ raced
          PROVE  Cardinality(ActiveOf(p)) <= MaxPerProject
        <3>1. ActiveOf(p) \subseteq CountedOf(p) /\ CountedOf(p) \subseteq Counted
            BY DEF ActiveOf, Active, CountedOf, Counted
        <3>2. IsFiniteSet(CountedOf(p))
            BY <2>1, <3>1, FS_Subset
        <3>3. /\ IsFiniteSet(ActiveOf(p))
              /\ Cardinality(ActiveOf(p)) <= Cardinality(CountedOf(p))
            BY <3>1, <3>2, FS_Subset
        <3> QED
            BY <3>2, <3>3, FS_CardinalityType DEF Limits
    <2> QED
        BY <2>2, <2>3 DEF Limits, LimitsHold
<1>3. Container /\ LimitsHold => SessionsAccounted
    BY DEF Container, SessionsAccounted
<1> QED
    BY LimitsInit, LimitsStep, ContainerAlways, <1>1, <1>2, <1>3, PTL DEF Spec
=============================================================================
