------------------------ MODULE MondayProjectsProofs ------------------------
(***************************************************************************)
(* Machine-checked theorems about MondayProjects, for any projects,        *)
(* sources, clicks and edits and any bounds: types, what a ready project   *)
(* has in its clone directory, and that it is what its row names; and, in  *)
(* the second half, about MondayArtifacts, for any journeys, requests,     *)
(* attempts and bounds: the files of a run.                                *)
(***************************************************************************)
EXTENDS MondayProjects, MondayArtifacts, FiniteSetTheorems, TLAPS

-----------------------------------------------------------------------------
(* The invariant                                                            *)

Trees == {NoTree} \cup {TreeOf(s, FALSE) : s \in Sources} \cup {TreeOf(s, TRUE) : s \in Sources}

Typed ==
    /\ row \in [Projects -> Row] /\ tree \in [Projects -> Trees]
    /\ job \in [Clicks -> Job] /\ edit \in [Editors -> Edit]

Going == {"start", "set", "read", "choose", "clone", "pull", "ready", "failed"}
Working == {"choose", "clone", "pull"}

\* What a clone has read of the row still stands, unless the project is mixed; and what it
\* is about to write about the directory is true.
JobOk(c) ==
    LET j == job[c]
        p == job[c].proj
    IN  /\ j.pc \in Going => p \in Projects
        /\ j.path = "dir" => j.pc \in Going /\ tree[p].whole
        /\ j.pc = "clone" => tree[p] = TreeOf(j.source, FALSE)
        /\ j.pc \in Working => j.source.kind = "git" /\ (p \notin mixed => row[p].source = j.source)
        /\ j.pc = "ready" => j.path \in {"dir", "mount"}
        /\ j.pc = "ready" /\ p \notin mixed =>
              IF j.path = "dir"
              THEN row[p].source.kind = "git" /\ tree[p] = TreeOf(row[p].source, TRUE)
              ELSE row[p].source.kind = "mount"

\* One git clone at a time writes a project's directory.
OneClone == \A c, d \in Clicks :
    job[c].pc = "clone" /\ job[d].pc = "clone" /\ job[c].proj = job[d].proj => c = d

RowOk(p) ==
    /\ row[p].path = "dir" => tree[p].whole
    /\ p \in mark /\ p \notin mixed => row[p].source.kind = "mount"
    /\ row[p].exists /\ row[p].status = "ready" /\ p \notin mixed => Holds(p)

Inv == Typed /\ OneClone /\ (\A c \in Clicks : JobOk(c)) /\ (\A p \in Projects : RowOk(p))

-----------------------------------------------------------------------------
(* What every step leaves as it is                                          *)

\* A whole directory stays what it is, and the source of a row that a clone has read
\* changes only as the project becomes mixed.
Kept ==
    /\ mixed \subseteq mixed' /\ mark' \subseteq mark
    /\ \A p \in Projects : tree[p].whole => tree'[p] = tree[p]
    /\ \A p \in Projects : p \notin mixed' /\ (Underway(p) \/ p \in mark)
                              => row'[p].source = row[p].source

LEMMA OthersKeep ==
    ASSUME Inv, Kept, NEW c \in Clicks, \A d \in Clicks \ {c} : job'[d] = job[d],
           \A d \in Clicks \ {c} : job[d].pc = "clone" => tree'[job[d].proj] = tree[job[d].proj]
    PROVE  \A d \in Clicks \ {c} : JobOk(d)'
<1> SUFFICES ASSUME NEW d \in Clicks \ {c}
             PROVE  JobOk(d)'
    OBVIOUS
<1> DEFINE j == job[d]
           p == j.proj
<1>1. JobOk(d) /\ job'[d] = j
    BY DEF Inv
<1>2. CASE j.pc \notin Going
    BY <1>1, <1>2 DEF JobOk, Going, Working
<1>3. CASE j.pc \in Going
    <2>1. p \in Projects
        BY <1>1, <1>3 DEF JobOk
    <2>2. tree[p].whole => tree'[p] = tree[p]
        BY <2>1 DEF Kept
    <2>3. j.pc \in Working \cup {"ready"} => Underway(p)
        BY DEF Underway, Working
    <2>4. j.pc \in Working \cup {"ready"} /\ p \notin mixed' =>
             p \notin mixed /\ row'[p].source = row[p].source
        BY <2>1, <2>3 DEF Kept
    <2>5. TreeOf(row[p].source, TRUE).whole
        BY DEF TreeOf
    <2> QED
        BY <1>1, <1>3, <2>1, <2>2, <2>4, <2>5, ZenonT(30) DEF JobOk, Working
<1> QED
    BY <1>2, <1>3

\* The same where no clone moves and no directory changes.
LEMMA JobsKeep ==
    ASSUME Inv, Kept, job' = job, tree' = tree
    PROVE  OneClone' /\ \A c \in Clicks : JobOk(c)'
<1>1. OneClone'
    BY DEF Inv, OneClone
<1>2. ASSUME NEW d \in Clicks
      PROVE  JobOk(d)'
    <2> DEFINE j == job[d]
               p == j.proj
    <2>1. JobOk(d) /\ job'[d] = j /\ tree' = tree
        BY DEF Inv
    <2>2. CASE j.pc \notin Going
        BY <2>1, <2>2 DEF JobOk, Going, Working
    <2>3. CASE j.pc \in Going
        <3>1. p \in Projects
            BY <2>1, <2>3 DEF JobOk
        <3>2. j.pc \in Working \cup {"ready"} => Underway(p)
            BY DEF Underway, Working
        <3>3. j.pc \in Working \cup {"ready"} /\ p \notin mixed' =>
                 p \notin mixed /\ row'[p].source = row[p].source
            BY <3>1, <3>2 DEF Kept
        <3> QED
            BY <2>1, <2>3, <3>1, <3>3 DEF JobOk, Working
    <2> QED
        BY <2>2, <2>3
<1> QED
    BY <1>1, <1>2

\* The row of one project is written, or none.
LEMMA RowsKeep ==
    ASSUME Inv, Kept, NEW p \in Projects, NEW n \in Row, row' = [row EXCEPT ![p] = n],
           n.path = "dir" => tree'[p].whole,
           p \in mark /\ p \notin mixed' => n.source = row[p].source,
           n.exists /\ n.status = "ready" /\ p \notin mixed' =>
              CASE n.source.kind = "git" -> n.path = "dir" /\ tree'[p] = TreeOf(n.source, TRUE)
                [] n.source.kind = "mount" -> n.path = "mount"
                [] OTHER -> FALSE
    PROVE  row' \in [Projects -> Row] /\ \A q \in Projects : RowOk(q)'
<1>1. row' \in [Projects -> Row] /\ row'[p] = n /\ \A q \in Projects \ {p} : row'[q] = row[q]
    BY DEF Inv, Typed
<1>2. RowOk(p)'
    <2>1. p \in mark' /\ p \notin mixed' => n.source.kind = "mount"
        BY DEF Inv, RowOk, Kept
    <2> QED
        BY <1>1, <2>1 DEF RowOk, Holds
<1>3. ASSUME NEW q \in Projects \ {p}
      PROVE  RowOk(q)'
    <2>1. RowOk(q) /\ row'[q] = row[q] /\ (tree[q].whole => tree'[q] = tree[q])
        BY <1>1 DEF Inv, Kept
    <2>2. (q \in mark' => q \in mark) /\ (q \notin mixed' => q \notin mixed)
        BY DEF Kept
    <2>3. Holds(q) => Holds(q)'
        <3>1. TreeOf(row[q].source, TRUE).whole
            BY DEF TreeOf
        <3> QED
            BY <2>1, <3>1 DEF Holds
    <2> QED
        BY <2>1, <2>2, <2>3 DEF RowOk
<1> QED
    BY <1>1, <1>2, <1>3

LEMMA RowsStay ==
    ASSUME Inv, Kept, row' = row
    PROVE  \A q \in Projects : RowOk(q)'
<1> SUFFICES ASSUME NEW q \in Projects
             PROVE  RowOk(q)'
    OBVIOUS
<1>1. RowOk(q) /\ row'[q] = row[q] /\ (tree[q].whole => tree'[q] = tree[q])
    BY DEF Inv, Kept
<1>2. (q \in mark' => q \in mark) /\ (q \notin mixed' => q \notin mixed)
    BY DEF Kept
<1>3. Holds(q) => Holds(q)'
    <2>1. TreeOf(row[q].source, TRUE).whole
        BY DEF TreeOf
    <2> QED
        BY <1>1, <2>1 DEF Holds
<1> QED
    BY <1>1, <1>2, <1>3 DEF RowOk

LEMMA MarkedMove ==
    ASSUME NEW r \in Row
    PROVE  /\ Marked(r) \in Row /\ Marked(r).source = r.source /\ Marked(r).exists = r.exists
           /\ \/ Marked(r) = r
              \/ /\ r.source.kind = "mount" /\ Marked(r).path = "mount"
                 /\ Marked(r).status = "ready"
<1> DEFINE a == [r EXCEPT !.status = "ready"]
           b == [a EXCEPT !.path = "mount"]
<1>1. CASE ~MountWaits(r)
    BY <1>1 DEF Marked
<1>2. CASE MountWaits(r)
    <2>1. Marked(r) = b /\ r.source.kind = "mount"
        BY <1>2 DEF Marked, MountWaits
    <2>2. a \in Row /\ a.source = r.source /\ a.status = "ready" /\ a.exists = r.exists
        BY DEF Row
    <2> HIDE DEF a
    <2>3. /\ b \in Row /\ b.source = r.source /\ b.status = "ready" /\ b.path = "mount"
          /\ b.exists = r.exists
        BY <2>2 DEF Row
    <2> HIDE DEF b
    <2> QED
        BY <2>1, <2>3
<1> QED
    BY <1>1, <1>2

LEMMA MarkedOk ==
    ASSUME Inv, NEW p \in Projects
    PROVE  /\ Marked(row[p]) \in Row /\ Marked(row[p]).source = row[p].source
           /\ Marked(row[p]).path = "dir" => tree[p].whole
           /\ Marked(row[p]).exists /\ Marked(row[p]).status = "ready" /\ p \notin mixed =>
                CASE row[p].source.kind = "git" ->
                       Marked(row[p]).path = "dir" /\ tree[p] = TreeOf(row[p].source, TRUE)
                  [] row[p].source.kind = "mount" -> Marked(row[p]).path = "mount"
                  [] OTHER -> FALSE
<1>1. row[p] \in Row /\ RowOk(p)
    BY DEF Inv, Typed
<1>2. /\ Marked(row[p]) \in Row /\ Marked(row[p]).source = row[p].source
      /\ \/ Marked(row[p]) = row[p]
         \/ /\ row[p].source.kind = "mount" /\ Marked(row[p]).path = "mount"
            /\ Marked(row[p]).status = "ready"
    BY <1>1, MarkedMove
<1>3. CASE Marked(row[p]) = row[p]
    BY <1>1, <1>2, <1>3 DEF RowOk, Holds
<1>4. CASE row[p].source.kind = "mount" /\ Marked(row[p]).path = "mount"
    BY <1>2, <1>4
<1> QED
    BY <1>2, <1>3, <1>4

\* A read of a row by a GET marks it on the way, and does no more to the rows.
LEMMA ReadKeeps ==
    ASSUME Inv, NEW p \in Projects, row' = [row EXCEPT ![p] = Marked(row[p])],
           tree' = tree, mark' = mark, mixed' = mixed
    PROVE  /\ Kept /\ row' \in [Projects -> Row] /\ \A q \in Projects : RowOk(q)'
           /\ row'[p].source = row[p].source
<1> DEFINE n == Marked(row[p])
<1>1. /\ n \in Row /\ n.source = row[p].source
      /\ n.path = "dir" => tree[p].whole
      /\ n.exists /\ n.status = "ready" /\ p \notin mixed =>
           CASE row[p].source.kind = "git" -> n.path = "dir" /\ tree[p] = TreeOf(row[p].source, TRUE)
             [] row[p].source.kind = "mount" -> n.path = "mount"
             [] OTHER -> FALSE
    BY MarkedOk
<1> HIDE DEF n
<1>2. row' = [row EXCEPT ![p] = n]
    BY DEF n
<1>3. \A q \in Projects : row'[q].source = row[q].source
    BY <1>1, <1>2 DEF Inv, Typed
<1>4. Kept
    BY <1>3 DEF Kept
<1>5. row' \in [Projects -> Row] /\ \A q \in Projects : RowOk(q)'
    BY <1>1, <1>2, <1>4, RowsKeep, ZenonT(30)
<1> QED
    BY <1>3, <1>4, <1>5

-----------------------------------------------------------------------------
(* Rows                                                                     *)

\* A row written by a POST, a PUT or a DELETE, marked or not.
LEMMA WrittenKeeps ==
    ASSUME Inv, NEW p \in Projects, NEW r \in Row, NEW n,
           n = Marked(r) \/ n = r, row' = [row EXCEPT ![p] = n],
           mixed' = mixed \/ mixed' = mixed \cup {p},
           Crosses(p, r) => p \in mixed',
           r.path = "dir" => row[p].path = "dir",
           r.exists /\ r.status = "ready" /\ p \notin mixed' => r = row[p],
           tree' = tree, job' = job, mark' = mark, edit' \in [Editors -> Edit]
    PROVE  Inv'
<1>1. row[p] \in Row /\ RowOk(p)
    BY DEF Inv, Typed
<1>2. /\ n \in Row /\ n.source = r.source /\ n.exists = r.exists
      /\ \/ n = r
         \/ r.source.kind = "mount" /\ n.path = "mount" /\ n.status = "ready"
    BY MarkedMove
<1>3. row'[p] = n /\ \A q \in Projects \ {p} : row'[q] = row[q]
    BY DEF Inv, Typed
<1>4. p \notin mixed' /\ (Underway(p) \/ p \in mark) => n.source = row[p].source
    BY <1>2 DEF Crosses
<1>5. Kept
    BY <1>3, <1>4 DEF Kept
<1>6. n.path = "dir" => tree'[p].whole
    BY <1>1, <1>2 DEF RowOk
<1>7. n.exists /\ n.status = "ready" /\ p \notin mixed' =>
        CASE n.source.kind = "git" -> n.path = "dir" /\ tree'[p] = TreeOf(n.source, TRUE)
          [] n.source.kind = "mount" -> n.path = "mount"
          [] OTHER -> FALSE
    <2>1. CASE n = r
        BY <1>1, <1>2, <2>1 DEF RowOk, Holds
    <2>2. CASE r.source.kind = "mount" /\ n.path = "mount"
        BY <1>2, <2>2
    <2> QED
        BY <1>2, <2>1, <2>2
<1>8. row' \in [Projects -> Row] /\ \A q \in Projects : RowOk(q)'
    BY <1>2, <1>4, <1>5, <1>6, <1>7, RowsKeep
<1>9. OneClone' /\ \A c \in Clicks : JobOk(c)'
    BY <1>5, JobsKeep
<1> QED
    BY <1>8, <1>9 DEF Inv, Typed

LEMMA FreshType == ASSUME NEW s \in Sources
                   PROVE  FreshRow(s) \in Row /\ NoRow \in Row /\ FreshRow(s).status = "idle"
                          /\ NoRow.status = "idle" /\ FreshRow(s).path = "none"
                          /\ NoRow.path = "none" /\ ~NoRow.exists
BY ProjectsAssumption DEF FreshRow, NoRow, Row

LEMMA CreateKeeps ==
    ASSUME Inv, NEW p \in Projects, NEW s \in Sources, Create(p, s)
    PROVE  Inv'
<1> DEFINE r == Upserted(p, s)
<1>1. row[p] \in Row
    BY DEF Inv, Typed
<1>2. r \in Row /\ (r.path = "dir" => row[p].path = "dir")
      /\ (r.exists /\ r.status = "ready" /\ s = row[p].source => r = row[p])
      /\ (r.exists /\ r.status = "ready" => row[p].exists)
    <2>1. CASE row[p].exists
        <3>1. r = [row[p] EXCEPT !.source = s]
            BY <2>1 DEF Upserted
        <3> QED
            BY <1>1, <2>1, <3>1 DEF Row
    <2>2. CASE ~row[p].exists
        BY <2>2, FreshType DEF Upserted
    <2> QED
        BY <2>1, <2>2
<1>3. /\ row' = [row EXCEPT ![p] = Marked(r)]
      /\ mixed' = mixed \/ mixed' = mixed \cup {p}
      /\ Crosses(p, r) => p \in mixed'
      /\ row[p].exists /\ s # row[p].source => p \in mixed'
      /\ tree' = tree /\ job' = job /\ mark' = mark /\ edit' = edit
    BY DEF Create
<1> HIDE DEF r
<1>4. r.exists /\ r.status = "ready" /\ p \notin mixed' => r = row[p]
    BY <1>2, <1>3
<1> DEFINE n == Marked(r)
<1>5. n = Marked(r) /\ row' = [row EXCEPT ![p] = n] /\ edit' \in [Editors -> Edit]
    BY <1>3 DEF Inv, Typed
<1> HIDE DEF n
<1> QED
    BY <1>2, <1>3, <1>4, <1>5, WrittenKeeps

LEMMA DeleteKeeps ==
    ASSUME Inv, NEW p \in Projects, Delete(p)
    PROVE  Inv'
<1>1. /\ row' = [row EXCEPT ![p] = NoRow]
      /\ mixed' = mixed \/ mixed' = mixed \cup {p}
      /\ Crosses(p, NoRow) => p \in mixed'
      /\ tree' = tree /\ job' = job /\ mark' = mark /\ edit' = edit
    BY DEF Delete
<1>2. NoRow \in Row /\ NoRow.path # "dir" /\ ~NoRow.exists
    BY FreshType, ProjectsAssumption
<1>3. edit' \in [Editors -> Edit]
    BY <1>1 DEF Inv, Typed
<1> QED
    BY <1>1, <1>2, <1>3, WrittenKeeps

LEMMA EditWriteKeeps ==
    ASSUME Inv, NEW e \in Editors, EditWrite(e)
    PROVE  Inv'
<1> DEFINE x == edit[e]
           p == x.proj
           r == Edited(row[p], x)
           new == [NoEdit EXCEPT !.pc = "over"]
<1>1. x \in Edit
    BY DEF Inv, Typed
<1>2. /\ row' = [row EXCEPT ![p] = Marked(r)]
      /\ mixed' = mixed \/ mixed' = mixed \cup {p}
      /\ Crosses(p, r) => p \in mixed'
      /\ row[p].source # x.read => p \in mixed'
      /\ edit' = [edit EXCEPT ![e] = new]
      /\ tree' = tree /\ job' = job /\ mark' = mark
    BY DEF EditWrite
<1>3. new \in Edit
    BY ProjectsAssumption DEF NoEdit, Edit
<1> HIDE DEF new
<1>4. edit' \in [Editors -> Edit]
    BY <1>2, <1>3 DEF Inv, Typed
<1>5. CASE p \in Projects
    <2>1. row[p] \in Row
        BY <1>5 DEF Inv, Typed
    <2>2. r \in Row /\ (r.path = "dir" => row[p].path = "dir")
          /\ (r.exists /\ r.status = "ready" /\ row[p].source = x.read => r = row[p])
        <3>1. CASE ~row[p].exists
            BY <2>1, <3>1 DEF Edited
        <3>2. CASE row[p].exists /\ GitChanged(x)
            <4>1. r = FreshRow(x.source) /\ x.source \in Sources
                BY <1>1, <3>2 DEF Edited, Edit
            <4> QED
                BY <4>1, FreshType
        <3>3. CASE row[p].exists /\ ~GitChanged(x)
            <4>1. r = [row[p] EXCEPT !.source = x.source] /\ x.source \in Sources
                  /\ x.source = x.read
                BY <1>1, <3>3 DEF Edited, Edit, GitChanged
            <4> QED
                BY <2>1, <4>1 DEF Row
        <3> QED
            BY <3>1, <3>2, <3>3
    <2> HIDE DEF r
    <2>3. r.exists /\ r.status = "ready" /\ p \notin mixed' => r = row[p]
        BY <1>2, <2>2
    <2> DEFINE n == Marked(r)
    <2>4. n = Marked(r) /\ row' = [row EXCEPT ![p] = n]
        BY <1>2
    <2> HIDE DEF n, p
    <2> QED
        BY <1>2, <1>4, <1>5, <2>2, <2>3, <2>4, WrittenKeeps
<1>6. CASE p \notin Projects
    <2>1. row' = row
        BY <1>2, <1>6 DEF Inv, Typed
    <2>2. Kept
        BY <1>2, <2>1 DEF Kept
    <2> QED
        BY <1>2, <1>4, <2>1, <2>2, JobsKeep, RowsStay DEF Inv, Typed
<1> QED
    BY <1>5, <1>6

LEMMA EditReadKeeps ==
    ASSUME Inv, NEW e \in Editors, NEW p \in Projects, NEW s \in Sources, EditRead(e, p, s)
    PROVE  Inv'
<1> DEFINE new == [pc |-> "write", proj |-> p, read |-> row[p].source, source |-> s]
<1>1. new \in Edit
    BY DEF Inv, Typed, Row, Edit
<1>2. /\ row' = [row EXCEPT ![p] = Marked(row[p])]
      /\ edit' = [edit EXCEPT ![e] = new]
      /\ tree' = tree /\ job' = job /\ mark' = mark /\ mixed' = mixed
    BY DEF EditRead
<1> HIDE DEF new
<1>3. Kept /\ row' \in [Projects -> Row] /\ \A q \in Projects : RowOk(q)'
    BY <1>2, ReadKeeps
<1>4. edit' \in [Editors -> Edit]
    BY <1>1, <1>2 DEF Inv, Typed
<1> QED
    BY <1>2, <1>3, <1>4, JobsKeep DEF Inv, Typed

LEMMA MarkReadsKeeps ==
    ASSUME Inv, NEW p \in Projects, MarkReads(p)
    PROVE  Inv'
<1>1. /\ mark' = mark \cup {p} /\ row[p].source.kind = "mount"
      /\ row' = row /\ tree' = tree /\ job' = job /\ edit' = edit /\ mixed' = mixed
    BY DEF MarkReads, MountWaits
<1>2. Typed' /\ OneClone'
    BY <1>1 DEF Inv, Typed, OneClone
<1>3. \A c \in Clicks : JobOk(c)'
    BY <1>1 DEF Inv, JobOk
<1>4. ASSUME NEW q \in Projects
      PROVE  RowOk(q)'
    <2>1. RowOk(q) /\ Holds(q)' = Holds(q)
        BY <1>1 DEF Inv, Holds
    <2> QED
        BY <1>1, <2>1 DEF RowOk
<1> QED
    BY <1>2, <1>3, <1>4 DEF Inv

LEMMA MarkWritesKeeps ==
    ASSUME Inv, NEW p \in Projects, MarkWrites(p)
    PROVE  Inv'
<1> DEFINE a == [row[p] EXCEPT !.status = "ready"]
           b == [a EXCEPT !.path = "mount"]
           n == IF row[p].exists THEN b ELSE row[p]
<1>1. row[p] \in Row /\ RowOk(p) /\ p \in mark
    BY DEF MarkWrites, Inv, Typed
<1>2. /\ row' = [row EXCEPT ![p] = n] /\ mark' = mark \ {p}
      /\ tree' = tree /\ job' = job /\ edit' = edit /\ mixed' = mixed
    BY DEF MarkWrites
<1>3. b \in Row /\ b.source = row[p].source /\ b.path = "mount"
    BY <1>1 DEF Row
<1>4. /\ n \in Row /\ n.source = row[p].source
      /\ n = row[p] \/ n.path = "mount"
    BY <1>1, <1>3
<1> HIDE DEF n
<1>5. \A q \in Projects : row'[q].source = row[q].source
    BY <1>2, <1>4 DEF Inv, Typed
<1>6. Kept
    BY <1>2, <1>5 DEF Kept
<1>7. /\ n.path = "dir" => tree'[p].whole
      /\ p \notin mixed => n.source.kind = "mount"
    BY <1>1, <1>2, <1>4 DEF RowOk
<1>8. n.exists /\ n.status = "ready" /\ p \notin mixed' =>
        CASE n.source.kind = "git" -> n.path = "dir" /\ tree'[p] = TreeOf(n.source, TRUE)
          [] n.source.kind = "mount" -> n.path = "mount"
          [] OTHER -> FALSE
    BY <1>1, <1>2, <1>4, <1>7 DEF RowOk, Holds
<1>9. row' \in [Projects -> Row] /\ \A q \in Projects : RowOk(q)'
    BY <1>2, <1>4, <1>6, <1>7, <1>8, RowsKeep
<1> QED
    BY <1>2, <1>6, <1>9, JobsKeep DEF Inv, Typed

-----------------------------------------------------------------------------
(* Clones                                                                   *)

\* The part of the invariant that is about the job of one click, as a step leaves it.
LEMMA ClickKeeps ==
    ASSUME Inv, Kept, NEW c \in Clicks, NEW n \in Job, job' = [job EXCEPT ![c] = n],
           \A d \in Clicks \ {c} : job[d].pc = "clone" =>
               /\ tree'[job[d].proj] = tree[job[d].proj]
               /\ n.pc = "clone" => job[d].proj # n.proj,
           JobOk(c)', row' \in [Projects -> Row], \A q \in Projects : RowOk(q)',
           tree' \in [Projects -> Trees], edit' = edit
    PROVE  Inv'
<1>1. /\ job' \in [Clicks -> Job] /\ job'[c] = n
      /\ \A d \in Clicks \ {c} : job'[d] = job[d]
    BY DEF Inv, Typed
<1>2. \A d \in Clicks \ {c} : JobOk(d)'
    BY <1>1, OthersKeep
<1>3. OneClone'
    BY <1>1 DEF Inv, OneClone
<1> QED
    BY <1>1, <1>2, <1>3 DEF Inv, Typed

\* ... for the steps that leave the directories alone.
LEMMA ClickKeepsTrees ==
    ASSUME Inv, Kept, NEW c \in Clicks, NEW n \in Job, job' = [job EXCEPT ![c] = n],
           n.pc # "clone", tree' = tree, JobOk(c)',
           row' \in [Projects -> Row], \A q \in Projects : RowOk(q)', edit' = edit
    PROVE  Inv'
<1>1. \A d \in Clicks \ {c} : job[d].pc = "clone" =>
          tree'[job[d].proj] = tree[job[d].proj]
    OBVIOUS
<1>2. tree' \in [Projects -> Trees]
    BY DEF Inv, Typed
<1> QED
    BY <1>1, <1>2, ClickKeeps

LEMMA JobTypes ==
    /\ NoJob \in Job /\ OverJob \in Job
    /\ NoJob.path = "none" /\ OverJob.path = "none" /\ NoJob.pc = "none" /\ OverJob.pc = "over"
BY ProjectsAssumption DEF NoJob, OverJob, Job

\* The job's next step is all that changes of it.
LEMMA PcMove ==
    ASSUME Inv, NEW c \in Clicks, NEW pc \in Going, job' = [job EXCEPT ![c].pc = pc]
    PROVE  \E n \in Job : /\ job' = [job EXCEPT ![c] = n] /\ job'[c] = n /\ n.pc = pc
                          /\ n.proj = job[c].proj /\ n.source = job[c].source
                          /\ n.path = job[c].path
<1> DEFINE n == [job[c] EXCEPT !.pc = pc]
<1>1. job' = [job EXCEPT ![c] = n] /\ job'[c] = n
    BY DEF Inv, Typed
<1>2. /\ n \in Job /\ n.pc = pc /\ n.proj = job[c].proj /\ n.source = job[c].source
      /\ n.path = job[c].path
    BY DEF Inv, Typed, Job, Going
<1> HIDE DEF n
<1> QED
    BY <1>1, <1>2

LEMMA StartReadKeeps ==
    ASSUME Inv, NEW c \in Clicks, StartRead(c)
    PROVE  Inv'
<1> DEFINE p == job[c].proj
<1>1. JobOk(c) /\ job[c].pc = "start" /\ p \in Projects
    BY DEF StartRead, Inv, JobOk, Going
<1>2. /\ row' = [row EXCEPT ![p] = Marked(row[p])]
      /\ tree' = tree /\ edit' = edit /\ mark' = mark /\ mixed' = mixed
    BY DEF StartRead
<1>3. Kept /\ row' \in [Projects -> Row] /\ \A q \in Projects : RowOk(q)'
    BY <1>1, <1>2, ReadKeeps
<1>4. CASE job' = [job EXCEPT ![c] = OverJob]
    <2>1. job'[c] = OverJob
        BY <1>4 DEF Inv, Typed
    <2>2. JobOk(c)'
        BY <2>1, JobTypes DEF JobOk, Going, Working
    <2> QED
        BY <1>2, <1>3, <1>4, <2>2, JobTypes, ClickKeepsTrees
<1>5. CASE job' = [job EXCEPT ![c].pc = "set"]
    <2>1. PICK n \in Job : /\ job' = [job EXCEPT ![c] = n] /\ job'[c] = n /\ n.pc = "set"
                           /\ n.proj = job[c].proj /\ n.source = job[c].source
                           /\ n.path = job[c].path
        BY <1>5, PcMove DEF Going
    <2>2. JobOk(c)'
        BY <1>1, <1>2, <2>1 DEF JobOk, Going, Working
    <2> QED
        BY <1>2, <1>3, <2>1, <2>2, ClickKeepsTrees
<1> QED
    BY <1>4, <1>5 DEF StartRead

LEMMA StartWriteKeeps ==
    ASSUME Inv, NEW c \in Clicks, StartWrite(c)
    PROVE  Inv'
<1> DEFINE p == job[c].proj
           status == IF row[p].exists THEN "cloning" ELSE "idle"
           r == [row[p] EXCEPT !.status = status]
<1>1. JobOk(c) /\ job[c].pc = "set" /\ p \in Projects
    BY DEF StartWrite, Inv, JobOk, Going
<1>2. /\ row' = [row EXCEPT ![p] = r] /\ job' = [job EXCEPT ![c].pc = "read"]
      /\ tree' = tree /\ edit' = edit /\ mark' = mark /\ mixed' = mixed
    BY <1>1 DEF StartWrite, Inv, Typed
<1>3. row[p] \in Row /\ RowOk(p)
    BY <1>1 DEF Inv, Typed
<1>4. r \in Row /\ r.source = row[p].source /\ r.path = row[p].path /\ r.status # "ready"
    BY <1>3 DEF Row
<1> HIDE DEF r, p
<1>5. \A q \in Projects : row'[q].source = row[q].source
    BY <1>2, <1>4 DEF Inv, Typed
<1>6. Kept
    BY <1>2, <1>5 DEF Kept
<1>7. r.path = "dir" => tree'[p].whole
    BY <1>2, <1>3, <1>4 DEF RowOk
<1>8. row' \in [Projects -> Row] /\ \A q \in Projects : RowOk(q)'
    BY <1>1, <1>2, <1>4, <1>6, <1>7, RowsKeep
<1>9. PICK n \in Job : /\ job' = [job EXCEPT ![c] = n] /\ job'[c] = n /\ n.pc = "read"
                       /\ n.proj = job[c].proj /\ n.source = job[c].source
                       /\ n.path = job[c].path
    BY <1>2, PcMove DEF Going
<1>10. JobOk(c)'
    BY <1>1, <1>2, <1>9 DEF JobOk, Going, Working
<1> QED
    BY <1>2, <1>6, <1>8, <1>9, <1>10, ClickKeepsTrees

LEMMA CloneReadKeeps ==
    ASSUME Inv, NEW c \in Clicks, CloneRead(c)
    PROVE  Inv'
<1> DEFINE p == job[c].proj
           s == row[p].source
           git == [pc |-> "choose", proj |-> p, source |-> s, path |-> row[p].path]
           mounted == Ended(job[c], TRUE, "mount")
           failed == Ended(job[c], FALSE, row[p].path)
<1>1. JobOk(c) /\ job[c].pc = "read" /\ p \in Projects
    BY DEF CloneRead, Inv, JobOk, Going
<1>2. /\ row' = [row EXCEPT ![p] = Marked(row[p])]
      /\ tree' = tree /\ edit' = edit /\ mark' = mark /\ mixed' = mixed
      /\ job' = [job EXCEPT ![c] = CASE s.kind = "git" -> git
                                     [] s.kind = "mount" -> mounted
                                     [] OTHER -> failed]
    BY DEF CloneRead
<1>3. row[p] \in Row /\ RowOk(p) /\ s \in Sources
    BY <1>1 DEF Inv, Typed, Row
<1>4. Kept /\ row' \in [Projects -> Row] /\ (\A q \in Projects : RowOk(q)') /\ row'[p].source = s
    BY <1>1, <1>2, ReadKeeps
<1>5. PICK n : /\ job' = [job EXCEPT ![c] = n]
               /\ \/ n = git /\ s.kind = "git"
                  \/ n = mounted /\ s.kind = "mount"
                  \/ n = failed
    BY <1>2
<1>6. n \in Job /\ n.proj = p
    BY <1>1, <1>3, <1>5, ProjectsAssumption DEF Ended, Job, Row
<1>7. n.path = "dir" => row[p].path = "dir"
    BY <1>5 DEF Ended
<1>8. \/ n.pc = "choose" /\ n.source = s /\ s.kind = "git"
      \/ n.pc = "ready" /\ n.path = "mount" /\ s.kind = "mount"
      \/ n.pc = "failed"
    BY <1>5 DEF Ended
<1>9. job'[c] = n
    BY <1>5 DEF Inv, Typed
<1>10. n.path = "dir" => tree'[p].whole
    BY <1>2, <1>3, <1>7 DEF RowOk
<1> HIDE DEF p, s
<1>11. JobOk(c)'
    BY <1>1, <1>2, <1>4, <1>6, <1>8, <1>9, <1>10 DEF JobOk, Going, Working
<1> QED
    BY <1>2, <1>4, <1>5, <1>6, <1>8, <1>11, ClickKeepsTrees

LEMMA GitTree ==
    ASSUME NEW s \in Sources, s.kind = "git"
    PROVE  TreeOf(s, FALSE) \in Trees /\ TreeOf(s, FALSE) # NoTree /\ TreeOf(s, TRUE) \in Trees
           /\ ~TreeOf(s, FALSE).whole /\ ~NoTree.whole /\ NoTree \in Trees /\ TreeOf(s, TRUE).whole
<1>1. s.url # None /\ NoTree.url = None /\ TreeOf(s, FALSE).url = s.url
    BY ProjectsAssumption DEF NoTree, TreeOf
<1>2. TreeOf(s, FALSE) # NoTree
    BY <1>1
<1>3. ~TreeOf(s, FALSE).whole /\ TreeOf(s, TRUE).whole /\ ~NoTree.whole
    BY DEF TreeOf, NoTree
<1>4. TreeOf(s, FALSE) \in Trees /\ TreeOf(s, TRUE) \in Trees /\ NoTree \in Trees
    BY Zenon DEF Trees
<1> QED
    BY <1>2, <1>3, <1>4

LEMMA CloneOrPullKeeps ==
    ASSUME Inv, NEW c \in Clicks, CloneOrPull(c)
    PROVE  Inv'
<1> DEFINE p == job[c].proj
<1>1. JobOk(c) /\ job[c].pc = "choose" /\ p \in Projects
    BY DEF CloneOrPull, Inv, JobOk, Going
<1>2. /\ row' = row /\ edit' = edit /\ mark' = mark /\ mixed' = mixed
    BY DEF CloneOrPull
<1>3. job[c].source \in Sources /\ job[c].source.kind = "git"
    BY <1>1 DEF Inv, Typed, Job, JobOk, Working
<1>4. row' \in [Projects -> Row]
    BY <1>2 DEF Inv, Typed
<1>5. CASE tree[p] = NoTree
    <2>1. /\ tree' = [tree EXCEPT ![p] = TreeOf(job[c].source, FALSE)]
          /\ job' = [job EXCEPT ![c].pc = "clone"]
        BY <1>5 DEF CloneOrPull
    <2>2. PICK n \in Job : /\ job' = [job EXCEPT ![c] = n] /\ job'[c] = n /\ n.pc = "clone"
                           /\ n.proj = job[c].proj /\ n.source = job[c].source
                           /\ n.path = job[c].path
        BY <2>1, PcMove DEF Going
    <2>3. /\ tree' \in [Projects -> Trees] /\ tree'[p] = TreeOf(job[c].source, FALSE)
          /\ \A q \in Projects \ {p} : tree'[q] = tree[q]
        BY <1>1, <1>3, <2>1, GitTree DEF Inv, Typed
    <2>4. ~tree[p].whole
        BY <1>3, <1>5, GitTree
    <2>5. Kept
        BY <1>2, <2>3, <2>4 DEF Kept
    <2>6. ASSUME NEW d \in Clicks \ {c}, job[d].pc = "clone"
          PROVE  /\ tree'[job[d].proj] = tree[job[d].proj]
                 /\ job[d].proj # n.proj
        <3>1. /\ tree[job[d].proj] = TreeOf(job[d].source, FALSE) /\ job[d].source.kind = "git"
              /\ job[d].proj \in Projects /\ job[d].source \in Sources
            BY <2>6 DEF Inv, JobOk, Going, Working, Typed, Job
        <3>2. job[d].proj # p
            BY <1>5, <3>1, GitTree
        <3> QED
            BY <2>2, <2>3, <3>1, <3>2
    <2>7. JobOk(c)'
        <3>1. n.path # "dir" /\ (p \notin mixed => row[p].source = n.source)
            BY <1>1, <2>2, <2>4 DEF JobOk, Working
        <3>2. n.proj = p /\ tree'[p] = TreeOf(n.source, FALSE)
            BY <2>2, <2>3
        <3>3. /\ job'[c].pc = "clone" /\ job'[c].path # "dir" /\ job'[c].source.kind = "git"
              /\ job'[c].proj \in Projects
            BY <1>1, <1>3, <2>2, <3>1
        <3>4. tree'[job'[c].proj] = TreeOf(job'[c].source, FALSE)
            BY <2>2, <3>2
        <3>5. job'[c].proj \notin mixed' => row'[job'[c].proj].source = job'[c].source
            BY <1>2, <2>2, <3>1, <3>2
        <3> QED
            BY <3>3, <3>4, <3>5 DEF JobOk, Going, Working
    <2> QED
        BY <1>2, <1>4, <2>2, <2>3, <2>5, <2>6, <2>7, RowsStay, ClickKeeps
<1>6. CASE tree[p] # NoTree
    <2>1. tree' = tree /\ job' = [job EXCEPT ![c].pc = "pull"]
        BY <1>6 DEF CloneOrPull
    <2>2. PICK n \in Job : /\ job' = [job EXCEPT ![c] = n] /\ job'[c] = n /\ n.pc = "pull"
                           /\ n.proj = job[c].proj /\ n.source = job[c].source
                           /\ n.path = job[c].path
        BY <2>1, PcMove DEF Going
    <2>3. Kept
        BY <1>2, <2>1 DEF Kept
    <2>4. JobOk(c)'
        BY <1>1, <1>2, <2>1, <2>2 DEF JobOk, Going, Working
    <2> QED
        BY <1>2, <1>4, <2>1, <2>2, <2>3, <2>4, RowsStay, ClickKeepsTrees
<1> QED
    BY <1>5, <1>6

LEMMA EndedType ==
    ASSUME Inv, NEW c \in Clicks, job[c].proj \in Projects, NEW ok \in BOOLEAN,
           NEW path \in {"none", "dir", "mount"}
    PROVE  /\ Ended(job[c], ok, path) \in Job
           /\ Ended(job[c], ok, path).proj = job[c].proj /\ Ended(job[c], ok, path).path = path
           /\ Ended(job[c], ok, path).pc = IF ok THEN "ready" ELSE "failed"
BY ProjectsAssumption DEF Ended, Job

LEMMA CloneEndsKeeps ==
    ASSUME Inv, NEW c \in Clicks, NEW ok \in BOOLEAN, CloneEnds(c, ok)
    PROVE  Inv'
<1> DEFINE p == job[c].proj
           s == job[c].source
           path == IF ok THEN "dir" ELSE job[c].path
           n == Ended(job[c], ok, path)
           t == IF ok THEN TreeOf(s, TRUE) ELSE NoTree
<1>1. JobOk(c) /\ job[c].pc = "clone" /\ p \in Projects
    BY DEF CloneEnds, Inv, JobOk, Going
<1>2. /\ row' = row /\ edit' = edit /\ mark' = mark /\ mixed' = mixed
      /\ tree' = [tree EXCEPT ![p] = t] /\ job' = [job EXCEPT ![c] = n]
    BY DEF CloneEnds, Inv, Typed
<1>3. s \in Sources /\ s.kind = "git" /\ path \in {"none", "dir", "mount"}
    BY <1>1 DEF Inv, Typed, Job, JobOk, Working
<1>4. tree[p] = TreeOf(s, FALSE) /\ ~tree[p].whole /\ job[c].path # "dir"
    BY <1>1, <1>3, GitTree DEF JobOk
<1>5. t \in Trees /\ (ok => t = TreeOf(s, TRUE) /\ t.whole)
    BY <1>3, GitTree
<1>6. n \in Job /\ n.proj = p /\ n.path = path /\ n.pc = IF ok THEN "ready" ELSE "failed"
    BY <1>1, <1>3, EndedType
<1>7. /\ n.path = "dir" => ok
      /\ n.pc = "ready" => ok /\ n.path = "dir"
      /\ n.pc \in {"ready", "failed"}
    BY <1>4, <1>6
<1> HIDE DEF t, n
<1>8. tree' \in [Projects -> Trees] /\ tree'[p] = t /\ \A q \in Projects \ {p} : tree'[q] = tree[q]
    BY <1>1, <1>2, <1>5 DEF Inv, Typed
<1>9. Kept
    BY <1>2, <1>4, <1>8 DEF Kept
<1>10. ASSUME NEW d \in Clicks \ {c}, job[d].pc = "clone"
       PROVE  /\ tree'[job[d].proj] = tree[job[d].proj]
              /\ n.pc = "clone" => job[d].proj # n.proj
    <2>1. job[d].proj \in Projects \ {p}
        BY <1>1, <1>10 DEF Inv, JobOk, Going, OneClone
    <2> QED
        BY <1>6, <1>8, <2>1
<1>11. job'[c] = n
    BY <1>2 DEF Inv, Typed
<1>12. p \notin mixed => row[p].source = s
    BY <1>1 DEF JobOk, Working
<1>13. JobOk(c)'
    <2>1. CASE ok
        <3>1. n.pc = "ready" /\ n.path = "dir"
            BY <1>6, <2>1
        <3>2. tree'[p] = TreeOf(s, TRUE) /\ tree'[p].whole
            BY <1>5, <1>8, <2>1
        <3>3. p \notin mixed' => row'[p].source = s /\ tree'[p] = TreeOf(row'[p].source, TRUE)
            BY <1>2, <1>12, <3>2
        <3>4. job'[c].pc = "ready" /\ job'[c].path = "dir" /\ job'[c].proj = p
            BY <1>6, <1>11, <3>1
        <3> QED
            BY <1>1, <1>3, <3>2, <3>3, <3>4 DEF JobOk, Going, Working
    <2>2. CASE ~ok
        <3>1. n.pc = "failed" /\ n.path # "dir"
            BY <1>6, <1>7, <2>2
        <3> QED
            BY <1>1, <1>6, <1>11, <3>1 DEF JobOk, Going, Working
    <2> QED
        BY <2>1, <2>2
<1>14. row' \in [Projects -> Row]
    BY <1>2 DEF Inv, Typed
<1> QED
    BY <1>2, <1>6, <1>8, <1>9, <1>10, <1>13, <1>14, RowsStay, ClickKeeps

LEMMA PullEndsKeeps ==
    ASSUME Inv, NEW c \in Clicks, NEW ok \in BOOLEAN, PullEnds(c, ok)
    PROVE  Inv'
<1> DEFINE p == job[c].proj
           s == job[c].source
           path == IF ok THEN "dir" ELSE job[c].path
           n == Ended(job[c], ok, path)
<1>1. JobOk(c) /\ job[c].pc = "pull" /\ p \in Projects
    BY DEF PullEnds, Inv, JobOk, Going
<1>2. /\ row' = row /\ tree' = tree /\ edit' = edit /\ mark' = mark
      /\ mixed' = mixed \/ mixed' = mixed \cup {p}
      /\ ok /\ tree[p].url # s.url => p \in mixed'
      /\ ok => CanPull(p, s)
      /\ job' = [job EXCEPT ![c] = n]
    BY DEF PullEnds, Inv, Typed
<1>3. s \in Sources /\ s.kind = "git" /\ path \in {"none", "dir", "mount"}
    BY <1>1 DEF Inv, Typed, Job, JobOk, Working
<1>4. n \in Job /\ n.proj = p /\ n.path = path /\ n.pc = IF ok THEN "ready" ELSE "failed"
    BY <1>1, <1>3, EndedType
<1> HIDE DEF n
<1>5. job'[c] = n
    BY <1>2 DEF Inv, Typed
<1>6. p \notin mixed => row[p].source = s
    BY <1>1 DEF JobOk, Working
<1>7. Kept
    BY <1>2 DEF Kept
<1>8. ASSUME ok, p \notin mixed'
      PROVE  tree[p] = TreeOf(s, TRUE)
    <2>1. tree[p].whole /\ tree[p].branch = s.branch /\ tree[p].url = s.url
        BY <1>2, <1>8 DEF CanPull
    <2>2. tree[p] \in Trees
        BY <1>1 DEF Inv, Typed
    <2>3. ~NoTree.whole /\ \A x \in Sources : ~TreeOf(x, FALSE).whole
        BY DEF NoTree, TreeOf
    <2>4. PICK x \in Sources : tree[p] = TreeOf(x, TRUE)
        BY <2>1, <2>2, <2>3, Zenon DEF Trees
    <2>5. x.url = s.url /\ x.branch = s.branch
        BY <2>1, <2>4 DEF TreeOf
    <2> QED
        BY <2>4, <2>5 DEF TreeOf
<1>9. JobOk(c)'
    <2>1. CASE ok
        <3>1. n.pc = "ready" /\ n.path = "dir"
            BY <1>4, <2>1
        <3>2. tree'[p].whole
            BY <1>2, <2>1 DEF CanPull
        <3>3. p \notin mixed' => tree'[p] = TreeOf(s, TRUE) /\ row'[p].source = s
            BY <1>2, <1>6, <1>8, <2>1
        <3> QED
            BY <1>1, <1>3, <1>4, <1>5, <3>1, <3>2, <3>3 DEF JobOk, Going, Working
    <2>2. CASE ~ok
        <3>1. n.pc = "failed" /\ n.path = job[c].path
            BY <1>4, <2>2
        <3> QED
            BY <1>1, <1>2, <1>4, <1>5, <3>1 DEF JobOk, Going, Working
    <2> QED
        BY <2>1, <2>2
<1>10. row' \in [Projects -> Row] /\ n.pc # "clone"
    BY <1>2, <1>4 DEF Inv, Typed
<1> QED
    BY <1>2, <1>4, <1>7, <1>9, <1>10, RowsStay, ClickKeepsTrees

LEMMA CloneWritesKeeps ==
    ASSUME Inv, NEW c \in Clicks, CloneWrites(c)
    PROVE  Inv'
<1> DEFINE p == job[c].proj
           r == Result(row[p], job[c])
           a == [row[p] EXCEPT !.status = job[c].pc]
           b == [a EXCEPT !.path = job[c].path]
<1>1. JobOk(c) /\ job[c].pc \in {"ready", "failed"} /\ p \in Projects
    BY DEF CloneWrites, Inv, JobOk, Going
<1>2. /\ row' = [row EXCEPT ![p] = r] /\ job' = [job EXCEPT ![c] = OverJob]
      /\ tree' = tree /\ edit' = edit /\ mark' = mark /\ mixed' = mixed
    BY DEF CloneWrites
<1>3. row[p] \in Row /\ RowOk(p) /\ job[c].path \in {"none", "dir", "mount"}
    BY <1>1 DEF Inv, Typed, Job
<1>4. a \in Row /\ a.source = row[p].source /\ a.status = job[c].pc /\ a.exists = row[p].exists
    BY <1>1, <1>3 DEF Row
<1> HIDE DEF a
<1>5. /\ b \in Row /\ b.source = row[p].source /\ b.status = job[c].pc /\ b.path = job[c].path
    BY <1>3, <1>4 DEF Row
<1> HIDE DEF b
<1>6. (r = row[p] /\ ~row[p].exists) \/ r = b
    BY DEF Result, b, a
<1> HIDE DEF r
<1>7. r \in Row /\ r.source = row[p].source
    BY <1>3, <1>5, <1>6
<1>8. r.path = "dir" => tree'[p].whole
    BY <1>1, <1>2, <1>3, <1>5, <1>6 DEF JobOk, RowOk
<1>9. r.exists /\ r.status = "ready" /\ p \notin mixed' =>
        CASE r.source.kind = "git" -> r.path = "dir" /\ tree'[p] = TreeOf(r.source, TRUE)
          [] r.source.kind = "mount" -> r.path = "mount"
          [] OTHER -> FALSE
    <2> SUFFICES ASSUME r.exists, r.status = "ready", p \notin mixed
                 PROVE  CASE r.source.kind = "git" -> r.path = "dir" /\ tree'[p] = TreeOf(r.source, TRUE)
                          [] r.source.kind = "mount" -> r.path = "mount"
                          [] OTHER -> FALSE
        BY <1>2
    <2>1. r = b
        BY <1>6
    <2>2. job[c].pc = "ready" /\ r.path = job[c].path
        BY <1>5, <2>1
    <2>3. CASE job[c].path = "dir"
        <3>1. row[p].source.kind = "git" /\ tree[p] = TreeOf(row[p].source, TRUE)
            BY <1>1, <2>2, <2>3 DEF JobOk
        <3> QED
            BY <1>2, <1>7, <2>2, <2>3, <3>1
    <2>4. CASE job[c].path # "dir"
        <3>1. row[p].source.kind = "mount" /\ job[c].path = "mount"
            BY <1>1, <2>2, <2>4 DEF JobOk
        <3> QED
            BY <1>7, <2>2, <3>1
    <2> QED
        BY <2>3, <2>4
<1>10. \A q \in Projects : row'[q].source = row[q].source
    BY <1>2, <1>7 DEF Inv, Typed
<1>11. Kept
    BY <1>2, <1>10 DEF Kept
<1>12. row' \in [Projects -> Row] /\ \A q \in Projects : RowOk(q)'
    BY <1>1, <1>2, <1>7, <1>8, <1>9, <1>11, RowsKeep
<1>13. job'[c] = OverJob
    BY <1>2 DEF Inv, Typed
<1>14. JobOk(c)'
    BY <1>13, JobTypes DEF JobOk, Going, Working
<1> QED
    BY <1>2, <1>11, <1>12, <1>14, JobTypes, ClickKeepsTrees

LEMMA DiesKeeps ==
    ASSUME Inv, Dies
    PROVE  Inv'
<1>1. /\ row' = row /\ tree' = tree /\ mixed' = mixed /\ mark' = {}
      /\ job' = [c \in Clicks |-> IF job[c].pc = "none" THEN job[c] ELSE OverJob]
      /\ edit' = [e \in Editors |-> IF edit[e].pc = "write" THEN [NoEdit EXCEPT !.pc = "over"]
                                    ELSE edit[e]]
    BY DEF Dies
<1>2. Kept
    BY <1>1 DEF Kept
<1>3. [NoEdit EXCEPT !.pc = "over"] \in Edit
    BY ProjectsAssumption DEF NoEdit, Edit
<1>4. Typed'
    BY <1>1, <1>3, JobTypes DEF Inv, Typed
<1>5. \A c \in Clicks : job'[c].pc \in {"none", "over"}
    BY <1>1, JobTypes
<1>6. OneClone'
    BY <1>5 DEF OneClone
<1>7. ASSUME NEW c \in Clicks
      PROVE  JobOk(c)'
    <2>1. JobOk(c)
        BY DEF Inv
    <2>2. job'[c].path # "dir"
        BY <1>1, <2>1, JobTypes DEF JobOk, Going
    <2> QED
        BY <1>5, <2>2 DEF JobOk, Going, Working
<1> QED
    BY <1>1, <1>2, <1>4, <1>6, <1>7, RowsStay DEF Inv

LEMMA ClickMoves ==
    ASSUME Inv, NEW c \in Clicks, NEW p \in Projects, Click(c, p)
    PROVE  Inv'
<1> DEFINE n == [[NoJob EXCEPT !.pc = "start"] EXCEPT !.proj = p]
<1>1. /\ row' = row /\ tree' = tree /\ edit' = edit /\ mark' = mark /\ mixed' = mixed
      /\ job' = [job EXCEPT ![c] = n]
    BY DEF Click, NoJob
<1>2. n \in Job /\ n.pc = "start" /\ n.proj = p /\ n.path = "none"
    BY ProjectsAssumption DEF NoJob, Job
<1> HIDE DEF n
<1>3. Kept
    BY <1>1 DEF Kept
<1>4. job'[c] = n /\ row' \in [Projects -> Row]
    BY <1>1 DEF Inv, Typed
<1>5. JobOk(c)'
    BY <1>2, <1>4 DEF JobOk, Going, Working
<1> QED
    BY <1>1, <1>2, <1>3, <1>4, <1>5, RowsStay, ClickKeepsTrees

-----------------------------------------------------------------------------
(* The panel                                                                *)

LEMMA PollKeeps ==
    ASSUME Inv, NEW c \in Clicks, Poll(c)
    PROVE  Inv'
<1> DEFINE p == page[c].proj
<1>1. /\ row' = [row EXCEPT ![p] = Marked(row[p])]
      /\ tree' = tree /\ job' = job /\ edit' = edit /\ mark' = mark /\ mixed' = mixed
    BY DEF Poll
<1>2. CASE p \in Projects
    <2>1. Kept /\ row' \in [Projects -> Row] /\ \A q \in Projects : RowOk(q)'
        BY <1>1, <1>2, ReadKeeps
    <2> QED
        BY <1>1, <2>1, JobsKeep DEF Inv, Typed
<1>3. CASE p \notin Projects
    <2>1. row' = row
        BY <1>1, <1>3 DEF Inv, Typed
    <2>2. Kept
        BY <1>1, <2>1 DEF Kept
    <2> QED
        BY <1>1, <2>1, <2>2, JobsKeep, RowsStay DEF Inv, Typed
<1> QED
    BY <1>2, <1>3

\* Nothing the invariant is about changes.
LEMMA Stutters ==
    ASSUME Inv, row' = row, tree' = tree, job' = job, edit' = edit, mark' = mark, mixed' = mixed
    PROVE  Inv'
<1>1. Kept
    BY DEF Kept
<1> QED
    BY <1>1, JobsKeep, RowsStay DEF Inv, Typed

-----------------------------------------------------------------------------
(* The theorems                                                             *)

LEMMA StepKeeps ==
    ASSUME Inv, [Next]_vars
    PROVE  Inv'
<1>1. CASE UNCHANGED vars
    BY <1>1, Stutters DEF vars
<1>2. CASE \E p \in Projects : \/ \E s \in Sources : Create(p, s)
                               \/ Delete(p) \/ MarkReads(p) \/ MarkWrites(p)
    BY <1>2, CreateKeeps, DeleteKeeps, MarkReadsKeeps, MarkWritesKeeps
<1>3. CASE \E e \in Editors : \/ \E p \in Projects, s \in Sources : EditRead(e, p, s)
                              \/ EditWrite(e)
    BY <1>3, EditReadKeeps, EditWriteKeeps
<1>4. CASE \E c \in Clicks : ServerStep(c)
    BY <1>4, StartReadKeeps, StartWriteKeeps, CloneReadKeeps, CloneOrPullKeeps, CloneEndsKeeps,
       PullEndsKeeps, CloneWritesKeeps, DiesKeeps DEF ServerStep, FindsNoProject
<1>5. CASE Crash
    BY <1>5, DiesKeeps DEF Crash
<1>6. CASE \E c \in Clicks : PanelStep(c) \/ PollIsLost(c)
    <2>1. PICK c \in Clicks : Answered(c) \/ Poll(c) \/ PollIsLost(c)
        BY <1>6 DEF PanelStep
    <2>2. CASE Poll(c)
        BY <2>2, PollKeeps
    <2>3. CASE Answered(c) \/ PollIsLost(c)
        BY <2>3, Stutters DEF Answered, PollIsLost
    <2> QED
        BY <2>1, <2>2, <2>3
<1>7. CASE \E c \in Clicks, p \in Projects : Click(c, p)
    BY <1>7, ClickMoves
<1> QED
    BY <1>1, <1>2, <1>3, <1>4, <1>5, <1>6, <1>7, Zenon DEF Next

LEMMA Initially == Init => Inv
<1> SUFFICES ASSUME Init PROVE Inv
    OBVIOUS
<1>1. /\ row \in [Projects -> {FreshRow(s) : s \in Given}]
      /\ tree = [p \in Projects |-> NoTree] /\ job = [c \in Clicks |-> NoJob]
      /\ edit = [e \in Editors |-> NoEdit] /\ mark = {}
    BY DEF Init
<1>2. \A p \in Projects : row[p] \in Row /\ row[p].path = "none" /\ row[p].status = "idle"
    <2> SUFFICES ASSUME NEW p \in Projects
                 PROVE  row[p] \in Row /\ row[p].path = "none" /\ row[p].status = "idle"
        OBVIOUS
    <2>1. PICK s \in Given : row[p] = FreshRow(s)
        BY <1>1
    <2>2. s \in Sources
        BY ProjectsAssumption
    <2> QED
        BY <2>1, <2>2, FreshType
<1>3. NoTree \in Trees /\ NoEdit \in Edit
    BY ProjectsAssumption DEF Trees, NoEdit, Edit
<1>4. Typed
    <2>1. row \in [Projects -> Row]
        BY <1>1, <1>2
    <2> QED
        BY <1>1, <1>3, <2>1, JobTypes DEF Typed
<1>5. OneClone /\ \A c \in Clicks : JobOk(c)
    BY <1>1, JobTypes DEF OneClone, JobOk, Going, Working
<1>6. \A p \in Projects : RowOk(p)
    BY <1>1, <1>2 DEF RowOk
<1> QED
    BY <1>4, <1>5, <1>6 DEF Inv

LEMMA Always == Spec => []Inv
<1>1. Inv /\ [Next]_vars => Inv'
    BY StepKeeps
<1> QED
    BY Initially, <1>1, PTL DEF Spec

\* The panel, the marks and the histories.
PanelTyped ==
    /\ page \in [Clicks -> Page] /\ cloningId \in Projects \cup {None}
    /\ mark \subseteq Projects /\ cut \subseteq Projects /\ mixed \subseteq Projects
    /\ changes \in 0 .. MaxChanges /\ mishaps \in 0 .. MaxMishaps /\ lost \in BOOLEAN

LEMMA PanelFrame ==
    ASSUME PanelTyped, UNCHANGED <<cloningId, cut, changes, mishaps, lost>>,
           mark' \subseteq Projects, mixed' \subseteq Projects, page' \in [Clicks -> Page]
    PROVE  PanelTyped'
BY DEF PanelTyped

LEMMA PageSet ==
    ASSUME PanelTyped, NEW c \in Clicks, NEW g \in Page, page' = [page EXCEPT ![c] = g]
    PROVE  page' \in [Clicks -> Page]
BY DEF PanelTyped

LEMMA PageConstants == NoPage \in Page /\ OverPage \in Page
BY ProjectsAssumption DEF NoPage, OverPage, Page

LEMMA PanelKeeps ==
    ASSUME Inv, PanelTyped, NEW c \in Clicks,
           PanelStep(c) \/ PollIsLost(c) \/ \E p \in Projects : Click(c, p)
    PROVE  PanelTyped'
<1>1. page[c] \in Page /\ MaxPolls \in Nat
    BY ProjectsAssumption DEF PanelTyped
<1>2. ASSUME NEW p \in Projects, Click(c, p) PROVE PanelTyped'
    <2>1. [NoPage EXCEPT !.pc = "posted", !.proj = p] \in Page
        BY PageConstants DEF Page
    <2>2. page' \in [Clicks -> Page]
        BY <1>2, <2>1, PageSet DEF Click
    <2> QED
        BY <1>2, <2>2, PanelFrame DEF Click, PanelTyped
<1>3. CASE PollIsLost(c)
    <2>1. page' \in [Clicks -> Page]
        BY <1>3, PageConstants, PageSet DEF PollIsLost
    <2> QED
        BY <1>3, <2>1, ProjectsAssumption DEF PollIsLost, PanelTyped
<1>4. CASE Answered(c)
    <2>1. [page[c] EXCEPT !.pc = "polling", !.answer = "none"] \in Page
        BY <1>1 DEF Page
    <2>2. page' \in [Clicks -> Page]
        BY <1>4, <2>1, PageConstants, PageSet DEF Answered
    <2>3. page[c].proj \in Projects \cup {None}
        BY <1>1 DEF Page
    <2>4. cloningId' \in Projects \cup {None}
        BY <1>4, <2>3 DEF Answered, PanelTyped
    <2> QED
        BY <1>4, <2>2, <2>4 DEF Answered, PanelTyped
<1>5. CASE Poll(c)
    <2>1. page[c].polls \in 0 .. MaxPolls
        BY <1>1 DEF Page
    <2>2. [page[c] EXCEPT !.polls = IF @ = MaxPolls THEN @ ELSE @ + 1] \in Page
        <3>1. (IF page[c].polls = MaxPolls THEN page[c].polls ELSE page[c].polls + 1) \in 0 .. MaxPolls
            BY <1>1, <2>1
        <3> QED
            BY <1>1, <3>1 DEF Page
    <2>3. \/ page' = [page EXCEPT ![c] = OverPage] /\ cloningId' = None
          \/ /\ page' = [page EXCEPT ![c] = [page[c] EXCEPT !.polls = IF @ = MaxPolls THEN @ ELSE @ + 1]]
             /\ UNCHANGED cloningId
        BY <1>5 DEF Poll, PanelTyped
    <2>4. page' \in [Clicks -> Page]
        BY <2>2, <2>3, PageConstants, PageSet
    <2> QED
        BY <1>5, <2>3, <2>4 DEF Poll, PanelTyped
<1> QED
    BY <1>2, <1>3, <1>4, <1>5 DEF PanelStep

\* A death of the API, by itself or because a project was not found.
LEMMA DiesTyped ==
    ASSUME PanelTyped, Dies, mishaps' \in 0 .. MaxMishaps
    PROVE  PanelTyped'
<1>1. page \in [Clicks -> Page]
    BY DEF PanelTyped
<1>2. \A c \in Clicks : [page[c] EXCEPT !.answer = "refused"] \in Page
    BY <1>1 DEF Page
<1>3. page' \in [Clicks -> Page]
    BY <1>1, <1>2 DEF Dies
<1>4. mark' \subseteq Projects /\ cut' \subseteq Projects
    BY DEF Dies, PanelTyped
<1>5. UNCHANGED <<cloningId, changes, mixed, lost>>
    BY DEF Dies
<1> QED
    BY <1>3, <1>4, <1>5 DEF PanelTyped

LEMMA ServerKeeps ==
    ASSUME Inv, PanelTyped, NEW c \in Clicks, ServerStep(c)
    PROVE  PanelTyped'
<1>1. page[c] \in Page
    BY DEF PanelTyped
<1>2. CASE StartRead(c) \/ StartWrite(c)
    <2>1. \A a \in {"started", "refused"} : [page[c] EXCEPT !.answer = a] \in Page
        BY <1>1 DEF Page
    <2>2. \/ UNCHANGED page
          \/ \E a \in {"started", "refused"} :
                page' = [page EXCEPT ![c] = [page[c] EXCEPT !.answer = a]]
        BY <1>2 DEF StartRead, StartWrite, PanelTyped
    <2>3. page' \in [Clicks -> Page]
        BY <2>1, <2>2, PageSet DEF PanelTyped
    <2> QED
        BY <1>2, <2>3, PanelFrame DEF StartRead, StartWrite, PanelTyped
<1>3. ASSUME NEW ok \in BOOLEAN, PullEnds(c, ok) PROVE PanelTyped'
    <2>1. job[c].proj \in Projects
        BY <1>3 DEF PullEnds, Inv, JobOk, Going
    <2>2. mixed' \subseteq Projects
        BY <1>3, <2>1 DEF PullEnds, PanelTyped
    <2> QED
        BY <1>3, <2>2, PanelFrame DEF PullEnds, PanelTyped
<1>4. CASE \/ CloneRead(c) \/ CloneOrPull(c) \/ CloneWrites(c)
           \/ \E ok \in BOOLEAN : CloneEnds(c, ok)
    BY <1>4, PanelFrame DEF CloneRead, CloneOrPull, CloneWrites, CloneEnds, PanelTyped
<1>5. CASE FindsNoProject(c)
    <2>1. Dies /\ mishaps' \in 0 .. MaxMishaps
        BY <1>5 DEF FindsNoProject, PanelTyped
    <2> QED
        BY <2>1, DiesTyped
<1> QED
    BY <1>2, <1>3, <1>4, <1>5 DEF ServerStep

\* An update writes the project it has read.
EditsTyped == \A e \in Editors : edit[e].pc = "write" => edit[e].proj \in Projects

LEMMA EditsStep ==
    ASSUME Inv, EditsTyped, [Next]_vars
    PROVE  EditsTyped'
<1>1. ASSUME UNCHANGED edit PROVE EditsTyped'
    BY <1>1 DEF EditsTyped
<1>2. ASSUME NEW e \in Editors, NEW p \in Projects, NEW s \in Sources, EditRead(e, p, s)
      PROVE  EditsTyped'
    BY <1>2 DEF EditRead, EditsTyped, Inv, Typed
<1>3. ASSUME NEW e \in Editors, EditWrite(e) PROVE EditsTyped'
    BY <1>3 DEF EditWrite, EditsTyped, Inv, Typed, NoEdit
<1>4. ASSUME Dies PROVE EditsTyped'
    BY <1>4 DEF Dies, EditsTyped, NoEdit
<1>5. ASSUME NEW c \in Clicks, ServerStep(c) \/ PanelStep(c) \/ PollIsLost(c)
      PROVE  EditsTyped'
    BY <1>1, <1>4, <1>5
    DEF ServerStep, PanelStep, PollIsLost, StartRead, StartWrite, CloneRead, CloneOrPull,
        CloneEnds, PullEnds, CloneWrites, FindsNoProject, Answered, Poll
<1>6. ASSUME NEW p \in Projects, \/ Delete(p) \/ MarkReads(p) \/ MarkWrites(p)
                                 \/ \E s \in Sources : Create(p, s)
                                 \/ \E c \in Clicks : Click(c, p)
      PROVE  EditsTyped'
    BY <1>1, <1>6 DEF Delete, MarkReads, MarkWrites, Create, Click
<1>7. CASE Crash \/ UNCHANGED vars
    BY <1>1, <1>4, <1>7 DEF Crash, vars
<1> QED
    BY <1>2, <1>3, <1>5, <1>6, <1>7, Zenon DEF Next

LEMMA PanelStepTyped ==
    ASSUME Inv, EditsTyped, PanelTyped, [Next]_vars
    PROVE  PanelTyped'
<1>1. changes < MaxChanges => changes + 1 \in 0 .. MaxChanges
    BY ProjectsAssumption DEF PanelTyped
<1>2. ASSUME NEW p \in Projects, NEW s \in Sources, Create(p, s)
      PROVE  PanelTyped'
    <2>1. changes' \in 0 .. MaxChanges
        BY <1>1, <1>2 DEF Create
    <2>2. mixed' \subseteq Projects
        BY <1>2 DEF Create, PanelTyped
    <2> QED
        BY <1>2, <2>1, <2>2 DEF Create, PanelTyped
<1>3. ASSUME NEW p \in Projects, Delete(p) PROVE PanelTyped'
    <2>1. changes' \in 0 .. MaxChanges
        BY <1>1, <1>3 DEF Delete
    <2>2. mixed' \subseteq Projects
        BY <1>3 DEF Delete, PanelTyped
    <2> QED
        BY <1>3, <2>1, <2>2 DEF Delete, PanelTyped
<1>4. ASSUME NEW e \in Editors, NEW p \in Projects, NEW s \in Sources, EditRead(e, p, s)
      PROVE  PanelTyped'
    BY <1>4, PanelFrame DEF EditRead, PanelTyped
<1>5. ASSUME NEW e \in Editors, EditWrite(e) PROVE PanelTyped'
    <2>1. mixed' \subseteq Projects
        BY <1>5 DEF EditWrite, EditsTyped, PanelTyped
    <2> QED
        BY <1>5, <2>1, PanelFrame DEF EditWrite, PanelTyped
<1>6. ASSUME NEW p \in Projects, MarkReads(p) \/ MarkWrites(p) PROVE PanelTyped'
    BY <1>6, PanelFrame DEF MarkReads, MarkWrites, PanelTyped
<1>7. CASE Crash
    <2>1. Dies /\ mishaps' \in 0 .. MaxMishaps
        BY <1>7, ProjectsAssumption DEF Crash, PanelTyped
    <2> QED
        BY <2>1, DiesTyped
<1>8. CASE UNCHANGED vars
    BY <1>8 DEF vars, PanelTyped
<1> QED
    BY <1>2, <1>3, <1>4, <1>5, <1>6, <1>7, <1>8, ServerKeeps, PanelKeeps, Zenon DEF Next

\* Types of the rows, the directories, the clones, the updates and the panel
\* (project-service.ts, clone-service.ts, ProjectPanel.tsx): a directory holds nothing or
\* one of the sources, whole or not, and the panel's clone is of a project.
THEOREM TypesHold == Spec => []TypeOK
<1>1. Inv /\ PanelTyped => TypeOK
    <2> SUFFICES ASSUME Inv, PanelTyped PROVE TypeOK
        OBVIOUS
    <2>1. \A p \in Projects : tree[p] = NoTree
             \/ \E s \in Sources, w \in BOOLEAN : tree[p] = TreeOf(s, w)
        BY DEF Inv, Typed, Trees
    <2> QED
        BY <2>1 DEF Inv, Typed, PanelTyped, TypeOK
<1>2. Init => EditsTyped /\ PanelTyped
    <2>1. Init => EditsTyped
        BY DEF Init, EditsTyped, NoEdit
    <2>2. Init => page \in [Clicks -> Page]
        BY PageConstants DEF Init
    <2>3. 0 \in 0 .. MaxChanges /\ 0 \in 0 .. MaxMishaps
        BY ProjectsAssumption
    <2>4. Init => PanelTyped
        BY <2>2, <2>3 DEF Init, PanelTyped
    <2> QED
        BY <2>1, <2>4
<1>3. Inv /\ EditsTyped /\ PanelTyped /\ [Next]_vars => (EditsTyped /\ PanelTyped)'
    BY EditsStep, PanelStepTyped
<1> QED
    BY Always, <1>1, <1>2, <1>3, PTL DEF Spec

\* Whatever clones, PUTs, POSTs, DELETEs and deaths of the API come in between, a project
\* that is ready by its clone's directory has a whole clone in it: git clone is the only one
\* to write the directory, one at a time, and a row names it only after the clone's end.
THEOREM ClonesAreWhole == Spec => []ReadyIsWhole
<1>1. Inv => ReadyIsWhole
    BY DEF Inv, RowOk, ReadyIsWhole
<1> QED
    BY Always, <1>1, PTL

\* A project that is ready has what its row names, unless it is one of those that were
\* changed at cross purposes.
THEOREM ReadyIsRight == Spec => []ReadyIsConfigured
<1>1. Inv => ReadyIsConfigured
    BY DEF Inv, RowOk, ReadyIsConfigured
<1> QED
    BY Always, <1>1, PTL

-----------------------------------------------------------------------------
(***************************************************************************)
(* The files of a run (MondayArtifacts).  While nobody raced, one attempt  *)
(* has the staging directory (Alone), so the invariant can say of each     *)
(* request what it has deleted so far (RequestOK) and of each attempt what *)
(* it began from, what it has made of it and how much of that it has still *)
(* to push (AttemptOK); generations are counted by the requests that are   *)
(* spent (FilesTyped).                                                     *)
(***************************************************************************)

-----------------------------------------------------------------------------
(* Keys, agents and their files                                             *)

Groups == {"report", "journeys", "catalog", "poms", "tests"}

\* What cleanupDownstreamArtifacts deletes for an agent, and what is not there while it works.
Clean(agent) ==
    CASE agent = "scriptAnalyst" -> {"catalog", "poms", "journeys", "report"} \cup Ids
      [] agent = "setDesigner" -> {"poms", "journeys", "report"} \cup Ids
      [] agent \in {"choreographer", "assistantDirector"} -> {"report"} \cup Ids
      [] OTHER -> {"report"}
Blank(agent) ==
    CASE agent = "scriptAnalyst" -> {"poms", "journeys", "report"} \cup Ids
      [] agent = "setDesigner" -> {"journeys", "report"} \cup Ids
      [] agent = "choreographer" -> {"report"} \cup Ids
      [] agent = "assistantDirector" -> {"report"}
      [] OTHER -> {}
OutputsOf(agent) ==
    CASE agent = "scriptAnalyst" -> {"catalog"}
      [] agent = "setDesigner" -> {"poms"}
      [] agent = "choreographer" -> {"journeys"}
      [] agent = "assistantDirector" -> Ids
      [] OTHER -> {"report"}

LEMMA KeyFacts ==
    /\ {"catalog", "poms", "journeys", "report"} \cup Ids = Keys
    /\ "catalog" \notin Ids /\ "poms" \notin Ids /\ "journeys" \notin Ids /\ "report" \notin Ids
BY MondayArtifactsAssumption DEF MondayArtifactsAssumption, Keys

LEMMA OutputsTable == ASSUME NEW a \in Agents PROVE Outputs[a] = OutputsOf(a)
BY DEF Agents, Outputs, OutputsOf

LEMMA AgentFacts ==
    ASSUME NEW a \in Agents
    PROVE  /\ Outputs[a] \subseteq Keys /\ Blank(a) \subseteq Keys /\ Clean(a) \subseteq Keys
           /\ Blank(a) \subseteq Clean(a) /\ Blank(a) \cap Outputs[a] = {}
           /\ a # "continuityLead" => /\ NextAgent(a) \in Agents
                                      /\ Blank(NextAgent(a)) \subseteq Blank(a)
           /\ \A g \in Groups : In(g) \cap Outputs[a] = {} \/ In(g) = Outputs[a]
           /\ Attempts(a) \in 1 .. 2
<1> USE OutputsTable, KeyFacts DEF Agents, OutputsOf, Blank, Clean
<1>1. Outputs[a] \subseteq Keys /\ Blank(a) \subseteq Keys /\ Clean(a) \subseteq Keys
    OBVIOUS
<1>2. Blank(a) \subseteq Clean(a) /\ Blank(a) \cap Outputs[a] = {}
    OBVIOUS
<1>3. a # "continuityLead" => NextAgent(a) \in Agents /\ Blank(NextAgent(a)) \subseteq Blank(a)
    BY DEF NextAgent
<1>4. ASSUME NEW g \in Groups PROVE In(g) \cap Outputs[a] = {} \/ In(g) = Outputs[a]
    BY DEF In, Groups
<1>5. Attempts(a) \in 1 .. 2
    BY DEF Attempts
<1> QED
    BY <1>1, <1>2, <1>3, <1>4, <1>5

\* The files and directories of which nothing else is lost.
Deletes(agent) == {k \in Keys \cup {"tests"} : In(k) \subseteq Clean(agent)}

\* A list of files to flush or to delete.
FileList == Seq(Keys \cup {"tests"})
Mentions(ks, k) == \E i \in 1 .. Len(ks) : k \in In(ks[i])

LEMMA ListedOK ==
    ASSUME NEW files, NEW g \in Groups
    PROVE  /\ Listed(files, g) \in Seq(Groups) /\ Listed(files, g) \in FileList
           /\ \A k \in Present(files) \cap In(g) : Mentions(Listed(files, g), k)
<1>1. g \in Keys \cup {"tests"}
    BY DEF Groups, Keys
<1>2. CASE In(g) \cap Present(files) # {}
    <2>1. Listed(files, g) = <<g>>
        BY <1>2 DEF Listed
    <2>2. Len(<<g>>) = 1 /\ <<g>>[1] = g
        OBVIOUS
    <2> QED
        BY <1>1, <2>1, <2>2 DEF Mentions, FileList
<1>3. CASE In(g) \cap Present(files) = {}
    <2>1. Listed(files, g) = <<>>
        BY <1>3 DEF Listed
    <2> QED
        BY <1>3, <2>1 DEF FileList
<1> QED
    BY <1>2, <1>3

LEMMA ConcatOK ==
    ASSUME NEW S, NEW ks \in Seq(S), NEW ls \in Seq(S)
    PROVE  /\ ks \o ls \in Seq(S)
           /\ \A k : Mentions(ks, k) \/ Mentions(ls, k) => Mentions(ks \o ls, k)
<1>1. ks \o ls \in Seq(S) /\ Len(ks \o ls) = Len(ks) + Len(ls) /\ Len(ks) \in Nat /\ Len(ls) \in Nat
    OBVIOUS
<1>2. /\ \A i \in 1 .. Len(ks) : (ks \o ls)[i] = ks[i]
      /\ \A i \in 1 .. Len(ls) : (ks \o ls)[Len(ks) + i] = ls[i]
    OBVIOUS
<1>3. ASSUME NEW k, Mentions(ks, k) PROVE Mentions(ks \o ls, k)
    <2>1. PICK i \in 1 .. Len(ks) : k \in In(ks[i])
        BY <1>3 DEF Mentions
    <2>2. i \in 1 .. Len(ks \o ls) /\ k \in In((ks \o ls)[i])
        BY <1>1, <1>2, <2>1
    <2> QED
        BY <2>2 DEF Mentions
<1>4. ASSUME NEW k, Mentions(ls, k) PROVE Mentions(ks \o ls, k)
    <2>1. PICK i \in 1 .. Len(ls) : k \in In(ls[i])
        BY <1>4 DEF Mentions
    <2>2. Len(ks) + i \in 1 .. Len(ks \o ls) /\ k \in In((ks \o ls)[Len(ks) + i])
        BY <1>1, <1>2, <2>1
    <2> QED
        BY <2>2 DEF Mentions
<1> QED
    BY <1>1, <1>3, <1>4

LEMMA ListLocalFilesOK ==
    ASSUME NEW files
    PROVE  /\ ListLocalFiles(files) \in FileList /\ ListLocalFiles(files) \in Seq(Groups)
           /\ \A k \in Present(files) : Mentions(ListLocalFiles(files), k)
<1> DEFINE r == Listed(files, "report")
           j == Listed(files, "journeys")
           c == Listed(files, "catalog")
           p == Listed(files, "poms")
           t == Listed(files, "tests")
<1>1. ListLocalFiles(files) = ((((r \o j) \o c) \o p) \o t)
    BY DEF ListLocalFiles, TopLevelOnly
<1>2. "report" \in Groups /\ "journeys" \in Groups /\ "catalog" \in Groups /\ "poms" \in Groups
      /\ "tests" \in Groups
    BY DEF Groups
<1>3. \A k \in Present(files) : k \in In("report") \/ k \in In("journeys") \/ k \in In("catalog")
                                \/ k \in In("poms") \/ k \in In("tests")
    BY DEF Present, Keys, In
<1>4. /\ r \in Seq(Groups) /\ j \in Seq(Groups) /\ c \in Seq(Groups) /\ p \in Seq(Groups)
      /\ t \in Seq(Groups)
      /\ \A k \in Present(files) : Mentions(r, k) \/ Mentions(j, k) \/ Mentions(c, k)
                                   \/ Mentions(p, k) \/ Mentions(t, k)
    BY <1>2, <1>3, ListedOK
<1> HIDE DEF r, j, c, p, t
<1>5. /\ r \o j \in Seq(Groups)
      /\ \A k : Mentions(r, k) \/ Mentions(j, k) => Mentions(r \o j, k)
    BY <1>4, ConcatOK
<1>6. /\ (r \o j) \o c \in Seq(Groups)
      /\ \A k : Mentions(r \o j, k) \/ Mentions(c, k) => Mentions((r \o j) \o c, k)
    BY <1>4, <1>5, ConcatOK
<1>7. /\ ((r \o j) \o c) \o p \in Seq(Groups)
      /\ \A k : Mentions((r \o j) \o c, k) \/ Mentions(p, k) => Mentions(((r \o j) \o c) \o p, k)
    BY <1>4, <1>6, ConcatOK
<1>8. /\ (((r \o j) \o c) \o p) \o t \in Seq(Groups)
      /\ \A k : Mentions(((r \o j) \o c) \o p, k) \/ Mentions(t, k)
                  => Mentions((((r \o j) \o c) \o p) \o t, k)
    BY <1>4, <1>7, ConcatOK
<1>9. ListLocalFiles(files) \in Seq(Groups)
    BY <1>1, <1>8
<1>10. Groups \subseteq Keys \cup {"tests"}
    BY DEF Groups, Keys
<1>11. \A ks \in Seq(Groups) : ks \in FileList
    BY <1>10 DEF FileList
<1> QED
    BY <1>1, <1>4, <1>5, <1>6, <1>7, <1>8, <1>9, <1>11

\* What a request deletes first, and in which order.
LEMMA DownstreamOK ==
    ASSUME NEW a \in Agents
    PROVE  /\ DownstreamFiles(a) \o DownstreamDirs(a) \in FileList
           /\ DownstreamFiles(a) \o DownstreamDirs(a) # <<>>
           /\ \A k \in Clean(a) : Mentions(DownstreamFiles(a) \o DownstreamDirs(a), k)
<1> DEFINE F == DownstreamFiles(a)
           D == DownstreamDirs(a)
<1>1. F \in FileList /\ D \in FileList /\ Len(F) > 0
    <2> DEFINE K == Keys \cup {"tests"}
    <2>1. "catalog" \in K /\ "journeys" \in K /\ "report" \in K /\ "poms" \in K /\ "tests" \in K
        BY KeyFacts
    <2> HIDE DEF K
    <2>2. F \in Seq(K) /\ Len(F) > 0
        BY <2>1 DEF DownstreamFiles
    <2>3. D \in Seq(K)
        BY <2>1 DEF DownstreamDirs
    <2> QED
        BY <2>2, <2>3 DEF FileList, K
<1>2. ASSUME NEW k \in Clean(a) PROVE Mentions(F, k) \/ Mentions(D, k)
    <2>1. CASE a = "scriptAnalyst"
        <3>1. F = <<"catalog", "journeys", "report">> /\ D = <<"poms", "tests">>
            BY <2>1 DEF DownstreamFiles, DownstreamDirs
        <3>2. /\ Len(F) = 3 /\ F[1] = "catalog" /\ F[2] = "journeys" /\ F[3] = "report"
              /\ Len(D) = 2 /\ D[1] = "poms" /\ D[2] = "tests"
            BY <3>1
        <3>3. k \in In("catalog") \/ k \in In("journeys") \/ k \in In("report")
              \/ k \in In("poms") \/ k \in In("tests")
            BY <2>1 DEF Clean, In
        <3> QED
            BY <3>2, <3>3 DEF Mentions
    <2>2. CASE a = "setDesigner"
        <3>1. F = <<"journeys", "report">> /\ D = <<"poms", "tests">>
            BY <2>2 DEF DownstreamFiles, DownstreamDirs
        <3>2. /\ Len(F) = 2 /\ F[1] = "journeys" /\ F[2] = "report"
              /\ Len(D) = 2 /\ D[1] = "poms" /\ D[2] = "tests"
            BY <3>1
        <3>3. k \in In("journeys") \/ k \in In("report") \/ k \in In("poms") \/ k \in In("tests")
            BY <2>2 DEF Clean, In
        <3> QED
            BY <3>2, <3>3 DEF Mentions
    <2>3. CASE a \in {"choreographer", "assistantDirector"}
        <3>1. F = <<"report">> /\ D = <<"tests">>
            BY <2>3 DEF DownstreamFiles, DownstreamDirs
        <3>2. Len(F) = 1 /\ F[1] = "report" /\ Len(D) = 1 /\ D[1] = "tests"
            BY <3>1
        <3>3. k \in In("report") \/ k \in In("tests")
            BY <2>3 DEF Clean, In
        <3> QED
            BY <3>2, <3>3 DEF Mentions
    <2>4. CASE a = "continuityLead"
        <3>1. F = <<"report">>
            BY <2>4 DEF DownstreamFiles
        <3>2. Len(F) = 1 /\ F[1] = "report"
            BY <3>1
        <3>3. k \in In("report")
            BY <2>4 DEF Clean, In
        <3> QED
            BY <3>2, <3>3 DEF Mentions
    <2> QED
        BY <2>1, <2>2, <2>3, <2>4 DEF Agents
<1> HIDE DEF F, D
<1>3. F \o D \in FileList /\ \A k : Mentions(F, k) \/ Mentions(D, k) => Mentions(F \o D, k)
    BY <1>1, ConcatOK DEF FileList
<1>4. Len(F \o D) = Len(F) + Len(D) /\ Len(D) \in Nat
    BY <1>1 DEF FileList
<1> QED
    BY <1>1, <1>2, <1>3, <1>4 DEF F, D

LEMMA DeletesOK ==
    ASSUME NEW a \in Agents
    PROVE  DownstreamFiles(a) \o DownstreamDirs(a) \in Seq(Deletes(a))
<1> DEFINE D == Deletes(a)
<1>1. DownstreamFiles(a) \in Seq(D) /\ DownstreamDirs(a) \in Seq(D)
    <2> DEFINE has(k) == k \in D
    <2>1. has("report")
        BY KeyFacts DEF Deletes, Clean, In, Agents
    <2>2. CASE a = "scriptAnalyst"
        <3>1. has("catalog") /\ has("journeys") /\ has("poms") /\ has("tests")
            BY <2>2, KeyFacts DEF Deletes, Clean, In
        <3> HIDE DEF D
        <3> QED
            BY <2>1, <2>2, <3>1 DEF DownstreamFiles, DownstreamDirs
    <2>3. CASE a = "setDesigner"
        <3>1. has("journeys") /\ has("poms") /\ has("tests")
            BY <2>3, KeyFacts DEF Deletes, Clean, In
        <3> HIDE DEF D
        <3> QED
            BY <2>1, <2>3, <3>1 DEF DownstreamFiles, DownstreamDirs
    <2>4. CASE a \in {"choreographer", "assistantDirector"}
        <3>1. has("tests")
            BY <2>4, KeyFacts DEF Deletes, Clean, In
        <3> HIDE DEF D
        <3> QED
            BY <2>1, <2>4, <3>1 DEF DownstreamFiles, DownstreamDirs
    <2>5. CASE a = "continuityLead"
        <3> HIDE DEF D
        <3> QED
            BY <2>1, <2>5 DEF DownstreamFiles, DownstreamDirs
    <2> QED
        BY <2>2, <2>3, <2>4, <2>5 DEF Agents
<1> QED
    BY <1>1

-----------------------------------------------------------------------------
(* Files                                                                    *)

Abouts == UNION {[I -> Generations] : I \in SUBSET Ids}
Prefix == [Keys -> File]

LEMMA AboutType ==
    /\ \A I \in SUBSET Ids : \A f \in [I -> Generations] : f \in Abouts
    /\ \A f \in Abouts : DOMAIN f \subseteq Ids /\ f \in [DOMAIN f -> Generations]
    /\ NoRows \in Abouts /\ DOMAIN NoRows = {}
<1>1. \A f \in Abouts : DOMAIN f \subseteq Ids /\ f \in [DOMAIN f -> Generations]
    BY DEF Abouts
<1>2. NoRows \in [{} -> Generations]
    BY DEF NoRows
<1>3. NoRows \in Abouts /\ DOMAIN NoRows = {}
    BY <1>2 DEF Abouts, NoRows
<1> QED
    BY <1>1, <1>3 DEF Abouts

LEMMA GenerationFacts == 0 \in Generations /\ 1 \in Generations /\ Generations \subseteq Nat
<1>1. Cardinality(Requests) \in Nat
    BY MondayArtifactsAssumption, FS_CardinalityType DEF MondayArtifactsAssumption
<1> QED
    BY <1>1 DEF Generations

LEMMA FileFacts ==
    /\ Absent \in File /\ Empty \in Prefix
    /\ \A g \in Generations, f \in Generations, about \in Abouts : Made(g, f, about) \in File
    /\ \A g, f, about : /\ Made(g, f, about).gen = g /\ Made(g, f, about).from = f
                        /\ Made(g, f, about).about = about
                        /\ g # 0 => Made(g, f, about) # Absent
    /\ Absent.gen = 0 /\ DOMAIN Absent.about = {}
<1>1. NoRows \in Abouts /\ 0 \in Generations
    BY AboutType, GenerationFacts
<1>2. Absent \in File
    BY <1>1 DEF Absent, File, Abouts
<1>3. \A g \in Generations, f \in Generations, about \in Abouts : Made(g, f, about) \in File
    BY DEF Made, File, Abouts
<1>4. \A g, f, about : /\ Made(g, f, about).gen = g /\ Made(g, f, about).from = f
                       /\ Made(g, f, about).about = about
    BY DEF Made
<1>5. Absent.gen = 0 /\ DOMAIN Absent.about = {}
    BY AboutType DEF Absent
<1>6. Empty \in Prefix
    BY <1>2 DEF Empty, Prefix
<1> QED
    BY <1>2, <1>3, <1>4, <1>5, <1>6

LEMMA WithoutOK ==
    ASSUME NEW F \in Prefix, NEW ks
    PROVE  /\ Without(F, ks) \in Prefix
           /\ \A k \in Keys : Without(F, ks)[k] = IF k \in ks THEN Absent ELSE F[k]
BY FileFacts DEF Without, Prefix

\* The report's rows, and the journeys, of a prefix.
LEMMA RowsType ==
    ASSUME NEW F \in Prefix, NEW k \in Keys
    PROVE  /\ F[k] \in File /\ F[k].gen \in Generations /\ F[k].from \in Generations
           /\ F[k].about \in Abouts
BY DEF Prefix, File, Abouts

-----------------------------------------------------------------------------
(* Files that belong together                                               *)

\* What an agent's deletions leave of files that belong together belongs together.
LEMMA TogetherWithout ==
    ASSUME NEW F \in Prefix, Together(F), NEW a \in Agents
    PROVE  Together(Without(F, Clean(a)))
<1> DEFINE G == Without(F, Clean(a))
<1>1. \A k \in Keys : G[k] = IF k \in Clean(a) THEN Absent ELSE F[k]
    BY WithoutOK
<1>2. "report" \in Keys /\ "journeys" \in Keys /\ "poms" \in Keys /\ "catalog" \in Keys /\ Ids \subseteq Keys
    BY KeyFacts
<1>3. /\ "report" \in Clean(a)
      /\ "journeys" \in Clean(a) \/ "poms" \in Clean(a) => Ids \subseteq Clean(a) /\ "journeys" \in Clean(a)
      /\ "catalog" \in Clean(a) => "poms" \in Clean(a)
    BY KeyFacts DEF Clean, Agents
<1>4. DOMAIN G["report"].about = {}
    BY <1>1, <1>2, <1>3, FileFacts
<1> HIDE DEF G
<1>5. \A i \in Specs(G) : i \in Journeys(G) /\ G[i].from = G["journeys"].gen
    <2> SUFFICES ASSUME NEW i \in Specs(G)
                 PROVE  i \in Journeys(G) /\ G[i].from = G["journeys"].gen
        OBVIOUS
    <2>1. i \in Ids /\ i \notin Clean(a) /\ G[i] = F[i] /\ i \in Specs(F)
        BY <1>1, <1>2 DEF Specs, Has
    <2>2. G["journeys"] = F["journeys"]
        BY <1>1, <1>2, <1>3, <2>1
    <2> QED
        BY <2>1, <2>2 DEF Together, Journeys
<1>6. Has(G, "journeys") /\ Has(G, "poms") => G["journeys"].from = G["poms"].gen
    BY <1>1, <1>2 DEF Together, Has
<1>7. Has(G, "poms") /\ Has(G, "catalog") => G["poms"].from = G["catalog"].gen
    BY <1>1, <1>2 DEF Together, Has
<1> QED
    BY <1>4, <1>5, <1>6, <1>7 DEF Together, G

\* Nothing is left to disagree when the POMs and all that follows are gone.
LEMMA TogetherBlank ==
    ASSUME NEW F \in Prefix, ~Has(F, "poms"), ~Has(F, "journeys"), \A i \in Ids : ~Has(F, i)
    PROVE  Together(F)
BY DEF Together, Specs

\* Specs go, and the journeys may be others of the same POMs.
LEMMA TogetherEdited ==
    ASSUME NEW F \in Prefix, NEW G \in Prefix,
           \A k \in Keys \ ({"journeys"} \cup Ids) : G[k] = F[k],
           \A i \in Ids : ~Has(G, i), Has(G, "journeys") /\ Has(G, "poms") => G["journeys"].from = G["poms"].gen,
           Together(F)
    PROVE  Together(G)
<1>1. Specs(G) = {}
    BY DEF Specs
<1>2. G["poms"] = F["poms"] /\ G["catalog"] = F["catalog"]
    BY KeyFacts
<1> QED
    BY <1>1, <1>2 DEF Together, Has

-----------------------------------------------------------------------------
(* What an agent leaves                                                     *)

\* From files F, an agent of generation g makes L: it changes its own files only, loses
\* none, and what it leaves belongs together.
Makes(F, L, a, g, ok) ==
    /\ L \in Prefix /\ Together(L)
    /\ \A k \in Keys \ Outputs[a] : L[k] = F[k]
    /\ \A k \in Keys : Has(F, k) => Has(L, k)
    /\ ok => \A k \in Outputs[a] \cap Present(L) : L[k].gen = g

LEMMA MakesNothing ==
    ASSUME NEW F \in Prefix, Together(F), NEW a, NEW g
    PROVE  Makes(F, F, a, g, FALSE)
BY DEF Makes

LEMMA DesignedOK ==
    ASSUME NEW F \in Prefix, Together(F), NEW s, at[s].agent \in Agents,
           at[s].gen \in Generations, at[s].gen # 0, at[s].seen = F,
           \A k \in Blank(at[s].agent) : ~Has(F, k),
           NEW L \in Designed(s, F)
    PROVE  Makes(F, L, at[s].agent, at[s].gen, TRUE)
<1> DEFINE a == at[s].agent
           g == at[s].gen
<1>1. {"catalog", "poms", "journeys", "report"} \cup Ids = Keys /\ 0 \in Generations
    BY KeyFacts, GenerationFacts
<1>2. \A k \in Keys : F[k] \in File /\ F[k].gen \in Generations
    BY RowsType
<1>3. CASE a = "scriptAnalyst"
    <2> DEFINE f == Made(g, 0, NoRows)
    <2>1. f \in File /\ f.gen = g /\ f # Absent
        BY <1>1, FileFacts, AboutType
    <2>2. L = [F EXCEPT !["catalog"] = f] /\ Outputs[a] = {"catalog"}
        BY <1>3, OutputsTable DEF Designed, Analysed, OutputsOf
    <2> HIDE DEF f
    <2>3. L \in Prefix /\ L["catalog"] = f /\ \A k \in Keys \ {"catalog"} : L[k] = F[k]
        BY <1>1, <2>1, <2>2 DEF Prefix
    <2>4. ~Has(F, "poms") /\ ~Has(F, "journeys") /\ \A i \in Ids : ~Has(F, i)
        BY <1>3 DEF Blank
    <2>5. ~Has(L, "poms") /\ ~Has(L, "journeys") /\ \A i \in Ids : ~Has(L, i)
        BY <2>3, <2>4, KeyFacts DEF Has
    <2>6. Together(L)
        BY <2>3, <2>5, TogetherBlank
    <2> QED
        BY <2>1, <2>2, <2>3, <2>6 DEF Makes, Has
<1>4. CASE a = "setDesigner"
    <2> DEFINE f == Made(g, F["catalog"].gen, NoRows)
    <2>1. f \in File /\ f.gen = g /\ f # Absent /\ f.from = F["catalog"].gen
        BY <1>1, <1>2, FileFacts, AboutType
    <2>2. L = [F EXCEPT !["poms"] = f] /\ Outputs[a] = {"poms"}
        BY <1>4, OutputsTable DEF Designed, PomsMade, OutputsOf
    <2> HIDE DEF f
    <2>3. L \in Prefix /\ L["poms"] = f /\ \A k \in Keys \ {"poms"} : L[k] = F[k]
        BY <1>1, <2>1, <2>2 DEF Prefix
    <2>4. ~Has(F, "journeys") /\ \A i \in Ids : ~Has(F, i)
        BY <1>4 DEF Blank
    <2>5. ~Has(L, "journeys") /\ (\A i \in Ids : ~Has(L, i)) /\ L["catalog"] = F["catalog"]
        BY <1>1, <2>3, <2>4, KeyFacts DEF Has
    <2>6. Together(L)
        BY <2>1, <2>3, <2>5 DEF Together, Specs
    <2> QED
        BY <2>1, <2>2, <2>3, <2>6 DEF Makes, Has
<1>5. CASE a = "choreographer"
    <2>1. PICK I \in SUBSET Ids : L = JourneysMade(s, F, I)
        BY <1>5 DEF Designed
    <2> DEFINE about == [i \in I |-> g]
               f == Made(g, F["poms"].gen, about)
    <2>2. about \in Abouts
        BY AboutType
    <2> HIDE DEF about
    <2>3. f \in File /\ f.gen = g /\ f # Absent /\ f.from = F["poms"].gen
        BY <1>1, <1>2, <2>2, FileFacts
    <2>4. L = [F EXCEPT !["journeys"] = f] /\ Outputs[a] = {"journeys"}
        BY <1>5, <2>1, OutputsTable DEF JourneysMade, OutputsOf, about
    <2> HIDE DEF f
    <2>5. L \in Prefix /\ L["journeys"] = f /\ \A k \in Keys \ {"journeys"} : L[k] = F[k]
        BY <1>1, <2>3, <2>4 DEF Prefix
    <2>6. \A i \in Ids : ~Has(F, i)
        BY <1>5 DEF Blank
    <2>7. \A i \in Ids : ~Has(L, i)
        BY <2>5, <2>6, KeyFacts DEF Has
    <2>8. Has(L, "poms") => L["journeys"].from = L["poms"].gen
        BY <1>1, <2>3, <2>5, KeyFacts
    <2>9. Together(L)
        BY <2>5, <2>7, <2>8, TogetherEdited
    <2> QED
        BY <2>3, <2>4, <2>5, <2>9 DEF Makes, Has
<1>6. CASE a \in {"assistantDirector", "continuityLead"}
    BY <1>6 DEF Designed
<1> QED
    BY <1>3, <1>4, <1>5, <1>6 DEF Agents

LEMMA DirectedOK ==
    ASSUME NEW F \in Prefix, Together(F), NEW s, at[s].agent = "assistantDirector",
           at[s].gen \in Generations, at[s].gen # 0, at[s].seen = F,
           ~Has(F, "report"), NEW I \in SUBSET Journeys(F)
    PROVE  Makes(F, Directed(s, F, I), "assistantDirector", at[s].gen, I = Journeys(F))
<1> DEFINE g == at[s].gen
           L == Directed(s, F, I)
           f == Made(g, F["journeys"].gen, NoRows)
<1>1. {"catalog", "poms", "journeys", "report"} \cup Ids = Keys
    BY KeyFacts
<1>2. \A k \in Keys : F[k] \in File /\ F[k].gen \in Generations
    BY RowsType
<1>3. f \in File /\ f.gen = g /\ f # Absent /\ f.from = F["journeys"].gen
    BY <1>1, <1>2, FileFacts, AboutType
<1>4. I \subseteq Ids
    BY <1>1, RowsType, AboutType DEF Journeys
<1> HIDE DEF f
<1>5. \A k \in Keys :
        /\ k \in I => L[k] = f
        /\ k \in Ids \ Journeys(F) => L[k] = Absent
        /\ k \notin I /\ k \notin Ids \ Journeys(F) => L[k] = F[k]
    BY <1>1, <1>4, KeyFacts DEF Directed, f
<1>6. L \in Prefix
    <2>1. L = [k \in Keys |-> L[k]]
        BY DEF Directed
    <2>2. \A k \in Keys : L[k] \in File
        BY <1>2, <1>3, <1>5, FileFacts
    <2> QED
        BY <2>1, <2>2 DEF Prefix
<1> HIDE DEF L
<1>7. \A k \in Keys \ Ids : L[k] = F[k]
    BY <1>4, <1>5
<1>8. \A i \in Ids : Has(F, i) => i \in Journeys(F) /\ F[i].from = F["journeys"].gen
    BY DEF Together, Specs
<1>9. \A k \in Keys : Has(F, k) => Has(L, k)
    BY <1>3, <1>5, <1>8 DEF Has
<1>10. Together(L)
    <2>1. L["journeys"] = F["journeys"] /\ L["poms"] = F["poms"] /\ L["catalog"] = F["catalog"]
          /\ L["report"] = F["report"]
        BY <1>1, <1>7, KeyFacts
    <2>2. DOMAIN L["report"].about = {}
        BY <2>1, FileFacts DEF Has
    <2>3. ASSUME NEW i \in Specs(L)
          PROVE  i \in Journeys(L) /\ L[i].from = L["journeys"].gen
        <3>1. i \in Ids /\ i \in Keys /\ L[i] # Absent
            BY <1>1, <2>3 DEF Specs, Has
        <3>2. i \in Journeys(F)
            BY <1>5, <3>1
        <3>3. L[i] = f \/ L[i] = F[i]
            BY <1>5, <3>1
        <3> QED
            BY <1>3, <1>8, <2>1, <3>1, <3>2, <3>3 DEF Journeys, Has
    <2> QED
        BY <2>1, <2>2, <2>3 DEF Together, Has
<1>11. I = Journeys(F) => \A k \in Ids \cap Present(L) : L[k].gen = g
    BY <1>1, <1>3, <1>5 DEF Present, Has
<1>12. Outputs["assistantDirector"] = Ids
    BY OutputsTable DEF OutputsOf, Agents
<1> QED
    BY <1>6, <1>7, <1>9, <1>10, <1>11, <1>12 DEF Makes, L

\* The rows of a report, whoever ran the journeys, are of the specs there are.
LEMMA ReportOK ==
    ASSUME NEW F \in Prefix, Together(F), NEW g \in Generations, g # 0, NEW about \in Abouts,
           \A i \in Specs(F) \cap DOMAIN about : about[i] \in {0, F[i].from}
    PROVE  Makes(F, [F EXCEPT !["report"] = Made(g, 0, about)], "continuityLead", g, TRUE)
<1> DEFINE f == Made(g, 0, about)
           L == [F EXCEPT !["report"] = f]
<1>1. "report" \in Keys /\ "report" \notin Ids /\ 0 \in Generations
    BY KeyFacts, GenerationFacts
<1>2. f \in File /\ f.gen = g /\ f.about = about /\ f # Absent
    BY <1>1, FileFacts
<1> HIDE DEF f
<1>3. L \in Prefix /\ L["report"] = f /\ \A k \in Keys \ {"report"} : L[k] = F[k]
    BY <1>1, <1>2 DEF Prefix
<1> HIDE DEF L
<1>4. L["journeys"] = F["journeys"] /\ L["poms"] = F["poms"] /\ L["catalog"] = F["catalog"]
      /\ Specs(L) = Specs(F) /\ \A i \in Ids : L[i] = F[i]
    BY <1>3, KeyFacts DEF Specs, Has
<1>5. Together(L)
    <2>1. \A i \in Specs(L) : i \in Ids
        BY DEF Specs
    <2> QED
        BY <1>2, <1>3, <1>4, <2>1 DEF Together, Has, Journeys
<1>6. Outputs["continuityLead"] = {"report"}
    BY OutputsTable DEF OutputsOf, Agents
<1> QED
    BY <1>2, <1>3, <1>5, <1>6 DEF Makes, Has, f, L

LEMMA ResultsOK ==
    ASSUME NEW F \in Prefix, Together(F), NEW s, at[s].seen = F, NEW rows \in Results(s)
    PROVE  /\ rows \in Abouts
           /\ at[s].only # {} => DOMAIN rows \subseteq at[s].only
           /\ \A i \in Specs(F) \cap DOMAIN rows : rows[i] \in {0, F[i].from}
<1> DEFINE journeys == Chosen(s, Journeys(F))
           specs == Chosen(s, Specs(F))
           j == F["journeys"].gen
<1>1. "journeys" \in Keys /\ 0 \in Generations /\ Ids \subseteq Keys
    BY KeyFacts, GenerationFacts
<1>2. \A k \in Keys : F[k].gen \in Generations /\ F[k].from \in Generations
    BY RowsType
<1>3. journeys \subseteq Ids /\ specs \subseteq Ids
    BY <1>1, RowsType, AboutType DEF Chosen, Journeys, Specs
<1>4. at[s].only # {} => journeys \subseteq at[s].only /\ specs \subseteq at[s].only
    BY DEF Chosen
<1>5. \A i \in Specs(F) : i \in Ids /\ F[i].from = j
    BY DEF Together, Specs
<1>6. rows \in IF specs = {} THEN {[i \in journeys |-> 0]}
               ELSE {[i \in journeys |-> j], [i \in specs |-> F[i].from]}
    BY DEF Results
<1> HIDE DEF journeys, specs, j
<1>7. j \in Generations
    BY <1>1, <1>2 DEF j
<1>8. CASE rows = [i \in journeys |-> 0]
    BY <1>1, <1>3, <1>4, <1>8, AboutType
<1>9. CASE rows = [i \in journeys |-> j]
    BY <1>3, <1>4, <1>5, <1>7, <1>9, AboutType
<1>10. CASE rows = [i \in specs |-> F[i].from]
    <2>1. rows \in [specs -> Generations]
        BY <1>1, <1>2, <1>3, <1>10
    <2> QED
        BY <1>3, <1>4, <1>10, <2>1, AboutType
<1> QED
    BY <1>6, <1>8, <1>9, <1>10

\* A merged report keeps the rows of the journeys that were not asked for.
LEMMA MergedOK ==
    ASSUME NEW F \in Prefix, Together(F), NEW rows \in Abouts, NEW only,
           only # {} => DOMAIN rows \subseteq only,
           \A i \in Specs(F) \cap DOMAIN rows : rows[i] \in {0, F[i].from}
    PROVE  /\ Merged(F["report"], rows, only) \in Abouts
           /\ \A i \in Specs(F) \cap DOMAIN Merged(F["report"], rows, only) :
                 Merged(F["report"], rows, only)[i] \in {0, F[i].from}
           /\ only # {} => \A i \in DOMAIN F["report"].about \ only :
                 /\ i \in DOMAIN Merged(F["report"], rows, only)
                 /\ Merged(F["report"], rows, only)[i] = F["report"].about[i]
<1> DEFINE old == F["report"].about
           m == Merged(F["report"], rows, only)
<1>1. CASE only = {}
    <2>1. m = rows
        BY <1>1 DEF Merged
    <2> QED
        BY <1>1, <2>1
<1>2. CASE only # {}
    <2>1. m = [i \in DOMAIN old \cup DOMAIN rows |-> IF i \in DOMAIN rows THEN rows[i] ELSE old[i]]
        BY <1>2 DEF Merged
    <2>2. old \in Abouts
        BY KeyFacts, RowsType
    <2>3. /\ DOMAIN old \subseteq Ids /\ old \in [DOMAIN old -> Generations]
          /\ DOMAIN rows \subseteq Ids /\ rows \in [DOMAIN rows -> Generations]
        BY <2>2, AboutType
    <2>4. \A i \in Specs(F) \cap DOMAIN old : old[i] \in {0, F[i].from}
        BY DEF Together
    <2> HIDE DEF old, m
    <2>5. DOMAIN m = DOMAIN old \cup DOMAIN rows /\ m \in [DOMAIN old \cup DOMAIN rows -> Generations]
        BY <2>1, <2>3
    <2>6. m \in Abouts
        BY <2>3, <2>5, AboutType
    <2>7. \A i \in DOMAIN m : m[i] = IF i \in DOMAIN rows THEN rows[i] ELSE old[i]
        BY <2>1, <2>5
    <2> QED
        BY <1>2, <2>4, <2>5, <2>6, <2>7 DEF old, m
<1> QED
    BY <1>1, <1>2

-----------------------------------------------------------------------------
(* The invariant                                                            *)

Spent == {q \in Requests : req[q].pc \in {"drop", "done"}}

\* A resume is named for its agent, and has something to delete until it has deleted it.
Asked(r) ==
    /\ r.pc \in {"assert", "cleanup"} => r.wf = r.agent
    /\ r.pc = "cleanup" => r.todo # <<>>

\* A generation belongs to a request that is spent, and no attempt or file has number 0.
FilesTyped ==
    /\ FilesTypeOK
    /\ gen # 0 /\ gen <= 1 + Cardinality(Spent)
    /\ \A s \in Slots : at[s].pc # "free" => at[s].gen # 0
    /\ \A q \in Requests : Asked(req[q])

FilesHold(s) == at[s].pc \in {"work", "put"}
Waits(s) == at[s].pc \in {"pull", "lost"}

\* One attempt has the directory and one may wait for it, which then is the retry of an
\* orphan; a request that is in flight meets neither an attempt nor another request.
Alone ==
    /\ \A s, t \in Slots : FilesHold(s) /\ FilesHold(t) => s = t
    /\ \A s, t \in Slots : Waits(s) /\ Waits(t) => s = t
    /\ \A s, t \in Slots : FilesHold(s) /\ Waits(t) => ~at[s].live /\ at[t].agent = at[s].agent
    /\ \A s \in Slots, q \in Requests : at[s].pc # "free" => ~InFlight(q)
    /\ \A q, o \in Requests : InFlight(q) /\ InFlight(o) => q = o

\* What a request has deleted so far, and what will belong together when it is through.
RequestOK(r) ==
    /\ r.pc = "cleanup" => /\ r.todo \in Seq(Deletes(r.agent))
                           /\ Together(Without(store, Clean(r.agent)))
                           /\ \A k \in Clean(r.agent) : Has(store, k) => Mentions(r.todo, k)
    /\ r.pc = "launch" => \A k \in Blank(r.agent) : ~Has(store, k)
    /\ r.pc = "write" => r.from = store["poms"].gen
    /\ r.pc = "drop" => Together(Without(store, Ids))

\* An attempt that flushes: the store has the files it began from, or those it leaves.
Putting(a) ==
    /\ Makes(store, local, a.agent, a.gen, a.ok)
    /\ a.files \in Seq(Groups)
    /\ \A k \in Present(local) : store[k] = local[k] \/ Mentions(a.files, k)
    /\ a.ok /\ a.agent = "continuityLead" /\ a.only # {} =>
          \A i \in DOMAIN store["report"].about \ a.only :
             /\ i \in DOMAIN local["report"].about
             /\ local["report"].about[i] = store["report"].about[i]

AttemptOK(a) ==
    /\ a.pc # "free" => \A k \in Blank(a.agent) : ~Has(store, k)
    /\ a.pc \in {"work", "put"} => \A k \in Outputs[a.agent] : promised[k] = 0
    /\ a.pc = "work" => local = store /\ a.seen = store
    /\ a.pc = "put" => Putting(a)

FilesKept == \A k \in Keys : promised[k] # 0 => store[k].gen = promised[k]

Quiet ==
    /\ Alone
    /\ \A q \in Requests : RequestOK(req[q])
    /\ \A s \in Slots : AttemptOK(at[s])
    /\ HalfWay \/ Together(store)
    /\ FilesKept

FilesInv == FilesTyped /\ (~raced => Quiet)

-----------------------------------------------------------------------------
(* Counting generations                                                     *)

LEMMA SpentFinite ==
    /\ IsFiniteSet(Spent) /\ Cardinality(Spent) \in Nat
    /\ \A q \in Requests \ Spent : Cardinality(Spent) + 1 <= Cardinality(Requests)
    /\ Cardinality(Requests) \in Nat
<1>1. IsFiniteSet(Requests) /\ Spent \in SUBSET Requests
    BY MondayArtifactsAssumption DEF MondayArtifactsAssumption, Spent
<1>2. IsFiniteSet(Spent) /\ Cardinality(Spent) \in Nat /\ Cardinality(Requests) \in Nat
    BY <1>1, FS_Subset, FS_CardinalityType
<1>3. ASSUME NEW q \in Requests \ Spent PROVE Cardinality(Spent) + 1 <= Cardinality(Requests)
    <2>1. Cardinality(Spent \cup {q}) = Cardinality(Spent) + 1
        BY <1>2, <1>3, FS_AddElement
    <2>2. Spent \cup {q} \in SUBSET Requests
        BY <1>1
    <2>3. Cardinality(Spent \cup {q}) <= Cardinality(Requests)
        BY <1>1, <2>2, FS_Subset
    <2> QED
        BY <2>1, <2>3
<1> QED
    BY <1>2, <1>3

LEMMA SpentGrows ==
    ASSUME \A q \in Requests : req[q].pc \in {"drop", "done"} => req'[q].pc \in {"drop", "done"}
    PROVE  /\ Cardinality(Spent) <= Cardinality(Spent') /\ Cardinality(Spent') \in Nat
           /\ Cardinality(Spent) \in Nat
           /\ \A q \in Requests \ Spent : q \in Spent' => Cardinality(Spent) + 1 <= Cardinality(Spent')
<1>1. IsFiniteSet(Requests) /\ Spent' \in SUBSET Requests /\ Spent \in SUBSET Spent'
    BY MondayArtifactsAssumption DEF MondayArtifactsAssumption, Spent
<1>2. IsFiniteSet(Spent')
    BY <1>1, FS_Subset
<1>3. IsFiniteSet(Spent) /\ Cardinality(Spent) <= Cardinality(Spent')
    BY <1>1, <1>2, FS_Subset
<1>4. Cardinality(Spent') \in Nat /\ Cardinality(Spent) \in Nat
    BY <1>2, <1>3, FS_CardinalityType
<1>5. ASSUME NEW q \in Requests \ Spent, q \in Spent'
      PROVE  Cardinality(Spent) + 1 <= Cardinality(Spent')
    <2>1. Cardinality(Spent \cup {q}) = Cardinality(Spent) + 1
        BY <1>3, <1>5, FS_AddElement
    <2>2. Spent \cup {q} \in SUBSET Spent'
        BY <1>1, <1>5
    <2>3. Cardinality(Spent \cup {q}) <= Cardinality(Spent')
        BY <1>2, <2>2, FS_Subset
    <2> QED
        BY <2>1, <2>3
<1> QED
    BY <1>3, <1>4, <1>5

\* A request that is not yet spent can make one generation more.
LEMMA NextGeneration ==
    ASSUME FilesTyped, NEW q \in Requests, req[q].pc \notin {"drop", "done"}
    PROVE  gen \in Nat /\ gen + 1 \in Generations /\ gen + 1 # 0
<1>1. q \in Requests \ Spent
    BY DEF Spent
<1>2. Cardinality(Spent) \in Nat /\ Cardinality(Requests) \in Nat
      /\ Cardinality(Spent) + 1 <= Cardinality(Requests)
    BY <1>1, SpentFinite
<1>3. gen \in Nat /\ gen <= 1 + Cardinality(Spent)
    BY GenerationFacts DEF FilesTyped, FilesTypeOK
<1> QED
    BY <1>2, <1>3 DEF Generations

\* A request moves on, and the generations with it.
LEMMA RequestMoves ==
    ASSUME FilesTyped, NEW q \in Requests, NEW r \in Request, Becomes(q, r),
           req[q].pc \in {"drop", "done"} => r.pc \in {"drop", "done"},
           Asked(r),
           gen' = gen \/ (/\ gen' = gen + 1 /\ req[q].pc \notin {"drop", "done"}
                          /\ r.pc \in {"drop", "done"})
    PROVE  /\ req' \in [Requests -> Request] /\ req'[q] = r
           /\ \A o \in Requests \ {q} : req'[o] = req[o]
           /\ gen' \in Generations /\ gen' # 0 /\ gen' <= 1 + Cardinality(Spent)'
           /\ \A o \in Requests : Asked(req'[o])
<1>1. req' \in [Requests -> Request] /\ req'[q] = r /\ \A o \in Requests \ {q} : req'[o] = req[o]
    BY DEF FilesTyped, FilesTypeOK, Becomes
<1>2. \A o \in Requests : req[o].pc \in {"drop", "done"} => req'[o].pc \in {"drop", "done"}
    BY <1>1
<1>3. /\ Cardinality(Spent) <= Cardinality(Spent') /\ Cardinality(Spent') \in Nat
      /\ Cardinality(Spent) \in Nat
      /\ \A o \in Requests \ Spent : o \in Spent' => Cardinality(Spent) + 1 <= Cardinality(Spent')
    BY <1>2, SpentGrows
<1>4. gen \in Nat /\ gen # 0 /\ gen <= 1 + Cardinality(Spent) /\ gen \in Generations
    BY GenerationFacts DEF FilesTyped, FilesTypeOK
<1>5. CASE gen' = gen
    BY <1>1, <1>3, <1>4, <1>5 DEF FilesTyped
<1>6. CASE gen' = gen + 1 /\ req[q].pc \notin {"drop", "done"} /\ r.pc \in {"drop", "done"}
    <2>1. q \in Requests \ Spent /\ q \in Spent'
        BY <1>1, <1>6 DEF Spent
    <2>2. gen + 1 \in Generations /\ gen + 1 # 0
        BY <1>6, NextGeneration
    <2> QED
        BY <1>1, <1>3, <1>4, <1>6, <2>1, <2>2 DEF FilesTyped
<1> QED
    BY <1>5, <1>6

-----------------------------------------------------------------------------
(* Attempts                                                                 *)

LEMMA FreeOK == Free \in Attempt /\ Idle \in Request
<1>1. <<>> \in Seq(Keys \cup {"tests"})
    OBVIOUS
<1>2. 0 \in Generations /\ Empty \in [Keys -> File]
    BY GenerationFacts, FileFacts DEF Prefix
<1> QED
    BY <1>1, <1>2 DEF Free, Idle, Attempt, Request, Workflows, Agents

\* The attempt of one slot changes.
LEMMA SlotMoves ==
    ASSUME FilesTyped, NEW s \in Slots, NEW a \in Attempt, at' = [at EXCEPT ![s] = a],
           a.pc # "free" => a.gen # 0
    PROVE  /\ at' \in [Slots -> Attempt] /\ at'[s] = a
           /\ \A t \in Slots \ {s} : at'[t] = at[t]
           /\ \A t \in Slots : at'[t].pc # "free" => at'[t].gen # 0
BY DEF FilesTyped, FilesTypeOK

LEMMA FlushesOK ==
    ASSUME FilesTyped, NEW s \in Slots, at[s].pc # "free", NEW files, NEW ok \in BOOLEAN,
           NEW last \in BOOLEAN, Flushes(s, files, ok, last)
    PROVE  /\ at' \in [Slots -> Attempt]
           /\ \A t \in Slots \ {s} : at'[t] = at[t]
           /\ \A t \in Slots : at'[t].pc # "free" => at'[t].gen # 0
           /\ at'[s] = [at[s] EXCEPT !.pc = "put", !.ok = ok, !.last = last, !.seen = Empty,
                                     !.files = ListLocalFiles(files)]
           /\ at'[s].pc = "put" /\ at'[s].ok = ok /\ at'[s].files = ListLocalFiles(files)
           /\ at'[s].agent = at[s].agent /\ at'[s].gen = at[s].gen /\ at'[s].only = at[s].only
           /\ at'[s].live = at[s].live
<1> DEFINE ks == ListLocalFiles(files)
           a == [at[s] EXCEPT !.pc = "put", !.ok = ok, !.last = last, !.seen = Empty, !.files = ks]
<1>1. at[s] \in Attempt /\ at[s].gen # 0
    BY DEF FilesTyped, FilesTypeOK
<1>2. at' = [at EXCEPT ![s] = a]
    BY DEF Flushes, FilesTyped, FilesTypeOK
<1>3. ks \in Seq(Keys \cup {"tests"})
    BY ListLocalFilesOK DEF FileList
<1>4. Empty \in [Keys -> File]
    BY FileFacts DEF Prefix
<1> HIDE DEF ks
<1>5. a \in Attempt
    BY <1>1, <1>3, <1>4 DEF Attempt
<1>6. /\ a.pc = "put" /\ a.ok = ok /\ a.files = ks /\ a.agent = at[s].agent /\ a.gen = at[s].gen
      /\ a.only = at[s].only /\ a.live = at[s].live
    BY <1>1 DEF Attempt
<1> QED
    BY <1>1, <1>2, <1>5, <1>6, SlotMoves DEF ks

\* The workflow goes on with the same agent or the next, or it is over.
LEMMA GoesOnOK ==
    ASSUME NEW a \in Attempt, a.gen # 0, NEW ok \in BOOLEAN
    PROVE  /\ GoesOn(a, ok) \in Attempt
           /\ GoesOn(a, ok) = Free \/
              /\ GoesOn(a, ok).pc = "pull" /\ GoesOn(a, ok).gen = a.gen /\ a.live
              /\ Blank(GoesOn(a, ok).agent) \subseteq Blank(a.agent)
              /\ ~ok => GoesOn(a, ok).agent = a.agent
<1>1. a.agent \in Agents /\ a.left \in 0 .. 2
    BY DEF Attempt
<1>2. <<>> \in Seq(Keys \cup {"tests"}) /\ Empty \in [Keys -> File]
    BY FileFacts DEF Prefix
<1>3. CASE ~a.live
    BY <1>3, FreeOK DEF GoesOn
<1>4. CASE a.live /\ ~ok /\ a.left > 1
    <2> DEFINE b == [a EXCEPT !.pc = "pull", !.left = @ - 1, !.files = <<>>, !.seen = Empty,
                              !.ok = FALSE, !.last = FALSE]
    <2>1. GoesOn(a, ok) = b
        BY <1>4 DEF GoesOn
    <2>2. a.left - 1 \in 0 .. 2
        BY <1>1, <1>4
    <2>3. b \in Attempt /\ b.pc = "pull" /\ b.gen = a.gen /\ b.agent = a.agent
        BY <1>2, <2>2 DEF Attempt
    <2> QED
        BY <1>4, <2>1, <2>3
<1>5. CASE a.live /\ (ok \/ ~(a.left > 1)) /\ (~ok \/ a.agent = "continuityLead"
            \/ (a.agent = "assistantDirector" /\ ~a.after))
    BY <1>5, FreeOK DEF GoesOn
<1>6. CASE a.live /\ ok /\ a.agent # "continuityLead"
           /\ ~(a.agent = "assistantDirector" /\ ~a.after)
    <2> DEFINE n == NextAgent(a.agent)
               b == [a EXCEPT !.pc = "pull", !.agent = n, !.left = Attempts(n),
                              !.files = <<>>, !.seen = Empty, !.ok = FALSE, !.last = FALSE]
    <2>1. GoesOn(a, ok) = b
        BY <1>6 DEF GoesOn
    <2>2. n \in Agents /\ Blank(n) \subseteq Blank(a.agent)
        BY <1>1, <1>6, AgentFacts
    <2>3. Attempts(n) \in 0 .. 2
        BY <2>2, AgentFacts
    <2> HIDE DEF n
    <2>4. b \in Attempt /\ b.pc = "pull" /\ b.gen = a.gen /\ b.agent = n
        BY <1>2, <2>2, <2>3 DEF Attempt
    <2> QED
        BY <1>6, <2>1, <2>2, <2>4
<1> QED
    BY <1>3, <1>4, <1>5, <1>6

-----------------------------------------------------------------------------
(* Requests                                                                 *)

LEMMA FilesInitOK == FilesInit => FilesInv
<1> SUFFICES ASSUME FilesInit PROVE FilesInv
    OBVIOUS
<1> DEFINE rows == [i \in Ids |-> 1]
<1>1. /\ 0 \in Generations /\ 1 \in Generations /\ Generations \subseteq Nat
      /\ rows \in Abouts /\ NoRows \in Abouts /\ DOMAIN rows = Ids /\ \A i \in Ids : rows[i] = 1
    BY GenerationFacts, AboutType
<1> HIDE DEF rows
<1>2. store = [k \in Keys |-> CASE k = "catalog" -> Made(1, 0, NoRows)
                                [] k = "journeys" -> Made(1, 1, rows)
                                [] k = "report" -> Made(1, 0, rows)
                                [] OTHER -> Made(1, 1, NoRows)]
    BY DEF FilesInit, rows
<1>3. /\ "catalog" \in Keys /\ "journeys" \in Keys /\ "report" \in Keys /\ "poms" \in Keys
      /\ Ids \subseteq Keys
    BY KeyFacts
<1>4. /\ store["catalog"] = Made(1, 0, NoRows) /\ store["journeys"] = Made(1, 1, rows)
      /\ store["report"] = Made(1, 0, rows) /\ store["poms"] = Made(1, 1, NoRows)
      /\ \A i \in Ids : store[i] = Made(1, 1, NoRows)
    BY <1>2, <1>3, KeyFacts
<1>5. store \in [Keys -> File]
    <2>1. /\ Made(1, 0, NoRows) \in File /\ Made(1, 1, NoRows) \in File
          /\ Made(1, 0, rows) \in File /\ Made(1, 1, rows) \in File
        BY <1>1, FileFacts
    <2> QED
        BY <1>2, <2>1
<1>6. Together(store)
    <2>1. /\ \A i \in Ids : store[i].from = 1 /\ store["journeys"].gen = 1
          /\ store["journeys"].about = rows /\ store["report"].about = rows
          /\ store["journeys"].from = 1 /\ store["poms"].gen = 1 /\ store["poms"].from = 1
          /\ store["catalog"].gen = 1
        BY <1>4, FileFacts
    <2> QED
        BY <1>1, <2>1 DEF Together, Specs, Journeys
<1>7. at = [s \in Slots |-> Free] /\ Free \in Attempt /\ Free.pc = "free"
    BY FreeOK DEF FilesInit, Free
<1>8. req = [q \in Requests |-> Idle] /\ Idle \in Request /\ Idle.pc = "idle"
    BY FreeOK DEF FilesInit, Idle
<1>9. FilesTyped
    <2>1. local \in [Keys -> File] /\ promised \in [Keys -> Generations]
        BY <1>1, FileFacts DEF FilesInit, Prefix
    <2>2. /\ runRow \in [status : {"running", "completed", "failed", "cancelled"},
                      exec : BOOLEAN, overlay : Generations]
          /\ faults \in 0 .. MaxFaults /\ raced \in BOOLEAN /\ gen \in Generations
        <3>1. MaxFaults \in Nat
            BY MondayArtifactsAssumption DEF MondayArtifactsAssumption
        <3>2. faults \in 0 .. MaxFaults
            BY <3>1 DEF FilesInit
        <3>3. runRow \in [status : {"running", "completed", "failed", "cancelled"},
                       exec : BOOLEAN, overlay : Generations]
            BY <1>1 DEF FilesInit
        <3> QED
            BY <1>1, <3>2, <3>3 DEF FilesInit
    <2>3. at \in [Slots -> Attempt] /\ \A s \in Slots : at[s].pc = "free"
        BY <1>7
    <2>4. req \in [Requests -> Request] /\ \A q \in Requests : req[q].pc = "idle"
        BY <1>8
    <2>5. FilesTypeOK
        BY <1>5, <2>1, <2>2, <2>3, <2>4 DEF FilesTypeOK
    <2>6. gen # 0 /\ gen <= 1 + Cardinality(Spent)
        BY SpentFinite DEF FilesInit
    <2>7. \A q \in Requests : Asked(req[q])
        BY <2>4 DEF Asked
    <2> QED
        BY <2>3, <2>5, <2>6, <2>7 DEF FilesTyped
<1>10. Quiet
    <2>1. (\A s \in Slots : at[s].pc = "free") /\ \A q \in Requests : req[q].pc = "idle"
        BY <1>7, <1>8
    <2>2. FilesKept
        BY DEF FilesInit, FilesKept
    <2> QED
        BY <1>6, <2>1, <2>2 DEF Quiet, Alone, FilesHold, Waits, InFlight, RequestOK, AttemptOK
<1> QED
    BY <1>9, <1>10 DEF FilesInv

\* A request that is let in.
LEMMA EntersOK ==
    ASSUME FilesInv, NEW q \in Requests, NEW r \in Request, req[q].pc = "idle", Becomes(q, r),
           LetIn(q), UNCHANGED <<store, local, runRow, at, gen, faults, promised>>,
           r.pc \in {"assert", "launch", "write"}, r.pc = "assert" => r.wf = r.agent,
           r.pc = "launch" => Blank(r.agent) = {},
           r.pc = "write" => r.from = store["poms"].gen
    PROVE  FilesInv'
<1>1. FilesTyped
    BY DEF FilesInv
<1>2. /\ req' \in [Requests -> Request] /\ req'[q] = r
      /\ \A o \in Requests \ {q} : req'[o] = req[o]
      /\ gen' \in Generations /\ gen' # 0 /\ gen' <= 1 + Cardinality(Spent)'
      /\ \A o \in Requests : Asked(req'[o])
    BY <1>1, RequestMoves DEF Asked
<1>3. raced' \in BOOLEAN
    BY DEF LetIn
<1>4. FilesTyped'
    BY <1>1, <1>2, <1>3 DEF FilesTyped, FilesTypeOK
<1>5. ASSUME ~raced' PROVE Quiet'
    <2>1. ~raced /\ (\A s \in Slots : at[s].pc = "free") /\ \A o \in Requests \ {q} : ~InFlight(o)
        BY <1>5 DEF LetIn, AtWork
    <2>2. Quiet
        BY <2>1 DEF FilesInv
    <2>3. Alone'
        BY <1>2, <2>1 DEF Alone, FilesHold, Waits, InFlight
    <2>4. \A o \in Requests : RequestOK(req[o])'
        BY <1>2, <2>2 DEF Quiet, RequestOK
    <2>5. \A s \in Slots : AttemptOK(at[s])'
        BY <2>2 DEF Quiet, AttemptOK, Putting
    <2>6. ~HalfWay
        BY <2>1 DEF HalfWay, InFlight
    <2>7. Together(store)' /\ FilesKept'
        BY <2>2, <2>6 DEF Quiet, FilesKept
    <2> QED
        BY <2>3, <2>4, <2>5, <2>7 DEF Quiet
<1> QED
    BY <1>4, <1>5 DEF FilesInv

LEMMA ResumeRunOK ==
    ASSUME FilesInv, NEW q \in Requests, NEW agent \in ResumeFrom, NEW after \in BOOLEAN,
           ResumeRun(q, agent, after)
    PROVE  FilesInv'
<1> DEFINE r == [Idle EXCEPT !.pc = "assert", !.wf = agent, !.agent = agent,
                             !.after = after, !.status = runRow.status]
<1>1. agent \in Agents
    BY MondayArtifactsAssumption DEF MondayArtifactsAssumption
<1>2. r \in Request
    BY <1>1, FreeOK DEF Request, Workflows, FilesInv, FilesTyped, FilesTypeOK
<1>3. r.pc = "assert" /\ r.wf = agent /\ r.agent = agent
    BY DEF Idle
<1>4. Becomes(q, r)
    BY DEF ResumeRun
<1> HIDE DEF r
<1> QED
    BY <1>2, <1>3, <1>4, EntersOK DEF ResumeRun

LEMMA ExecuteRunOK ==
    ASSUME FilesInv, NEW q \in Requests, NEW only \in SUBSET Ids, ExecuteRun(q, only)
    PROVE  FilesInv'
<1> DEFINE r == [Idle EXCEPT !.pc = "launch", !.agent = "continuityLead",
                             !.wf = IF only = {} THEN "execute" ELSE "partial",
                             !.only = only, !.status = runRow.status]
<1>1. r \in Request
    BY FreeOK DEF Request, Workflows, Agents, FilesInv, FilesTyped, FilesTypeOK
<1>2. r.pc = "launch" /\ r.agent = "continuityLead"
    BY DEF Idle
<1>3. Becomes(q, r)
    BY DEF ExecuteRun
<1> HIDE DEF r
<1>4. Blank("continuityLead") = {}
    BY DEF Blank
<1> QED
    BY <1>1, <1>2, <1>3, <1>4, EntersOK DEF ExecuteRun

LEMMA EditJourneysOK ==
    ASSUME FilesInv, NEW q \in Requests, NEW ids \in SUBSET Ids, EditJourneys(q, ids)
    PROVE  FilesInv'
<1> DEFINE r == [Idle EXCEPT !.pc = "write", !.only = ids, !.from = store["poms"].gen]
<1>1. store["poms"].gen \in Generations
    BY KeyFacts, RowsType DEF FilesInv, FilesTyped, FilesTypeOK, Prefix
<1>2. r \in Request
    BY <1>1, FreeOK DEF Request
<1>3. r.pc = "write" /\ r.from = store["poms"].gen
    BY DEF Idle
<1>4. Becomes(q, r)
    BY DEF EditJourneys
<1> HIDE DEF r
<1> QED
    BY <1>2, <1>3, <1>4, EntersOK DEF EditJourneys

\* The same attempt, perhaps an orphan.
Same(a, b) ==
    /\ b.pc = a.pc /\ b.agent = a.agent /\ b.gen = a.gen /\ b.ok = a.ok
    /\ b.files = a.files /\ b.seen = a.seen /\ b.only = a.only
    /\ b.live => a.live

LEMMA OrphanOK ==
    ASSUME NEW a \in Attempt
    PROVE  /\ [a EXCEPT !.live = FALSE] \in Attempt /\ Same(a, [a EXCEPT !.live = FALSE])
           /\ ~[a EXCEPT !.live = FALSE].live
BY DEF Attempt, Same

\* Some attempts become orphans, some are given up; the files stay.
LEMMA LeavesAlone ==
    ASSUME Quiet, FilesTyped, UNCHANGED <<store, local, promised>>,
           at' \in [Slots -> Attempt],
           \A s \in Slots : at'[s].pc = "free" \/ Same(at[s], at'[s])
    PROVE  /\ \A s, t \in Slots : FilesHold(s)' /\ FilesHold(t)' => s = t
           /\ \A s, t \in Slots : Waits(s)' /\ Waits(t)' => s = t
           /\ \A s, t \in Slots : FilesHold(s)' /\ Waits(t)' => ~at[s].live' /\ at[t].agent' = at[s].agent'
           /\ \A s \in Slots : AttemptOK(at[s])'
           /\ FilesKept'
<1>1. \A s, t \in Slots : FilesHold(s)' /\ FilesHold(t)' => s = t
    BY DEF Quiet, Alone, FilesHold, Same
<1>2. \A s, t \in Slots : Waits(s)' /\ Waits(t)' => s = t
    BY DEF Quiet, Alone, Waits, Same
<1>3. \A s, t \in Slots : FilesHold(s)' /\ Waits(t)' => ~at[s].live' /\ at[t].agent' = at[s].agent'
    <2> SUFFICES ASSUME NEW s \in Slots, NEW t \in Slots, FilesHold(s)', Waits(t)'
                 PROVE  ~at[s].live' /\ at[t].agent' = at[s].agent'
        OBVIOUS
    <2>1. Same(at[s], at'[s]) /\ Same(at[t], at'[t])
        BY DEF FilesHold, Waits
    <2>2. FilesHold(s) /\ Waits(t)
        BY <2>1 DEF FilesHold, Waits, Same
    <2> QED
        BY <2>1, <2>2 DEF Quiet, Alone, Same
<1>4. ASSUME NEW s \in Slots PROVE AttemptOK(at[s])'
    <2>1. AttemptOK(at[s])
        BY DEF Quiet
    <2>2. CASE at'[s].pc = "free"
        BY <2>2 DEF AttemptOK
    <2>3. CASE Same(at[s], at'[s])
        BY <2>1, <2>3 DEF AttemptOK, Putting, Same
    <2> QED
        BY <2>2, <2>3
<1>5. FilesKept'
    BY DEF Quiet, FilesKept
<1> QED
    BY <1>1, <1>2, <1>3, <1>4, <1>5

LEMMA FilesCancelOK ==
    ASSUME FilesInv, NEW q \in Requests, Cancel(q)
    PROVE  FilesInv'
<1> DEFINE r == [Idle EXCEPT !.pc = "done"]
<1>1. FilesTyped /\ r \in Request /\ Asked(r) /\ r.pc = "done" /\ Becomes(q, r) /\ req[q].pc = "idle" /\ gen' = gen
    BY FreeOK DEF FilesInv, Request, Idle, Cancel, Asked
<1> HIDE DEF r
<1>2. /\ req' \in [Requests -> Request] /\ req'[q] = r
      /\ \A o \in Requests \ {q} : req'[o] = req[o]
      /\ gen' \in Generations /\ gen' # 0 /\ gen' <= 1 + Cardinality(Spent)'
      /\ \A o \in Requests : Asked(req'[o])
    BY <1>1, RequestMoves
<1>3. \A s \in Slots : at'[s] \in {at[s], Free, [at[s] EXCEPT !.live = FALSE]}
    BY DEF Cancel
<1>4. at' = [s \in Slots |-> at'[s]]
    <2>1. at' = [s \in Slots |->
               IF ~at[s].live \/ (at[s].wf = "partial" /\ at[s].gen # runRow.overlay) THEN at[s]
               ELSE IF at[s].pc \in {"pull", "lost"} THEN Free
               ELSE [at[s] EXCEPT !.live = FALSE]]
        BY DEF Cancel
    <2> QED
        BY <2>1
<1>5. ASSUME NEW s \in Slots
      PROVE  at'[s] \in Attempt /\ (at'[s].pc = "free" \/ Same(at[s], at'[s]))
    <2>1. at[s] \in Attempt
        BY <1>1 DEF FilesTyped, FilesTypeOK
    <2>2. CASE at'[s] = at[s]
        BY <2>1, <2>2 DEF Same
    <2>3. CASE at'[s] = Free
        BY <2>3, FreeOK DEF Free
    <2>4. CASE at'[s] = [at[s] EXCEPT !.live = FALSE]
        BY <2>1, <2>4, OrphanOK
    <2> QED
        BY <1>3, <2>2, <2>3, <2>4
<1>6. at' \in [Slots -> Attempt]
    BY <1>4, <1>5
<1>7. \A s \in Slots : at'[s].pc # "free" => at'[s].gen # 0 /\ at[s].pc # "free"
    BY <1>1, <1>5 DEF FilesTyped, Same
<1>8. /\ runRow' = [status |-> "cancelled", exec |-> FALSE, overlay |-> 0]
      /\ UNCHANGED <<store, local, faults, promised, raced>>
    BY DEF Cancel
<1>9. FilesTyped'
    <2>1. runRow' \in [status : {"running", "completed", "failed", "cancelled"},
                    exec : BOOLEAN, overlay : Generations]
        BY <1>8, GenerationFacts
    <2>2. FilesTypeOK'
        BY <1>1, <1>2, <1>6, <1>8, <2>1 DEF FilesTyped, FilesTypeOK
    <2> QED
        BY <1>2, <1>7, <2>2 DEF FilesTyped
<1>10. ASSUME ~raced' PROVE Quiet'
    <2>1. Quiet
        BY <1>8, <1>10 DEF FilesInv
    <2>2. /\ \A s, t \in Slots : FilesHold(s)' /\ FilesHold(t)' => s = t
          /\ \A s, t \in Slots : Waits(s)' /\ Waits(t)' => s = t
          /\ \A s, t \in Slots : FilesHold(s)' /\ Waits(t)' => ~at[s].live' /\ at[t].agent' = at[s].agent'
          /\ \A s \in Slots : AttemptOK(at[s])'
          /\ FilesKept'
        BY <1>1, <1>5, <1>6, <1>8, <2>1, LeavesAlone
    <2>3. /\ \A s \in Slots, o \in Requests : at[s].pc' # "free" => ~InFlight(o)'
          /\ \A o, p \in Requests : InFlight(o)' /\ InFlight(p)' => o = p
        BY <1>1, <1>2, <1>7, <2>1 DEF Quiet, Alone, InFlight
    <2>4. \A o \in Requests : RequestOK(req[o])'
        BY <1>1, <1>2, <1>8, <2>1 DEF Quiet, RequestOK
    <2>5. HalfWay' \/ Together(store)'
        BY <1>1, <1>2, <1>8, <2>1 DEF Quiet, HalfWay
    <2> QED
        BY <2>2, <2>3, <2>4, <2>5 DEF Quiet, Alone
<1> QED
    BY <1>9, <1>10 DEF FilesInv

\* A request that gives up: what it has done stays, and is known to be half done.
LEMMA GivesUpOK ==
    ASSUME FilesInv, NEW q \in Requests, Becomes(q, [Idle EXCEPT !.pc = "done"]),
           UNCHANGED <<store, local, at, gen, promised>>, faults' \in 0 .. MaxFaults,
           runRow' \in [status : {"running", "completed", "failed", "cancelled"},
                     exec : BOOLEAN, overlay : Generations],
           raced' = TRUE \/ (raced' = raced /\ req[q].pc = "assert")
    PROVE  FilesInv'
<1> DEFINE r == [Idle EXCEPT !.pc = "done"]
<1>1. FilesTyped /\ r \in Request /\ Asked(r) /\ r.pc = "done" /\ Becomes(q, r)
    BY FreeOK DEF FilesInv, Request, Idle, Asked
<1> HIDE DEF r
<1>2. /\ req' \in [Requests -> Request] /\ req'[q] = r
      /\ \A o \in Requests \ {q} : req'[o] = req[o]
      /\ gen' \in Generations /\ gen' # 0 /\ gen' <= 1 + Cardinality(Spent)'
      /\ \A o \in Requests : Asked(req'[o])
    BY <1>1, RequestMoves
<1>3. FilesTyped'
    <2>1. FilesTypeOK'
        BY <1>1, <1>2 DEF FilesTyped, FilesTypeOK
    <2> QED
        BY <1>1, <1>2, <2>1 DEF FilesTyped
<1>4. ASSUME ~raced' PROVE Quiet'
    <2>1. Quiet /\ req[q].pc = "assert"
        BY <1>4 DEF FilesInv
    <2>2. Alone'
        BY <1>1, <1>2, <2>1 DEF Quiet, Alone, FilesHold, Waits, InFlight
    <2>3. \A o \in Requests : RequestOK(req[o])'
        BY <1>1, <1>2, <2>1 DEF Quiet, RequestOK
    <2>4. \A s \in Slots : AttemptOK(at[s])'
        BY <2>1 DEF Quiet, AttemptOK, Putting
    <2>5. HalfWay' \/ Together(store)'
        BY <1>1, <1>2, <2>1 DEF Quiet, HalfWay
    <2>6. FilesKept'
        BY <2>1 DEF Quiet, FilesKept
    <2> QED
        BY <2>2, <2>3, <2>4, <2>5, <2>6 DEF Quiet
<1> QED
    BY <1>3, <1>4 DEF FilesInv

LEMMA RowOK ==
    ASSUME FilesTyped
    PROVE  /\ runRow \in [status : {"running", "completed", "failed", "cancelled"},
                       exec : BOOLEAN, overlay : Generations]
           /\ \A new \in Reconciled :
                 new \in [status : {"running", "completed", "failed", "cancelled"},
                          exec : BOOLEAN, overlay : Generations]
           /\ faults \in 0 .. MaxFaults /\ (Mishap => faults' \in 0 .. MaxFaults)
<1>1. MaxFaults \in Nat
    BY MondayArtifactsAssumption DEF MondayArtifactsAssumption
<1>2. faults \in 0 .. MaxFaults /\ (Mishap => faults' \in 0 .. MaxFaults)
    BY <1>1 DEF Mishap, FilesTyped, FilesTypeOK
<1> QED
    BY <1>2 DEF FilesTyped, FilesTypeOK, Reconciled

LEMMA AssertNotRunningOK ==
    ASSUME FilesInv, NEW q \in Requests, AssertNotRunning(q)
    PROVE  FilesInv'
<1>1. FilesTyped /\ req[q].pc = "assert" /\ req[q] \in Request /\ req[q].wf = req[q].agent
      /\ UNCHANGED <<store, local, at, gen, faults>>
    BY DEF AssertNotRunning, FilesInv, FilesTyped, FilesTypeOK, Asked
<1>2. CASE Active /\ Live # {}
    <2>1. Becomes(q, [Idle EXCEPT !.pc = "done"]) /\ UNCHANGED <<runRow, raced, promised>>
        BY <1>2 DEF AssertNotRunning
    <2> QED
        BY <1>1, <2>1, GivesUpOK, RowOK
<1>3. CASE ~(Active /\ Live # {})
    <2> DEFINE a == req[q].agent
               todo == DownstreamFiles(a) \o DownstreamDirs(a)
               r == [req[q] EXCEPT !.pc = "cleanup", !.todo = todo]
    <2>1. /\ Becomes(q, r) /\ runRow' \in IF Active THEN Reconciled ELSE {runRow}
          /\ raced' = (raced /\ ~Heals(q))
          /\ promised' = IF raced /\ Heals(q) THEN [k \in Keys |-> 0] ELSE promised
        BY <1>3 DEF AssertNotRunning
    <2>2. a \in Agents
        BY <1>1 DEF Request
    <2>3. /\ todo \in FileList /\ todo # <<>> /\ todo \in Seq(Deletes(a))
          /\ \A k \in Clean(a) : Mentions(todo, k)
        BY <2>2, DownstreamOK, DeletesOK
    <2> HIDE DEF todo
    <2>4. /\ r \in Request /\ r.pc = "cleanup" /\ r.agent = a /\ r.todo = todo /\ Asked(r)
        BY <1>1, <2>3 DEF Request, FileList, Asked
    <2> HIDE DEF r
    <2>5. /\ req' \in [Requests -> Request] /\ req'[q] = r
          /\ \A o \in Requests \ {q} : req'[o] = req[o]
          /\ gen' \in Generations /\ gen' # 0 /\ gen' <= 1 + Cardinality(Spent)'
          /\ \A o \in Requests : Asked(req'[o])
        BY <1>1, <2>1, <2>4, RequestMoves
    <2>6. FilesTyped'
        <3>1. promised' \in [Keys -> Generations]
            BY <1>1, <2>1, GenerationFacts DEF FilesTyped, FilesTypeOK
        <3>2. raced' \in BOOLEAN
            BY <2>1
        <3>3. runRow' \in [status : {"running", "completed", "failed", "cancelled"},
                        exec : BOOLEAN, overlay : Generations]
            BY <1>1, <2>1, RowOK
        <3>4. FilesTypeOK'
            BY <1>1, <2>5, <3>1, <3>2, <3>3 DEF FilesTyped, FilesTypeOK
        <3> QED
            BY <1>1, <2>5, <3>4 DEF FilesTyped
    <2>7. ASSUME ~raced' PROVE Quiet'
        <3> DEFINE Gone == Without(store, Clean(a))
        <3>1. /\ \A s \in Slots : at[s].pc = "free"
              /\ \A o \in Requests \ {q} : ~InFlight(o)
              /\ Together(Gone) /\ FilesKept'
            <4>1. CASE ~raced
                <5>1. Quiet /\ promised' = promised
                    BY <2>1, <4>1 DEF FilesInv
                <5>2. InFlight(q)
                    BY <1>1 DEF InFlight
                <5>3. (\A s \in Slots : at[s].pc = "free") /\ \A o \in Requests \ {q} : ~InFlight(o)
                    BY <5>1, <5>2 DEF Quiet, Alone
                <5>4. ~HalfWay
                    BY <1>1, <5>3 DEF HalfWay, InFlight
                <5>5. store \in Prefix /\ Together(store)
                    BY <1>1, <5>1, <5>4 DEF Quiet, FilesTyped, FilesTypeOK, Prefix
                <5>6. Together(Gone)
                    BY <2>2, <5>5, TogetherWithout
                <5>7. FilesKept'
                    BY <1>1, <5>1 DEF Quiet, FilesKept
                <5> QED
                    BY <5>3, <5>6, <5>7
            <4>2. CASE raced
                <5>1. Heals(q) /\ promised' = [k \in Keys |-> 0]
                    BY <2>1, <2>7, <4>2
                <5>2. (\A s \in Slots : at[s].pc = "free") /\ \A o \in Requests \ {q} : ~InFlight(o)
                    BY <5>1 DEF Heals, AtWork
                <5>3. a \in {"scriptAnalyst", "setDesigner"}
                    BY <1>1, <5>1 DEF Heals
                <5>4. store \in Prefix
                    BY <1>1 DEF FilesTyped, FilesTypeOK, Prefix
                <5>5. /\ Gone \in Prefix
                      /\ \A k \in Keys : Gone[k] = IF k \in Clean(a) THEN Absent ELSE store[k]
                    BY <5>4, WithoutOK
                <5>6. {"poms", "journeys"} \cup Ids \subseteq Clean(a)
                    BY <5>3 DEF Clean
                <5>7. ~Has(Gone, "poms") /\ ~Has(Gone, "journeys") /\ \A i \in Ids : ~Has(Gone, i)
                    BY <5>5, <5>6, KeyFacts DEF Has
                <5>8. Together(Gone)
                    BY <5>5, <5>7, TogetherBlank
                <5>9. FilesKept'
                    BY <5>1 DEF FilesKept
                <5> QED
                    BY <5>2, <5>8, <5>9
            <4> QED
                BY <1>1, <4>1, <4>2 DEF FilesTyped, FilesTypeOK
        <3> HIDE DEF Gone
        <3>2. Alone'
            BY <1>1, <2>5, <3>1 DEF Alone, FilesHold, Waits, InFlight
        <3>3. \A o \in Requests : RequestOK(req[o])'
            <4>1. \A o \in Requests \ {q} : RequestOK(req[o])'
                BY <2>5, <3>1 DEF RequestOK, InFlight
            <4>2. RequestOK(req[q])'
                BY <1>1, <2>3, <2>4, <2>5, <3>1 DEF RequestOK, Gone
            <4> QED
                BY <4>1, <4>2
        <3>4. \A s \in Slots : AttemptOK(at[s])'
            BY <1>1, <3>1 DEF AttemptOK
        <3>5. HalfWay'
            BY <2>4, <2>5 DEF HalfWay
        <3> QED
            BY <3>1, <3>2, <3>3, <3>4, <3>5 DEF Quiet
    <2> QED
        BY <2>6, <2>7 DEF FilesInv
<1> QED
    BY <1>2, <1>3

\* A request that was let in is alone until it is done.
LEMMA OnlyRequest ==
    ASSUME Quiet, NEW q \in Requests, InFlight(q)
    PROVE  (\A s \in Slots : at[s].pc = "free") /\ \A o \in Requests \ {q} : ~InFlight(o)
BY DEF Quiet, Alone

LEMMA OneRequest ==
    ASSUME NEW q \in Requests, \A s \in Slots : at[s].pc = "free",
           \A o \in Requests \ {q} : ~InFlight(o) /\ req'[o] = req[o], at' = at
    PROVE  /\ Alone' /\ \A s \in Slots : AttemptOK(at[s])'
           /\ \A o \in Requests \ {q} : RequestOK(req[o])' /\ req[o].pc \notin {"cleanup", "drop"}
<1>1. Alone'
    BY DEF Alone, FilesHold, Waits, InFlight
<1>2. \A s \in Slots : AttemptOK(at[s])'
    BY DEF AttemptOK
<1>3. \A o \in Requests \ {q} : RequestOK(req[o])' /\ req[o].pc \notin {"cleanup", "drop"}
    BY DEF RequestOK, InFlight
<1> QED
    BY <1>1, <1>2, <1>3

LEMMA CleanupOK ==
    ASSUME FilesInv, NEW q \in Requests, Cleanup(q)
    PROVE  FilesInv'
<1> DEFINE a == req[q].agent
           todo == req[q].todo
           gone == In(Head(todo))
           r == [req[q] EXCEPT !.todo = Tail(todo), !.pc = IF Len(todo) = 1 THEN "launch" ELSE @]
<1>1. /\ FilesTyped /\ req[q].pc = "cleanup" /\ req[q] \in Request /\ Asked(req[q])
      /\ UNCHANGED <<local, runRow, at, gen, faults, raced>>
      /\ store' = Without(store, gone) /\ Becomes(q, r)
      /\ promised' = [k \in Keys |-> IF k \in gone THEN 0 ELSE promised[k]]
    BY DEF Cleanup, FilesInv, FilesTyped, FilesTypeOK, Broken
<1>2. a \in Agents /\ todo \in Seq(Keys \cup {"tests"}) /\ todo # <<>>
    BY <1>1 DEF Request, Asked
<1>3. /\ Tail(todo) \in Seq(Keys \cup {"tests"}) /\ Len(todo) \in Nat /\ Len(todo) # 0
      /\ Len(todo) # 1 => Tail(todo) # <<>>
    <2> DEFINE K == Keys \cup {"tests"}
    <2>1. todo \in Seq(K) /\ todo # <<>>
        BY <1>2
    <2> HIDE DEF K, todo
    <2>2. Tail(todo) \in Seq(K)
        BY <2>1
    <2>3. Len(todo) \in Nat /\ Len(todo) # 0
        BY <2>1
    <2>4. Len(Tail(todo)) = Len(todo) - 1
        BY <2>1, <2>3
    <2>5. Len(todo) # 1 => Tail(todo) # <<>>
        BY <2>3, <2>4
    <2> QED
        BY <2>2, <2>3, <2>5 DEF K
<1>4. /\ r \in Request /\ r.agent = a /\ r.wf = req[q].wf /\ r.todo = Tail(todo)
      /\ r.pc = IF Len(todo) = 1 THEN "launch" ELSE "cleanup"
    BY <1>1, <1>3 DEF Request
<1> HIDE DEF r
<1>5. Asked(r)
    BY <1>1, <1>3, <1>4 DEF Asked
<1>6. /\ req' \in [Requests -> Request] /\ req'[q] = r
      /\ \A o \in Requests \ {q} : req'[o] = req[o]
      /\ gen' \in Generations /\ gen' # 0 /\ gen' <= 1 + Cardinality(Spent)'
      /\ \A o \in Requests : Asked(req'[o])
    BY <1>1, <1>4, <1>5, RequestMoves
<1>7. store \in Prefix /\ store' \in Prefix
      /\ \A k \in Keys : store'[k] = IF k \in gone THEN Absent ELSE store[k]
    BY <1>1, WithoutOK DEF FilesTyped, FilesTypeOK, Prefix
<1>8. FilesTyped'
    <2>1. promised' \in [Keys -> Generations]
        BY <1>1, GenerationFacts DEF FilesTyped, FilesTypeOK
    <2>2. FilesTypeOK'
        BY <1>1, <1>6, <1>7, <2>1 DEF FilesTyped, FilesTypeOK, Prefix
    <2> QED
        BY <1>1, <1>6, <2>2 DEF FilesTyped
<1>9. ASSUME ~raced' PROVE Quiet'
    <2>1. Quiet
        BY <1>1, <1>9 DEF FilesInv
    <2>2. (\A s \in Slots : at[s].pc = "free") /\ \A o \in Requests \ {q} : ~InFlight(o)
        BY <1>1, <2>1, OnlyRequest DEF InFlight
    <2>3. /\ Alone' /\ \A s \in Slots : AttemptOK(at[s])'
          /\ \A o \in Requests \ {q} : RequestOK(req[o])'
        BY <1>1, <1>6, <2>2, OneRequest
    <2>4. /\ todo \in Seq(Deletes(a)) /\ Together(Without(store, Clean(a)))
          /\ \A k \in Clean(a) : Has(store, k) => Mentions(todo, k)
        BY <1>1, <2>1 DEF Quiet, RequestOK
    <2>5. /\ gone \subseteq Clean(a) /\ Tail(todo) \in Seq(Deletes(a)) /\ Head(todo) = todo[1]
          /\ \A i \in 1 .. Len(todo) : i = 1 \/ (i - 1 \in 1 .. Len(Tail(todo)) /\ todo[i] = Tail(todo)[i - 1])
        <3> DEFINE D == Deletes(a)
        <3>1. \A k \in D : In(k) \subseteq Clean(a)
            BY DEF Deletes
        <3>2. todo \in Seq(D)
            BY <2>4
        <3> HIDE DEF D, todo
        <3>3. Head(todo) = todo[1] /\ Head(todo) \in D /\ Tail(todo) \in Seq(D)
              /\ Len(Tail(todo)) = Len(todo) - 1
            BY <1>2, <3>2
        <3>4. \A i \in 1 .. Len(todo) : i = 1 \/ (i - 1 \in 1 .. Len(Tail(todo)) /\ todo[i] = Tail(todo)[i - 1])
            BY <1>2, <3>2, <3>3
        <3> QED
            BY <3>1, <3>3, <3>4 DEF D
    <2> HIDE DEF a, todo
    <2>6. \A k \in Keys : Without(store', Clean(a))[k] = Without(store, Clean(a))[k]
        BY <1>7, <2>5, WithoutOK
    <2>7. Without(store', Clean(a)) = Without(store, Clean(a))
        BY <2>6 DEF Without
    <2>8. \A k \in Clean(a) : Has(store', k) => Has(store, k) /\ k \notin gone
        BY <1>2, <1>7, AgentFacts DEF Has
    <2>9. \A k \in Clean(a) : Has(store', k) => Mentions(Tail(todo), k)
        <3> SUFFICES ASSUME NEW k \in Clean(a), Has(store', k) PROVE Mentions(Tail(todo), k)
            OBVIOUS
        <3>1. PICK i \in 1 .. Len(todo) : k \in In(todo[i])
            BY <2>4, <2>8 DEF Mentions
        <3>2. i # 1
            BY <2>5, <2>8, <3>1
        <3> QED
            BY <2>5, <3>1, <3>2 DEF Mentions
    <2>10. ASSUME Len(todo) = 1 PROVE RequestOK(req[q])' /\ Together(store)'
        <3>1. \A k \in Clean(a) : ~Has(store', k)
            <4>1. Len(Tail(todo)) = 0
                BY <1>2, <2>10
            <4> QED
                BY <2>9, <4>1 DEF Mentions
        <3>2. store' = Without(store', Clean(a))
            <4>1. \A k \in Keys : store'[k] = Without(store', Clean(a))[k]
                BY <1>7, <3>1, WithoutOK DEF Has
            <4>2. store' = [k \in Keys |-> store'[k]]
                BY <1>7 DEF Prefix
            <4> QED
                BY <4>1, <4>2 DEF Without
        <3>3. RequestOK(req[q])'
            BY <1>2, <1>4, <1>6, <2>10, <3>1, AgentFacts DEF RequestOK
        <3> QED
            BY <2>4, <2>7, <3>2, <3>3
    <2>11. ASSUME Len(todo) # 1 PROVE RequestOK(req[q])' /\ HalfWay'
        BY <1>4, <1>6, <2>4, <2>5, <2>7, <2>9, <2>11 DEF RequestOK, HalfWay, todo, a
    <2>12. FilesKept'
        BY <1>1, <1>7, <2>1 DEF Quiet, FilesKept
    <2> QED
        BY <2>3, <2>10, <2>11, <2>12 DEF Quiet
<1> QED
    BY <1>8, <1>9 DEF FilesInv

LEMMA FilesLaunchOK ==
    ASSUME FilesInv, NEW q \in Requests, Launch(q)
    PROVE  FilesInv'
<1> DEFINE r == [Idle EXCEPT !.pc = "done"]
<1>1. PICK s \in Slots :
        /\ at[s].pc = "free"
        /\ at' = [at EXCEPT ![s] = [Free EXCEPT
                    !.pc = "pull", !.wf = req[q].wf, !.agent = req[q].agent,
                    !.gen = gen + 1, !.after = req[q].after, !.only = req[q].only,
                    !.live = TRUE, !.left = Attempts(req[q].agent)]]
    BY DEF Launch
<1> DEFINE a == [Free EXCEPT !.pc = "pull", !.wf = req[q].wf, !.agent = req[q].agent,
                    !.gen = gen + 1, !.after = req[q].after, !.only = req[q].only,
                    !.live = TRUE, !.left = Attempts(req[q].agent)]
<1>2. /\ FilesTyped /\ req[q].pc = "launch" /\ req[q] \in Request /\ gen' = gen + 1 /\ Becomes(q, r)
      /\ runRow' = [status |-> IF req[q].wf \in Agents THEN "running" ELSE runRow.status,
                 exec |-> req[q].agent = "continuityLead", overlay |-> gen + 1]
      /\ UNCHANGED <<store, local, faults, promised, raced>>
    BY DEF Launch, FilesInv, FilesTyped, FilesTypeOK
<1>3. r \in Request /\ r.pc = "done" /\ Asked(r)
    BY FreeOK DEF Idle, Request, Asked
<1> HIDE DEF r
<1>4. /\ req' \in [Requests -> Request] /\ req'[q] = r
      /\ \A o \in Requests \ {q} : req'[o] = req[o]
      /\ gen' \in Generations /\ gen' # 0 /\ gen' <= 1 + Cardinality(Spent)'
      /\ \A o \in Requests : Asked(req'[o])
    BY <1>2, <1>3, RequestMoves
<1>5. req[q].agent \in Agents /\ Attempts(req[q].agent) \in 0 .. 2
    BY <1>2, AgentFacts DEF Request
<1>6. a \in Attempt /\ a.pc = "pull" /\ a.agent = req[q].agent /\ a.gen # 0
    <2> DEFINE n == Attempts(req[q].agent)
    <2>1. n \in 0 .. 2 /\ gen + 1 \in Generations /\ gen + 1 # 0
        BY <1>2, <1>4, <1>5
    <2>2. /\ req[q].wf \in Workflows /\ req[q].agent \in Agents /\ req[q].after \in BOOLEAN
          /\ req[q].only \in SUBSET Ids
        BY <1>2 DEF Request
    <2>3. a \in Attempt
        <3> DEFINE b == [Free EXCEPT !.pc = "pull", !.wf = req[q].wf, !.agent = req[q].agent,
                                     !.gen = gen + 1]
                   c == [b EXCEPT !.after = req[q].after, !.only = req[q].only,
                                  !.live = TRUE, !.left = n]
        <3> HIDE DEF n
        <3>1. b \in Attempt
            BY <2>1, <2>2, FreeOK DEF Attempt
        <3> HIDE DEF b
        <3>2. c \in Attempt
            BY <2>1, <2>2, <3>1 DEF Attempt
        <3> QED
            BY <3>2 DEF b, n
    <2>4. a.pc = "pull" /\ a.agent = req[q].agent /\ a.gen = gen + 1
        BY DEF Free
    <2> QED
        BY <2>1, <2>3, <2>4
<1>7. at' = [at EXCEPT ![s] = a]
    BY <1>1
<1> HIDE DEF a
<1>8. /\ at' \in [Slots -> Attempt] /\ at'[s] = a
      /\ \A t \in Slots \ {s} : at'[t] = at[t]
      /\ \A t \in Slots : at'[t].pc # "free" => at'[t].gen # 0
    BY <1>2, <1>6, <1>7, SlotMoves
<1>9. FilesTyped'
    <2>1. runRow' \in [status : {"running", "completed", "failed", "cancelled"},
                    exec : BOOLEAN, overlay : Generations]
        <3>1. runRow.status \in {"running", "completed", "failed", "cancelled"}
            BY <1>2, RowOK
        <3>2. gen + 1 \in Generations
            BY <1>2, <1>4
        <3>3. (req[q].agent = "continuityLead") \in BOOLEAN
            OBVIOUS
        <3> QED
            BY <1>2, <3>1, <3>2, <3>3
    <2>2. FilesTypeOK'
        BY <1>2, <1>4, <1>8, <2>1 DEF FilesTyped, FilesTypeOK
    <2> QED
        BY <1>4, <1>8, <2>2 DEF FilesTyped
<1>10. ASSUME ~raced' PROVE Quiet'
    <2>1. Quiet
        BY <1>2, <1>10 DEF FilesInv
    <2>2. (\A t \in Slots : at[t].pc = "free") /\ \A o \in Requests \ {q} : ~InFlight(o)
        BY <1>2, <2>1, OnlyRequest DEF InFlight
    <2>3. (\A t \in Slots \ {s} : at'[t].pc = "free") /\ \A o \in Requests : ~InFlight(o)'
        BY <1>3, <1>4, <1>8, <2>2 DEF InFlight
    <2>4. Alone'
        BY <1>6, <1>8, <2>3 DEF Alone, FilesHold, Waits
    <2>5. \A o \in Requests : RequestOK(req[o])'
        BY <2>3 DEF RequestOK, InFlight
    <2>6. \A t \in Slots : AttemptOK(at[t])'
        <3>1. \A k \in Blank(a.agent) : ~Has(store, k)
            BY <1>2, <1>6, <2>1 DEF Quiet, RequestOK
        <3> QED
            BY <1>2, <1>6, <1>8, <2>3, <3>1 DEF AttemptOK
    <2>7. ~HalfWay
        BY <1>2, <2>2 DEF HalfWay, InFlight
    <2>8. Together(store)' /\ FilesKept'
        BY <1>2, <2>1, <2>7 DEF Quiet, FilesKept
    <2> QED
        BY <2>4, <2>5, <2>6, <2>8 DEF Quiet
<1> QED
    BY <1>9, <1>10 DEF FilesInv

LEMMA LaunchFailsOK ==
    ASSUME FilesInv, NEW q \in Requests, LaunchFails(q)
    PROVE  FilesInv'
<1>1. /\ FilesTyped /\ req[q] \in Request /\ raced' = TRUE
      /\ Becomes(q, [Idle EXCEPT !.pc = "done"]) /\ UNCHANGED <<store, local, at, gen, promised>>
    BY DEF LaunchFails, FilesInv, FilesTyped, FilesTypeOK
<1>2. faults' \in 0 .. MaxFaults
    BY <1>1, RowOK DEF LaunchFails
<1>3. runRow' \in [status : {"running", "completed", "failed", "cancelled"},
                exec : BOOLEAN, overlay : Generations]
    <2>1. runRow' = IF req[q].wf \in Agents
                 THEN [status |-> req[q].status, exec |-> req[q].wf = "continuityLead", overlay |-> 0]
                 ELSE [runRow EXCEPT !.overlay = 0]
        BY DEF LaunchFails
    <2>2. req[q].status \in {"running", "completed", "failed", "cancelled"} /\ 0 \in Generations
        BY <1>1, GenerationFacts DEF Request
    <2> QED
        BY <1>1, <2>1, <2>2, RowOK
<1> QED
    BY <1>1, <1>2, <1>3, GivesUpOK

LEMMA RequestFailsOK ==
    ASSUME FilesInv, NEW q \in Requests, RequestFails(q)
    PROVE  FilesInv'
<1>1. /\ FilesTyped /\ raced' = TRUE /\ runRow' = runRow /\ Mishap
      /\ Becomes(q, [Idle EXCEPT !.pc = "done"]) /\ UNCHANGED <<store, local, at, gen, promised>>
    BY DEF RequestFails, FilesInv
<1> QED
    BY <1>1, RowOK, GivesUpOK

LEMMA WriteJourneysOK ==
    ASSUME FilesInv, NEW q \in Requests, WriteJourneys(q)
    PROVE  FilesInv'
<1> DEFINE r == [req[q] EXCEPT !.pc = "drop"]
           about == [i \in req[q].only |-> gen + 1]
           f == Made(gen + 1, req[q].from, about)
<1>1. /\ FilesTyped /\ req[q].pc = "write" /\ req[q] \in Request /\ gen' = gen + 1 /\ Becomes(q, r)
      /\ store' = [store EXCEPT !["journeys"] = f]
      /\ promised' = [k \in Keys |-> IF k \in {"journeys"} THEN 0 ELSE promised[k]]
      /\ UNCHANGED <<local, runRow, at, faults, raced>>
    BY DEF WriteJourneys, Broken, FilesInv, FilesTyped, FilesTypeOK
<1>2. r \in Request /\ r.pc = "drop" /\ Asked(r)
    BY <1>1 DEF Request, Asked
<1> HIDE DEF r
<1>3. /\ req' \in [Requests -> Request] /\ req'[q] = r
      /\ \A o \in Requests \ {q} : req'[o] = req[o]
      /\ gen' \in Generations /\ gen' # 0 /\ gen' <= 1 + Cardinality(Spent)'
      /\ \A o \in Requests : Asked(req'[o])
    BY <1>1, <1>2, RequestMoves
<1>4. f \in File /\ f.from = req[q].from
    <2>1. gen + 1 \in Generations /\ req[q].from \in Generations /\ req[q].only \in SUBSET Ids
        BY <1>1, <1>3 DEF Request
    <2>2. about \in Abouts
        BY <2>1, AboutType
    <2> HIDE DEF about
    <2> QED
        BY <2>1, <2>2, FileFacts
<1> HIDE DEF f, about
<1>5. /\ store \in Prefix /\ store' \in Prefix /\ store'["journeys"] = f
      /\ \A k \in Keys \ {"journeys"} : store'[k] = store[k]
    BY <1>1, <1>4, KeyFacts DEF FilesTyped, FilesTypeOK, Prefix
<1>6. FilesTyped'
    <2>1. promised' \in [Keys -> Generations]
        BY <1>1, GenerationFacts DEF FilesTyped, FilesTypeOK
    <2>2. FilesTypeOK'
        BY <1>1, <1>3, <1>5, <2>1 DEF FilesTyped, FilesTypeOK, Prefix
    <2> QED
        BY <1>1, <1>3, <2>2 DEF FilesTyped
<1>7. ASSUME ~raced' PROVE Quiet'
    <2>1. Quiet
        BY <1>1, <1>7 DEF FilesInv
    <2>2. (\A s \in Slots : at[s].pc = "free") /\ \A o \in Requests \ {q} : ~InFlight(o)
        BY <1>1, <2>1, OnlyRequest DEF InFlight
    <2>3. /\ Alone' /\ \A s \in Slots : AttemptOK(at[s])'
          /\ \A o \in Requests \ {q} : RequestOK(req[o])'
        BY <1>1, <1>3, <2>2, OneRequest
    <2>4. ~HalfWay
        BY <1>1, <2>2 DEF HalfWay, InFlight
    <2>5. Together(store) /\ req[q].from = store["poms"].gen
        BY <1>1, <2>1, <2>4 DEF Quiet, RequestOK
    <2> DEFINE G == Without(store', Ids)
    <2>6. G \in Prefix /\ \A k \in Keys : G[k] = IF k \in Ids THEN Absent ELSE store'[k]
        BY <1>5, WithoutOK
    <2> HIDE DEF G
    <2>7. /\ \A k \in Keys \ ({"journeys"} \cup Ids) : G[k] = store[k]
          /\ \A i \in Ids : ~Has(G, i)
          /\ G["journeys"].from = G["poms"].gen
        BY <1>4, <1>5, <2>5, <2>6, KeyFacts DEF Has
    <2>8. Together(G)
        BY <1>5, <2>5, <2>6, <2>7, TogetherEdited
    <2>9. RequestOK(req[q])' /\ HalfWay'
        BY <1>2, <1>3, <2>8 DEF RequestOK, HalfWay, G
    <2>10. FilesKept'
        BY <1>1, <1>5, <2>1 DEF Quiet, FilesKept
    <2> QED
        BY <2>3, <2>9, <2>10 DEF Quiet
<1> QED
    BY <1>6, <1>7 DEF FilesInv

LEMMA DropSpecsOK ==
    ASSUME FilesInv, NEW q \in Requests, DropSpecs(q)
    PROVE  FilesInv'
<1> DEFINE r == [Idle EXCEPT !.pc = "done"]
<1>1. /\ FilesTyped /\ req[q].pc = "drop" /\ Becomes(q, r) /\ store' = Without(store, Ids)
      /\ promised' = [k \in Keys |-> IF k \in Ids THEN 0 ELSE promised[k]]
      /\ UNCHANGED <<local, runRow, at, gen, faults, raced>>
    BY DEF DropSpecs, Broken, FilesInv
<1>2. r \in Request /\ r.pc = "done" /\ Asked(r)
    BY FreeOK DEF Idle, Request, Asked
<1> HIDE DEF r
<1>3. /\ req' \in [Requests -> Request] /\ req'[q] = r
      /\ \A o \in Requests \ {q} : req'[o] = req[o]
      /\ gen' \in Generations /\ gen' # 0 /\ gen' <= 1 + Cardinality(Spent)'
      /\ \A o \in Requests : Asked(req'[o])
    BY <1>1, <1>2, RequestMoves
<1>4. store' \in Prefix /\ \A k \in Keys : store'[k] = IF k \in Ids THEN Absent ELSE store[k]
    BY <1>1, WithoutOK DEF FilesTyped, FilesTypeOK, Prefix
<1>5. FilesTyped'
    <2>1. promised' \in [Keys -> Generations]
        BY <1>1, GenerationFacts DEF FilesTyped, FilesTypeOK
    <2>2. FilesTypeOK'
        BY <1>1, <1>3, <1>4, <2>1 DEF FilesTyped, FilesTypeOK, Prefix
    <2> QED
        BY <1>1, <1>3, <2>2 DEF FilesTyped
<1>6. ASSUME ~raced' PROVE Quiet'
    <2>1. Quiet
        BY <1>1, <1>6 DEF FilesInv
    <2>2. (\A s \in Slots : at[s].pc = "free") /\ \A o \in Requests \ {q} : ~InFlight(o)
        BY <1>1, <2>1, OnlyRequest DEF InFlight
    <2>3. /\ Alone' /\ \A s \in Slots : AttemptOK(at[s])'
          /\ \A o \in Requests \ {q} : RequestOK(req[o])'
        BY <1>1, <1>3, <2>2, OneRequest
    <2>4. RequestOK(req[q])'
        BY <1>2, <1>3 DEF RequestOK
    <2>5. Together(store)'
        BY <1>1, <2>1 DEF Quiet, RequestOK
    <2>6. FilesKept'
        BY <1>1, <1>4, <2>1 DEF Quiet, FilesKept
    <2> QED
        BY <2>3, <2>4, <2>5, <2>6 DEF Quiet
<1> QED
    BY <1>5, <1>6 DEF FilesInv

LEMMA RepairRowOK == ASSUME FilesInv, RepairRow PROVE FilesInv'
<1>1. /\ FilesTyped /\ runRow' \in Reconciled
      /\ UNCHANGED <<store, local, at, req, gen, faults, promised, raced>>
    BY DEF RepairRow, FilesInv
<1>2. runRow' \in [status : {"running", "completed", "failed", "cancelled"},
                exec : BOOLEAN, overlay : Generations]
    BY <1>1, RowOK
<1>3. FilesTyped'
    BY <1>1, <1>2 DEF FilesTyped, FilesTypeOK, Spent
<1>4. Quiet => Quiet'
    BY <1>1 DEF Quiet, Alone, FilesHold, Waits, InFlight, RequestOK, AttemptOK, Putting, HalfWay, FilesKept
<1> QED
    BY <1>1, <1>3, <1>4 DEF FilesInv

-----------------------------------------------------------------------------
(* Activities                                                               *)

\* Whatever an agent found, it leaves files.
LEMMA DesignedType ==
    ASSUME NEW F \in Prefix, NEW s, at[s].agent \in Agents, at[s].gen \in Generations,
           at[s].seen \in Prefix, NEW L \in Designed(s, F)
    PROVE  L \in Prefix
<1> DEFINE a == at[s].agent
           g == at[s].gen
           seen == at[s].seen
<1>1. 0 \in Generations /\ "catalog" \in Keys /\ "poms" \in Keys
    BY GenerationFacts, KeyFacts
<1>2. \A k \in Keys : seen[k].gen \in Generations
    BY RowsType
<1>3. CASE a = "scriptAnalyst"
    <2>1. Made(g, 0, NoRows) \in File
        BY <1>1, FileFacts, AboutType
    <2>2. L = [F EXCEPT !["catalog"] = Made(g, 0, NoRows)]
        BY <1>3 DEF Designed, Analysed
    <2> QED
        BY <2>1, <2>2 DEF Prefix
<1>4. CASE a = "setDesigner"
    <2>1. Made(g, seen["catalog"].gen, NoRows) \in File
        BY <1>1, <1>2, FileFacts, AboutType
    <2>2. L = [F EXCEPT !["poms"] = Made(g, seen["catalog"].gen, NoRows)]
        BY <1>4 DEF Designed, PomsMade
    <2> QED
        BY <2>1, <2>2 DEF Prefix
<1>5. CASE a = "choreographer"
    <2>1. PICK I \in SUBSET Ids : L = JourneysMade(s, F, I)
        BY <1>5 DEF Designed
    <2> DEFINE about == [i \in I |-> g]
    <2>2. about \in Abouts
        BY AboutType
    <2>3. L = [F EXCEPT !["journeys"] = Made(g, seen["poms"].gen, about)]
        BY <2>1 DEF JourneysMade
    <2> HIDE DEF about
    <2>4. Made(g, seen["poms"].gen, about) \in File
        BY <1>1, <1>2, <2>2, FileFacts
    <2> QED
        BY <2>3, <2>4 DEF Prefix
<1>6. CASE a \in {"assistantDirector", "continuityLead"}
    BY <1>6 DEF Designed
<1> QED
    BY <1>3, <1>4, <1>5, <1>6 DEF Agents

LEMMA DirectedType ==
    ASSUME NEW F \in Prefix, NEW s, at[s].gen \in Generations, at[s].seen \in Prefix, NEW I
    PROVE  Directed(s, F, I) \in Prefix
<1> DEFINE f == Made(at[s].gen, at[s].seen["journeys"].gen, NoRows)
           seen == at[s].seen
<1>1. "journeys" \in Keys /\ \A k \in Keys : seen[k] \in File /\ seen[k].gen \in Generations
    BY KeyFacts, RowsType
<1>2. f \in File /\ Absent \in File
    BY <1>1, FileFacts, AboutType
<1> HIDE DEF f
<1>3. \A k \in Keys : F[k] \in File
    BY RowsType
<1>4. Directed(s, F, I) = [k \in Keys |->
        CASE k = "journeys" -> seen["journeys"]
          [] k \in I -> f
          [] k \in Ids \ Journeys(seen) -> Absent
          [] OTHER -> F[k]]
    BY DEF Directed, f
<1> HIDE DEF seen
<1>5. \A k \in Keys : (CASE k = "journeys" -> seen["journeys"]
          [] k \in I -> f
          [] k \in Ids \ Journeys(seen) -> Absent
          [] OTHER -> F[k]) \in File
    BY <1>1, <1>2, <1>3
<1> QED
    BY <1>4, <1>5 DEF Prefix

LEMMA ReportedType ==
    ASSUME NEW F \in Prefix, NEW s, at[s].gen \in Generations, at[s].seen \in Prefix,
           NEW rows \in Results(s)
    PROVE  [F EXCEPT !["report"] = Made(at[s].gen, 0, Merged(F["report"], rows, at[s].only))] \in Prefix
<1> DEFINE seen == at[s].seen
           journeys == Chosen(s, Journeys(seen))
           specs == Chosen(s, Specs(seen))
           j == seen["journeys"].gen
           old == F["report"].about
           m == Merged(F["report"], rows, at[s].only)
<1>1. "journeys" \in Keys /\ "report" \in Keys /\ 0 \in Generations /\ Ids \subseteq Keys
    BY KeyFacts, GenerationFacts
<1>2. /\ \A k \in Keys : seen[k].gen \in Generations /\ seen[k].from \in Generations
      /\ old \in Abouts
    BY <1>1, RowsType
<1>3. journeys \subseteq Ids /\ specs \subseteq Ids
    BY <1>1, RowsType, AboutType DEF Chosen, Journeys, Specs
<1>4. rows \in IF specs = {} THEN {[i \in journeys |-> 0]}
               ELSE {[i \in journeys |-> j], [i \in specs |-> seen[i].from]}
    BY DEF Results
<1> HIDE DEF journeys, specs
<1>5. rows \in Abouts
    <2>1. j \in Generations /\ \A i \in specs : seen[i].from \in Generations
        BY <1>1, <1>2, <1>3
    <2> HIDE DEF j, seen
    <2>2. /\ [i \in journeys |-> 0] \in [journeys -> Generations]
          /\ [i \in journeys |-> j] \in [journeys -> Generations]
          /\ [i \in specs |-> seen[i].from] \in [specs -> Generations]
        BY <1>1, <2>1
    <2> QED
        BY <1>3, <1>4, <2>2, AboutType
<1>6. m \in Abouts
    <2>1. CASE at[s].only = {}
        BY <1>5, <2>1 DEF Merged
    <2>2. CASE at[s].only # {}
        <3>1. m = [i \in DOMAIN old \cup DOMAIN rows |-> IF i \in DOMAIN rows THEN rows[i] ELSE old[i]]
            BY <2>2 DEF Merged
        <3>2. /\ DOMAIN old \subseteq Ids /\ old \in [DOMAIN old -> Generations]
              /\ DOMAIN rows \subseteq Ids /\ rows \in [DOMAIN rows -> Generations]
            BY <1>2, <1>5, AboutType
        <3> HIDE DEF old, m
        <3>3. m \in [DOMAIN old \cup DOMAIN rows -> Generations]
            BY <3>1, <3>2
        <3> QED
            BY <3>2, <3>3, AboutType
    <2> QED
        BY <2>1, <2>2
<1> HIDE DEF m
<1>7. Made(at[s].gen, 0, m) \in File
    BY <1>1, <1>6, FileFacts
<1> QED
    BY <1>1, <1>7 DEF Prefix, m

\* Nobody asks anything while somebody is at work.
LEMMA NobodyAsks ==
    ASSUME Quiet, NEW s \in Slots, at[s].pc # "free"
    PROVE  /\ \A q \in Requests : ~InFlight(q)
           /\ ~HalfWay /\ Together(store)
           /\ req' = req => ~HalfWay' /\ \A q \in Requests : RequestOK(req[q])' /\ ~InFlight(q)'
<1>1. \A q \in Requests : ~InFlight(q)
    BY DEF Quiet, Alone
<1>2. ~HalfWay /\ Together(store)
    BY <1>1 DEF Quiet, HalfWay, InFlight
<1>3. ASSUME req' = req
      PROVE  ~HalfWay' /\ \A q \in Requests : RequestOK(req[q])' /\ ~InFlight(q)'
    BY <1>1, <1>3 DEF HalfWay, RequestOK, InFlight
<1> QED
    BY <1>1, <1>2, <1>3

LEMMA PullOK ==
    ASSUME FilesInv, NEW s \in Slots, Pull(s)
    PROVE  FilesInv'
<1> DEFINE a == [at[s] EXCEPT !.pc = "work", !.seen = local']
<1>1. /\ FilesTyped /\ at[s].pc = "pull" /\ at[s] \in Attempt /\ at[s].gen # 0
      /\ at' = [at EXCEPT ![s] = a]
      /\ local' = [k \in Keys |-> IF Has(store, k) THEN store[k] ELSE local[k]]
      /\ runRow' = [runRow EXCEPT !.exec = @ \/ at[s].agent = "continuityLead"]
      /\ raced' = (raced \/ local # Empty \/ AtWork # {s})
      /\ promised' = [k \in Keys |-> IF k \in Outputs[at[s].agent] THEN 0 ELSE promised[k]]
      /\ UNCHANGED <<store, req, gen, faults>>
    <2>1. at' = [at EXCEPT ![s].pc = "work", ![s].seen = local']
        BY DEF Pull
    <2>2. FilesTyped /\ at[s].pc = "pull" /\ at[s] \in Attempt /\ at \in [Slots -> Attempt]
        BY DEF Pull, FilesInv, FilesTyped, FilesTypeOK
    <2>3. at' = [at EXCEPT ![s] = a]
        BY <2>1, <2>2
    <2> HIDE DEF a
    <2> QED
        BY <2>2, <2>3 DEF Pull, Broken, FilesTyped
<1>2. store \in Prefix /\ local \in Prefix /\ local' \in Prefix
    BY <1>1 DEF FilesTyped, FilesTypeOK, Prefix
<1>3. /\ a \in Attempt /\ a.pc = "work" /\ a.gen # 0 /\ a.agent = at[s].agent /\ a.seen = local'
    BY <1>1, <1>2 DEF Attempt, Prefix
<1> HIDE DEF a
<1>4. /\ at' \in [Slots -> Attempt] /\ at'[s] = a
      /\ \A t \in Slots \ {s} : at'[t] = at[t]
      /\ \A t \in Slots : at'[t].pc # "free" => at'[t].gen # 0
    BY <1>1, <1>3, SlotMoves
<1>5. FilesTyped'
    <2>1. promised' \in [Keys -> Generations]
        BY <1>1, GenerationFacts DEF FilesTyped, FilesTypeOK
    <2>2. raced' \in BOOLEAN
        BY <1>1
    <2>3. runRow' \in [status : {"running", "completed", "failed", "cancelled"},
                    exec : BOOLEAN, overlay : Generations]
        BY <1>1, RowOK
    <2>4. FilesTypeOK'
        BY <1>1, <1>2, <1>4, <2>1, <2>2, <2>3 DEF FilesTyped, FilesTypeOK, Prefix
    <2> QED
        BY <1>1, <1>4, <2>4 DEF FilesTyped, Spent
<1>6. ASSUME ~raced' PROVE Quiet'
    <2>1. Quiet /\ local = Empty /\ AtWork = {s}
        BY <1>1, <1>6 DEF FilesInv
    <2>2. \A t \in Slots \ {s} : at[t].pc = "free"
        BY <2>1 DEF AtWork
    <2>3. local' = store
        <3>1. \A k \in Keys : local'[k] = store[k]
            BY <1>1, <2>1 DEF Has, Empty
        <3>2. local' = [k \in Keys |-> local'[k]] /\ store = [k \in Keys |-> store[k]]
            BY <1>2 DEF Prefix
        <3> QED
            BY <3>1, <3>2
    <2>4. Together(store) /\ ~HalfWay' /\ \A q \in Requests : RequestOK(req[q])' /\ ~InFlight(q)'
        BY <1>1, <2>1, NobodyAsks
    <2>5. Alone'
        BY <1>3, <1>4, <2>2, <2>4 DEF Alone, FilesHold, Waits
    <2>6. \A t \in Slots : AttemptOK(at[t])'
        <3>1. \A k \in Blank(at[s].agent) : ~Has(store, k)
            BY <1>1, <2>1 DEF Quiet, AttemptOK
        <3>2. \A k \in Outputs[at[s].agent] : promised'[k] = 0
            BY <1>1, AgentFacts DEF Attempt
        <3>3. AttemptOK(at[s])'
            BY <1>1, <1>3, <1>4, <2>3, <3>1, <3>2 DEF AttemptOK
        <3>4. \A t \in Slots \ {s} : AttemptOK(at[t])'
            BY <1>4, <2>2 DEF AttemptOK
        <3> QED
            BY <3>3, <3>4
    <2>7. FilesKept'
        BY <1>1, <2>1 DEF Quiet, FilesKept
    <2> QED
        BY <1>1, <2>4, <2>5, <2>6, <2>7 DEF Quiet
<1> QED
    BY <1>5, <1>6 DEF FilesInv

\* What a partial execution reports of the others.
KeepsRows(from, to, only) ==
    \A i \in DOMAIN from["report"].about \ only :
       /\ i \in DOMAIN to["report"].about
       /\ to["report"].about[i] = from["report"].about[i]

\* An attempt goes to flush what it leaves.
LEMMA WorkOK ==
    ASSUME FilesInv, NEW s \in Slots, FilesHold(s), NEW ok \in BOOLEAN, NEW last \in BOOLEAN,
           Flushes(s, local', ok, last), local' \in Prefix,
           runRow' \in [status : {"running", "completed", "failed", "cancelled"},
                     exec : BOOLEAN, overlay : Generations],
           UNCHANGED <<store, req, gen, faults, promised, raced>>,
           ~raced => Makes(store, local', at[s].agent, at[s].gen, ok),
           ~raced /\ ok /\ at[s].agent = "continuityLead" /\ at[s].only # {}
              => KeepsRows(store, local', at[s].only)
    PROVE  FilesInv'
<1>1. FilesTyped /\ at[s].pc \in {"work", "put"} /\ at[s].pc # "free"
    BY DEF FilesInv, FilesHold
<1>2. /\ at' \in [Slots -> Attempt]
      /\ \A t \in Slots \ {s} : at'[t] = at[t]
      /\ \A t \in Slots : at'[t].pc # "free" => at'[t].gen # 0
      /\ at'[s].pc = "put" /\ at'[s].ok = ok /\ at'[s].files = ListLocalFiles(local')
      /\ at'[s].agent = at[s].agent /\ at'[s].gen = at[s].gen /\ at'[s].only = at[s].only
      /\ at'[s].live = at[s].live
    BY <1>1, FlushesOK
<1>3. FilesTyped'
    <2>1. FilesTypeOK'
        BY <1>1, <1>2 DEF FilesTyped, FilesTypeOK, Prefix
    <2> QED
        BY <1>1, <1>2, <2>1 DEF FilesTyped, Spent
<1>4. ASSUME ~raced' PROVE Quiet'
    <2>1. Quiet /\ ~raced
        BY <1>4 DEF FilesInv
    <2>2. Together(store) /\ ~HalfWay' /\ \A q \in Requests : RequestOK(req[q])' /\ ~InFlight(q)'
        BY <1>1, <2>1, NobodyAsks
    <2>3. \A t \in Slots \ {s} : ~FilesHold(t)
        BY <2>1 DEF Quiet, Alone
    <2>4. Alone'
        BY <1>1, <1>2, <2>1, <2>2, <2>3 DEF Quiet, Alone, FilesHold, Waits
    <2>5. \A t \in Slots \ {s} : AttemptOK(at[t])'
        BY <1>2, <2>1, <2>3 DEF Quiet, AttemptOK, FilesHold
    <2>6. AttemptOK(at[s])'
        <3>1. /\ \A k \in Blank(at[s].agent) : ~Has(store, k)
              /\ \A k \in Outputs[at[s].agent] : promised[k] = 0
            BY <1>1, <2>1 DEF Quiet, AttemptOK
        <3>2. /\ ListLocalFiles(local') \in Seq(Groups)
              /\ \A k \in Present(local') : Mentions(ListLocalFiles(local'), k)
            BY ListLocalFilesOK
        <3>3. Putting(at[s])'
            BY <1>2, <2>1, <3>2 DEF Putting, KeepsRows
        <3> QED
            BY <1>2, <3>1, <3>3 DEF AttemptOK
    <2>7. FilesKept'
        BY <2>1 DEF Quiet, FilesKept
    <2> QED
        BY <2>2, <2>4, <2>5, <2>6, <2>7 DEF Quiet
<1> QED
    BY <1>3, <1>4 DEF FilesInv

\* What an attempt at work has before it.
LEMMA AtWorkOK ==
    ASSUME FilesInv, NEW s \in Slots, at[s].pc = "work"
    PROVE  /\ FilesTyped /\ FilesHold(s) /\ at[s].agent \in Agents /\ at[s].gen \in Generations
           /\ at[s].gen # 0 /\ at[s].seen \in Prefix /\ local \in Prefix /\ store \in Prefix
           /\ ~raced => /\ local = store /\ at[s].seen = store /\ Together(store)
                        /\ \A k \in Blank(at[s].agent) : ~Has(store, k)
<1>1. FilesTyped /\ at[s] \in Attempt /\ local \in Prefix /\ store \in Prefix /\ at[s].gen # 0
    BY DEF FilesInv, FilesTyped, FilesTypeOK, Prefix
<1>2. ASSUME ~raced
      PROVE  /\ local = store /\ at[s].seen = store /\ Together(store)
             /\ \A k \in Blank(at[s].agent) : ~Has(store, k)
    <2>1. Quiet
        BY <1>2 DEF FilesInv
    <2> QED
        BY <2>1, NobodyAsks DEF Quiet, AttemptOK
<1> QED
    BY <1>1, <1>2 DEF Attempt, Prefix, FilesHold

LEMMA AgentSucceedsOK ==
    ASSUME FilesInv, NEW s \in Slots, AgentSucceeds(s)
    PROVE  FilesInv'
<1> DEFINE a == at[s].agent
           F == at[s].seen
<1>1. /\ at[s].pc = "work" /\ a # "continuityLead"
      /\ Flushes(s, local', TRUE, FALSE)
      /\ UNCHANGED <<store, req, gen, faults, promised, raced>>
      /\ runRow' = [runRow EXCEPT !.status = "completed"] \/ runRow' = runRow
    BY DEF AgentSucceeds
<1>2. /\ FilesTyped /\ FilesHold(s) /\ a \in Agents /\ at[s].gen \in Generations
      /\ at[s].gen # 0 /\ F \in Prefix /\ local \in Prefix /\ store \in Prefix
      /\ ~raced => /\ local = store /\ F = store /\ Together(store)
                   /\ \A k \in Blank(a) : ~Has(store, k)
    BY <1>1, AtWorkOK
<1>3. runRow' \in [status : {"running", "completed", "failed", "cancelled"},
                exec : BOOLEAN, overlay : Generations]
    BY <1>1, <1>2, RowOK
<1>4. local' \in Prefix /\ (~raced => Makes(store, local', a, at[s].gen, TRUE))
    <2>1. CASE a = "assistantDirector"
        <3>1. local' = Directed(s, local, Journeys(F))
            BY <2>1 DEF AgentSucceeds
        <3>2. local' \in Prefix
            BY <1>2, <3>1, DirectedType
        <3>3. ASSUME ~raced PROVE Makes(store, local', a, at[s].gen, TRUE)
            <4>1. ~Has(store, "report")
                BY <1>2, <2>1, <3>3 DEF Blank
            <4>2. local' = Directed(s, store, Journeys(store))
                BY <1>2, <3>1, <3>3
            <4>3. Makes(store, Directed(s, store, Journeys(store)), "assistantDirector", at[s].gen,
                        Journeys(store) = Journeys(store))
                BY <1>2, <2>1, <3>3, <4>1, DirectedOK
            <4> QED
                BY <2>1, <4>2, <4>3 DEF Makes
        <3> QED
            BY <3>2, <3>3
    <2>2. CASE a # "assistantDirector"
        <3>1. local' \in Designed(s, local)
            BY <2>2 DEF AgentSucceeds
        <3>2. local' \in Prefix
            BY <1>2, <3>1, DesignedType
        <3>3. ASSUME ~raced PROVE Makes(store, local', a, at[s].gen, TRUE)
            <4>1. local' \in Designed(s, store) /\ Together(store) /\ F = store
                  /\ \A k \in Blank(a) : ~Has(store, k)
                BY <1>2, <3>1, <3>3
            <4> QED
                BY <1>2, <4>1, DesignedOK
        <3> QED
            BY <3>2, <3>3
    <2> QED
        BY <2>1, <2>2
<1> QED
    BY <1>1, <1>2, <1>3, <1>4, WorkOK

LEMMA AgentFailsOK ==
    ASSUME FilesInv, NEW s \in Slots, AgentFails(s)
    PROVE  FilesInv'
<1> DEFINE a == at[s].agent
           F == at[s].seen
<1>1. /\ at[s].pc = "work" /\ Flushes(s, local', FALSE, TRUE)
      /\ UNCHANGED <<store, req, gen, faults, promised, raced>>
      /\ runRow' = [runRow EXCEPT !.status = "failed"]
    BY DEF AgentFails
<1>2. /\ FilesTyped /\ FilesHold(s) /\ a \in Agents /\ at[s].gen \in Generations
      /\ at[s].gen # 0 /\ F \in Prefix /\ local \in Prefix /\ store \in Prefix
      /\ ~raced => /\ local = store /\ F = store /\ Together(store)
                   /\ \A k \in Blank(a) : ~Has(store, k)
    BY <1>1, AtWorkOK
<1>3. runRow' \in [status : {"running", "completed", "failed", "cancelled"},
                exec : BOOLEAN, overlay : Generations]
    BY <1>1, <1>2, RowOK
<1>4. local' \in Prefix /\ (~raced => Makes(store, local', a, at[s].gen, FALSE))
    <2>1. CASE local' = local
        BY <1>2, <2>1, MakesNothing
    <2>2. CASE local' # local
        <3>1. PICK I \in SUBSET Journeys(F) : local' = Directed(s, local, I)
            BY <2>2 DEF AgentFails
        <3>2. local' \in Prefix /\ a = "assistantDirector"
            BY <1>2, <2>2, <3>1, DirectedType DEF AgentFails
        <3>3. ASSUME ~raced PROVE Makes(store, local', a, at[s].gen, FALSE)
            <4>1. ~Has(store, "report")
                BY <1>2, <3>2, <3>3 DEF Blank
            <4>2. local' = Directed(s, store, I) /\ I \in SUBSET Journeys(store)
                BY <1>2, <3>1, <3>3
            <4>3. Makes(store, Directed(s, store, I), "assistantDirector", at[s].gen,
                        I = Journeys(store))
                BY <1>2, <3>2, <3>3, <4>1, <4>2, DirectedOK
            <4> QED
                BY <3>2, <4>2, <4>3 DEF Makes
        <3> QED
            BY <3>2, <3>3
    <2> QED
        BY <2>1, <2>2
<1> QED
    BY <1>1, <1>2, <1>3, <1>4, WorkOK

LEMMA LeadSucceedsOK ==
    ASSUME FilesInv, NEW s \in Slots, LeadSucceeds(s)
    PROVE  FilesInv'
<1> DEFINE a == at[s].agent
           F == at[s].seen
           only == at[s].only
<1>1. /\ at[s].pc = "work" /\ a = "continuityLead" /\ Flushes(s, local', TRUE, FALSE)
      /\ UNCHANGED <<store, req, gen, faults, promised, raced>>
      /\ runRow' = [runRow EXCEPT !.status = "completed", !.exec = FALSE]
         \/ runRow' = [runRow EXCEPT !.status = "failed", !.exec = FALSE]
    BY DEF LeadSucceeds, Finish
<1>2. /\ FilesTyped /\ FilesHold(s) /\ at[s].gen \in Generations
      /\ at[s].gen # 0 /\ F \in Prefix /\ local \in Prefix /\ store \in Prefix
      /\ ~raced => local = store /\ F = store /\ Together(store)
    BY <1>1, AtWorkOK
<1>3. runRow' \in [status : {"running", "completed", "failed", "cancelled"},
                exec : BOOLEAN, overlay : Generations]
    BY <1>1, <1>2, RowOK
<1>4. PICK rows \in Results(s) :
        local' = [local EXCEPT !["report"] = Made(at[s].gen, 0, Merged(local["report"], rows, only))]
    BY DEF LeadSucceeds
<1>5. local' \in Prefix
    BY <1>2, <1>4, ReportedType
<1>6. ASSUME ~raced
      PROVE  /\ Makes(store, local', a, at[s].gen, TRUE)
             /\ only # {} => KeepsRows(store, local', only)
    <2> DEFINE m == Merged(store["report"], rows, only)
    <2>1. local' = [store EXCEPT !["report"] = Made(at[s].gen, 0, m)]
        BY <1>2, <1>4, <1>6
    <2>2. /\ rows \in Abouts
          /\ only # {} => DOMAIN rows \subseteq only
          /\ \A i \in Specs(store) \cap DOMAIN rows : rows[i] \in {0, store[i].from}
        BY <1>2, <1>6, ResultsOK
    <2>3. /\ m \in Abouts
          /\ \A i \in Specs(store) \cap DOMAIN m : m[i] \in {0, store[i].from}
          /\ only # {} => \A i \in DOMAIN store["report"].about \ only :
                i \in DOMAIN m /\ m[i] = store["report"].about[i]
        <3>1. store \in Prefix /\ Together(store)
            BY <1>2, <1>6
        <3> HIDE DEF only
        <3>2. rows \in Abouts
            BY <2>2
        <3>3. only # {} => DOMAIN rows \subseteq only
            BY <2>2
        <3>4. \A i \in Specs(store) \cap DOMAIN rows : rows[i] \in {0, store[i].from}
            BY <2>2
        <3> QED
            BY <3>1, <3>2, <3>3, <3>4, MergedOK
    <2> HIDE DEF m
    <2>4. Makes(store, local', a, at[s].gen, TRUE)
        BY <1>1, <1>2, <1>6, <2>1, <2>3, ReportOK
    <2>5. local'["report"].about = m
        BY <1>2, <2>1, KeyFacts, FileFacts DEF Prefix
    <2> QED
        BY <2>3, <2>4, <2>5 DEF KeepsRows
<1> QED
    BY <1>1, <1>2, <1>3, <1>5, <1>6, WorkOK

LEMMA LeadFailsOK ==
    ASSUME FilesInv, NEW s \in Slots, LeadFails(s)
    PROVE  FilesInv'
<1> DEFINE f == Made(at[s].gen, 0, NoRows)
<1>1. /\ at[s].pc = "work" /\ at[s].agent = "continuityLead" /\ Flushes(s, local', FALSE, FALSE)
      /\ UNCHANGED <<store, req, gen, faults, promised, raced>>
      /\ local' = [local EXCEPT !["report"] = f]
      /\ runRow' = [runRow EXCEPT !.status = "failed", !.exec = FALSE]
    BY DEF LeadFails, Finish
<1>2. /\ FilesTyped /\ FilesHold(s) /\ at[s].gen \in Generations
      /\ at[s].gen # 0 /\ local \in Prefix /\ store \in Prefix
      /\ ~raced => local = store /\ Together(store)
    BY <1>1, AtWorkOK
<1>3. runRow' \in [status : {"running", "completed", "failed", "cancelled"},
                exec : BOOLEAN, overlay : Generations]
    BY <1>1, <1>2, RowOK
<1>4. f \in File /\ NoRows \in Abouts /\ DOMAIN NoRows = {}
    BY <1>2, AboutType, GenerationFacts, FileFacts
<1>5. local' \in Prefix
    BY <1>1, <1>2, <1>4 DEF Prefix
<1>6. ASSUME ~raced PROVE Makes(store, local', at[s].agent, at[s].gen, FALSE)
    <2>1. Makes(store, [store EXCEPT !["report"] = f], "continuityLead", at[s].gen, TRUE)
        BY <1>2, <1>4, <1>6, ReportOK
    <2>2. local' = [store EXCEPT !["report"] = f]
        BY <1>1, <1>2, <1>6
    <2> QED
        BY <1>1, <2>1, <2>2 DEF Makes
<1> QED
    BY <1>1, <1>2, <1>3, <1>5, <1>6, WorkOK

LEMMA FlushedOK ==
    ASSUME FilesInv, NEW s \in Slots, Flushed(s)
    PROVE  FilesInv'
<1>1. /\ at[s].pc = "put" /\ Flushes(s, local, at[s].ok, TRUE)
      /\ UNCHANGED <<store, local, runRow, req, gen, faults, promised, raced>>
    BY DEF Flushed
<1>2. /\ FilesTyped /\ FilesHold(s) /\ at[s].ok \in BOOLEAN /\ local' \in Prefix /\ local' = local
      /\ Flushes(s, local', at[s].ok, TRUE)
    BY <1>1 DEF FilesInv, FilesTyped, FilesTypeOK, Prefix, Attempt, FilesHold
<1>3. runRow' \in [status : {"running", "completed", "failed", "cancelled"},
                exec : BOOLEAN, overlay : Generations]
    BY <1>1, <1>2, RowOK
<1>4. ASSUME ~raced
      PROVE  /\ Makes(store, local', at[s].agent, at[s].gen, at[s].ok)
             /\ at[s].ok /\ at[s].agent = "continuityLead" /\ at[s].only # {}
                  => KeepsRows(store, local', at[s].only)
    <2>1. Putting(at[s])
        BY <1>1, <1>4 DEF FilesInv, Quiet, AttemptOK
    <2> QED
        BY <1>2, <2>1 DEF Putting, KeepsRows
<1> QED
    BY <1>1, <1>2, <1>3, <1>4, WorkOK

\* One group of files is pushed: the store is as it was, or has what the agent leaves.
LEMMA PushOK ==
    ASSUME NEW F \in Prefix, NEW L \in Prefix, NEW S \in Prefix, NEW a \in Agents, NEW g \in Groups,
           NEW n, NEW ok, Makes(F, L, a, n, ok),
           \A k \in Keys : S[k] = IF k \in In(g) /\ Has(L, k) THEN L[k] ELSE F[k]
    PROVE  \/ S = F /\ In(g) \cap Outputs[a] = {}
           \/ S = L /\ In(g) = Outputs[a]
<1>1. F = [k \in Keys |-> F[k]] /\ L = [k \in Keys |-> L[k]] /\ S = [k \in Keys |-> S[k]]
    BY DEF Prefix
<1>2. In(g) \cap Outputs[a] = {} \/ In(g) = Outputs[a]
    BY AgentFacts
<1>3. CASE In(g) \cap Outputs[a] = {}
    <2>1. \A k \in Keys : S[k] = F[k]
        BY <1>3 DEF Makes
    <2> QED
        BY <1>1, <1>3, <2>1
<1>4. CASE In(g) = Outputs[a]
    <2>1. \A k \in Keys : S[k] = L[k]
        BY <1>4 DEF Makes, Has
    <2> QED
        BY <1>1, <1>4, <2>1
<1> QED
    BY <1>2, <1>3, <1>4

\* The list of what is still to be flushed.
LEMMA TailOK ==
    ASSUME NEW T, NEW ks \in Seq(T), ks # <<>>
    PROVE  /\ Head(ks) \in T /\ Tail(ks) \in Seq(T)
           /\ \A k : Mentions(ks, k) => k \in In(Head(ks)) \/ Mentions(Tail(ks), k)
<1>1. /\ Head(ks) = ks[1] /\ Head(ks) \in T /\ Tail(ks) \in Seq(T)
      /\ Len(Tail(ks)) = Len(ks) - 1
    OBVIOUS
<1>2. \A i \in 1 .. Len(ks) : i = 1 \/ (i - 1 \in 1 .. Len(Tail(ks)) /\ ks[i] = Tail(ks)[i - 1])
    BY <1>1
<1>3. ASSUME NEW k, Mentions(ks, k) PROVE k \in In(Head(ks)) \/ Mentions(Tail(ks), k)
    <2>1. PICK i \in 1 .. Len(ks) : k \in In(ks[i])
        BY <1>3 DEF Mentions
    <2>2. CASE i = 1
        BY <1>1, <2>1, <2>2
    <2>3. CASE i # 1
        BY <1>2, <2>1, <2>3 DEF Mentions
    <2> QED
        BY <2>2, <2>3
<1> QED
    BY <1>1, <1>3

LEMMA PutOK ==
    ASSUME FilesInv, NEW s \in Slots, Put(s)
    PROVE  FilesInv'
<1> DEFINE files == at[s].files
           g == Head(files)
           a == [at[s] EXCEPT !.files = Tail(files)]
<1>1. /\ FilesTyped /\ at[s].pc = "put" /\ files # <<>> /\ at[s] \in Attempt /\ at[s].gen # 0
      /\ store' = [k \in Keys |-> IF k \in In(g) /\ Has(local, k) THEN local[k] ELSE store[k]]
      /\ at' = [at EXCEPT ![s] = a]
      /\ UNCHANGED <<local, runRow, req, gen, faults, promised, raced>>
    BY DEF Put, FilesInv, FilesTyped, FilesTypeOK
<1>2. store \in Prefix /\ store' \in Prefix /\ local \in Prefix /\ at[s].agent \in Agents
    BY <1>1 DEF FilesTyped, FilesTypeOK, Prefix, Attempt
<1>3. files \in FileList
    BY <1>1 DEF Attempt, FileList
<1>4. Tail(files) \in FileList
    BY <1>1, <1>3, TailOK DEF FileList
<1>5. /\ a \in Attempt /\ a.pc = "put" /\ a.gen = at[s].gen /\ a.agent = at[s].agent
      /\ a.files = Tail(files) /\ a.only = at[s].only /\ a.ok = at[s].ok /\ a.live = at[s].live
    <2> DEFINE rest == Tail(files)
    <2>1. rest \in Seq(Keys \cup {"tests"})
        BY <1>4 DEF FileList
    <2> HIDE DEF rest
    <2>2. [at[s] EXCEPT !.files = rest] \in Attempt
        BY <1>1, <2>1 DEF Attempt
    <2> QED
        BY <1>1, <2>2 DEF Attempt, rest
<1> HIDE DEF a
<1>6. /\ at' \in [Slots -> Attempt] /\ at'[s] = a
      /\ \A t \in Slots \ {s} : at'[t] = at[t]
      /\ \A t \in Slots : at'[t].pc # "free" => at'[t].gen # 0
    BY <1>1, <1>5, SlotMoves
<1>7. FilesTyped'
    <2>1. FilesTypeOK'
        BY <1>1, <1>2, <1>6 DEF FilesTyped, FilesTypeOK, Prefix
    <2> QED
        BY <1>1, <1>6, <2>1 DEF FilesTyped, Spent
<1>8. ASSUME ~raced' PROVE Quiet'
    <2>1. Quiet
        BY <1>1, <1>8 DEF FilesInv
    <2>2. Together(store) /\ ~HalfWay' /\ \A q \in Requests : RequestOK(req[q])' /\ ~InFlight(q)'
        BY <1>1, <2>1, NobodyAsks
    <2>3. Alone'
        BY <1>1, <1>5, <1>6, <2>1, <2>2 DEF Quiet, Alone, FilesHold, Waits
    <2>4. FilesHold(s) /\ \A t \in Slots \ {s} : ~FilesHold(t) /\ (Waits(t) => at[t].agent = at[s].agent)
        BY <1>1, <2>1 DEF Quiet, Alone, FilesHold
    <2>5. AttemptOK(at[s]) /\ Putting(at[s])
        BY <1>1, <2>1 DEF Quiet, AttemptOK
    <2>6. /\ files \in Seq(Groups) /\ Makes(store, local, at[s].agent, at[s].gen, at[s].ok)
          /\ \A k \in Present(local) : store[k] = local[k] \/ Mentions(files, k)
          /\ \A k \in Blank(at[s].agent) : ~Has(store, k)
          /\ \A k \in Outputs[at[s].agent] : promised[k] = 0
          /\ at[s].ok /\ at[s].agent = "continuityLead" /\ at[s].only # {}
               => KeepsRows(store, local, at[s].only)
        BY <1>1, <2>5 DEF AttemptOK, Putting, KeepsRows
    <2>7. /\ g \in Groups /\ Tail(files) \in Seq(Groups)
          /\ \A k : Mentions(files, k) => k \in In(g) \/ Mentions(Tail(files), k)
        BY <1>1, <2>6, TailOK
    <2> HIDE DEF files, g
    <2>8. \/ store' = store /\ In(g) \cap Outputs[at[s].agent] = {}
          \/ store' = local /\ In(g) = Outputs[at[s].agent]
        BY <1>1, <1>2, <2>6, <2>7, PushOK
    <2>9. /\ \A k \in Keys \ Outputs[at[s].agent] : store'[k] = store[k] /\ store'[k] = local[k]
          /\ Blank(at[s].agent) \subseteq Keys /\ Blank(at[s].agent) \cap Outputs[at[s].agent] = {}
        BY <1>2, <2>6, <2>8, AgentFacts DEF Makes
    <2>10. \A k \in Blank(at[s].agent) : ~Has(store', k)
        BY <2>6, <2>9 DEF Has
    <2>11. \A k \in Present(local) : store'[k] = local[k] \/ Mentions(Tail(files), k)
        BY <2>6, <2>7, <2>8, <2>9 DEF Present
    <2>12. Makes(store', local, at[s].agent, at[s].gen, at[s].ok)
        BY <2>6, <2>8 DEF Makes
    <2>13. at[s].ok /\ at[s].agent = "continuityLead" /\ at[s].only # {}
             => KeepsRows(store', local, at[s].only)
        BY <2>6, <2>8 DEF KeepsRows
    <2>14. AttemptOK(at[s])'
        <3>1. Putting(at[s])'
            BY <1>1, <1>5, <1>6, <2>7, <2>11, <2>12, <2>13 DEF Putting, KeepsRows, files
        <3> QED
            BY <1>1, <1>5, <1>6, <2>6, <2>10, <3>1 DEF AttemptOK
    <2>15. \A t \in Slots \ {s} : AttemptOK(at[t])'
        <3> SUFFICES ASSUME NEW t \in Slots \ {s} PROVE AttemptOK(at[t])'
            OBVIOUS
        <3>1. at[t] \in Attempt /\ at'[t] = at[t]
            BY <1>1, <1>6 DEF FilesTyped, FilesTypeOK
        <3>2. CASE at[t].pc = "free"
            BY <3>1, <3>2 DEF AttemptOK
        <3>3. CASE Waits(t)
            BY <2>4, <2>10, <3>1, <3>3 DEF AttemptOK, Waits
        <3> QED
            BY <2>4, <3>1, <3>2, <3>3 DEF Attempt, FilesHold, Waits
    <2>16. Together(store)'
        BY <2>2, <2>6, <2>8 DEF Makes
    <2>17. FilesKept'
        BY <1>1, <2>1, <2>6, <2>9 DEF Quiet, FilesKept
    <2> QED
        BY <2>2, <2>3, <2>14, <2>15, <2>16, <2>17 DEF Quiet
<1> QED
    BY <1>7, <1>8 DEF FilesInv

\* An attempt is over: its workflow goes on, or waits for its retry.
LEMMA GoneOnOK ==
    ASSUME FilesTyped, NEW s \in Slots, at[s].pc # "free", NEW ok \in BOOLEAN,
           at' = [at EXCEPT ![s] = GoesOn(at[s], ok)]
    PROVE  /\ at' \in [Slots -> Attempt] /\ at'[s] = GoesOn(at[s], ok)
           /\ \A t \in Slots \ {s} : at'[t] = at[t]
           /\ \A t \in Slots : at'[t].pc # "free" => at'[t].gen # 0
           /\ at'[s].pc = "free" \/
              /\ at'[s].pc = "pull" /\ at[s].live /\ Blank(at'[s].agent) \subseteq Blank(at[s].agent)
              /\ ~ok => at'[s].agent = at[s].agent
<1> DEFINE b == GoesOn(at[s], ok)
<1>1. at[s] \in Attempt /\ at[s].gen # 0
    BY DEF FilesTyped, FilesTypeOK
<1>2. /\ b \in Attempt
      /\ b = Free \/ /\ b.pc = "pull" /\ b.gen = at[s].gen /\ at[s].live
                     /\ Blank(b.agent) \subseteq Blank(at[s].agent)
                     /\ ~ok => b.agent = at[s].agent
    BY <1>1, GoesOnOK
<1>3. at' = [at EXCEPT ![s] = b] /\ Free.pc = "free"
    BY DEF Free
<1> HIDE DEF b
<1>4. b.pc # "free" => b.gen # 0
    BY <1>1, <1>2, <1>3
<1>5. /\ at' \in [Slots -> Attempt] /\ at'[s] = b
      /\ \A t \in Slots \ {s} : at'[t] = at[t]
      /\ \A t \in Slots : at'[t].pc # "free" => at'[t].gen # 0
    BY <1>2, <1>3, <1>4, SlotMoves
<1> QED
    BY <1>2, <1>3, <1>5 DEF b

LEMMA LeavesOK ==
    ASSUME FilesInv, NEW s \in Slots, Leaves(s)
    PROVE  FilesInv'
<1>1. /\ FilesTyped /\ at[s].pc = "put" /\ at[s].pc # "free" /\ at[s].files = <<>> /\ at[s] \in Attempt
      /\ local' = Empty /\ at' = [at EXCEPT ![s] = GoesOn(at[s], at[s].ok)]
      /\ promised' = [k \in Keys |->
                     IF at[s].ok /\ k \in Outputs[at[s].agent] \cap Present(local)
                     THEN at[s].gen ELSE promised[k]]
      /\ UNCHANGED <<store, runRow, req, gen, faults, raced>>
    BY DEF Leaves, FilesInv, FilesTyped, FilesTypeOK
<1>2. at[s].ok \in BOOLEAN /\ at[s].gen \in Generations /\ at[s].agent \in Agents
    BY <1>1 DEF Attempt
<1>3. /\ at' \in [Slots -> Attempt]
      /\ \A t \in Slots \ {s} : at'[t] = at[t]
      /\ \A t \in Slots : at'[t].pc # "free" => at'[t].gen # 0
      /\ at'[s].pc = "free" \/
         /\ at'[s].pc = "pull" /\ at[s].live /\ Blank(at'[s].agent) \subseteq Blank(at[s].agent)
         /\ ~at[s].ok => at'[s].agent = at[s].agent
    BY <1>1, <1>2, GoneOnOK
<1>4. FilesTyped'
    <2>1. promised' \in [Keys -> Generations]
        BY <1>1, <1>2 DEF FilesTyped, FilesTypeOK
    <2>2. local' \in [Keys -> File]
        BY <1>1, FileFacts DEF Prefix
    <2>3. FilesTypeOK'
        BY <1>1, <1>3, <2>1, <2>2 DEF FilesTyped, FilesTypeOK
    <2> QED
        BY <1>1, <1>3, <2>3 DEF FilesTyped, Spent
<1>5. ASSUME ~raced' PROVE Quiet'
    <2>1. Quiet
        BY <1>1, <1>5 DEF FilesInv
    <2>2. Together(store) /\ ~HalfWay' /\ \A q \in Requests : RequestOK(req[q])' /\ ~InFlight(q)'
        BY <1>1, <2>1, NobodyAsks
    <2>3. FilesHold(s) /\ \A t \in Slots \ {s} : ~FilesHold(t) /\ (Waits(t) => ~at[s].live)
        BY <1>1, <2>1 DEF Quiet, Alone, FilesHold
    <2>4. \A t \in Slots : ~FilesHold(t)'
        BY <1>3, <2>3 DEF FilesHold
    <2>5. \A t, u \in Slots : Waits(t)' /\ Waits(u)' => t = u
        <3> SUFFICES ASSUME NEW t \in Slots, NEW u \in Slots, Waits(t)', Waits(u)' PROVE t = u
            OBVIOUS
        <3>1. CASE t # s /\ u # s
            BY <1>3, <2>1, <3>1 DEF Quiet, Alone, Waits
        <3>2. CASE t = s /\ u # s
            BY <1>3, <2>3, <3>2 DEF Waits
        <3>3. CASE u = s /\ t # s
            BY <1>3, <2>3, <3>3 DEF Waits
        <3> QED
            BY <3>1, <3>2, <3>3
    <2>6. Alone'
        BY <2>2, <2>4, <2>5 DEF Alone
    <2>7. \A k \in Blank(at[s].agent) : ~Has(store, k)
        BY <1>1, <2>1 DEF Quiet, AttemptOK
    <2>8. \A t \in Slots : AttemptOK(at[t])'
        <3>1. AttemptOK(at[s])'
            BY <1>1, <1>3, <2>7 DEF AttemptOK
        <3>2. ASSUME NEW t \in Slots \ {s} PROVE AttemptOK(at[t])'
            <4>1. AttemptOK(at[t]) /\ at'[t] = at[t] /\ at[t].pc \notin {"work", "put"}
                BY <1>3, <2>1, <2>3 DEF Quiet, FilesHold
            <4> QED
                BY <1>1, <4>1 DEF AttemptOK
        <3> QED
            BY <3>1, <3>2
    <2>9. FilesKept'
        <3>1. Putting(at[s])
            BY <1>1, <2>1 DEF Quiet, AttemptOK
        <3>2. \A k \in Present(local) : ~Mentions(at[s].files, k)
            <4>1. Len(at[s].files) = 0
                BY <1>1
            <4> QED
                BY <4>1 DEF Mentions
        <3>3. /\ \A k \in Present(local) : store[k] = local[k]
              /\ at[s].ok => \A k \in Outputs[at[s].agent] \cap Present(local) : local[k].gen = at[s].gen
            BY <3>1, <3>2 DEF Putting, Makes
        <3> QED
            BY <1>1, <2>1, <3>3 DEF Quiet, FilesKept
    <2> QED
        BY <1>1, <2>2, <2>6, <2>8, <2>9 DEF Quiet
<1> QED
    BY <1>4, <1>5 DEF FilesInv

LEMMA FlushFailsOK ==
    ASSUME FilesInv, NEW s \in Slots, FlushFails(s)
    PROVE  FilesInv'
<1>1. /\ FilesTyped /\ at[s].pc # "free" /\ at[s] \in Attempt /\ raced' = TRUE
      /\ UNCHANGED <<store, local, req, gen, promised>>
    BY DEF FlushFails, FilesInv, FilesTyped, FilesTypeOK
<1>2. faults' \in 0 .. MaxFaults
    BY <1>1, RowOK DEF FlushFails
<1>3. runRow' \in [status : {"running", "completed", "failed", "cancelled"},
                exec : BOOLEAN, overlay : Generations]
    <2>1. runRow' = runRow \/ runRow' = [runRow EXCEPT !.status = "failed"]
        BY DEF FlushFails
    <2> QED
        BY <1>1, <2>1, RowOK
<1>4. at' \in [Slots -> Attempt] /\ \A t \in Slots : at'[t].pc # "free" => at'[t].gen # 0
    <2>1. CASE at[s].last
        <3>1. at' = [at EXCEPT ![s] = GoesOn(at[s], FALSE)]
            BY <2>1 DEF FlushFails
        <3> QED
            BY <1>1, <3>1, GoneOnOK
    <2>2. CASE ~at[s].last
        <3>1. Flushes(s, local, FALSE, TRUE)
            BY <2>2 DEF FlushFails
        <3> QED
            BY <1>1, <3>1, FlushesOK
    <2> QED
        BY <2>1, <2>2
<1>5. FilesTyped'
    <2>1. FilesTypeOK'
        BY <1>1, <1>2, <1>3, <1>4 DEF FilesTyped, FilesTypeOK
    <2> QED
        BY <1>1, <1>4, <2>1 DEF FilesTyped, Spent
<1> QED
    BY <1>1, <1>5 DEF FilesInv

LEMMA TimesOutOK ==
    ASSUME FilesInv, NEW s \in Slots, TimesOut(s)
    PROVE  FilesInv'
<1> DEFINE o == [at[s] EXCEPT !.live = FALSE]
           orphan == [at EXCEPT ![s].live = FALSE]
           b == GoesOn(at[s], FALSE)
<1>1. /\ FilesTyped /\ at[s].live /\ at[s].pc \in {"work", "put"} /\ at[s] \in Attempt /\ at[s].gen # 0
      /\ Mishap /\ UNCHANGED <<store, local, runRow, req, gen, promised, raced>>
    BY DEF TimesOut, FilesInv, FilesTyped, FilesTypeOK
<1>2. faults' \in 0 .. MaxFaults
    BY <1>1, RowOK
<1>3. o \in Attempt /\ Same(at[s], o) /\ ~o.live
    BY <1>1, OrphanOK
<1>4. /\ b \in Attempt
      /\ b = Free \/ (b.pc = "pull" /\ b.gen = at[s].gen /\ b.agent = at[s].agent)
    BY <1>1, GoesOnOK
<1>5. \/ at' = orphan
      \/ \E t \in Slots : at[t].pc = "free" /\ at' = [orphan EXCEPT ![t] = b]
    BY DEF TimesOut
<1>6. orphan = [at EXCEPT ![s] = o] /\ at \in [Slots -> Attempt]
    BY <1>1 DEF FilesTyped, FilesTypeOK
<1> HIDE DEF o, b, orphan
<1>7. Free.pc = "free"
    BY DEF Free
<1>8. PICK t \in Slots :
        /\ at' \in [Slots -> Attempt] /\ at'[s] = o
        /\ \A u \in Slots \ {s, t} : at'[u] = at[u]
        /\ t # s => at[t].pc = "free" /\ (at'[t].pc = "free" \/ at'[t] = b)
    <2>1. CASE at' = orphan
        <3>1. at' \in [Slots -> Attempt] /\ at'[s] = o /\ \A u \in Slots \ {s} : at'[u] = at[u]
            BY <1>3, <1>6, <2>1
        <3> QED
            BY <3>1
    <2>2. CASE at' # orphan
        <3>1. PICK t \in Slots : at[t].pc = "free" /\ at' = [orphan EXCEPT ![t] = b]
            BY <1>5, <2>2
        <3>2. t # s
            BY <1>1, <3>1
        <3>3. /\ at' \in [Slots -> Attempt] /\ at'[s] = o /\ at'[t] = b
              /\ \A u \in Slots \ {s, t} : at'[u] = at[u]
            BY <1>3, <1>4, <1>6, <3>1, <3>2
        <3> QED
            BY <3>1, <3>3
    <2> QED
        BY <2>1, <2>2
<1>9. FilesTyped'
    <2>1. FilesTypeOK'
        BY <1>1, <1>2, <1>8 DEF FilesTyped, FilesTypeOK
    <2>2. \A u \in Slots : at'[u].pc # "free" => at'[u].gen # 0
        BY <1>1, <1>3, <1>4, <1>7, <1>8 DEF FilesTyped, Same
    <2> QED
        BY <1>1, <2>1, <2>2 DEF FilesTyped, Spent
<1>10. ASSUME ~raced' PROVE Quiet'
    <2>1. Quiet
        BY <1>1, <1>10 DEF FilesInv
    <2>2. Together(store) /\ ~HalfWay' /\ \A q \in Requests : RequestOK(req[q])' /\ ~InFlight(q)'
        BY <1>1, <2>1, NobodyAsks
    <2>3. FilesHold(s) /\ \A u \in Slots \ {s} : ~FilesHold(u) /\ ~Waits(u)
        BY <1>1, <2>1 DEF Quiet, Alone, FilesHold
    <2>4. /\ \A u \in Slots \ {s} : ~FilesHold(u)'
          /\ \A u \in Slots : Waits(u)' => u = t /\ t # s /\ at'[t] = b /\ b.agent = at[s].agent
        BY <1>1, <1>3, <1>4, <1>7, <1>8, <2>3 DEF FilesHold, Waits, Same
    <2>5. Alone'
        <3>1. at'[s].agent = at[s].agent /\ ~at'[s].live
            BY <1>3, <1>8 DEF Same
        <3> QED
            BY <2>2, <2>4, <3>1 DEF Alone
    <2>6. AttemptOK(at[s])
        BY <2>1 DEF Quiet
    <2>7. \A k \in Blank(at[s].agent) : ~Has(store, k)
        BY <1>1, <2>6 DEF AttemptOK
    <2>8. AttemptOK(at[s])'
        BY <1>1, <1>3, <1>8, <2>6 DEF AttemptOK, Putting, Same
    <2>9. \A u \in Slots \ {s} : AttemptOK(at[u])'
        <3> SUFFICES ASSUME NEW u \in Slots \ {s} PROVE AttemptOK(at[u])'
            OBVIOUS
        <3>1. at'[u] \in Attempt /\ ~FilesHold(u)'
            BY <1>8, <2>4
        <3>2. CASE at'[u].pc = "free"
            BY <3>2 DEF AttemptOK
        <3>3. CASE Waits(u)'
            BY <1>1, <2>4, <2>7, <3>3 DEF AttemptOK, Waits
        <3> QED
            BY <3>1, <3>2, <3>3 DEF Attempt, FilesHold, Waits
    <2>10. FilesKept'
        BY <1>1, <2>1 DEF Quiet, FilesKept
    <2> QED
        BY <1>1, <2>2, <2>5, <2>8, <2>9, <2>10 DEF Quiet
<1> QED
    BY <1>9, <1>10 DEF FilesInv

LEMMA WorkerDiesOK == ASSUME FilesInv, WorkerDies PROVE FilesInv'
<1>1. PICK s \in Slots : at[s].pc \in {"work", "put"}
    BY DEF WorkerDies, AtWork
<1>2. /\ FilesTyped /\ Mishap /\ local' \in {local, Empty}
      /\ UNCHANGED <<store, runRow, req, gen, promised, raced>>
    BY DEF WorkerDies, FilesInv
<1>3. faults' \in 0 .. MaxFaults
    BY <1>2, RowOK
<1>4. at' = [u \in Slots |->
              IF at[u].pc \notin {"work", "put"} THEN at[u]
              ELSE IF at[u].live THEN [at[u] EXCEPT !.pc = "lost", !.files = <<>>, !.seen = Empty]
              ELSE Free]
    BY DEF WorkerDies
<1>5. ASSUME NEW u \in Slots
      PROVE  /\ at'[u] \in Attempt /\ ~FilesHold(u)'
             /\ \/ at'[u] = at[u] /\ ~FilesHold(u)
                \/ at'[u].pc = "free"
                \/ /\ FilesHold(u) /\ at[u].live /\ at'[u].pc = "lost" /\ at'[u].gen = at[u].gen
                   /\ at'[u].agent = at[u].agent
    <2>1. at[u] \in Attempt
        BY <1>2 DEF FilesTyped, FilesTypeOK
    <2>2. CASE at[u].pc \notin {"work", "put"}
        BY <1>4, <2>1, <2>2 DEF FilesHold
    <2>3. CASE at[u].pc \in {"work", "put"} /\ ~at[u].live
        <3>1. at'[u] = Free
            BY <1>4, <2>3
        <3> QED
            BY <3>1, FreeOK DEF Free, FilesHold
    <2>4. CASE at[u].pc \in {"work", "put"} /\ at[u].live
        <3> DEFINE l == [at[u] EXCEPT !.pc = "lost", !.files = <<>>, !.seen = Empty]
        <3>1. at'[u] = l
            BY <1>4, <2>4
        <3>2. <<>> \in Seq(Keys \cup {"tests"}) /\ Empty \in [Keys -> File]
            BY FileFacts DEF Prefix
        <3>3. l \in Attempt /\ l.pc = "lost" /\ l.gen = at[u].gen /\ l.agent = at[u].agent
            BY <2>1, <3>2 DEF Attempt
        <3> HIDE DEF l
        <3> QED
            BY <2>4, <3>1, <3>3 DEF FilesHold
    <2> QED
        BY <2>2, <2>3, <2>4
<1>6. at' \in [Slots -> Attempt]
    BY <1>4, <1>5
<1>7. \A u \in Slots : at'[u].pc # "free" => at'[u].gen # 0
    BY <1>2, <1>5 DEF FilesTyped, FilesHold
<1>8. FilesTyped'
    <2>1. local' \in [Keys -> File]
        BY <1>2, FileFacts DEF FilesTyped, FilesTypeOK, Prefix
    <2>2. FilesTypeOK'
        BY <1>2, <1>3, <1>6, <2>1 DEF FilesTyped, FilesTypeOK
    <2> QED
        BY <1>2, <1>7, <2>2 DEF FilesTyped, Spent
<1>9. ASSUME ~raced' PROVE Quiet'
    <2>1. Quiet
        BY <1>2, <1>9 DEF FilesInv
    <2>2. Together(store) /\ ~HalfWay' /\ \A q \in Requests : RequestOK(req[q])' /\ ~InFlight(q)'
        BY <1>1, <1>2, <2>1, NobodyAsks
    <2>3. \A t, u \in Slots : Waits(t)' /\ Waits(u)' => t = u
        <3> SUFFICES ASSUME NEW t \in Slots, NEW u \in Slots, Waits(t)', Waits(u)' PROVE t = u
            OBVIOUS
        <3>1. /\ Waits(t) \/ (FilesHold(t) /\ at[t].live)
              /\ Waits(u) \/ (FilesHold(u) /\ at[u].live)
            BY <1>5 DEF Waits
        <3> QED
            BY <2>1, <3>1 DEF Quiet, Alone
    <2>4. Alone'
        BY <1>5, <2>2, <2>3 DEF Alone
    <2>5. \A u \in Slots : AttemptOK(at[u])'
        <3> SUFFICES ASSUME NEW u \in Slots PROVE AttemptOK(at[u])'
            OBVIOUS
        <3>1. AttemptOK(at[u]) /\ at'[u].pc \notin {"work", "put"}
            BY <1>5, <2>1 DEF Quiet, FilesHold
        <3>2. CASE at'[u] = at[u]
            BY <1>2, <3>1, <3>2 DEF AttemptOK
        <3>3. CASE at'[u].pc = "free"
            BY <3>3 DEF AttemptOK
        <3>4. CASE FilesHold(u) /\ at'[u].agent = at[u].agent
            BY <1>2, <3>1, <3>4 DEF AttemptOK, FilesHold
        <3> QED
            BY <1>5, <3>2, <3>3, <3>4
    <2>6. FilesKept'
        BY <1>2, <2>1 DEF Quiet, FilesKept
    <2> QED
        BY <1>2, <2>2, <2>4, <2>5, <2>6 DEF Quiet
<1> QED
    BY <1>8, <1>9 DEF FilesInv

LEMMA LostTimesOutOK ==
    ASSUME FilesInv, NEW s \in Slots, LostTimesOut(s)
    PROVE  FilesInv'
<1>1. /\ FilesTyped /\ at[s].pc = "lost" /\ at[s].pc # "free"
      /\ at' = [at EXCEPT ![s] = GoesOn(at[s], FALSE)]
      /\ UNCHANGED <<store, local, runRow, req, gen, faults, promised, raced>>
    BY DEF LostTimesOut, FilesInv
<1>2. /\ at' \in [Slots -> Attempt]
      /\ \A t \in Slots \ {s} : at'[t] = at[t]
      /\ \A t \in Slots : at'[t].pc # "free" => at'[t].gen # 0
      /\ at'[s].pc = "free" \/ (at'[s].pc = "pull" /\ at'[s].agent = at[s].agent)
    BY <1>1, GoneOnOK
<1>3. FilesTyped'
    <2>1. FilesTypeOK'
        BY <1>1, <1>2 DEF FilesTyped, FilesTypeOK
    <2> QED
        BY <1>1, <1>2, <2>1 DEF FilesTyped, Spent
<1>4. ASSUME ~raced' PROVE Quiet'
    <2>1. Quiet
        BY <1>1, <1>4 DEF FilesInv
    <2>2. Together(store) /\ ~HalfWay' /\ \A q \in Requests : RequestOK(req[q])' /\ ~InFlight(q)'
        BY <1>1, <2>1, NobodyAsks
    <2>3. /\ Waits(s) /\ ~FilesHold(s)' /\ \A t \in Slots \ {s} : ~Waits(t)
          /\ \A t \in Slots : FilesHold(t) => ~at[t].live /\ at[s].agent = at[t].agent
        BY <1>1, <1>2, <2>1 DEF Quiet, Alone, FilesHold, Waits
    <2>4. /\ \A t, u \in Slots : FilesHold(t)' /\ FilesHold(u)' => t = u
          /\ \A t, u \in Slots : Waits(t)' /\ Waits(u)' => t = u
        BY <1>2, <2>1, <2>3 DEF Quiet, Alone, FilesHold, Waits
    <2>5. \A t, u \in Slots : FilesHold(t)' /\ Waits(u)' => ~at[t].live' /\ at[u].agent' = at[t].agent'
        <3> SUFFICES ASSUME NEW t \in Slots, NEW u \in Slots, FilesHold(t)', Waits(u)'
                     PROVE  ~at[t].live' /\ at[u].agent' = at[t].agent'
            OBVIOUS
        <3>1. t # s /\ at'[t] = at[t] /\ FilesHold(t)
            BY <1>2, <2>3 DEF FilesHold
        <3>2. u = s /\ at'[s].agent = at[s].agent
            BY <1>2, <2>3 DEF Waits
        <3> QED
            BY <2>3, <3>1, <3>2
    <2>6. Alone'
        BY <2>2, <2>4, <2>5 DEF Alone
    <2>7. \A t \in Slots : AttemptOK(at[t])'
        <3>1. AttemptOK(at[s])'
            BY <1>1, <1>2, <2>1 DEF Quiet, AttemptOK
        <3>2. ASSUME NEW t \in Slots \ {s} PROVE AttemptOK(at[t])'
            <4>1. AttemptOK(at[t]) /\ at'[t] = at[t]
                BY <1>2, <2>1 DEF Quiet
            <4> QED
                BY <1>1, <4>1 DEF AttemptOK, Putting
        <3> QED
            BY <3>1, <3>2
    <2>8. FilesKept'
        BY <1>1, <2>1 DEF Quiet, FilesKept
    <2> QED
        BY <1>1, <2>2, <2>6, <2>7, <2>8 DEF Quiet
<1> QED
    BY <1>3, <1>4 DEF FilesInv

-----------------------------------------------------------------------------
(* Theorems                                                                 *)

LEMMA FilesInvHolds == FilesSpec => []FilesInv
<1>1. FilesInit => FilesInv
    BY FilesInitOK
<1>2. FilesInv /\ [FilesNext]_filesVars => FilesInv'
    <2> SUFFICES ASSUME FilesInv, [FilesNext]_filesVars PROVE FilesInv'
        OBVIOUS
    <2>1. ASSUME NEW q \in Requests, RequestStep(q) PROVE FilesInv'
        BY <2>1, ResumeRunOK, ExecuteRunOK, EditJourneysOK, FilesCancelOK, AssertNotRunningOK, CleanupOK,
           FilesLaunchOK, LaunchFailsOK, WriteJourneysOK, DropSpecsOK, RequestFailsOK DEF RequestStep
    <2>2. ASSUME NEW s \in Slots, ActivityStep(s) PROVE FilesInv'
        BY <2>2, PullOK, AgentSucceedsOK, AgentFailsOK, LeadSucceedsOK, LeadFailsOK, PutOK, FlushedOK,
           LeavesOK, FlushFailsOK, TimesOutOK, LostTimesOutOK DEF ActivityStep
    <2>3. CASE UNCHANGED filesVars
        <3>1. UNCHANGED <<store, local, runRow, at, req, gen, faults, promised, raced>>
            BY <2>3 DEF filesVars
        <3>2. FilesTyped => FilesTyped'
            BY <3>1 DEF FilesTyped, FilesTypeOK, Spent
        <3>3. Quiet => Quiet'
            BY <3>1 DEF Quiet, Alone, FilesHold, Waits, InFlight, RequestOK, AttemptOK, Putting, HalfWay, FilesKept
        <3> QED
            BY <3>1, <3>2, <3>3 DEF FilesInv
    <2> QED
        BY <2>1, <2>2, <2>3, RepairRowOK, WorkerDiesOK DEF FilesNext
<1> QED
    BY <1>1, <1>2, PTL DEF FilesSpec

\* Types of the store, the staging directory, the row, the attempts and the requests
\* (artifact-store, artifact-staging.ts, pipeline-service.ts).
THEOREM FilesTypesHold == FilesSpec => []FilesTypeOK
<1>1. FilesInv => FilesTypeOK
    BY DEF FilesInv, FilesTyped
<1> QED
    BY <1>1, FilesInvHolds, PTL

\* Whatever resumes, executions, edits, cancellations, timeouts and retries follow one
\* another, the stored files of a run belong together: specs are of the journeys stored, and
\* journeys of the POMs stored (the deletions of artifact-cleanup.ts and of an edit come
\* before anything new is made).
THEOREM FilesBelongTogether == FilesSpec => []Coherent
<1>1. FilesInv => Coherent
    BY DEF FilesInv, Quiet, Coherent
<1> QED
    BY <1>1, FilesInvHolds, PTL

\* What an activity that was reported done has written is stored, until somebody replaces
\* or deletes it on purpose (flushFromLocal before the activity returns).
THEOREM DoneIsStored == FilesSpec => []OutputsStored
<1>1. FilesInv => OutputsStored
    BY DEF FilesInv, Quiet, FilesKept, OutputsStored
<1> QED
    BY <1>1, FilesInvHolds, PTL

\* Only a request and a push write to the store.
LEMMA StoreChanges ==
    ASSUME [FilesNext]_filesVars, store' # store
    PROVE  (\E q \in Requests : InFlight(q)) \/ \E t \in Slots : Put(t)
<1>1. ASSUME NEW q \in Requests, RequestStep(q) PROVE InFlight(q)
    BY <1>1 DEF RequestStep, ResumeRun, ExecuteRun, EditJourneys, Cancel, AssertNotRunning, Cleanup,
       Launch, LaunchFails, WriteJourneys, DropSpecs, RequestFails, InFlight
<1>2. ASSUME NEW s \in Slots, ActivityStep(s) PROVE Put(s)
    BY <1>2 DEF ActivityStep, Pull, AgentSucceeds, AgentFails, LeadSucceeds, LeadFails, Flushed,
       Leaves, FlushFails, TimesOut, LostTimesOut
<1>3. ~RepairRow /\ ~WorkerDies
    BY DEF RepairRow, WorkerDies
<1>4. ~UNCHANGED filesVars
    BY DEF filesVars
<1> QED
    BY <1>1, <1>2, <1>3, <1>4 DEF FilesNext

\* Unless activities overlapped or a refused launch left files behind (raced), a partial
\* execution that got its results changes no other journey's row of the report:
\* mergeExecutionResults keeps them, and nobody writes the report in between.
THEOREM OthersRowsStay == FilesSpec => PartialKeepsOthers
<1>1. ASSUME FilesInv, [FilesNext]_filesVars, NEW s \in Slots,
             at[s].agent = "continuityLead", at[s].only # {}, at[s].pc = "put", at[s].ok,
             store'["report"] # store["report"], ~raced,
             NEW i \in DOMAIN store["report"].about \ at[s].only
      PROVE  /\ i \in DOMAIN store'["report"].about
             /\ store'["report"].about[i] = store["report"].about[i]
    <2>1. Quiet /\ at[s].pc # "free"
        BY <1>1 DEF FilesInv
    <2>2. \A q \in Requests : ~InFlight(q)
        BY <2>1, NobodyAsks
    <2>3. PICK t \in Slots : Put(t)
        BY <1>1, <2>2, StoreChanges
    <2>4. t = s
        BY <1>1, <2>1, <2>3 DEF Put, Quiet, Alone, FilesHold
    <2>5. store'["report"] = local["report"]
        BY <1>1, <2>3, KeyFacts DEF Put
    <2>6. Putting(at[s])
        BY <1>1, <2>1 DEF Quiet, AttemptOK
    <2> QED
        BY <1>1, <2>5, <2>6 DEF Putting
<1>2. FilesInv /\ [FilesNext]_filesVars =>
        [\A s \in Slots :
            /\ at[s].agent = "continuityLead" /\ at[s].only # {} /\ at[s].pc = "put" /\ at[s].ok
            /\ store'["report"] # store["report"] /\ ~raced
            => \A i \in DOMAIN store["report"].about \ at[s].only :
                  /\ i \in DOMAIN store'["report"].about
                  /\ store'["report"].about[i] = store["report"].about[i]]_filesVars
    BY <1>1
<1> QED
    BY <1>2, FilesInvHolds, PTL DEF FilesSpec, PartialKeepsOthers

=============================================================================
