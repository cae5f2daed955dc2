--------------------------- MODULE MondayProjects ---------------------------
(***************************************************************************)
(* Projects and their repositories in ai-auto-test-monday: the rows        *)
(* (api/src/services/project-service.ts), the clones into REPOS_BASE_DIR   *)
(* (clone-service.ts) and the project panel that starts and watches them   *)
(* (dashboard/src/components/ProjectPanel.tsx).                            *)
(*                                                                         *)
(* One repository stands for the frontend and the backend of a project.    *)
(***************************************************************************)
EXTENDS Naturals, FiniteSets

CONSTANTS
    Projects,
    Sources,     \* where a project's code may come from
    Given,       \* what the projects that are there at first have
    Clicks,      \* clicks of the Clone button, and the requests they send
    Editors,     \* PUT /api/projects/:id
    None,
    MaxPolls,    \* 120 in pollClone
    MaxChanges,  \* bound on POSTs and DELETEs of /api/projects
    MaxMishaps   \* bound on crashes and on polls the network loses

NoSource == [kind |-> "none", url |-> None, branch |-> None]

\* "mount" is a local path that is there and "missing" one that is not.
ASSUME ProjectsAssumption ==
    /\ \A s \in Sources : /\ DOMAIN s = {"kind", "url", "branch"}
                          /\ s.kind \in {"git", "mount", "missing", "none"}
                          /\ s.kind = "git" => s.url # None
    /\ NoSource \in Sources /\ Given \subseteq Sources
    /\ None \notin Projects
    /\ {MaxPolls, MaxChanges, MaxMishaps} \subseteq Nat

VARIABLES
    row,        \* [Projects -> Row] the projects table
    tree,       \* [Projects -> Tree] REPOS_BASE_DIR/<id>/frontend
    job,        \* [Clicks -> Job] POST .../clone and the runCloneProject it leaves
    edit,       \* [Editors -> Edit] updateProject
    mark,       \* projects a tryMarkMountProjectReady is about to mark
    page,       \* [Clicks -> Page] what the panel does about each click
    cloningId,  \* the panel's cloningId
    changes, mishaps,
    cut,        \* history: projects whose clone a crash cut off
    mixed,      \* history: projects whose row and tree were changed at cross purposes
    lost        \* history: the panel lost a poll

vars == <<row, tree, job, edit, mark, page, cloningId, changes, mishaps, cut,
          mixed, lost>>

\* path is frontend_repo_path: the clone's directory or the mounted one.
Row == [exists : BOOLEAN, source : Sources,
        status : {"idle", "cloning", "ready", "failed"},
        path : {"none", "dir", "mount"}]
NoRow == [exists |-> FALSE, source |-> NoSource, status |-> "idle", path |-> "none"]
FreshRow(s) == [exists |-> TRUE, source |-> s, status |-> "idle", path |-> "none"]

\* whole is FALSE while git clone writes the directory, and after it was killed.
NoTree == [url |-> None, branch |-> None, whole |-> FALSE]
TreeOf(s, whole) == [url |-> s.url, branch |-> s.branch, whole |-> whole]

\* source and path are what runCloneProject read, kept as long as they are used.
Job == [pc : {"none", "start", "set", "read", "choose", "clone", "pull", "ready",
              "failed", "over"},
        proj : Projects \cup {None}, source : Sources,
        path : {"none", "dir", "mount"}]
NoJob == [pc |-> "none", proj |-> None, source |-> NoSource, path |-> "none"]
OverJob == [NoJob EXCEPT !.pc = "over"]

Edit == [pc : {"idle", "write", "over"}, proj : Projects \cup {None},
         read : Sources, source : Sources]
NoEdit == [pc |-> "idle", proj |-> None, read |-> NoSource, source |-> NoSource]

\* answer is the clone request's: the clone was started or not, or none yet.
Page == [pc : {"unused", "posted", "polling", "over"}, proj : Projects \cup {None},
         answer : {"none", "started", "refused"}, polls : 0 .. MaxPolls]
NoPage == [pc |-> "unused", proj |-> None, answer |-> "none", polls |-> 0]
OverPage == [NoPage EXCEPT !.pc = "over"]

TypeOK ==
    /\ row \in [Projects -> Row]
    /\ \A p \in Projects : tree[p] = NoTree
          \/ \E s \in Sources, w \in BOOLEAN : tree[p] = TreeOf(s, w)
    /\ job \in [Clicks -> Job]
    /\ edit \in [Editors -> Edit]
    /\ page \in [Clicks -> Page]
    /\ cloningId \in Projects \cup {None}
    /\ mark \subseteq Projects /\ cut \subseteq Projects /\ mixed \subseteq Projects
    /\ changes \in 0 .. MaxChanges /\ mishaps \in 0 .. MaxMishaps
    /\ lost \in BOOLEAN

Init ==
    /\ row \in [Projects -> {FreshRow(s) : s \in Given}]
    /\ tree = [p \in Projects |-> NoTree]
    /\ job = [c \in Clicks |-> NoJob]
    /\ edit = [e \in Editors |-> NoEdit]
    /\ page = [c \in Clicks |-> NoPage]
    /\ cloningId = None /\ mark = {} /\ changes = 0 /\ mishaps = 0
    /\ cut = {} /\ mixed = {} /\ lost = FALSE

(***************************************************************************)
(* Rows.                                                                   *)
(***************************************************************************)
MountWaits(r) == /\ r.exists /\ r.source.kind = "mount" /\ r.status # "cloning"
                 /\ ~(r.status = "ready" /\ r.path = "mount")

\* tryMarkMountProjectReady, which getProject, createProject and updateProject
\* end with, where nothing comes between its check and its write.
Marked(r) == IF MountWaits(r) THEN [r EXCEPT !.status = "ready", !.path = "mount"] ELSE r

\* A clone that has read p's row and is yet to write its result.
Underway(p) == \E c \in Clicks : job[c].proj = p
                 /\ job[c].pc \in {"choose", "clone", "pull", "ready", "failed"}

\* The source of p changes while a clone, or a mark, goes by the old one.
Crosses(p, r) == r.source # row[p].source /\ (Underway(p) \/ p \in mark)

\* POST /api/projects. On a conflict the status and the paths stay as they are.
Upserted(p, s) == IF row[p].exists THEN [row[p] EXCEPT !.source = s] ELSE FreshRow(s)

Create(p, s) ==
    /\ changes < MaxChanges
    /\ row' = [row EXCEPT ![p] = Marked(Upserted(p, s))]
    /\ mixed' = IF \/ Crosses(p, Upserted(p, s))
                   \/ row[p].exists /\ s # row[p].source
                THEN mixed \cup {p} ELSE mixed
    /\ changes' = changes + 1
    /\ UNCHANGED <<tree, job, edit, mark, page, cloningId, mishaps, cut, lost>>

\* DELETE /api/projects/:id. The directory stays.
Delete(p) ==
    /\ changes < MaxChanges /\ row[p].exists
    /\ row' = [row EXCEPT ![p] = NoRow]
    /\ mixed' = IF Crosses(p, NoRow) THEN mixed \cup {p} ELSE mixed
    /\ changes' = changes + 1
    /\ UNCHANGED <<tree, job, edit, mark, page, cloningId, mishaps, cut, lost>>

\* PUT /api/projects/:id: updateProject reads the row and writes it back whole.
EditRead(e, p, s) ==
    /\ edit[e].pc = "idle" /\ row[p].exists
    /\ row' = [row EXCEPT ![p] = Marked(row[p])]
    /\ edit' = [edit EXCEPT ![e] = [pc |-> "write", proj |-> p,
                                    read |-> row[p].source, source |-> s]]
    /\ UNCHANGED <<tree, job, mark, page, cloningId, changes, mishaps, cut, mixed, lost>>

\* Variant: a change of the branch alone is no change.
BranchIgnored(x) == x.source.url # x.read.url \/ x.source.kind # x.read.kind

\* gitChanged: what was submitted against what was read.
GitChanged(x) == x.source # x.read

Edited(r, x) ==
    IF ~r.exists THEN r
    ELSE IF GitChanged(x) THEN FreshRow(x.source)
    ELSE [r EXCEPT !.source = x.source]

EditWrite(e) ==
    LET x == edit[e]
        r == Edited(row[x.proj], x)
    IN /\ x.pc = "write"
       /\ row' = [row EXCEPT ![x.proj] = Marked(r)]
       /\ mixed' = IF Crosses(x.proj, r) \/ row[x.proj].source # x.read
                   THEN mixed \cup {x.proj} ELSE mixed
       /\ edit' = [edit EXCEPT ![e] = [NoEdit EXCEPT !.pc = "over"]]
       /\ UNCHANGED <<tree, job, mark, page, cloningId, changes, mishaps, cut, lost>>

\* A GET finds a mounted project that is not marked yet, and marks it later.
MarkReads(p) ==
    /\ p \notin mark /\ MountWaits(row[p])
    /\ mark' = mark \cup {p}
    /\ UNCHANGED <<row, tree, job, edit, page, cloningId, changes, mishaps, cut,
                   mixed, lost>>

MarkWrites(p) ==
    /\ p \in mark
    /\ row' = [row EXCEPT ![p] = IF row[p].exists
                                 THEN [row[p] EXCEPT !.status = "ready", !.path = "mount"]
                                 ELSE row[p]]
    /\ mark' = mark \ {p}
    /\ UNCHANGED <<tree, job, edit, page, cloningId, changes, mishaps, cut, mixed, lost>>

(***************************************************************************)
(* startCloneProject and runCloneProject.                                  *)
(***************************************************************************)
\* Whether a clone may start: the 404 and the 409 of POST .../clone.
MayStart(p) == row[p].exists /\ row[p].status # "cloning"

StartRead(c) ==
    LET p == job[c].proj
    IN /\ job[c].pc = "start"
       /\ row' = [row EXCEPT ![p] = Marked(row[p])]
       /\ IF MayStart(p)
          THEN /\ job' = [job EXCEPT ![c].pc = "set"]
               /\ UNCHANGED page
          ELSE /\ job' = [job EXCEPT ![c] = OverJob]
               /\ page' = [page EXCEPT ![c].answer = "refused"]
       /\ UNCHANGED <<tree, edit, mark, cloningId, changes, mishaps, cut, mixed, lost>>

\* setCloneStatus, and the answer 202 without waiting for the clone.
StartWrite(c) ==
    LET p == job[c].proj
    IN /\ job[c].pc = "set"
       /\ row' = [row EXCEPT ![p].status = IF row[p].exists THEN "cloning" ELSE "idle"]
       /\ job' = [job EXCEPT ![c].pc = "read"]
       /\ page' = [page EXCEPT ![c].answer = "started"]
       /\ UNCHANGED <<tree, edit, mark, cloningId, changes, mishaps, cut, mixed, lost>>

\* On to updateCloneResult, with the path it is given.
Ended(j, ok, path) == [pc |-> IF ok THEN "ready" ELSE "failed", proj |-> j.proj,
                       source |-> NoSource, path |-> path]

\* runCloneProject's getProject, and the branch for projects without a git URL.
CloneRead(c) ==
    LET p == job[c].proj
        s == row[p].source
    IN /\ job[c].pc = "read" /\ row[p].exists
       /\ row' = [row EXCEPT ![p] = Marked(row[p])]
       /\ job' = [job EXCEPT ![c] =
             CASE s.kind = "git" -> [pc |-> "choose", proj |-> p, source |-> s,
                                     path |-> row[p].path]
               [] s.kind = "mount" -> Ended(@, TRUE, "mount")
               [] OTHER -> Ended(@, FALSE, row[p].path)]
       /\ UNCHANGED <<tree, edit, mark, page, cloningId, changes, mishaps, cut, mixed, lost>>

\* Variant: git clone is not awaited.
CloneNotAwaited(c) ==
    LET p == job[c].proj
    IN /\ job[c].pc = "choose"
       /\ IF tree[p] = NoTree
          THEN /\ tree' = [tree EXCEPT ![p] = TreeOf(job[c].source, FALSE)]
               /\ job' = [job EXCEPT ![c] = Ended(@, TRUE, "dir")]
          ELSE /\ job' = [job EXCEPT ![c].pc = "pull"]
               /\ UNCHANGED tree
       /\ UNCHANGED <<row, edit, mark, page, cloningId, changes, mishaps, cut, mixed, lost>>

\* cloneOrPull: an existing directory is pulled, and git clone makes a new one.
CloneOrPull(c) ==
    LET p == job[c].proj
    IN /\ job[c].pc = "choose"
       /\ IF tree[p] = NoTree
          THEN /\ tree' = [tree EXCEPT ![p] = TreeOf(job[c].source, FALSE)]
               /\ job' = [job EXCEPT ![c].pc = "clone"]
          ELSE /\ job' = [job EXCEPT ![c].pc = "pull"]
               /\ UNCHANGED tree
       /\ UNCHANGED <<row, edit, mark, page, cloningId, changes, mishaps, cut, mixed, lost>>

\* git clone ends, or fails (a time-out included) and takes its directory away.
CloneEnds(c, ok) ==
    /\ job[c].pc = "clone"
    /\ tree' = [tree EXCEPT ![job[c].proj] = IF ok THEN TreeOf(job[c].source, TRUE)
                                             ELSE NoTree]
    /\ job' = [job EXCEPT ![c] = Ended(@, ok, IF ok THEN "dir" ELSE @.path)]
    /\ UNCHANGED <<row, edit, mark, page, cloningId, changes, mishaps, cut, mixed, lost>>

\* fetch, checkout and pull work on the remote the directory was cloned from. The
\* clone is of one branch (--depth 1), and checkout finds no other.
CanPull(p, s) == tree[p].whole /\ tree[p].branch = s.branch

PullEnds(c, ok) ==
    LET p == job[c].proj
    IN /\ job[c].pc = "pull"
       /\ ok => CanPull(p, job[c].source)
       /\ job' = [job EXCEPT ![c] = Ended(@, ok, IF ok THEN "dir" ELSE @.path)]
       /\ mixed' = IF ok /\ tree[p].url # job[c].source.url THEN mixed \cup {p} ELSE mixed
       /\ UNCHANGED <<row, tree, edit, mark, page, cloningId, changes, mishaps, cut, lost>>

\* Variant: the catch block writes nothing.
SuccessOnly(r, j) ==
    IF r.exists /\ j.pc = "ready" THEN [r EXCEPT !.status = j.pc, !.path = j.path] ELSE r

\* updateCloneResult: the end of runCloneProject, or of its catch block.
Result(r, j) ==
    IF r.exists THEN [r EXCEPT !.status = j.pc, !.path = j.path] ELSE r

CloneWrites(c) ==
    LET p == job[c].proj
    IN /\ job[c].pc \in {"ready", "failed"}
       /\ row' = [row EXCEPT ![p] = Result(row[p], job[c])]
       /\ job' = [job EXCEPT ![c] = OverJob]
       /\ UNCHANGED <<tree, edit, mark, page, cloningId, changes, mishaps, cut, mixed, lost>>

\* The API dies: by an accident, or because `void runCloneProject` found the
\* project deleted and its rejection is handled nowhere. Nothing looks at the rows
\* left 'cloning' when it is back, and a half-made directory stays.
Dies ==
    /\ job' = [c \in Clicks |-> IF job[c].pc = "none" THEN job[c] ELSE OverJob]
    /\ page' = [c \in Clicks |-> IF page[c].pc = "posted" /\ page[c].answer = "none"
                                 THEN [page[c] EXCEPT !.answer = "refused"] ELSE page[c]]
    /\ edit' = [e \in Editors |-> IF edit[e].pc = "write" THEN [NoEdit EXCEPT !.pc = "over"]
                                  ELSE edit[e]]
    /\ mark' = {}
    /\ cut' = cut \cup {p \in Projects : \E c \in Clicks :
                            job[c].proj = p /\ job[c].pc # "none"}
    /\ UNCHANGED <<row, tree, cloningId, changes, mixed, lost>>

Crash == mishaps < MaxMishaps /\ mishaps' = mishaps + 1 /\ Dies

FindsNoProject(c) ==
    /\ job[c].pc = "read" /\ ~row[job[c].proj].exists
    /\ Dies /\ UNCHANGED mishaps

(***************************************************************************)
(* The panel.                                                              *)
(***************************************************************************)
\* The button is off while cloningId is its project.
Click(c, p) ==
    /\ page[c].pc = "unused" /\ cloningId # p
    /\ page' = [page EXCEPT ![c] = [NoPage EXCEPT !.pc = "posted", !.proj = p]]
    /\ job' = [job EXCEPT ![c] = [NoJob EXCEPT !.pc = "start", !.proj = p]]
    /\ UNCHANGED <<row, tree, edit, mark, cloningId, changes, mishaps, cut, mixed, lost>>

\* cloneProject goes on, and the effect of cloningId starts pollClone; it does not
\* when cloningId keeps its value.
Answered(c) ==
    /\ page[c].pc = "posted" /\ page[c].answer # "none"
    /\ IF page[c].answer = "started"
       THEN /\ cloningId' = page[c].proj
            /\ page' = [page EXCEPT ![c] = IF cloningId = page[c].proj THEN OverPage
                          ELSE [@ EXCEPT !.pc = "polling", !.answer = "none"]]
       ELSE /\ page' = [page EXCEPT ![c] = OverPage]
            /\ UNCHANGED cloningId
    /\ UNCHANGED <<row, tree, job, edit, mark, changes, mishaps, cut, mixed, lost>>

\* A poll sees the clone's end, whatever cloningId is by now; the last one gives up.
LastPoll(n) == n + 1 = MaxPolls

Poll(c) ==
    LET g == page[c]
    IN /\ g.pc = "polling"
       /\ row' = [row EXCEPT ![g.proj] = Marked(row[g.proj])]
       /\ IF row'[g.proj].status \in {"ready", "failed"} \/ LastPoll(g.polls)
          THEN /\ page' = [page EXCEPT ![c] = OverPage]
               /\ cloningId' = None
          ELSE /\ page' = [page EXCEPT ![c].polls = IF @ = MaxPolls THEN @ ELSE @ + 1]
               /\ UNCHANGED cloningId
       /\ UNCHANGED <<tree, job, edit, mark, changes, mishaps, cut, mixed, lost>>

\* fetch or res.json() throws: pollClone is over and cloningId stays.
PollIsLost(c) ==
    /\ mishaps < MaxMishaps /\ mishaps' = mishaps + 1
    /\ page[c].pc = "polling"
    /\ page' = [page EXCEPT ![c] = OverPage]
    /\ lost' = TRUE
    /\ UNCHANGED <<row, tree, job, edit, mark, cloningId, changes, cut, mixed>>

ServerStep(c) ==
    \/ StartRead(c) \/ StartWrite(c) \/ CloneRead(c) \/ CloneOrPull(c)
    \/ \E ok \in BOOLEAN : CloneEnds(c, ok)
    \/ \E ok \in BOOLEAN : PullEnds(c, ok)
    \/ CloneWrites(c) \/ FindsNoProject(c)

PanelStep(c) == Answered(c) \/ Poll(c)

Next ==
    \/ \E p \in Projects, s \in Sources : Create(p, s)
    \/ \E p \in Projects : Delete(p)
    \/ \E e \in Editors, p \in Projects, s \in Sources : EditRead(e, p, s)
    \/ \E e \in Editors : EditWrite(e)
    \/ \E p \in Projects : MarkReads(p) \/ MarkWrites(p)
    \/ Crash
    \/ \E c \in Clicks : ServerStep(c) \/ PanelStep(c) \/ PollIsLost(c)
    \/ \E c \in Clicks, p \in Projects : Click(c, p)

Spec == Init /\ [][Next]_vars

\* git ends within its time-out, the API handles what it took on and the panel's
\* timer polls: no one has to act for it.
FairSpec == Spec /\ \A c \in Clicks : WF_vars(ServerStep(c)) /\ WF_vars(PanelStep(c))

(***************************************************************************)
(* Properties.                                                             *)
(***************************************************************************)
\* A project the pipeline accepts (status 'ready', pipeline-service.ts:318) has the
\* code its row names: a whole clone of that URL and branch, or the mounted path.
\* Left out are the projects whose row was changed under a clone or a mark, by two
\* PUTs at once or by a POST over an existing row, and those whose directory was
\* pulled from the URL it was first cloned from.
Holds(p) ==
    CASE row[p].source.kind = "git" ->
           row[p].path = "dir" /\ tree[p] = TreeOf(row[p].source, TRUE)
      [] row[p].source.kind = "mount" -> row[p].path = "mount"
      [] OTHER -> FALSE

ReadyIsConfigured ==
    \A p \in Projects : row[p].exists /\ row[p].status = "ready" /\ p \notin mixed => Holds(p)

\* Whatever is changed meanwhile, a project that is ready by its clone directory
\* has a whole clone in it, so that startPipeline's access check is enough.
ReadyIsWhole ==
    \A p \in Projects : row[p].exists /\ row[p].status = "ready" /\ row[p].path = "dir"
                          => tree[p].whole

\* A clone that was started leaves 'cloning' again, which the 409 of the next one
\* waits for, unless the API died under it.
CloningEnds ==
    \A p \in Projects :
       row[p].status = "cloning" ~> (row[p].status # "cloning" \/ p \in cut)

\* The panel's Clone button comes back, however the clone went and even if the row
\* stays 'cloning', unless a poll was lost.
ButtonIsBack == cloningId # None ~> (cloningId = None \/ lost)

\* A clone comes to an end where it is awaited: in the row the next click is checked
\* against and on the panel whose button it disabled.
CloneSettles == CloningEnds /\ ButtonIsBack
=============================================================================
