----------------------------- MODULE AuditJobs -----------------------------
(***************************************************************************)
(* The full modular audit of one project in ai-auto-test-platform:         *)
(* AuditJobService (a row per job, a handle while it executes, a chain of  *)
(* saves), AuditService.runFullAuditModules (one Pi client for all the     *)
(* modules, up to Prompts prompts each), AuditMergeService over the tables *)
(* audit_module_partials and project_features, and the dashboard's page,   *)
(* which follows a job by websocket and by polling.                        *)
(*                                                                         *)
(* A module's features are named by the module the agent described: what   *)
(* a partial holds is the module its text was about.  The Pi agent and the *)
(* database are external: the one answers late, with junk or never, a      *)
(* query of the other may fail.                                            *)
(***************************************************************************)
EXTENDS Naturals, Sequences, SequencesExt, FiniteSetsExt

CONSTANTS
    Jobs, NoJob,
    PageJobs,      \* the jobs the page's button may start; other clients start the others
    Modules, NoModule,
    Profile,       \* [Jobs -> the modules of the audit profile when the job starts, in order]
    Prompts,       \* prompts per module: the audit prompt and the retries
    MaxChain,      \* bound on the saves a job has queued
    MaxMishaps     \* bound on failed queries, refused prompts, timeouts and restarts

ASSUME AuditAssumption ==
    /\ NoJob \notin Jobs /\ PageJobs \subseteq Jobs /\ NoModule \notin Modules
    /\ \A j \in Jobs : Profile[j] \in Seq(Modules) \ {<<>>}   \* auditProfileSchema: min(1)
    /\ Prompts \in Nat \ {0}
    /\ MaxChain \in Nat /\ MaxMishaps \in Nat

VARIABLES
    row,        \* audit_jobs: [Jobs -> Status]
    handle,     \* runningJobs: [Jobs -> [live, cancelled, status]]
    chain,      \* [Jobs -> Seq of saves queued on saveChain]
    poisoned,   \* jobs whose saveChain is a rejected promise
    exec,       \* [Jobs -> [pc, i, try, merged]] executeJob and what it calls
    pi,         \* [Jobs -> the agent's work and the client's stream state]
    partials,   \* audit_module_partials: [Modules -> Modules or NoModule]
    features,   \* ids in project_features
    page,       \* the dashboard's audit panel
    counted,    \* history: per job, the contents of the partials it reported completed
    timedOut,   \* history: a prompt was given up while the agent might still answer it
    shared,     \* history: jobs that executed while another one did
    mishaps

vars == <<row, handle, chain, poisoned, exec, pi, partials, features, page, counted,
          timedOut, shared, mishaps>>

Status == {"none", "running", "completed", "failed", "cancelled"}
Terminal == {"completed", "failed", "cancelled"}
Executing == {"load", "prompt", "accept", "wait", "reply", "merge", "upsert", "delete", "final"}
Saves == {"event", "cancel", "final"}

NoExec == [pc |-> "none", i |-> 1, try |-> 0, merged |-> {}]
QuietPi == [work |-> NoModule, next |-> NoModule, text |-> NoModule, settled |-> FALSE]
NoHandle == [live |-> FALSE, cancelled |-> FALSE, status |-> "none"]
FreshPage == [job |-> NoJob, fin |-> FALSE, busy |-> FALSE, post |-> NoJob, poll |-> FALSE]

Init ==
    /\ row = [j \in Jobs |-> "none"]
    /\ handle = [j \in Jobs |-> NoHandle]
    /\ chain = [j \in Jobs |-> <<>>]
    /\ poisoned = {}
    /\ exec = [j \in Jobs |-> NoExec]
    /\ pi = [j \in Jobs |-> QuietPi]
    /\ partials = [m \in Modules |-> NoModule]
    /\ features = {}
    /\ page = FreshPage
    /\ counted = [j \in Jobs |-> {}]
    /\ timedOut = FALSE /\ shared = {}
    /\ mishaps = 0

Db == <<partials, features>>
Module(j) == Profile[j][exec[j].i]
Mishap == mishaps < MaxMishaps /\ mishaps' = mishaps + 1

\* The promises a step leaves behind: a save is queued, and refused at once once the
\* chain is rejected.
Queue(j, save) == chain' = IF j \in poisoned THEN chain ELSE [chain EXCEPT ![j] = Append(@, save)]
HasRoom(j) == Len(chain[j]) < MaxChain

\* audit_job_completed, seen by a page that knows the job already.
Announced(p, j) == IF p.job = j THEN [p EXCEPT !.fin = TRUE, !.busy = FALSE] ELSE p

-----------------------------------------------------------------------------
(* Requests                                                                *)

\* POST /api/audit/jobs, by the page's button or another client: no look at other jobs.
StartFullAudit(j) ==
    /\ exec[j].pc = "none" /\ row[j] = "none"
    /\ j \in PageJobs => ~page.busy
    /\ exec' = [exec EXCEPT ![j].pc = "insert"]
    /\ page' = IF j \in PageJobs THEN [page EXCEPT !.job = NoJob, !.fin = FALSE, !.busy = TRUE, !.post = j]
               ELSE page
    /\ UNCHANGED <<row, handle, chain, poisoned, pi, Db, counted, timedOut, shared, mishaps>>

\* The row is inserted, the handle set and executeJob on its way; or there is no row.
Inserted(j) ==
    /\ exec[j].pc = "insert"
    /\ exec' = [exec EXCEPT ![j].pc = "load"]
    /\ row' = [row EXCEPT ![j] = "running"]
    /\ handle' = [handle EXCEPT ![j].live = TRUE, ![j].status = "running"]
    /\ LET others == {k \in Jobs \ {j} : exec[k].pc \in Executing}
       IN  shared' = IF others = {} THEN shared ELSE shared \cup others \cup {j}
    /\ UNCHANGED <<chain, poisoned, pi, Db, page, counted, timedOut, mishaps>>

InsertFails(j) ==
    /\ exec[j].pc = "insert" /\ Mishap
    /\ exec' = [exec EXCEPT ![j].pc = "over"]
    /\ page' = IF page.post = j THEN [page EXCEPT !.busy = FALSE, !.post = NoJob] ELSE page
    /\ UNCHANGED <<row, handle, chain, poisoned, pi, Db, counted, timedOut, shared>>

\* POST .../cancel: nothing stops the audit.
CancelJob(j) ==
    /\ handle[j].live /\ ~handle[j].cancelled /\ HasRoom(j)
    /\ handle' = [handle EXCEPT ![j].cancelled = TRUE, ![j].status = "cancelled"]
    /\ Queue(j, "cancel")
    /\ UNCHANGED <<row, poisoned, exec, pi, Db, page, counted, timedOut, shared, mishaps>>

-----------------------------------------------------------------------------
(* runFullAuditModules                                                     *)

Go(j, pc) == exec' = [exec EXCEPT ![j].pc = pc]
\* The client is stopped, and the job left with its last save or with nothing to do.
Leaves(j, saves) ==
    /\ exec' = [exec EXCEPT ![j] = [NoExec EXCEPT
                   !.pc = IF saves /\ j \notin poisoned THEN "final" ELSE "over"]]
    /\ pi' = [pi EXCEPT ![j] = QuietPi]
NextModule(j) ==
    LET more == exec[j].i < Len(Profile[j])
    IN  exec' = [exec EXCEPT ![j].pc = IF more THEN "load" ELSE "merge",
                             ![j].i = IF more THEN @ + 1 ELSE 1, ![j].try = 0]

\* onProgress is silent once the job is cancelled.
Completes(j, content) ==
    IF handle[j].cancelled THEN UNCHANGED <<handle, chain, counted>>
    ELSE /\ counted' = [counted EXCEPT ![j] = @ \cup {content}]
         /\ Queue(j, "event") /\ UNCHANGED handle
Reports(j) ==
    /\ IF handle[j].cancelled THEN UNCHANGED chain ELSE Queue(j, "event")
    /\ UNCHANGED <<handle, counted>>

\* skipCompleted: a partial somebody left is taken for this job's.
Load(j) ==
    /\ exec[j].pc = "load" /\ HasRoom(j)
    /\ \/ /\ partials[Module(j)] # NoModule
          /\ Completes(j, partials[Module(j)]) /\ NextModule(j)
       \/ /\ partials[Module(j)] = NoModule
          /\ Reports(j) /\ Go(j, "prompt")
    /\ UNCHANGED <<row, poisoned, pi, Db, page, timedOut, shared, mishaps>>

\* resetSettled and the prompt command.
KeepsText(j) == [pi EXCEPT ![j].settled = FALSE]
ResetSettled(j) == [pi EXCEPT ![j].settled = FALSE, ![j].text = NoModule]
SendPrompt(j) ==
    /\ exec[j].pc = "prompt"
    /\ pi' = ResetSettled(j) /\ Go(j, "accept")
    /\ UNCHANGED <<row, handle, chain, poisoned, Db, page, counted, timedOut, shared, mishaps>>

\* A busy agent keeps the prompt for later.
Taken(j) == [pi EXCEPT ![j].work = IF @ = NoModule THEN Module(j) ELSE @,
                       ![j].next = IF pi[j].work = NoModule THEN @ ELSE Module(j)]
Accept(j) ==
    /\ exec[j].pc = "accept"
    /\ pi' = Taken(j) /\ Go(j, IF pi[j].settled THEN "reply" ELSE "wait")
    /\ UNCHANGED <<row, handle, chain, poisoned, Db, page, counted, timedOut, shared, mishaps>>

\* agent_settled, after a reply about the module at work, after text that does not parse,
\* or after none: then the text of the stream stays what it was.
Text(j, said) == IF said = "reply" THEN pi[j].work ELSE IF said = "junk" THEN NoModule
                 ELSE pi[j].text
AgentSettles(j, said) ==
    /\ exec[j].pc \in Executing /\ pi[j].work # NoModule
    /\ pi' = [pi EXCEPT ![j] = [work |-> @.next, next |-> NoModule, settled |-> TRUE,
                                text |-> Text(j, said)]]
    /\ exec' = IF exec[j].pc = "wait" THEN [exec EXCEPT ![j].pc = "reply"] ELSE exec
    /\ UNCHANGED <<row, handle, chain, poisoned, Db, page, counted, timedOut, shared, mishaps>>

\* The prompt is refused or not answered in time; the agent may have taken it.
PromptFails(j) ==
    /\ exec[j].pc \in {"accept", "wait"} /\ HasRoom(j) /\ Mishap
    /\ \/ pi' = pi
       \/ exec[j].pc = "accept" /\ pi' = Taken(j)
    /\ timedOut' = (timedOut \/ pi'[j].work # NoModule)
    /\ Reports(j) /\ NextModule(j)
    /\ UNCHANGED <<row, poisoned, Db, page, shared>>

\* saveModulePartial takes whatever parses for the module asked about; what does not, or
\* cannot be saved, is asked for again.
SavePartial(j) ==
    /\ exec[j].pc = "reply" /\ pi[j].text # NoModule /\ HasRoom(j)
    /\ partials' = [partials EXCEPT ![Module(j)] = pi[j].text]
    /\ Completes(j, pi[j].text) /\ NextModule(j)
    /\ UNCHANGED <<row, poisoned, pi, features, page, timedOut, shared, mishaps>>

NoPartial(j) ==
    /\ exec[j].pc = "reply" /\ HasRoom(j)
    /\ IF pi[j].text = NoModule THEN UNCHANGED mishaps ELSE Mishap
    /\ IF exec[j].try + 1 < Prompts
       THEN exec' = [exec EXCEPT ![j].pc = "prompt", ![j].try = @ + 1]
            /\ UNCHANGED <<handle, chain, counted>>
       ELSE Reports(j) /\ NextModule(j)
    /\ UNCHANGED <<row, poisoned, pi, Db, page, timedOut, shared>>

-----------------------------------------------------------------------------
(* mergeAndPersist                                                         *)

\* mergeFeatures: a second feature of a name gets the module's name in front.
FeatureOf(merged, m, content) == IF <<content>> \in merged THEN <<m, content>> ELSE <<content>>

\* A throw out of runFullAuditModules, cancelled or not.
Failed(j) ==
    /\ handle' = [handle EXCEPT ![j].status = "failed"]
    /\ Queue(j, "final")
    /\ Leaves(j, TRUE)

Merge(j) ==
    /\ exec[j].pc = "merge" /\ exec[j].i <= Len(Profile[j])
    /\ LET c == partials[Module(j)] IN
       exec' = [exec EXCEPT ![j].i = @ + 1,
                            ![j].merged = IF c = NoModule THEN @
                                          ELSE @ \cup {FeatureOf(@, Module(j), c)}]
    /\ UNCHANGED <<row, handle, chain, poisoned, pi, Db, page, counted, timedOut, shared, mishaps>>

Merged(j) ==
    /\ exec[j].pc = "merge" /\ exec[j].i > Len(Profile[j])
    /\ IF exec[j].merged = {} THEN HasRoom(j) /\ Failed(j)
       ELSE Go(j, "upsert") /\ UNCHANGED <<handle, chain, pi>>
    /\ UNCHANGED <<row, poisoned, Db, page, counted, timedOut, shared, mishaps>>

\* One feature at a time; which of them a manual row keeps as it is, no property tells.
SomeWritten(j) == exec[j].merged \cap features # {}
AllWritten(j) == exec[j].merged \subseteq features
Upsert(j) ==
    /\ exec[j].pc = "upsert"
    /\ \/ /\ \E f \in exec[j].merged \ features : features' = features \cup {f}
          /\ UNCHANGED exec
       \/ /\ AllWritten(j)
          /\ Go(j, "delete") /\ UNCHANGED features
    /\ UNCHANGED <<row, handle, chain, poisoned, pi, partials, page, counted, timedOut,
                   shared, mishaps>>

\* deletePartials: all the project's, whoever saved them.  Then merge_completed and the
\* job's last save, or nothing for a cancelled job.
GoesOn(j) == TRUE
NotCancelled(j) == ~handle[j].cancelled
Delete(j) ==
    /\ exec[j].pc = "delete" /\ HasRoom(j)
    /\ partials' = [m \in Modules |-> NoModule]
    /\ IF NotCancelled(j)
       THEN /\ handle' = [handle EXCEPT ![j].status = "completed"]
            /\ Queue(j, "final") /\ Leaves(j, TRUE)
       ELSE /\ handle' = [handle EXCEPT ![j].live = FALSE]
            /\ Leaves(j, FALSE) /\ UNCHANGED chain
    /\ UNCHANGED <<row, poisoned, features, page, counted, timedOut, shared, mishaps>>

QueryFails(j) ==
    /\ exec[j].pc \in {"load", "merge", "upsert", "delete"} /\ HasRoom(j) /\ Mishap
    /\ Failed(j)
    /\ UNCHANGED <<row, poisoned, Db, page, counted, timedOut, shared>>

-----------------------------------------------------------------------------
(* The chain of saves                                                      *)

\* persistJob writes the job object as it is when its turn comes.
Save(j) ==
    /\ chain[j] # <<>>
    /\ row' = [row EXCEPT ![j] = handle[j].status]
    /\ chain' = [chain EXCEPT ![j] = Tail(@)]
    /\ IF Head(chain[j]) = "final"
       THEN /\ Go(j, "over")
            /\ handle' = [handle EXCEPT ![j].live = FALSE]
            /\ page' = Announced(page, j)
       ELSE UNCHANGED <<exec, handle, page>>
    /\ UNCHANGED <<poisoned, pi, Db, counted, timedOut, shared, mishaps>>

\* No save after a failed one: only those somebody awaits are harmless to the process.
SaveFails(j) ==
    /\ chain[j] # <<>> /\ ~Contains(chain[j], "event") /\ Mishap
    /\ poisoned' = poisoned \cup {j}
    /\ chain' = [chain EXCEPT ![j] = <<>>]
    /\ IF Contains(chain[j], "final")
       THEN Go(j, "over") /\ handle' = [handle EXCEPT ![j].live = FALSE]
       ELSE UNCHANGED <<exec, handle>>
    /\ UNCHANGED <<row, pi, Db, page, counted, timedOut, shared>>

\* The process dies, of a failed save nobody awaits or of anything else, and comes back:
\* recoverInterruptedJobs before it listens.
NotRecovered == row
Recovered == [j \in Jobs |-> IF row[j] = "running" THEN "failed" ELSE row[j]]
Restart ==
    /\ Mishap
    /\ row' = Recovered
    /\ handle' = [j \in Jobs |-> NoHandle]
    /\ chain' = [j \in Jobs |-> <<>>]
    /\ poisoned' = {}
    /\ exec' = [j \in Jobs |-> IF exec[j].pc = "none" THEN NoExec ELSE [NoExec EXCEPT !.pc = "over"]]
    /\ pi' = [j \in Jobs |-> QuietPi]
    /\ page' = IF page.post # NoJob THEN [page EXCEPT !.busy = FALSE, !.post = NoJob] ELSE page
    /\ UNCHANGED <<Db, counted, timedOut, shared>>

-----------------------------------------------------------------------------
(* The page                                                                *)

PageFrame == UNCHANGED <<row, handle, chain, poisoned, exec, pi, Db, counted, timedOut, shared,
                         mishaps>>

\* beginJob, once the response is there; what was broadcast before is missed.
PostAnswered ==
    /\ page.post # NoJob /\ row[page.post] # "none"
    /\ page' = [page EXCEPT !.job = page.post, !.post = NoJob, !.fin = FALSE]
    /\ PageFrame

\* Every 15 s while the job is not finished on the page: getJob, from the handle or the
\* row.  Only the answer that it has ended changes anything.
JobState(j) == IF handle[j].live THEN handle[j].status ELSE row[j]
Polls ==
    /\ page.job # NoJob /\ ~page.fin /\ ~page.poll /\ JobState(page.job) \in Terminal
    /\ page' = [page EXCEPT !.poll = TRUE]
    /\ PageFrame

\* Whatever job the page shows by now.
PollAnswered ==
    /\ page.poll
    /\ page' = [page EXCEPT !.poll = FALSE, !.fin = TRUE, !.busy = FALSE]
    /\ PageFrame

Step(j) ==
    \/ Inserted(j) \/ Load(j) \/ SendPrompt(j) \/ Accept(j) \/ PromptFails(j)
    \/ SavePartial(j) \/ NoPartial(j) \/ Merge(j) \/ Merged(j) \/ Upsert(j) \/ Delete(j)
Settles(j) == \E said \in {"reply", "junk", "nothing"} : AgentSettles(j, said)

Next ==
    \/ \E j \in Jobs : Step(j) \/ Settles(j) \/ Save(j)
    \/ \E j \in Jobs : StartFullAudit(j) \/ InsertFails(j) \/ CancelJob(j) \/ QueryFails(j) \/ SaveFails(j)
    \/ Restart \/ PostAnswered \/ Polls \/ PollAnswered

\* A live server's awaits end and its queued saves are tried; a prompt is answered, or its
\* timer fires (which the bound on mishaps would forbid: the answer stands for both).
Fairness ==
    /\ \A j \in Jobs : WF_vars(Step(j) \/ (exec[j].pc = "wait" /\ Settles(j))) /\ WF_vars(Save(j))
    /\ WF_vars(PostAnswered) /\ WF_vars(Polls) /\ WF_vars(PollAnswered)

Spec == Init /\ [][Next]_vars /\ Fairness

-----------------------------------------------------------------------------
TypeOK ==
    /\ \A j \in Jobs : /\ row[j] \in Status
                       /\ handle[j].status \in Status
                       /\ exec[j].pc \in Executing \cup {"none", "insert", "over"}
                       /\ chain[j] \in Seq(Saves) /\ pi[j].text \in Modules \cup {NoModule}
    /\ partials \in [Modules -> Modules \cup {NoModule}]

\* What a job that ended completed has counted as completed is in the project's features
\* table, under its own name or a module's: also what it took over from an earlier job
\* that died, unless another job, deleting all partials, ran at the same time.
CompletedIsMerged ==
    \A j \in Jobs : row[j] = "completed" /\ j \notin shared =>
        \A c \in counted[j] : <<c>> \in features

\* A module's partial is about that module, whatever junk was answered and retried in
\* between, unless a prompt was given up that the agent may answer later.
RepliesAreOwn == ~timedOut => \A m \in Modules : partials[m] \in {m, NoModule}

\* A job whose row has said cancelled is never reported completed, though its audit goes
\* on to the end and its features are merged.
CancelledNeverCompletes ==
    [][\A j \in Jobs : row[j] = "cancelled" => row'[j] # "completed"]_vars

\* No row stays running for ever, but one whose last save has failed.
RowSettles ==
    \A j \in Jobs : row[j] = "running" ~> (row[j] # "running" \/ j \in poisoned)

\* The page is released, whatever it missed, unless its job's row is such a one.
PageReleased == page.busy ~> (~page.busy \/ poisoned # {})

\* An audit that was started is over some day, in its row and on its page: the modules
\* end, the save chain drains, a restart recovers what it cut short, and the page's poll
\* finds it out when the socket said nothing.
AuditEnds == RowSettles /\ PageReleased
=============================================================================
