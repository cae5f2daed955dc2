-------------------------- MODULE MCMondayProjects --------------------------
(* A repository with two branches, another URL, and a mounted path.         *)
EXTENDS MondayProjects

Git(u, b) == [kind |-> "git", url |-> u, branch |-> b]

MCSources == {NoSource, [NoSource EXCEPT !.kind = "mount"],
              Git("u1", "main"), Git("u1", "dev"), Git("u2", "main")}
MCGiven == {Git("u1", "main")}
=============================================================================
