----------------------------- MODULE MCRunPage -----------------------------
(* Two runs: both of the page's project, or one of them.  Which one does    *)
(* not matter: only the runs of one project are ordered.                    *)
EXTENDS RunPage

TwoRuns == 1 .. 2
BothOrOne == {{1, 2}, {2}}
=============================================================================
