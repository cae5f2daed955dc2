------------------------- MODULE MCMondayArtifacts -------------------------
(* Two journeys; two requests one after the other or at once.               *)
EXTENDS MondayArtifacts, TLC

CONSTANTS j1, j2, q1, q2

Symmetry == Permutations({j1, j2}) \cup Permutations({q1, q2})

\* Once raced, a behaviour says nothing until a resume makes the files anew:
\* states from which none can are not followed.
CanTell == ~raced \/ \E q \in Requests : req[q].pc \in {"idle", "assert"}
=============================================================================
