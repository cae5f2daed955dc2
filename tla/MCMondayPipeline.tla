-------------------------- MODULE MCMondayPipeline --------------------------
(* Instances of MondayPipeline.                                            *)
EXTENDS MondayPipeline, TLC

CONSTANTS r1, r2, q1, q2, q3, p1

Symmetry == Permutations(Runs) \cup Permutations(Requests)
=============================================================================
