------------------------------ MODULE MCPiJobs ------------------------------
(* Instances of PiJobs: j1 and j2 ask for the plan; j3, in larger instances *)
(* than the run's, for the code.                                            *)
EXTENDS PiJobs

CONSTANTS j1, j2, j3, c1, c2

MCTypeOf == [j \in Jobs |-> IF j = j3 THEN "code" ELSE "plan"]
=============================================================================
