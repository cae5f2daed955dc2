---------------------------- MODULE MCRunService ----------------------------
(* Instances of RunService: r1 and r2 belong to p1, every other run to p2.  *)
EXTENDS RunService

CONSTANTS p1, p2, r1, r2, r3, c1

MCProjectOf == [r \in Runs |-> IF r \in {r1, r2} THEN p1 ELSE p2]
=============================================================================
