---------------------------- MODULE MCAuditJobs ----------------------------
(* Two jobs of the project; between them the profile loses a module.        *)
EXTENDS AuditJobs, TLC

CONSTANTS j1, j2, m1, m2
MCProfile == (j1 :> <<m1, m2>>) @@ (j2 :> <<m2>>)
=============================================================================
