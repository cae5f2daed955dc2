---------------------------- MODULE IterationLog ----------------------------
(***************************************************************************)
(* What the repair history of a failed run promises its readers (the fix   *)
(* page, the platform pipeline and the report): an append-only log of at   *)
(* most Max rounds, numbered in order, whose patches never change once     *)
(* written and whose result, once known, never becomes unknown again.      *)
(* FixLoop is shown to implement it.                                       *)
(***************************************************************************)
EXTENDS Naturals, Sequences

CONSTANTS
    Max,        \* a natural number
    Patches,
    Verdicts    \* the results other than "null"

VARIABLE log

Round(k, ps) == [n |-> k, patches |-> ps, result |-> "null"]

Init == log = <<>>

AddRound ==
    /\ Len(log) < Max
    /\ \E ps \in SUBSET Patches : log' = Append(log, Round(Len(log) + 1, ps))

\* A verify run may be repeated, so a known result may change.
Judge ==
    \E i \in DOMAIN log, verdict \in Verdicts :
        log' = [log EXCEPT ![i].result = verdict]

Next == AddRound \/ Judge

Spec == Init /\ [][Next]_log
=============================================================================
