----------------------------- MODULE MCFixLoop -----------------------------
(* One failed run and an analysis of it; both patches change one file.      *)
EXTENDS FixLoop, TLC

CONSTANTS s1, p1, p2

MCFileOf == p1 :> "page" @@ p2 :> "page"
MCPatchesOf == s1 :> {p1, p2}
MCBreaks == {<<p2, p1>>}
=============================================================================
