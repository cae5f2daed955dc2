----------------------------- MODULE MCRecorder -----------------------------
(* Two starts, of one project or of two, and one session allowed in all.    *)
EXTENDS Recorder, TLC

CONSTANTS s1, s2, p1, p2

MCAsked == {s1 :> p1 @@ s2 :> p1, s1 :> p1 @@ s2 :> p2}
=============================================================================
