--------------------------- MODULE MCScenarioRun ---------------------------
(* One scenario of three steps and two requests to run it.                  *)
EXTENDS ScenarioRun

MCPhase == <<"given", "when", "then">>
=============================================================================
