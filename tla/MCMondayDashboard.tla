------------------------- MODULE MCMondayDashboard -------------------------
(* Small instances of MondayDashboard.                                     *)
EXTENDS MondayDashboard

AllClicks == UserOps
=============================================================================
