---------------------------- MODULE MCAdvReports ----------------------------
(***************************************************************************)
(* AdvReports for TLC: events of up to two reports of up to one byte of    *)
(* data, which is what it takes for one report to begin after another.     *)
(***************************************************************************)
EXTENDS AdvReports
=============================================================================
