---------------------------- MODULE MCCompareRun ----------------------------
(***************************************************************************)
(* CompareRun for every script of the repository, with measurements on and *)
(* beside the thresholds: against a reference of 100, a gain of 20 percent,*)
(* a loss of 5 and a loss of 40, for a metric where higher is better and   *)
(* for one where lower is.                                                 *)
(***************************************************************************)
EXTENDS Examples, CompareRun

MCValues == {0, 60, 95, 100, 106, 120}
=============================================================================
