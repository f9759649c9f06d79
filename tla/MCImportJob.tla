---------------------------- MODULE MCImportJob ----------------------------
(***************************************************************************)
(* Instances of ImportJob for TLC: two runners of one job.                 *)
(***************************************************************************)
EXTENDS ImportJob
=============================================================================
