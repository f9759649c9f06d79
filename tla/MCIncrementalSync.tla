------------------------- MODULE MCIncrementalSync -------------------------
(***************************************************************************)
(* Instances of IncrementalSync for TLC: four ids in windows of three, two *)
(* workers, an id the provider never has and one whose fetch is flaky.     *)
(***************************************************************************)
EXTENDS IncrementalSync
=============================================================================
