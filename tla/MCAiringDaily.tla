--------------------------- MODULE MCAiringDaily ---------------------------
(***************************************************************************)
(* Instances of AiringDaily for TLC: boards of up to four members in       *)
(* batches of two, and two runs.                                           *)
(***************************************************************************)
EXTENDS AiringDaily
=============================================================================
