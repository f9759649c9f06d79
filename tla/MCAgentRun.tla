----------------------------- MODULE MCAgentRun -----------------------------
(***************************************************************************)
(* AgentRun for TLC: the bounds come from the cfg.  Two runs, so that a    *)
(* failed one is followed by a fresh one; two tool calls in a completion,  *)
(* so that a death can fall between their answers; and a budget that a     *)
(* resumed run uses up.                                                    *)
(***************************************************************************)
EXTENDS AgentRun
=============================================================================
