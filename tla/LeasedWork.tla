----------------------------- MODULE LeasedWork -----------------------------
(***************************************************************************)
(* What a queued piece of work promises to whoever asked for it: it is     *)
(* held, settled once and for good, called a success only after it was     *)
(* performed, and it does settle unless the request for it was lost.       *)
(***************************************************************************)

VARIABLES
  phase,       \* "open", "held", "succeeded", "failed" or "lost"
  performed    \* whether the work was done at least once

Settled == {"succeeded", "failed", "lost"}

Init == phase = "open" /\ performed = FALSE

Hold    == phase \notin Settled /\ phase' = "held" /\ UNCHANGED performed
\* Late work is still done: a run does not notice that its work was given up.
Perform == performed' = TRUE /\ UNCHANGED phase
Succeed == phase \notin Settled /\ performed /\ phase' = "succeeded" /\ UNCHANGED performed
Fail    == phase \notin Settled /\ phase' = "failed" /\ UNCHANGED performed
Lose    == phase \notin Settled /\ phase' = "lost" /\ UNCHANGED performed

Next == Hold \/ Perform \/ Succeed \/ Fail \/ Lose

Promise == Init /\ [][Next]_<<phase, performed>>
Spec == Promise /\ <>(phase \in Settled)
=============================================================================
