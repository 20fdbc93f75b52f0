---------------------------- MODULE MCSimulation ----------------------------
(***************************************************************************)
(* One simulation by its seed, nothing at all, and the determinism test     *)
(* with a simulation after it.                                             *)
(***************************************************************************)
EXTENDS TestRunner

MCArgs ==
  {[seed |-> TRUE, det |-> FALSE, sims |-> 1], [seed |-> FALSE, det |-> TRUE, sims |-> 1],
   [seed |-> FALSE, det |-> FALSE, sims |-> 0]}
=============================================================================
