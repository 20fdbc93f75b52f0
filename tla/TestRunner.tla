----------------------------- MODULE TestRunner -----------------------------
(***************************************************************************)
(* test/main.cpp and test/runner.cpp: the program that runs simulations    *)
(* (module Simulation) one after another.  With --seed it runs that one;   *)
(* otherwise --det runs a fixed seed twice and compares the digests,       *)
(* --sims runs as many as are asked for, and only then the runner is       *)
(* pleased.  Whether the digests agree is open: it is a matter of the      *)
(* memory of the process (module Memory) and of the programs under test.   *)
(* Not here: with Address Sanitizer the process fails at --det and --sims  *)
(* (runner.cpp:28-31, 63-66), and ends in the Stop of the first world.     *)
(***************************************************************************)
EXTENDS Simulation

CONSTANT Args       \* command lines: [seed : BOOLEAN, det : BOOLEAN, sims : Nat]

ASSUME ArgsAssumption == Args \subseteq [seed : BOOLEAN, det : BOOLEAN, sims : Nat]

VARIABLES
  args,
  stage,        \* what the runner is doing
  i,            \* the counter of the loop of RunSimulations
  passed,       \* simulations that have returned
  exit,         \* of the process: "running", "success" (0) or "failure" (1)
  pleased       \* Congratulate was called

runnerVars == <<args, stage, i, passed, exit, pleased>>

Init ==
  /\ SimInit
  /\ args \in Args
  /\ stage = "main"
  /\ i = 1
  /\ passed = 0
  /\ exit = "running"
  /\ pleased = FALSE

Simulating == stage \in {"single", "first", "second", "sims"}

Simulate == Simulating /\ SimNext /\ UNCHANGED runnerVars

\* RunSimulation returns and its world is gone.
Return ==
  /\ pc = "end" /\ report = "ok"
  /\ pc' = "cluster"
  /\ era' = "faults"
  /\ globals' = [keys |-> 0, requests |-> 0]
  /\ report' = "none"
  /\ passed' = passed + 1
  /\ UNCHANGED <<pools, actors, state, paused, fiber, coordinator, victim, crashes, panicked>>

\* Main: --seed goes before the other options.
RunSingleSimulation ==
  /\ stage = "main" /\ args.seed
  /\ stage' = "single"
  /\ UNCHANGED <<simVars, args, i, passed, exit, pleased>>

SingleSimulationReturns ==
  /\ stage = "single" /\ Return
  /\ stage' = "exit" /\ exit' = "success"
  /\ UNCHANGED <<args, i, pleased>>

TestDeterminism ==
  /\ stage = "main" /\ ~ args.seed /\ args.det
  /\ stage' = "first"
  /\ UNCHANGED <<simVars, args, i, passed, exit, pleased>>

RunAgain ==
  /\ stage = "first" /\ Return
  /\ stage' = "second"
  /\ UNCHANGED <<args, i, exit, pleased>>

CompareDigests ==
  /\ stage = "second" /\ Return
  /\ \/ stage' = "loop" /\ exit' = exit
     \/ stage' = "exit" /\ exit' = "failure"
  /\ UNCHANGED <<args, i, pleased>>

SkipDeterminism ==
  /\ stage = "main" /\ ~ args.seed /\ ~ args.det
  /\ stage' = "loop"
  /\ UNCHANGED <<simVars, args, i, passed, exit, pleased>>

\* Slip: the loop of RunSimulations counts from one.
MoreBelow == i < args.sims

More == i <= args.sims

RunSimulations ==
  /\ stage = "loop" /\ More
  /\ stage' = "sims"
  /\ UNCHANGED <<simVars, args, i, passed, exit, pleased>>

SimulationReturns ==
  /\ stage = "sims" /\ Return
  /\ i' = i + 1
  /\ stage' = "loop"
  /\ UNCHANGED <<args, exit, pleased>>

Congratulate ==
  /\ stage = "loop" /\ ~ More
  /\ pleased' = TRUE
  /\ stage' = "exit" /\ exit' = "success"
  /\ UNCHANGED <<simVars, args, i, passed>>

\* The simulation itself ends the process.
Fail ==
  /\ Simulating /\ pc = "end" /\ report # "ok"
  /\ stage' = "exit" /\ exit' = "failure"
  /\ UNCHANGED <<simVars, args, i, passed, pleased>>

Next ==
  \/ Simulate
  \/ RunSingleSimulation \/ SingleSimulationReturns
  \/ TestDeterminism \/ RunAgain \/ CompareDigests \/ SkipDeterminism
  \/ RunSimulations \/ SimulationReturns
  \/ Congratulate \/ Fail

vars == <<simVars, runnerVars>>

Spec == Init /\ [][Next]_vars /\ Fairness
-----------------------------------------------------------------------------
\* The runner is pleased only after every simulation it was asked for has
\* passed, the two of the determinism test included, and a process that is not
\* pleased and was given no seed fails (runner.cpp:78, main.cpp:51-68).
VerdictIsEarned ==
  /\ pleased => passed = args.sims + (IF args.det THEN 2 ELSE 0)
  /\ exit = "success" => pleased \/ (args.seed /\ passed = 1)

\* The inductive invariant behind it: what has been run when the runner is at a
\* stage.
RunnerInv ==
  /\ args \in Args
  /\ stage \in {"main", "single", "first", "second", "loop", "sims", "exit"}
  /\ passed \in Nat /\ i \in Nat
  /\ stage # "exit" => exit = "running" /\ ~ pleased
  /\ stage \in {"main", "single", "first"} => passed = 0 /\ i = 1
  /\ stage = "single" => args.seed
  /\ stage \in {"first", "second"} => args.det
  /\ stage = "second" => passed = 1 /\ i = 1
  /\ stage \in {"loop", "sims"} =>
       passed = i - 1 + (IF args.det THEN 2 ELSE 0) /\ i <= args.sims + 1
  /\ stage = "sims" => i <= args.sims
  /\ VerdictIsEarned
=============================================================================
