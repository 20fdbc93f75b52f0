--------------------------- MODULE SimulationProof ---------------------------
(***************************************************************************)
(* The verdict of the test runner and the safety of the simulation, for    *)
(* any numbers of replicas, clients and requests that RunSimulation may    *)
(* draw and for any command line.                                          *)
(***************************************************************************)
EXTENDS TestRunner, FiniteSetTheorems, TLAPS

USE SimulationAssumption, NowhereAssumption, ArgsAssumption

-----------------------------------------------------------------------------
(* The runner *)

\* What RunnerInv says of the first stage is so at the start (test/main.cpp:32).
LEMMA RunnerInit == Init => RunnerInv
BY DEF Init, RunnerInv, VerdictIsEarned

\* The runner keeps account of what has passed (test/runner.cpp:27-93).
LEMMA RunnerStep == RunnerInv /\ [Next]_vars => RunnerInv'
<1>. SUFFICES ASSUME RunnerInv, [Next]_vars PROVE RunnerInv'
  OBVIOUS
<1>0. args.sims \in Nat
  BY DEF RunnerInv
<1>1. CASE Simulate
  BY <1>1 DEF Simulate, runnerVars, RunnerInv, VerdictIsEarned
<1>2. CASE RunSingleSimulation
  BY <1>2 DEF RunSingleSimulation, RunnerInv, VerdictIsEarned
<1>3. CASE SingleSimulationReturns
  BY <1>3 DEF SingleSimulationReturns, Return, RunnerInv, VerdictIsEarned
<1>4. CASE TestDeterminism
  BY <1>4 DEF TestDeterminism, RunnerInv, VerdictIsEarned
<1>5. CASE RunAgain
  BY <1>5 DEF RunAgain, Return, RunnerInv, VerdictIsEarned
<1>6. CASE CompareDigests
  BY <1>0, <1>6 DEF CompareDigests, Return, RunnerInv, VerdictIsEarned
<1>7. CASE SkipDeterminism
  BY <1>0, <1>7 DEF SkipDeterminism, RunnerInv, VerdictIsEarned
<1>8. CASE RunSimulations
  BY <1>0, <1>8 DEF RunSimulations, More, RunnerInv, VerdictIsEarned
<1>9. CASE SimulationReturns
  BY <1>0, <1>9 DEF SimulationReturns, Return, RunnerInv, VerdictIsEarned
<1>10. CASE Congratulate
  BY <1>0, <1>10 DEF Congratulate, More, RunnerInv, VerdictIsEarned
<1>11. CASE Fail
  BY <1>11 DEF Fail, Simulating, RunnerInv, VerdictIsEarned
<1>12. CASE UNCHANGED vars
  BY <1>12 DEF vars, runnerVars, RunnerInv, VerdictIsEarned
<1>. QED
  BY <1>1, <1>2, <1>3, <1>4, <1>5, <1>6, <1>7, <1>8, <1>9, <1>10, <1>11, <1>12 DEF Next

\* The runner is pleased only after all the simulations it was asked for have
\* passed (test/runner.cpp:78-93, 128).
THEOREM VerdictHolds == Spec => []VerdictIsEarned
<1>1. RunnerInv => VerdictIsEarned
  BY DEF RunnerInv
<1>. QED
  BY <1>1, RunnerInit, RunnerStep, PTL DEF Spec
-----------------------------------------------------------------------------
(* The nodes *)

\* A cluster of n nodes has n different names (world/world.hpp:65-89).
LEMMA NodesFact ==
  ASSUME Named, pc \notin {"cluster", "judge", "end"}
  PROVE  /\ Len(pools.kv) \in 3 .. 5
         /\ IsFiniteSet(Nodes) /\ Cardinality(Nodes) = Len(pools.kv)
         /\ Nowhere \notin Nodes
         /\ CrashBound \in Nat /\ Majority \in Nat
         /\ Len(pools.kv) - CrashBound >= Majority /\ Majority > 0
<1>. DEFINE n == Len(pools.kv)
<1>1. /\ n \in 3 .. 5
      /\ pools.kv = [k \in 1 .. n |-> MakeServerName(MakeNameTemplate("kv"), k)]
  BY DEF Named
<1>2. Nodes = {pools.kv[k] : k \in 1 .. n}
  BY <1>1 DEF Nodes, HostsOf
<1>3. pools.kv \in Bijection(1 .. n, Nodes)
  <2>1. \A k, j \in 1 .. n : pools.kv[k] = pools.kv[j] => k = j
    BY <1>1 DEF MakeServerName
  <2>2. pools.kv \in [1 .. n -> Nodes]
    BY <1>1, <1>2
  <2>. QED
    BY <1>2, <2>1, <2>2 DEF Bijection, Injection, Surjection, IsInjective
<1>4. IsFiniteSet(1 .. n) /\ Cardinality(1 .. n) = n
  BY <1>1, FS_Interval
<1>5. IsFiniteSet(Nodes) /\ Cardinality(Nodes) = n
  BY <1>3, <1>4, FS_Bijection DEF ExistsBijection
<1>6. Nowhere \notin Nodes
  BY <1>1, <1>2
<1>7. CrashBound \in Nat /\ Majority \in Nat /\ n - CrashBound >= Majority /\ Majority > 0
  <2>1. n = 3 \/ n = 4 \/ n = 5
    BY <1>1
  <2>2. /\ (3 - 1) \div 2 = 1 /\ (4 - 1) \div 2 = 1 /\ (5 - 1) \div 2 = 2
        /\ 3 \div 2 + 1 = 2 /\ 4 \div 2 + 1 = 3 /\ 5 \div 2 + 1 = 3
    OBVIOUS
  <2>3. CrashBound = (n - 1) \div 2 /\ Majority = n \div 2 + 1
    BY DEF CrashBound, Majority
  <2>. HIDE DEF n
  <2>. QED
    BY <2>1, <2>2, <2>3
<1>. QED
  BY <1>1, <1>5, <1>6, <1>7

\* Names of nodes, clients and adversaries differ (kv/main.cpp:226-243).
LEMMA NamesFact ==
  /\ Net # Node /\ Net # Reaper /\ Node # Reaper
  /\ \A k : MakeServerName("Client", k) \notin {Net, Node, Reaper}
BY DEF Net, Node, Reaper, MakeServerName

\* The invariant holds of the empty world a simulation begins with
\* (world/world.cpp:12).
LEMMA SimInvInit == Init => SimInv
BY DEF Init, SimInit, NoWorld, SimInv, Named, StarOnly, VictimOnly, Running,
   NobodyPanics, HostsOf

-----------------------------------------------------------------------------
(* One lemma for each part of a simulation *)

\* The world is put together (kv/main.cpp:200-247).
LEMMA SetupStep ==
  ASSUME SimInv, MakeCluster \/ AddClients \/ AddAdversaries \/ SetGlobals
  PROVE  SimInv'
<1>1. CASE MakeCluster
  <2>1. PICK n \in Replicas : MakePool("kv", n)
    BY <1>1 DEF MakeCluster
  <2>2. pc = "cluster" /\ pc' = "clients" /\ pools.kv = <<>> /\ n \in 3 .. 5
    BY <1>1, <2>1 DEF MakeCluster, SimInv, Named
  <2>3. /\ DOMAIN pools' = DOMAIN pools
        /\ pools'.clients = pools.clients
        /\ pools'.kv = <<>> \o [k \in 1 .. n |->
                                  MakeServerName(MakeNameTemplate("kv"), 0 + k)]
    BY <2>1, <2>2 DEF MakePool, AddToPool, AddServers, SimInv, Named
  <2>4. /\ pools'.kv = [k \in 1 .. n |-> MakeServerName(MakeNameTemplate("kv"), k)]
        /\ Len(pools'.kv) = n
    BY <2>2, <2>3
  <2>5. Named'
    BY <2>2, <2>3, <2>4 DEF SimInv, Named, HostsOf
  <2>. QED
    BY <1>1, <2>2, <2>5 DEF MakeCluster, runVars, SimInv, StarOnly, VictimOnly, Running,
       NobodyPanics
<1>2. CASE AddClients
  <2>1. PICK n \in Clients : AddToPool("clients", "Client", n)
    BY <1>2 DEF AddClients
  <2>2. pc = "clients" /\ pc' = "adversaries" /\ pools.clients = <<>> /\ n \in 2 .. 3
    BY <1>2, <2>1 DEF AddClients, SimInv, Named
  <2>3. /\ DOMAIN pools' = DOMAIN pools
        /\ pools'.kv = pools.kv
        /\ pools'.clients = <<>> \o [k \in 1 .. n |-> MakeServerName("Client", 0 + k)]
    BY <2>1, <2>2 DEF AddToPool, AddServers, SimInv, Named
  <2>4. pools'.clients = [k \in 1 .. n |-> MakeServerName("Client", k)]
    BY <2>2, <2>3
  <2>5. Named'
    BY <2>2, <2>3, <2>4, NamesFact DEF SimInv, Named, HostsOf
  <2>. QED
    BY <1>2, <2>2, <2>5 DEF AddClients, runVars, SimInv, StarOnly, VictimOnly, Running,
       NobodyPanics
<1>3. CASE AddAdversaries
  <2>1. PICK chosen \in SUBSET {Net, Node, Reaper} :
          AddToPool("adversaries", "Adversary", Cardinality(chosen))
    BY <1>3 DEF AddAdversaries
  <2>2. pc = "adversaries" /\ pc' = "globals"
    BY <1>3 DEF AddAdversaries
  <2>3. /\ DOMAIN pools' = DOMAIN pools
        /\ pools'.kv = pools.kv /\ pools'.clients = pools.clients
    BY <2>1 DEF AddToPool, AddServers, SimInv, Named
  <2>4. Named'
    BY <2>2, <2>3 DEF SimInv, Named, HostsOf
  <2>. QED
    BY <1>3, <2>2, <2>4 DEF AddAdversaries, SimInv, StarOnly, VictimOnly, Running,
       NobodyPanics
<1>4. CASE SetGlobals
  <2>1. pc = "globals" /\ pc' = "start" /\ pools' = pools /\ UNCHANGED runVars
    BY <1>4 DEF SetGlobals
  <2>2. Named'
    BY <2>1 DEF SimInv, Named, HostsOf
  <2>. QED
    BY <2>1, <2>2 DEF runVars, SimInv, StarOnly, VictimOnly, Running, NobodyPanics
<1>. QED
  BY <1>1, <1>2, <1>3, <1>4

\* The budget of the reaper is drawn (kv/main.cpp:161-165, world/world.cpp:42).
LEMMA StartStep ==
  ASSUME SimInv, Start
  PROVE  SimInv'
<1>1. /\ pc = "start" /\ pc' = "run"
      /\ state' = [h \in Nodes |-> "Running"]
      /\ pools' = pools
      /\ coordinator' = [c \in HostsOf("clients") |-> Nowhere]
      /\ UNCHANGED <<paused, victim, panicked>>
  BY DEF Start
<1>2. Named' /\ Nodes' = Nodes /\ CrashBound' = CrashBound
  BY <1>1, SMTT(30) DEF SimInv, Named, Nodes, HostsOf, CrashBound
<1>3. PICK n \in IF Reaper \in DOMAIN fiber THEN 0 .. CrashBound ELSE {0} :
        /\ crashes' = n
        /\ fiber' = [h \in HostsOf("clients") \cup DOMAIN fiber |->
                       IF h = Reaper /\ n = 0 THEN "done" ELSE "asleep"]
  BY DEF Start
<1>4. CrashBound \in Nat
  BY <1>1, NodesFact DEF SimInv
<1>5. Crashed' = {}
  BY <1>1, <1>2 DEF Crashed
<1>6. crashes' \in Nat /\ Cardinality(Crashed') + crashes' <= CrashBound'
  BY <1>2, <1>3, <1>4, <1>5, FS_EmptySet
<1>7. Reaper \in DOMAIN fiber' /\ fiber'[Reaper] = "asleep" => crashes' > 0
  BY <1>3, <1>4
<1>8. Running'
  BY <1>1, <1>2, <1>6, <1>7 DEF Running, HostsOf
<1>. QED
  BY <1>1, <1>2, <1>8 DEF SimInv, StarOnly, VictimOnly, NobodyPanics

\* What a step in a run leaves alone: the names and so the nodes
\* (world/world.hpp:248-263).
LEMMA SameNodes ==
  ASSUME SimInv, pc = "run", pc' = "run", pools' = pools
  PROVE  Named' /\ Nodes' = Nodes /\ CrashBound' = CrashBound /\ IsFiniteSet(Nodes)
BY NodesFact, SMTT(30) DEF SimInv, Named, Nodes, HostsOf, CrashBound

\* Steps of the clients, and time (kv/main.cpp:60-90, 252-257): nothing changes
\* for an adversary.
LEMMA ClientStep ==
  ASSUME SimInv, pc = "run", pc' = "run", pools' = pools,
         UNCHANGED <<state, paused, victim, crashes, panicked>>,
         DOMAIN coordinator' = DOMAIN coordinator,
         DOMAIN fiber' = DOMAIN fiber,
         \A h \in {Net, Node, Reaper} : h \in DOMAIN fiber => fiber'[h] = fiber[h]
  PROVE  SimInv'
<1>1. Named' /\ Nodes' = Nodes /\ CrashBound' = CrashBound
  BY SameNodes
<1>2. Crashed' = Crashed
  BY <1>1 DEF Crashed
<1>3. HostsOf("clients")' = HostsOf("clients")
  BY DEF HostsOf
<1>4. Running'
  BY <1>1, <1>2, <1>3 DEF SimInv, Running
<1>5. StarOnly' /\ VictimOnly'
  BY DEF SimInv, StarOnly, VictimOnly
<1>. QED
  BY <1>1, <1>4, <1>5 DEF SimInv, NobodyPanics

\* A client sends, retries, waits, gets its answer and counts it
\* (kv/main.cpp:60-90).
LEMMA ClientsStep ==
  ASSUME SimInv,
         NEW c \in DOMAIN coordinator,
         ClientCalls(c) \/ Retry(c) \/ Answer(c) \/ Wait(c) \/ ClientCounts(c)
  PROVE  SimInv'
<1>1. pc = "run" /\ pc' = "run" /\ c \in DOMAIN fiber
  BY DEF ClientCalls, Retry, Answer, Wait, ClientCounts, At, Stepping
<1>2. c \notin {Net, Node, Reaper}
  BY <1>1 DEF SimInv, Running, Named
<1>3. pools' = pools /\ UNCHANGED <<state, paused, victim, crashes, panicked>>
  BY DEF ClientCalls, Retry, Answer, Wait, ClientCounts, setupVars
<1>4. \/ coordinator' = coordinator
      \/ \E h : coordinator' = [coordinator EXCEPT ![c] = h]
  BY DEF ClientCalls, Retry, Answer, Wait, ClientCounts
<1>5. fiber' = fiber \/ \E w : fiber' = [fiber EXCEPT ![c] = w]
  BY DEF ClientCalls, Retry, Answer, Wait, ClientCounts
<1>6. DOMAIN coordinator' = DOMAIN coordinator
  BY <1>4
<1>7. /\ DOMAIN fiber' = DOMAIN fiber
      /\ \A h \in {Net, Node, Reaper} : h \in DOMAIN fiber => fiber'[h] = fiber[h]
  BY <1>2, <1>5
<1>. QED
  BY <1>1, <1>3, <1>6, <1>7, ClientStep

\* Held frames that go on wake clients only: no adversary is ever stuck
\* (network/link.cpp:52-62).
LEMMA WakingFact ==
  /\ DOMAIN Waking(fiber) = DOMAIN fiber
  /\ \A h \in DOMAIN fiber : fiber[h] # "stuck" => Waking(fiber)[h] = fiber[h]
BY DEF Waking

\* The star goes up and comes down (kv/main.cpp:95-116).
LEMMA NetStep ==
  ASSUME SimInv, NetAdversarySplits \/ NetAdversaryHeals
  PROVE  SimInv'
<1>1. /\ pc = "run" /\ pc' = "run" /\ Net \in DOMAIN fiber
      /\ pools' = pools
      /\ UNCHANGED <<state, victim, crashes, coordinator>>
  BY DEF NetAdversarySplits, NetAdversaryHeals, At, Stepping, setupVars
<1>2. Named' /\ Nodes' = Nodes /\ CrashBound' = CrashBound
  BY <1>1, SameNodes
<1>3. Crashed' = Crashed /\ HostsOf("clients")' = HostsOf("clients")
  BY <1>1, <1>2 DEF Crashed, HostsOf
<1>4. /\ DOMAIN fiber' = DOMAIN fiber
      /\ \A h \in {Node, Reaper} : h \in DOMAIN fiber /\ fiber[h] # "stuck" =>
           fiber'[h] = fiber[h]
      /\ \A h \in {Node, Reaper} : h \in DOMAIN fiber /\ fiber[h] = "stuck" =>
           fiber'[h] \in {"sent", "stuck"}
  BY NamesFact DEF NetAdversarySplits, NetAdversaryHeals, Waking
<1>5. Running'
  BY <1>1, <1>2, <1>3, <1>4 DEF SimInv, Running
<1>6. VictimOnly'
  BY <1>1, <1>4 DEF SimInv, VictimOnly
<1>7. StarOnly' /\ NobodyPanics'
  <2>1. CASE NetAdversarySplits
    <3>1. paused = {} /\ fiber[Net] = "asleep"
      BY <2>1 DEF NetAdversarySplits, At, SimInv, StarOnly
    <3>2. fiber' = [fiber EXCEPT ![Net] = "star"] /\ panicked' = FALSE
      BY <2>1, <3>1 DEF NetAdversarySplits
    <3>. QED
      BY <1>1, <3>2 DEF StarOnly, NobodyPanics
  <2>2. CASE NetAdversaryHeals
    BY <2>2 DEF NetAdversaryHeals, SimInv, StarOnly, NobodyPanics
  <2>. QED
    BY <2>1, <2>2
<1>. QED
  BY <1>2, <1>5, <1>6, <1>7 DEF SimInv

\* Reboot, freeze, thaw and wall clock (kv/main.cpp:120-146).
LEMMA NodeStep ==
  ASSUME SimInv,
         \/ NodeAdversaryReboots \/ NodeAdversaryFreezes
         \/ NodeAdversaryThaws \/ NodeAdversaryAdjusts
  PROVE  SimInv'
<1>1. /\ pc = "run" /\ pc' = "run" /\ Node \in DOMAIN fiber
      /\ pools' = pools
      /\ UNCHANGED <<paused, crashes, panicked>>
  BY DEF NodeAdversaryReboots, NodeAdversaryFreezes, NodeAdversaryThaws,
     NodeAdversaryAdjusts, At, Stepping, setupVars
<1>2. /\ Named' /\ Nodes' = Nodes /\ CrashBound' = CrashBound
      /\ HostsOf("clients")' = HostsOf("clients")
  BY <1>1, SameNodes DEF HostsOf
<1>3. /\ DOMAIN fiber' = DOMAIN fiber
      /\ \A h \in {Net, Reaper} : h \in DOMAIN fiber /\ fiber[h] # "stuck" =>
           fiber'[h] = fiber[h]
      /\ \A h \in {Net, Reaper} : h \in DOMAIN fiber /\ fiber[h] = "stuck" =>
           fiber'[h] \in {"sent", "stuck"}
  BY NamesFact DEF NodeAdversaryReboots, NodeAdversaryFreezes, NodeAdversaryThaws,
     NodeAdversaryAdjusts, Waking
<1>4. DOMAIN coordinator' = DOMAIN coordinator
  BY DEF NodeAdversaryReboots, NodeAdversaryFreezes, NodeAdversaryThaws,
     NodeAdversaryAdjusts, Disconnected
<1>5. /\ state \in [Nodes -> {"Running", "Paused", "Crashed"}]
      /\ \A h \in Nodes : state[h] = "Paused" => h = victim
      /\ Nowhere \notin Nodes
  BY <1>1, NodesFact DEF SimInv, Running
<1>6. /\ state' \in [Nodes -> {"Running", "Paused", "Crashed"}]
      /\ \A h \in Nodes : state'[h] = "Crashed" <=> state[h] = "Crashed"
      /\ \A h \in Nodes : state'[h] = "Paused" => h = victim'
      /\ VictimOnly'
  <2>1. CASE NodeAdversaryReboots
    <3>1. victim' = victim /\ victim = Nowhere
      BY <2>1 DEF NodeAdversaryReboots, At, SimInv, VictimOnly
    <3>2. \/ state' = state
          \/ \E h \in Nodes : IsAlive(h) /\ state' = [state EXCEPT ![h] = "Running"]
      BY <2>1 DEF NodeAdversaryReboots, RandomServer, ListPool, Nodes
    <3>. QED
      BY <1>5, <3>1, <3>2 DEF IsAlive, VictimOnly
  <2>2. CASE NodeAdversaryFreezes
    <3>1. victim = Nowhere
      BY <2>2 DEF NodeAdversaryFreezes, At, SimInv, VictimOnly
    <3>2. PICK h \in Nodes :
            /\ victim' = h
            /\ state' = IF IsAlive(h) THEN [state EXCEPT ![h] = "Paused"] ELSE state
      BY <2>2 DEF NodeAdversaryFreezes, RandomServer, ListPool, Nodes
    <3>3. Node \in DOMAIN fiber' /\ fiber'[Node] = "frozen"
      BY <1>1, <2>2 DEF NodeAdversaryFreezes
    <3>. QED
      BY <1>1, <1>5, <3>1, <3>2, <3>3 DEF IsAlive, VictimOnly
  <2>3. CASE NodeAdversaryThaws
    <3>1. /\ victim' = Nowhere
          /\ state' = IF state[victim] = "Paused"
                        THEN [state EXCEPT ![victim] = "Running"] ELSE state
      BY <2>3 DEF NodeAdversaryThaws
    <3>2. victim \in Nodes => state'[victim] # "Paused"
      BY <1>5, <3>1
    <3>3. \A h \in Nodes : h # victim => state'[h] = state[h]
      BY <1>5, <3>1
    <3>. QED
      BY <1>5, <3>1, <3>2, <3>3 DEF VictimOnly
  <2>4. CASE NodeAdversaryAdjusts
    <3>1. victim' = victim /\ victim = Nowhere /\ state' = state
      BY <2>4 DEF NodeAdversaryAdjusts, At, SimInv, VictimOnly
    <3>. QED
      BY <1>5, <3>1 DEF VictimOnly
  <2>. QED
    BY <2>1, <2>2, <2>3, <2>4
<1>7. Crashed' = Crashed
  BY <1>2, <1>6 DEF Crashed
<1>8. Running'
  BY <1>1, <1>2, <1>3, <1>4, <1>6, <1>7 DEF SimInv, Running
<1>9. StarOnly' /\ NobodyPanics'
  BY <1>1, <1>3 DEF SimInv, StarOnly, NobodyPanics
<1>. QED
  BY <1>2, <1>6, <1>8, <1>9 DEF SimInv

\* A crash is taken from the budget, on a dead node too (kv/main.cpp:166-177).
LEMMA ReaperStep ==
  ASSUME SimInv, ReaperCrashes
  PROVE  SimInv'
<1>1. /\ pc = "run" /\ pc' = "run"
      /\ Reaper \in DOMAIN fiber /\ fiber[Reaper] = "asleep"
      /\ pools' = pools
      /\ UNCHANGED <<paused, victim>>
      /\ crashes' = crashes - 1
      /\ fiber' = [Waking(fiber) EXCEPT ![Reaper] = IF crashes = 1 THEN "done" ELSE "asleep"]
  BY DEF ReaperCrashes, At, Stepping, setupVars
<1>2. /\ Named' /\ Nodes' = Nodes /\ CrashBound' = CrashBound
      /\ HostsOf("clients")' = HostsOf("clients") /\ IsFiniteSet(Nodes)
  BY <1>1, SameNodes DEF HostsOf
<1>3. /\ crashes \in Nat /\ crashes > 0
      /\ Cardinality(Crashed) + crashes <= CrashBound
      /\ state \in [Nodes -> {"Running", "Paused", "Crashed"}]
      /\ \A h \in Nodes : state[h] = "Paused" => h = victim
      /\ CrashBound \in Nat
  BY <1>1, NodesFact DEF SimInv, Running
<1>4. DOMAIN coordinator' = DOMAIN coordinator
  BY DEF ReaperCrashes, Disconnected
<1>5. /\ DOMAIN fiber' = DOMAIN fiber
      /\ \A h \in {Net, Node} : h \in DOMAIN fiber /\ fiber[h] # "stuck" =>
           fiber'[h] = fiber[h]
      /\ fiber'[Reaper] = "asleep" => crashes # 1
  BY <1>1, NamesFact DEF Waking
<1>6. /\ state' \in [Nodes -> {"Running", "Paused", "Crashed"}]
      /\ \A h \in Nodes : state'[h] = "Paused" => h = victim'
      /\ Crashed' = Crashed \/ \E h \in Nodes : Crashed' = Crashed \cup {h}
      /\ NobodyPanics'
  <2>1. PICK h \in Nodes :
          IF IsAlive(h)
          THEN /\ state' = [state EXCEPT ![h] = "Crashed"]
               /\ panicked' = (state[h] = "Crashed")
          ELSE UNCHANGED <<state, panicked>>
    BY DEF ReaperCrashes, RandomServer, ListPool, Nodes
  <2>2. CASE IsAlive(h)
    <3>1. state' = [state EXCEPT ![h] = "Crashed"] /\ panicked' = FALSE
      BY <2>1, <2>2 DEF IsAlive
    <3>2. Crashed' = Crashed \cup {h}
      BY <1>2, <1>3, <3>1 DEF Crashed
    <3>. QED
      BY <1>1, <1>3, <3>1, <3>2 DEF NobodyPanics
  <2>3. CASE ~ IsAlive(h)
    BY <1>1, <1>2, <1>3, <2>1, <2>3 DEF Crashed, SimInv, NobodyPanics
  <2>. QED
    BY <2>2, <2>3
<1>7. /\ IsFiniteSet(Crashed) /\ Cardinality(Crashed) \in Nat
      /\ Cardinality(Crashed') \in Nat
      /\ Cardinality(Crashed') <= Cardinality(Crashed) + 1
  <2>1. IsFiniteSet(Crashed)
    BY <1>2, FS_Subset DEF Crashed
  <2>2. Cardinality(Crashed) \in Nat
    BY <2>1, FS_CardinalityType
  <2>3. \A h \in Nodes : Cardinality(Crashed \cup {h}) \in
          {Cardinality(Crashed), Cardinality(Crashed) + 1}
    BY <2>1, FS_AddElement
  <2>. HIDE DEF Crashed
  <2>. QED
    BY <1>6, <2>1, <2>2, <2>3
<1>8. crashes' \in Nat /\ Cardinality(Crashed') + crashes' <= CrashBound'
  BY <1>1, <1>2, <1>3, <1>7
<1>9. Reaper \in DOMAIN fiber' /\ fiber'[Reaper] = "asleep" => crashes' > 0
  BY <1>1, <1>3, <1>5
<1>10. Running'
  BY <1>1, <1>2, <1>4, <1>6, <1>8, <1>9 DEF SimInv, Running
<1>11. StarOnly' /\ VictimOnly'
  BY <1>1, <1>5 DEF SimInv, StarOnly, VictimOnly
<1>. QED
  BY <1>2, <1>6, <1>10, <1>11 DEF SimInv

\* Time passes, the world is stopped, the history is judged (kv/main.cpp:249-293).
LEMMA EndStep ==
  ASSUME SimInv, TimePasses \/ Stop \/ Judge
  PROVE  SimInv'
<1>1. CASE TimePasses
  BY <1>1, ClientStep DEF TimePasses, Stepping, setupVars
<1>2. CASE Stop
  <2>1. pc' = "judge" /\ paused' = {} /\ victim' = Nowhere /\ panicked' = panicked
    BY <1>2 DEF Stop
  <2>2. Named'
    BY <1>2, <2>1 DEF Stop, ClearPools, Named, HostsOf
  <2>. QED
    BY <2>1, <2>2 DEF SimInv, StarOnly, VictimOnly, Running, NobodyPanics
<1>3. CASE Judge
  BY <1>3 DEF Judge, setupVars, runVars, SimInv, Named, HostsOf, StarOnly, VictimOnly,
     Running, NobodyPanics
<1>. QED
  BY <1>1, <1>2, <1>3

\* Between two simulations the runner changes nothing of them, and a simulation
\* that returns leaves an empty world (test/runner.cpp:27-76).
LEMMA RunnerLeaves ==
  ASSUME SimInv, UNCHANGED simVars \/ Return
  PROVE  SimInv'
<1>1. CASE UNCHANGED simVars
  BY <1>1 DEF simVars, setupVars, runVars, SimInv, Named, HostsOf, StarOnly, VictimOnly,
     Running, NobodyPanics, Nodes, Crashed, CrashBound
<1>2. CASE Return
  BY <1>2 DEF Return, SimInv, Named, HostsOf, StarOnly, VictimOnly, Running, NobodyPanics
<1>. QED
  BY <1>1, <1>2

\* Every step of the runner's program keeps the invariant of the simulation
\* (kv/main.cpp:200-293, test/runner.cpp:27-93).
LEMMA SimInvStep == SimInv /\ [Next]_vars => SimInv'
<1>. SUFFICES ASSUME SimInv, [Next]_vars PROVE SimInv'
  OBVIOUS
<1>1. CASE Simulate
  BY <1>1, SetupStep, StartStep, ClientsStep, NetStep, NodeStep, ReaperStep, EndStep
     DEF Simulate, SimNext
<1>2. CASE ~ Simulate
  <2>1. UNCHANGED simVars \/ Return
    BY <1>2 DEF Next, vars, RunSingleSimulation, SingleSimulationReturns, TestDeterminism,
       RunAgain, CompareDigests, SkipDeterminism, RunSimulations, SimulationReturns,
       Congratulate, Fail
  <2>. QED
    BY <2>1, RunnerLeaves
<1>. QED
  BY <1>1, <1>2
-----------------------------------------------------------------------------
(* What follows *)

\* With all faults undone a majority runs and can talk (kv/main.cpp:114-165).
LEMMA MajorityIsLeft == SimInv => FaultsAreUndone
<1>. SUFFICES ASSUME SimInv, pc = "run", victim = Nowhere,
                     ~ (Net \in DOMAIN fiber /\ fiber[Net] = "star")
              PROVE  /\ \A h \in Nodes : state[h] = "Running" => Serves(h)
                     /\ \E h \in Nodes : Serves(h)
  BY DEF FaultsAreUndone
<1>. DEFINE R == {h \in Nodes : state[h] = "Running"}
            n == Len(pools.kv)
<1>1. /\ n \in 3 .. 5 /\ IsFiniteSet(Nodes) /\ Cardinality(Nodes) = n
      /\ Nowhere \notin Nodes /\ CrashBound \in Nat /\ Majority \in Nat
      /\ n - CrashBound >= Majority /\ Majority > 0
  BY NodesFact DEF SimInv
<1>2. /\ paused = {}
      /\ state \in [Nodes -> {"Running", "Paused", "Crashed"}]
      /\ \A h \in Nodes : state[h] # "Paused"
      /\ crashes \in Nat /\ Cardinality(Crashed) + crashes <= CrashBound
  BY <1>1 DEF SimInv, StarOnly, Running
<1>3. R = Nodes \ Crashed /\ Crashed \subseteq Nodes
  BY <1>2 DEF Crashed
<1>4. IsFiniteSet(R) /\ Cardinality(R) = n - Cardinality(Crashed)
  <2>1. IsFiniteSet(Crashed) /\ Nodes \cap Crashed = Crashed
    BY <1>1, <1>3, FS_Subset
  <2>. HIDE DEF R
  <2>. QED
    BY <1>1, <1>3, <2>1, FS_Difference
<1>5. Cardinality(R) >= Majority
  <2>1. Cardinality(Crashed) \in Nat
    BY <1>1, <1>3, FS_Subset, FS_CardinalityType
  <2>. HIDE DEF R, n
  <2>. QED
    BY <1>1, <1>2, <1>4, <2>1
<1>6. \A h \in R : Serves(h)
  <2>1. \A h : {r \in Nodes : /\ state[r] = "Running"
                             /\ <<h, r>> \notin paused
                             /\ <<r, h>> \notin paused} = R
    BY <1>2
  <2>. QED
    BY <1>5, <2>1 DEF Serves
<1>7. R # {}
  <2>1. R = {} => Cardinality(R) = 0
    BY FS_EmptySet
  <2>. HIDE DEF R, n
  <2>. QED
    BY <1>1, <1>5, <2>1
<1>. QED
  BY <1>6, <1>7

\* The faults that the adversaries inject side by side are all within what the
\* simulator allows (network/link.cpp:45, server/server.cpp:52).
THEOREM AdversariesAreLegal == Spec => []NobodyPanics
<1>1. SimInv => NobodyPanics
  BY DEF SimInv
<1>. QED
  BY <1>1, SimInvInit, SimInvStep, PTL DEF Spec

\* With no star and no freeze going on every node that runs serves requests,
\* for every size of the cluster (kv/main.cpp:114, 143, 162).
THEOREM StoreRecovers == Spec => []FaultsAreUndone
BY MajorityIsLeft, SimInvInit, SimInvStep, PTL DEF Spec
=============================================================================
