----------------------------- MODULE Simulation -----------------------------
(***************************************************************************)
(* RunSimulation of src/examples/kv/main.cpp: one world is set up, its     *)
(* clients call the store while adversaries split the network, freeze,     *)
(* reboot and crash its nodes, and when enough requests are completed the  *)
(* run is judged.                                                          *)
(*                                                                         *)
(* The programs sleep for random times, so any timer may be the next to    *)
(* go off; of the time that has elapsed only the limits the program looks  *)
(* at are kept (era).  Of the store (modules KVStore and Transport) what   *)
(* decides whether a request gets through is kept: it needs its            *)
(* coordinator and a majority the coordinator can talk to.  A request that *)
(* finds them waits until a fault is undone.                               *)
(*                                                                         *)
(* A build with Address Sanitizer is another program: its World::Stop ends *)
(* the process with success before anything is judged (world.cpp:136-139). *)
(***************************************************************************)
EXTENDS WorldSetup, FiniteSets

CONSTANTS
  Replicas, Clients, Keys,  \* what the parameters are drawn from
  Threshold,    \* kRequestsThreshold
  Nowhere       \* the coordinator of a call that has lost it

ASSUME SimulationAssumption ==
  /\ Replicas \subseteq 3 .. 5 /\ Clients \subseteq 2 .. 3 /\ Keys \subseteq 1 .. 2
  /\ Threshold \in Nat

\* Nowhere is no node.
ASSUME NowhereAssumption ==
  \A i \in 1 .. 5 : Nowhere # MakeServerName(MakeNameTemplate("kv"), i)

VARIABLES
  pc,           \* where RunSimulation is
  era,          \* "faults" until kNoMoreFaults, "calm" until kTimeLimit, "over"
  state,        \* of the nodes, Server::state_
  paused,       \* links that are paused
  fiber,        \* what the program of a client or an adversary waits for
  coordinator,  \* of the call of a client
  victim,       \* the node NodeAdversary has frozen
  crashes,      \* crashes NodeReaper has left
  panicked,     \* a check of the simulator has failed
  report        \* how the run ended

runVars == <<era, state, paused, fiber, coordinator, victim, crashes, panicked>>

simVars == <<setupVars, pc, report, runVars>>

\* The three adversary programs (Adversary-1 and so on are hosts that run them)
Net == <<"Net-Adversary", 0>>
Node == <<"Node-Adversary", 0>>
Reaper == <<"Node-Reaper", 0>>

Nodes == HostsOf("kv")

Majority == Len(pools.kv) \div 2 + 1

\* The clients there may be.
ClientName == UNION {{MakeServerName("Client", i) : i \in 1 .. n} : n \in Clients}
-----------------------------------------------------------------------------
(* Setting up *)

\* The world a simulation begins with is empty.
SimInit ==
  /\ NoWorld
  /\ pc = "cluster"
  /\ era = "faults"
  /\ state = <<>>
  /\ paused = {}
  /\ fiber = <<>>
  /\ coordinator = <<>>
  /\ victim = Nowhere
  /\ crashes = 0
  /\ panicked = FALSE
  /\ report = "none"

MakeCluster ==
  /\ pc = "cluster"
  /\ \E n \in Replicas : MakePool("kv", n)
  /\ pc' = "clients"
  /\ UNCHANGED <<globals, report, runVars>>

AddClients ==
  /\ pc = "clients"
  /\ \E n \in Clients : AddToPool("clients", "Client", n)
  /\ pc' = "adversaries"
  /\ UNCHANGED <<globals, report, runVars>>

\* Any of the three may be there.
AddAdversaries ==
  /\ pc = "adversaries"
  /\ \E chosen \in SUBSET {Net, Node, Reaper} :
       /\ AddToPool("adversaries", "Adversary", Cardinality(chosen))
       /\ fiber' = [a \in chosen |-> "asleep"]
  /\ pc' = "globals"
  /\ UNCHANGED <<globals, report, era, state, paused, coordinator, victim, crashes, panicked>>

SetGlobals ==
  /\ pc = "globals"
  /\ \E k \in Keys : globals' = [globals EXCEPT !.keys = k, !.requests = 0]
  /\ pc' = "start"
  /\ UNCHANGED <<pools, actors, report, runVars>>

\* Slip: half of the nodes may crash.
HalfOfNodes == (Len(pools.kv) + 1) \div 2

\* A bound on the number of crashes
CrashBound == (Len(pools.kv) - 1) \div 2

\* World::Start, and the first step of every program: all go to sleep, but a
\* reaper without a budget, which is done.
Start ==
  /\ pc = "start"
  /\ AddNetwork
  /\ state' = [h \in Nodes |-> "Running"]
  /\ \E n \in IF Reaper \in DOMAIN fiber THEN 0 .. CrashBound ELSE {0} :
       /\ crashes' = n
       /\ fiber' = [h \in HostsOf("clients") \cup DOMAIN fiber |->
                      IF h = Reaper /\ n = 0 THEN "done" ELSE "asleep"]
  /\ coordinator' = [c \in HostsOf("clients") |-> Nowhere]
  /\ pc' = "run"
  /\ UNCHANGED <<pools, globals, report, era, paused, victim, panicked>>
-----------------------------------------------------------------------------
(* Faults *)

IsAlive(h) == state[h] \in {"Running", "Paused"}
Alive == {h \in Nodes : IsAlive(h)}

\* MakeStar: leaves talk to the centre only, and not to themselves either.
StarLinks(center) == (Nodes \ {center}) \X (Nodes \ {center})

\* RandomServer, of the pool an adversary has listed when it began
RandomServer == ListPool("kv")

\* The requests that wait are tried again: frames that a link or a paused
\* server has held back go on.
Waking(f) == [h \in DOMAIN f |-> IF f[h] = "stuck" THEN "sent" ELSE f[h]]

\* The connections to a node that crashes are reset.
Disconnected(h) ==
  [c \in DOMAIN coordinator |-> IF coordinator[c] = h THEN Nowhere ELSE coordinator[c]]

\* NodeAdversary goes round its loop.
NextRound == IF era = "faults" THEN "asleep" ELSE "done"
-----------------------------------------------------------------------------
(* A step of the world, while RunSimulation still loops *)

Stepping == pc = "run" /\ GetGlobal("requests") < Threshold /\ era # "over" /\ ~ panicked

At(h, wait) == Stepping /\ h \in DOMAIN fiber /\ fiber[h] = wait

\* Client: the next Set or Get goes to a random node.
ClientCalls(c) ==
  /\ At(c, "asleep")
  /\ \E h \in ListPool("kv") : coordinator' = [coordinator EXCEPT ![c] = h]
  /\ fiber' = [fiber EXCEPT ![c] = "sent"]
  /\ UNCHANGED <<setupVars, pc, report, era, state, paused, victim, crashes, panicked>>

\* A node answers if it runs and a majority, itself included, runs and can talk
\* to it.
Serves(h) ==
  /\ state[h] = "Running"
  /\ Cardinality({r \in Nodes : /\ state[r] = "Running"
                                /\ <<h, r>> \notin paused
                                /\ <<r, h>> \notin paused}) >= Majority

\* The request fails and is retried at another node.
Retry(c) ==
  /\ At(c, "sent")
  /\ coordinator[c] \notin Alive
  /\ \E h \in Nodes : coordinator' = [coordinator EXCEPT ![c] = h]
  /\ UNCHANGED <<setupVars, pc, report, era, state, paused, fiber, victim, crashes, panicked>>

Answer(c) ==
  /\ At(c, "sent")
  /\ coordinator[c] \in Alive /\ Serves(coordinator[c])
  /\ fiber' = [fiber EXCEPT ![c] = "answered"]
  /\ coordinator' = [coordinator EXCEPT ![c] = Nowhere]
  /\ UNCHANGED <<setupVars, pc, report, era, state, paused, victim, crashes, panicked>>

Wait(c) ==
  /\ At(c, "sent")
  /\ coordinator[c] \in Alive /\ ~ Serves(coordinator[c])
  /\ fiber' = [fiber EXCEPT ![c] = "stuck"]
  /\ UNCHANGED <<setupVars, pc, report, era, state, paused, coordinator, victim, crashes, panicked>>

\* Increment of the global counter, and the random pause
ClientCounts(c) ==
  /\ At(c, "answered")
  /\ Increment("requests")
  /\ fiber' = [fiber EXCEPT ![c] = "asleep"]
  /\ UNCHANGED <<pools, actors, pc, report, era, state, paused, coordinator, victim,
                 crashes, panicked>>

\* Link::Pause panics if the link is paused already.
NetAdversarySplits ==
  /\ At(Net, "asleep")
  /\ \E center \in RandomServer :
       /\ panicked' = (StarLinks(center) \cap paused # {})
       /\ paused' = paused \cup StarLinks(center)
  /\ fiber' = [fiber EXCEPT ![Net] = "star"]
  /\ UNCHANGED <<setupVars, pc, report, era, state, coordinator, victim, crashes>>

\* Slip: only one link is resumed.
NetAdversaryHealsOne ==
  /\ At(Net, "star")
  /\ \E l \in paused : paused' = paused \ {l}
  /\ fiber' = [Waking(fiber) EXCEPT ![Net] = "asleep"]
  /\ UNCHANGED <<setupVars, pc, report, era, state, coordinator, victim, crashes, panicked>>

NetAdversaryHeals ==
  /\ At(Net, "star")
  /\ paused' = {}
  /\ fiber' = [Waking(fiber) EXCEPT ![Net] = "asleep"]
  /\ UNCHANGED <<setupVars, pc, report, era, state, coordinator, victim, crashes, panicked>>

\* FastReboot crashes and launches a node that is alive and leaves others be.
NodeAdversaryReboots ==
  /\ At(Node, "asleep")
  /\ \E h \in RandomServer :
       IF IsAlive(h)
       THEN /\ state' = [state EXCEPT ![h] = "Running"]
            /\ coordinator' = Disconnected(h)
            /\ fiber' = [Waking(fiber) EXCEPT ![Node] = NextRound]
       ELSE /\ fiber' = [fiber EXCEPT ![Node] = NextRound]
            /\ UNCHANGED <<state, coordinator>>
  /\ UNCHANGED <<setupVars, pc, report, era, paused, victim, crashes, panicked>>

NodeAdversaryFreezes ==
  /\ At(Node, "asleep")
  /\ \E h \in RandomServer :
       /\ victim' = h
       /\ state' = IF IsAlive(h) THEN [state EXCEPT ![h] = "Paused"] ELSE state
  /\ fiber' = [fiber EXCEPT ![Node] = "frozen"]
  /\ UNCHANGED <<setupVars, pc, report, era, paused, coordinator, crashes, panicked>>

\* Slip: with the time for faults over the loop is left at once.
NodeAdversaryThawsInTime ==
  /\ At(Node, "frozen")
  /\ state' = IF state[victim] = "Paused" /\ era = "faults"
                THEN [state EXCEPT ![victim] = "Running"] ELSE state
  /\ fiber' = [Waking(fiber) EXCEPT ![Node] = NextRound]
  /\ victim' = Nowhere
  /\ UNCHANGED <<setupVars, pc, report, era, paused, coordinator, crashes, panicked>>

\* Resume does nothing if the reaper has been there meanwhile.
NodeAdversaryThaws ==
  /\ At(Node, "frozen")
  /\ state' = IF state[victim] = "Paused" THEN [state EXCEPT ![victim] = "Running"] ELSE state
  /\ fiber' = [Waking(fiber) EXCEPT ![Node] = NextRound]
  /\ victim' = Nowhere
  /\ UNCHANGED <<setupVars, pc, report, era, paused, coordinator, crashes, panicked>>

\* AdjustWallClock (module Clocks) delays nothing.
NodeAdversaryAdjusts ==
  /\ At(Node, "asleep")
  /\ fiber' = [fiber EXCEPT ![Node] = NextRound]
  /\ UNCHANGED <<setupVars, pc, report, era, state, paused, coordinator, victim, crashes, panicked>>

\* Server::Crash panics if the server is down already.
ReaperCrashes ==
  /\ At(Reaper, "asleep")
  /\ \E h \in RandomServer :
       IF IsAlive(h)
       THEN /\ state' = [state EXCEPT ![h] = "Crashed"]
            /\ coordinator' = Disconnected(h)
            /\ panicked' = (state[h] = "Crashed")
       ELSE UNCHANGED <<state, coordinator, panicked>>
  /\ crashes' = crashes - 1
  /\ fiber' = [Waking(fiber) EXCEPT ![Reaper] = IF crashes = 1 THEN "done" ELSE "asleep"]
  /\ UNCHANGED <<setupVars, pc, report, era, paused, victim>>

\* FindNextStep: something is due, some time.  With adversaries about sockets
\* send their pings.
Runnable ==
  HasAdversary \/ \E h \in DOMAIN fiber : fiber[h] \notin {"stuck", "done"}

TimePasses ==
  /\ Stepping /\ Runnable
  /\ \/ era = "faults" /\ era' = "calm"
     \/ era = "calm" /\ era' = "over"
  /\ UNCHANGED <<setupVars, pc, report, state, paused, fiber, coordinator, victim, crashes,
                 panicked>>
-----------------------------------------------------------------------------
(* The end *)

\* World::Stop: adversaries, network, servers and clients are shut down.
Stop ==
  /\ pc = "run" /\ ~ panicked
  /\ ~ (Stepping /\ Runnable)
  /\ ClearPools
  /\ state' = <<>>
  /\ paused' = {}
  /\ fiber' = <<>>
  /\ coordinator' = <<>>
  /\ victim' = Nowhere
  /\ crashes' = 0
  /\ pc' = "judge"
  /\ UNCHANGED <<globals, report, era, panicked>>

\* What LinCheck says of the history is open here (modules LinChecker, History).
Judge ==
  /\ pc = "judge"
  /\ IF GetGlobal("requests") < Threshold
       THEN report' = IF era = "over" THEN "Simulation time limit exceeded"
                                      ELSE "Deadlock in simulation"
       ELSE \E linearizable \in BOOLEAN :
              report' = IF linearizable THEN "ok" ELSE "History is NOT LINEARIZABLE"
  /\ pc' = "end"
  /\ UNCHANGED <<setupVars, runVars>>

SimNext ==
  \/ MakeCluster \/ AddClients \/ AddAdversaries \/ SetGlobals \/ Start
  \/ \E c \in DOMAIN coordinator :
       ClientCalls(c) \/ Retry(c) \/ Answer(c) \/ Wait(c) \/ ClientCounts(c)
  \/ NetAdversarySplits \/ NetAdversaryHeals
  \/ NodeAdversaryReboots \/ NodeAdversaryFreezes \/ NodeAdversaryThaws
  \/ NodeAdversaryAdjusts
  \/ ReaperCrashes
  \/ TimePasses
  \/ Stop \/ Judge

(* Every sleep is bounded and every frame is delivered some time, so a program *)
(* that can go on does; of the nodes a retry picks at random one is alive      *)
(* sooner or later.  Adversaries have to undo their faults, not to inject any;  *)
(* that the simulation runs out of time is not demanded either.                *)
RetryWorks(c) == Retry(c) /\ coordinator'[c] \in Alive

Fairness ==
  /\ WF_simVars(era = "faults" /\ TimePasses)
  /\ \A c \in ClientName :
       WF_simVars(ClientCalls(c) \/ RetryWorks(c) \/ Answer(c) \/ Wait(c) \/ ClientCounts(c))
  /\ WF_simVars(NetAdversaryHeals)
  /\ WF_simVars(NodeAdversaryThaws)
-----------------------------------------------------------------------------
(* Properties *)

TypeOK ==
  /\ era \in {"faults", "calm", "over"}
  /\ \A h \in DOMAIN state : state[h] \in {"Running", "Paused", "Crashed"}
  /\ paused \subseteq Nodes \X Nodes
  /\ DOMAIN coordinator \subseteq DOMAIN fiber
  /\ \A c \in DOMAIN coordinator : coordinator[c] \in Nodes \cup {Nowhere}
  /\ victim \in Nodes \cup {Nowhere}
  /\ crashes \in Nat
  /\ panicked \in BOOLEAN

\* Whatever the three adversaries did side by side, and in whatever order: with
\* no star and no freeze going on every node that runs serves requests, since
\* all links and frozen nodes have been resumed and the crash budget has left a
\* majority (kv/main.cpp:114, 143, 162).
FaultsAreUndone ==
  pc = "run" /\ victim = Nowhere /\ ~ (Net \in DOMAIN fiber /\ fiber[Net] = "star")
    => /\ \A h \in Nodes : state[h] = "Running" => Serves(h)
       /\ \E h \in Nodes : Serves(h)

\* No check of the simulator fails on the faults the adversaries inject: a link
\* is never paused twice, nor a dead server crashed (network/link.cpp:45,
\* server/server.cpp:52).
NobodyPanics == ~ panicked

\* A call that has run into a fault is taken up again: the adversary that is
\* in its way undoes the fault even when its time is over (kv/main.cpp:112-114,
\* 141-143), with no help of the time limit.  Clients run one program and are
\* alike: what holds of the first holds of all.
CallGoesOn ==
  LET c == MakeServerName("Client", 1) IN  At(c, "stuck") ~> ~ At(c, "stuck")

\* Without partitions the clients complete the requests the simulation waits
\* for: reboots, freezes and crashes end, and a majority is left.
CompletesWhenCalm ==
  (pc = "run" /\ Net \notin DOMAIN fiber)
    ~> (GetGlobal("requests") >= Threshold \/ era = "over")
-----------------------------------------------------------------------------
(* The inductive invariant behind FaultsAreUndone and NobodyPanics *)

Crashed == {h \in Nodes : state[h] = "Crashed"}

\* The nodes are numbered from one; no client has the name of an adversary.
Named ==
  /\ pools.kv = IF pc \in {"cluster", "judge", "end"} THEN <<>> ELSE
       [i \in 1 .. Len(pools.kv) |-> MakeServerName(MakeNameTemplate("kv"), i)]
  /\ pc \notin {"cluster", "judge", "end"} => Len(pools.kv) \in 3 .. 5
  /\ DOMAIN pools = {"kv", "clients", "adversaries"}
  /\ pc \in {"cluster", "clients", "judge", "end"} => pools.clients = <<>>
  /\ {Net, Node, Reaper} \cap HostsOf("clients") = {}

\* Links are paused only while there is a star.
StarOnly ==
  paused # {} => pc = "run" /\ Net \in DOMAIN fiber /\ fiber[Net] = "star"

\* The node that is paused is the one NodeAdversary comes back for.
VictimOnly ==
  victim # Nowhere => pc = "run" /\ Node \in DOMAIN fiber /\ fiber[Node] = "frozen"

\* Crashes so far and crashes to come are within the budget.
Running ==
  pc = "run" =>
    /\ state \in [Nodes -> {"Running", "Paused", "Crashed"}]
    /\ DOMAIN coordinator = HostsOf("clients")
    /\ \A h \in Nodes : state[h] = "Paused" => h = victim
    /\ crashes \in Nat /\ Cardinality(Crashed) + crashes <= CrashBound
    /\ Reaper \in DOMAIN fiber /\ fiber[Reaper] = "asleep" => crashes > 0

SimInv == Named /\ StarOnly /\ VictimOnly /\ Running /\ NobodyPanics
=============================================================================
