----------------------------- MODULE WorldSetup -----------------------------
(***************************************************************************)
(* world/world.hpp behind facade/world.hpp: how a world is put together    *)
(* before it starts.  Hosts are added to pools one by one and get their    *)
(* names from them; the order in which actors were added is the order in   *)
(* which World::FindNextStep asks them.  A name is a template and a        *)
(* number.                                                                 *)
(***************************************************************************)
EXTENDS Integers, Sequences

VARIABLES
  pools,        \* pools_, clients_ and adversaries_, each a sequence of hosts
  actors,       \* actors_
  globals       \* globals_: the variables of user programs

setupVars == <<pools, actors, globals>>

NetworkActor == <<"Network", 0>>

\* World::World
NoWorld ==
  /\ pools = [kv |-> <<>>, clients |-> <<>>, adversaries |-> <<>>]
  /\ actors = <<>>
  /\ globals = [keys |-> 0, requests |-> 0]

\* MakeServerName: numbers go on from those of the pool.
MakeServerName(template, index) == <<template, index>>

\* AddServerImpl: a host joins its pool and the actors.
AddServers(pool, hosts) ==
  /\ pools' = [pools EXCEPT ![pool] = @ \o hosts]
  /\ actors' = actors \o hosts

\* AddPool, or that many times AddClient or AddAdversary
AddToPool(pool, template, count) ==
  AddServers(pool,
    [i \in 1 .. count |-> MakeServerName(template, Len(pools[pool]) + i)])

\* PoolBuilder
MakeNameTemplate(pool) == "Server-" \o pool

MakePool(pool, size) == AddToPool(pool, MakeNameTemplate(pool), size)

\* UntypedDict
SetGlobal(key, value) == globals' = [globals EXCEPT ![key] = value]

GetGlobal(key) == globals[key]

\* GlobalCounter
Increment(name) == SetGlobal(name, GetGlobal(name) + 1)

\* World::Start adds the network last.
AddNetwork == actors' = Append(actors, NetworkActor)

\* World::Stop
ClearPools ==
  /\ pools' = [kv |-> <<>>, clients |-> <<>>, adversaries |-> <<>>]
  /\ actors' = <<>>

HostsOf(pool) == {pools[pool][i] : i \in DOMAIN pools[pool]}

HasAdversary == pools.adversaries # <<>>

\* GetPool: what Discovery tells a program of the servers of a pool.  Clients
\* and adversaries are in none.
ListPool(name) == IF name = "kv" THEN HostsOf(name) ELSE {}
=============================================================================
