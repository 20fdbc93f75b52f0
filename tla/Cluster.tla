------------------------------ MODULE Cluster ------------------------------
(***************************************************************************)
(* world/world.hpp: who lives in a world.  Servers live in pools and are   *)
(* the only hosts a fault reaches (World::FindServer looks in the pools);  *)
(* clients and adversaries are servers outside of them.                    *)
(***************************************************************************)
EXTENDS Naturals, FiniteSets

CONSTANTS
  Pool,         \* pools_
  Client,       \* clients_
  Adversary,    \* adversaries_
  SystemHost,   \* the hosts whose name starts with 'S' (Network IsSystem)
  HostIndex     \* the order in which hosts were added to the world

Host == Pool \cup Client \cup Adversary

ASSUME ClusterAssumption ==
  /\ IsFiniteSet(Host)
  /\ Pool \cap Client = {}
  /\ (Pool \cup Client) \cap Adversary = {}
  /\ SystemHost \subseteq Host
  /\ HostIndex \in [Host -> Nat]
  /\ \A h, i \in Host : HostIndex[h] = HostIndex[i] => h = i
=============================================================================
