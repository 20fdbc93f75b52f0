----------------------------- MODULE DurableMap -----------------------------
(***************************************************************************)
(* What a database promises the fibers of a process, crashes included: a   *)
(* map that changes by whole batches, each in one instant between the call *)
(* of Write and its return, that a crash leaves as it is, and that reads   *)
(* and snapshots see as it is.  A batch whose call a crash cuts short      *)
(* leaves nothing behind.                                                  *)
(***************************************************************************)
CONSTANTS
  Fiber, Key, Batch,
  NoValue,        \* what a read of a key that is not there returns
  NoEntries,      \* the empty map
  Apply(_, _),    \* what a batch makes of a map
  Lookup(_, _)    \* the value of a key in a map

VARIABLES
  map,        \* the map
  pending,    \* the batch each fiber is writing, <<>> if none
  result,     \* what the last read of each fiber returned
  snapshots   \* the snapshots of the process

vars == <<map, pending, result, snapshots>>

NoBatch == <<>>

Init ==
  /\ map = NoEntries
  /\ pending = [f \in Fiber |-> NoBatch]
  /\ result = [f \in Fiber |-> NoValue]
  /\ snapshots = {}

Begin(f) ==
  /\ pending[f] = NoBatch
  /\ \E b \in Batch : pending' = [pending EXCEPT ![f] = b]
  /\ UNCHANGED <<map, result, snapshots>>

Commit(f) ==
  /\ pending[f] # NoBatch
  /\ map' = Apply(map, pending[f])
  /\ pending' = [pending EXCEPT ![f] = NoBatch]
  /\ UNCHANGED <<result, snapshots>>

Read(f) ==
  /\ \E k \in Key : result' = [result EXCEPT ![f] = Lookup(map, k)]
  /\ UNCHANGED <<map, pending, snapshots>>

Snap ==
  /\ snapshots' = snapshots \cup {map}
  /\ UNCHANGED <<map, pending, result>>

Crash ==
  /\ pending' = [f \in Fiber |-> NoBatch]
  /\ result' = [f \in Fiber |-> NoValue]
  /\ snapshots' = {}
  /\ UNCHANGED map

Next == (\E f \in Fiber : Begin(f) \/ Commit(f) \/ Read(f)) \/ Snap \/ Crash

Spec == Init /\ [][Next]_vars
=============================================================================
