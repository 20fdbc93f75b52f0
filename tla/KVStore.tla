------------------------------ MODULE KVStore ------------------------------
(***************************************************************************)
(* src/examples/kv: a replicated key-value store, the program the          *)
(* simulator is shown with.  Every server is a coordinator, which answers  *)
(* clients and keeps nothing, and a replica, which keeps stamped values in *)
(* its database.  A Set is written to a majority of the replicas with a    *)
(* stamp from the coordinator's wall clock, a Get returns the newest of    *)
(* what a majority has.                                                    *)
(*                                                                         *)
(* Keys do not affect each other but for the mutex: the module is about    *)
(* one.  Every Set writes another value.  A call is one attempt of a       *)
(* client, as in the history (MakeRpcChannel puts retries above it); it    *)
(* begins when it reaches its coordinator and ends when that answers.  A   *)
(* request to a replica may arrive late, and again as long as it is not    *)
(* answered: it is sent AtLeastOnce.  Pauses and partitions only delay.  A *)
(* Put to the database takes effect in one instant and survives crashes    *)
(* (DurableMap).                                                           *)
(***************************************************************************)
EXTENDS Integers, FiniteSets

CONSTANTS
  Node,               \* the pool "kv"
  SetCall, GetCall,   \* the calls of clients
  WallTime,           \* what the wall clock of a node may show
  Crashable,          \* the nodes adversaries crash
  Nothing,            \* the value "" of a key that was not written
  None                \* no reply yet, no coordinator

Call == SetCall \cup GetCall

\* Slip: half of the nodes.
MajorityHalf == Cardinality(Node) \div 2

Majority == Cardinality(Node) \div 2 + 1

WriteTimestamp == Nat

StampedValue == [value : SetCall \cup {Nothing}, timestamp : WriteTimestamp]

\* WriteTimestamp::Min
MinTimestamp == 0

Unwritten == [value |-> Nothing, timestamp |-> MinTimestamp]

ASSUME KVAssumption ==
  /\ IsFiniteSet(Node)
  /\ SetCall \cap GetCall = {} /\ Nothing \notin SetCall
  /\ WallTime \subseteq Nat \ {0}
  /\ Crashable \subseteq Node
  /\ None \notin Node /\ None \notin StampedValue

VARIABLES
  up,            \* the nodes that run
  store,         \* what the database of each node has for the key
  busy,          \* the fibers of each node between TryGet and the end of Put
  status,        \* of each call: "idle", "running", "done", "lost"
  coordinator,   \* of a call that runs
  stamp,         \* write_ts of a Set
  acks,          \* the replicas that have acknowledged it
  replies,       \* what the replicas have answered to a Get
  result,        \* what it has returned
  before         \* the calls that were over when a Get began

vars == <<up, store, busy, status, coordinator, stamp, acks,
          replies, result, before>>

NoReplies == [n \in Node |-> None]

Done == {c \in Call : status[c] = "done"}

Init ==
  /\ up = Node
  /\ store = [n \in Node |-> Unwritten]
  /\ busy = [n \in Node |-> {}]
  /\ status = [c \in Call |-> "idle"]
  /\ coordinator = [c \in Call |-> None]
  /\ stamp = [c \in SetCall |-> 0]
  /\ acks = [c \in SetCall |-> {}]
  /\ replies = [c \in GetCall |-> NoReplies]
  /\ result = [c \in GetCall |-> Unwritten]
  /\ before = [c \in GetCall |-> {}]
-----------------------------------------------------------------------------
(* Coordinator *)

\* Clocks start with an offset of their own and adversaries adjust any of them
\* at any time: there is no order between the stamps of two calls.
ChooseWriteTimestamp(c) == \E time \in WallTime : stamp' = [stamp EXCEPT ![c] = time]

\* A call reaches a random server of the pool.
Begin(c, n) ==
  /\ status[c] = "idle" /\ n \in up
  /\ status' = [status EXCEPT ![c] = "running"]
  /\ coordinator' = [coordinator EXCEPT ![c] = n]

BeginSet(c, n) ==
  /\ Begin(c, n)
  /\ ChooseWriteTimestamp(c)
  /\ UNCHANGED <<up, store, busy, acks, replies, result, before>>

BeginGet(c, n) ==
  /\ Begin(c, n)
  /\ before' = [before EXCEPT ![c] = Done]
  /\ UNCHANGED <<up, store, busy, stamp, acks, replies, result>>

Finish(c) ==
  /\ status[c] = "running"
  /\ status' = [status EXCEPT ![c] = "done"]
  /\ coordinator' = [coordinator EXCEPT ![c] = None]

\* The acknowledgements of a quorum.
FinishSet(c) ==
  /\ Finish(c)
  /\ Cardinality(acks[c]) >= Majority
  /\ UNCHANGED <<up, store, busy, stamp, acks, replies, result, before>>

Quorum(replied) == {q \in SUBSET replied : Cardinality(q) = Majority}

MostRecent(values) ==
  {v \in values : \A w \in values : w.timestamp <= v.timestamp}

\* The first replies that make a majority, whichever they are.
FinishGet(c) ==
  /\ Finish(c)
  /\ \E q \in Quorum({n \in Node : replies[c][n] # None}) :
       \E v \in MostRecent({replies[c][n] : n \in q}) :
         result' = [result EXCEPT ![c] = v]
  /\ replies' = [replies EXCEPT ![c] = NoReplies]
  /\ UNCHANGED <<up, store, busy, stamp, acks, before>>
-----------------------------------------------------------------------------
(* Replica *)

Target(c) == [value |-> c, timestamp |-> stamp[c]]

Newer(c, local) == local = Unwritten \/ local.timestamp < stamp[c]

\* A request is repeated until it is answered (AtLeastOnce).  One that comes
\* after the answer finds its own stamp or a newer one: it changes nothing.
Requested(c, n) == status[c] # "idle" /\ n \notin acks[c]

\* Slip: no mutex; a fiber has read what another is about to replace.
TakeWriteUnguarded(c, n) ==
  /\ Requested(c, n) /\ n \in up
  /\ busy' = [busy EXCEPT ![n] = @ \cup {[call |-> c, local |-> store[n]]}]
  /\ UNCHANGED <<up, store, status, coordinator, stamp, acks, replies,
                 result, before>>

\* Slip: the acknowledgement does not wait for the Put.
TakeWriteAckEarly(c, n) ==
  /\ Requested(c, n) /\ n \in up
  /\ busy[n] = {}
  /\ busy' = [busy EXCEPT ![n] = {[call |-> c, local |-> store[n]]}]
  /\ acks' = [acks EXCEPT ![c] = IF status[c] = "running" THEN @ \cup {n} ELSE @]
  /\ UNCHANGED <<up, store, status, coordinator, stamp, replies, result,
                 before>>

\* LocalWrite takes the mutex and reads what there is.
TakeWrite(c, n) ==
  /\ Requested(c, n) /\ n \in up
  /\ busy[n] = {}
  /\ busy' = [busy EXCEPT ![n] = {[call |-> c, local |-> store[n]]}]
  /\ UNCHANGED <<up, store, status, coordinator, stamp, acks,
                 replies, result, before>>

\* The Put, if any, is over, the mutex is released and the acknowledgement sent.
FinishWrite(n) ==
  \E b \in busy[n] :
    /\ store' = [store EXCEPT ![n] =
                    IF Newer(b.call, b.local) THEN Target(b.call) ELSE @]
    /\ busy' = [busy EXCEPT ![n] = @ \ {b}]
    /\ acks' = [acks EXCEPT ![b.call] =
                  IF status[b.call] = "running" THEN @ \cup {n} ELSE @]
    /\ UNCHANGED <<up, status, coordinator, stamp, replies,
                   result, before>>

LocalRead(c, n) ==
  /\ status[c] = "running" /\ n \in up
  /\ replies[c][n] = None
  /\ replies' = [replies EXCEPT ![c][n] = store[n]]
  /\ UNCHANGED <<up, store, busy, status, coordinator, stamp,
                 acks, result, before>>
-----------------------------------------------------------------------------
(* Faults *)

\* Fibers die, and with them the calls the node coordinates; answers of the
\* node that are on their way may be lost.
Crash(n) ==
  /\ n \in up
  /\ up' = up \ {n}
  /\ busy' = [busy EXCEPT ![n] = {}]
  /\ status' = [c \in Call |->
                  IF coordinator[c] = n THEN "lost" ELSE status[c]]
  /\ coordinator' = [c \in Call |->
                       IF coordinator[c] = n THEN None ELSE coordinator[c]]
  /\ replies' = [c \in GetCall |->
                   IF coordinator[c] = n THEN NoReplies ELSE replies[c]]
  /\ \E unheard \in SUBSET {c \in SetCall : status[c] = "running"} :
       acks' = [c \in SetCall |->
                  IF coordinator[c] = n THEN {}
                  ELSE IF c \in unheard THEN acks[c] \ {n} ELSE acks[c]]
  /\ UNCHANGED <<store, stamp, result, before>>

Launch(n) ==
  /\ n \notin up
  /\ up' = up \cup {n}
  /\ UNCHANGED <<store, busy, status, coordinator, stamp, acks,
                 replies, result, before>>

Next ==
  \/ \E c \in SetCall, n \in Node : BeginSet(c, n) \/ TakeWrite(c, n)
  \/ \E c \in GetCall, n \in Node : BeginGet(c, n) \/ LocalRead(c, n)
  \/ \E c \in SetCall : FinishSet(c)
  \/ \E c \in GetCall : FinishGet(c)
  \/ \E n \in Node : FinishWrite(n) \/ Launch(n)
  \/ \E n \in Crashable : Crash(n)

Spec == Init /\ [][Next]_vars
-----------------------------------------------------------------------------
(* Properties *)

Fiber == [call : SetCall, local : StampedValue]

TypeOK ==
  /\ up \subseteq Node
  /\ store \in [Node -> StampedValue]
  /\ busy \in [Node -> SUBSET Fiber]
  /\ status \in [Call -> {"idle", "running", "done", "lost"}]
  /\ coordinator \in [Call -> Node \cup {None}]
  /\ stamp \in [SetCall -> Nat]
  /\ acks \in [SetCall -> SUBSET Node]
  /\ replies \in [GetCall -> [Node -> StampedValue \cup {None}]]
  /\ result \in [GetCall -> StampedValue]
  /\ before \in [GetCall -> SUBSET Call]
  /\ \A c \in Call : coordinator[c] # None <=> status[c] = "running"

\* A replica never gives a value up for one with an older stamp, whatever the
\* wall clocks show, however late or often requests arrive and wherever a
\* crash strikes (Replica::LocalWrite and its mutex).
StampsGrow ==
  [][\A n \in Node :
       store'[n] # store[n] =>
         \/ store[n] = Unwritten
         \/ store[n].timestamp < store'[n].timestamp]_vars

\* What a replica has acknowledged, it or something newer is in its database,
\* also after crashes (Replica::LocalWrite returns when Put does).
AckedIsKept ==
  \A c \in SetCall : \A n \in acks[c] : store[n].timestamp >= stamp[c]

\* A Get returns nothing older than any Set that was answered before the Get
\* began: the quorum it read meets the one that was written (Majority,
\* FindMostRecent).  Older means by its stamp.
ReadsAreFresh ==
  \A g \in GetCall : \A s \in before[g] \cap SetCall :
    status[g] = "done" => result[g].timestamp >= stamp[s]

\* What the fiber with the mutex has read is still there.
Decided ==
  \A n \in Node : \A b \in busy[n] :
    busy[n] = {b} /\ status[b.call] # "idle" /\ b.local = store[n]

\* What was answered was acknowledged by a majority.
Answered ==
  /\ \A c \in SetCall :
       /\ status[c] = "done" => Cardinality(acks[c]) >= Majority
       /\ status[c] = "idle" => acks[c] = {}
  /\ \A c \in GetCall :
       /\ before[c] \subseteq Done
       /\ status[c] = "idle" => before[c] = {}
       /\ status[c] # "running" => replies[c] = NoReplies

\* A reply of a replica that had acknowledged a Set before the Get began.
RepliesAreFresh ==
  \A g \in GetCall : \A s \in before[g] \cap SetCall : \A n \in acks[s] :
    replies[g][n] # None => replies[g][n].timestamp >= stamp[s]

\* The inductive invariant behind ReadsAreFresh: a quorum holds what was
\* answered, and everyone who replies to a later Get replies accordingly.
KVInv == AckedIsKept /\ Decided /\ Answered /\ RepliesAreFresh

\* The linearizability check at the end of the example (src/examples/kv/
\* main.cpp, "History is NOT LINEARIZABLE"), for two Gets one after the other:
\* the second does not return a value with an older stamp.
ReadsDoNotGoBack ==
  \A g, h \in GetCall :
    status[h] = "done" /\ g \in before[h]
      => result[h].timestamp >= result[g].timestamp
=============================================================================
