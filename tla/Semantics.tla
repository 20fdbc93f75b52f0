------------------------------ MODULE Semantics ------------------------------
(***************************************************************************)
(* semantics/: calls of clients, the sequential specification of a         *)
(* key-value store they are judged by, and what it means that a history of *)
(* calls is linearizable (https://jepsen.io/consistency/models/linearizable*)
(* in the words of real_time_order.hpp).                                   *)
(***************************************************************************)
EXTENDS Integers, Sequences, FiniteSets

CONSTANTS
  Key, Val,
  Default,      \* KVDefaultValue
  Unit,         \* what a Set returns
  None          \* std::nullopt

Operation ==
  [method : {"Set"}, key : Key, value : Val]
    \cup [method : {"Get"}, key : Key]
    \cup [method : {"Cas"}, key : Key, expected : Val \cup {Default}, value : Val]

State == [Key -> Val \cup {Default}]

InitialState == [k \in Key |-> Default]

\* Slip: compare-and-set is taken for a read.
IsMutationSetOnly(op) == op.method = "Set"

IsMutation(op) == op.method \in {"Set", "Cas"}

\* What KVStoreModel::Apply returns, and the state it leads to.
Output(state, op) == IF op.method = "Set" THEN Unit ELSE state[op.key]

NextState(state, op) ==
  IF op.method = "Set" \/ (op.method = "Cas" /\ state[op.key] = op.expected)
    THEN [state EXCEPT ![op.key] = op.value]
    ELSE state

\* A call without an end may or may not have taken effect.
IsCompleted(call) == call.end_time # None

PrecedesInRealTime(lhs, rhs) ==
  IsCompleted(lhs) /\ lhs.end_time < rhs.start_time

\* What the recorder puts down of a call.
Call ==
  {call \in [op : Operation, result : Val \cup {Default, Unit, None},
             start_time : Nat, end_time : Nat \cup {None}] :
     IsCompleted(call) => call.start_time <= call.end_time}

Matters(call) == IsCompleted(call) \/ IsMutation(call.op)

\* The calls that matter among the first i, for every i.
Kept(history) ==
  LET kept[i \in 0 .. Len(history)] ==
        IF i = 0 THEN <<>>
        ELSE IF Matters(history[i]) THEN Append(kept[i - 1], history[i])
                                    ELSE kept[i - 1]
  IN  kept

Cleanup(history) == Kept(history)[Len(history)]
-----------------------------------------------------------------------------
(* The definition: some of the calls without an end can be added to the    *)
(* completed ones and all put in an order in which a store that executes   *)
(* one after the other gives the results that were returned, and no call   *)
(* comes before one that was over when it began.                           *)

Arrangements(S) ==
  {f \in [1 .. Cardinality(S) -> S] : \A i, j \in DOMAIN f : f[i] = f[j] => i = j}

KeepsRealTime(history, order) ==
  \A i, j \in DOMAIN order :
    i < j => LET first == history[order[i]]  second == history[order[j]]
             IN  second.end_time = None \/ second.end_time >= first.start_time

\* The states the store goes through.
Run(history, order) ==
  LET state[i \in 0 .. Len(order)] ==
        IF i = 0 THEN InitialState ELSE NextState(state[i - 1], history[order[i]].op)
  IN  state

Explains(history, order) ==
  LET state == Run(history, order)
  IN  \A i \in DOMAIN order :
        LET call == history[order[i]]
        IN  call.end_time = None \/ Output(state[i - 1], call.op) = call.result

Linearizable(history) ==
  LET completed == {i \in DOMAIN history : history[i].end_time # None}
  IN  \E lost \in SUBSET (DOMAIN history \ completed) :
        \E order \in Arrangements(completed \cup lost) :
          KeepsRealTime(history, order) /\ Explains(history, order)
=============================================================================
