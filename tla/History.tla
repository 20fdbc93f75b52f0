------------------------------- MODULE History -------------------------------
(***************************************************************************)
(* history/: what is written down of the calls of clients, for the checker *)
(* to judge.  MakeRpcChannel puts the retries above the history channel:   *)
(* each attempt is a call of its own.  A request may be executed after the *)
(* client has given it up.  The service here is one that is right beyond   *)
(* doubt, it executes each request in one instant, and the question is     *)
(* whether its histories are found to be right.                            *)
(***************************************************************************)
EXTENDS Semantics

CONSTANTS
  Client,
  MaxCalls,     \* calls that are started
  MaxTime

ASSUME HistoryAssumption == MaxCalls \in Nat /\ MaxTime \in Nat

VARIABLES
  now,              \* GlobalNow
  next_id,          \* next_id_
  running_calls,    \* running_calls_, with the client that waits
  finalized_calls,  \* finalized_calls_
  requests,         \* on their way to the service
  responses,        \* on their way back: pairs of an id and a result
  store,            \* the state of the service
  stopped           \* Finalize has been called

historyVars == <<now, next_id, running_calls, finalized_calls, requests, responses,
          store, stopped>>

RecorderInit ==
  /\ now = 0
  /\ next_id = 0
  /\ running_calls = {}
  /\ finalized_calls = <<>>
  /\ requests = {}
  /\ responses = {}
  /\ store = InitialState
  /\ stopped = FALSE
-----------------------------------------------------------------------------
(* HistoryRecorder *)

Complete(call, result) ==
  [op |-> call.op, result |-> result,
   start_time |-> call.start_time, end_time |-> now]

Lost(call) ==
  [op |-> call.op, result |-> None, start_time |-> call.start_time, end_time |-> None]

CallStarted(c, op) ==
  /\ next_id' = next_id + 1
  /\ running_calls' = running_calls \cup
       {[id |-> next_id', client |-> c, op |-> op, start_time |-> now]}

CallCompleted(call, output) ==
  /\ running_calls' = running_calls \ {call}
  /\ finalized_calls' = Append(finalized_calls, Complete(call, output))

RemoveCall(call) ==
  /\ running_calls' = running_calls \ {call}
  /\ UNCHANGED finalized_calls

\* Slip: a call that failed is forgotten.
CallLostRemoved(call) ==
  /\ running_calls' = running_calls \ {call}
  /\ UNCHANGED finalized_calls

CallLost(call) ==
  /\ running_calls' = running_calls \ {call}
  /\ finalized_calls' = Append(finalized_calls, Lost(call))

\* std::map goes by id.
ById(S) ==
  CHOOSE f \in Arrangements(S) : \A i, j \in DOMAIN f : i < j => f[i].id < f[j].id
-----------------------------------------------------------------------------
(* HistoryChannel *)

Idle(c) == \A call \in running_calls : call.client # c

\* HistoryChannel::Call
Start(c, op) ==
  /\ ~ stopped /\ Idle(c)
  /\ next_id < MaxCalls
  /\ CallStarted(c, op)
  /\ requests' = requests \cup {[id |-> next_id', op |-> op]}
  /\ UNCHANGED <<now, finalized_calls, responses, store, stopped>>

Execute(request) ==
  /\ ~ stopped
  /\ requests' = requests \ {request}
  /\ responses' = responses \cup
       {[id |-> request.id, output |-> Output(store, request.op)]}
  /\ store' = NextState(store, request.op)
  /\ UNCHANGED <<now, next_id, running_calls, finalized_calls, stopped>>

\* RecordCallResult of a result
Succeed(call) ==
  /\ ~ stopped
  /\ \E response \in responses :
       /\ response.id = call.id
       /\ CallCompleted(call, response.output)
       /\ responses' = responses \ {response}
  /\ UNCHANGED <<now, next_id, requests, store, stopped>>

\* RecordCallResult of a TransportError or ExecutionError: MaybeCompleted
Fail(call) ==
  /\ ~ stopped
  /\ CallLost(call)
  /\ responses' = {response \in responses : response.id # call.id}
  /\ UNCHANGED <<now, next_id, requests, store, stopped>>

\* RecordCallResult of another error: the server has refused the request.
Refuse(call) ==
  /\ ~ stopped
  /\ \E request \in requests :
       /\ request.id = call.id
       /\ requests' = requests \ {request}
  /\ RemoveCall(call)
  /\ UNCHANGED <<now, next_id, responses, store, stopped>>

Tick ==
  /\ ~ stopped /\ now < MaxTime
  /\ now' = now + 1
  /\ UNCHANGED <<next_id, running_calls, finalized_calls, requests, responses,
                 store, stopped>>

\* World::Stop calls Finalize.
Stop ==
  /\ ~ stopped
  /\ stopped' = TRUE
  /\ LET lost == ById(running_calls)
     IN  finalized_calls' = finalized_calls \o [i \in DOMAIN lost |-> Lost(lost[i])]
  /\ UNCHANGED <<now, next_id, running_calls, requests, responses, store>>

RecorderNext ==
  \/ \E c \in Client, op \in Operation : Start(c, op)
  \/ \E request \in requests : Execute(request)
  \/ \E call \in running_calls : Succeed(call) \/ Fail(call) \/ Refuse(call)
  \/ Tick
  \/ Stop
=============================================================================
