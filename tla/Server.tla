------------------------------- MODULE Server -------------------------------
(***************************************************************************)
(* server/server.cpp with process/scheduler.hpp: a simulated machine, its  *)
(* life cycle (launch, pause, resume, crash, reboot) and the queue of      *)
(* tasks its process has yet to run.                                       *)
(*                                                                         *)
(* Of the transport (network/transport.cpp) only what decides how a packet *)
(* ends is kept: whether the process has an endpoint.  What is sent where, *)
(* and what is outdated, is the subject of module Transport.               *)
(***************************************************************************)
EXTENDS PriorityQueue, Time, Cluster

VARIABLES
  state,        \* Server::state_
  tasks,        \* Scheduler::queue_
  bound,        \* Transport::endpoints_ is not empty
  life          \* the launches so far: which process a task belongs to

serverVars == <<state, tasks, bound, life>>

State == {"Running", "Paused", "Crashed"}

\* A task and the process that scheduled it; id is the ITask pointer.
Task == [id : Nat, due : Nat, life : Nat]

ServerTypeOK ==
  /\ state \in [Host -> State]
  /\ tasks \in [Host -> SUBSET EntryOf(Task)]
  /\ bound \in [Host -> BOOLEAN]
  /\ life \in [Host -> Nat]

IsAlive(s) == state[s] \in {"Running", "Paused"}

IsRunnable(s) == state[s] = "Running" /\ tasks[s] # {}

----------------------------------------------------------------------------
(* Scheduler *)

\* Schedule(at): a task of the process of launch k joins queue q as insertion n.
ScheduleAs(q, n, at, k) == q \cup {Entry(at, n, [id |-> n, due |-> at, life |-> k])}

ScheduleAt(q, at, k) == ScheduleAs(q, inserts + 1, at, k)

\* Of the numbers of a queue only the order counts, so a program's submits count
\* on only past a number that is in use there: one that submits at the present
\* time for ever stays within a bound on inserts.
NextInsert(q) ==
  IF \E x \in q : x.tie_braker = inserts THEN inserts + 1 ELSE inserts

\* The tasks whose time has passed by at.
Late(q, at) == {x \in q : x.time < at}

\* Slips: late tasks stay where they were, or are put back latest first.
NotPostponed(q, at) == q

PostponedReversed(q, at) ==
  LET late == Late(q, at)
      Put(x) == Entry(at, inserts + 1 + Cardinality({y \in late : Before(x, y)}),
                      x.item)
  IN (q \ late) \cup {Put(x) : x \in late}

\* Resume(at): each late task is taken out, smallest first, and put back at
\* time at; it now stands behind the tasks that were already due at at.
Postponed(q, at) ==
  LET late == Late(q, at)
      Put(x) == Entry(at, inserts + 1 + Cardinality({y \in late : Before(y, x)}),
                      x.item)
  IN (q \ late) \cup {Put(x) : x \in late}

----------------------------------------------------------------------------
(* Server *)

\* Server::Start of every host: the main task of its first process is due.
\* No insertion has happened twice in one queue, so the counter stands at 1.
ServerInit(t) ==
  /\ inserts = 1
  /\ state = [s \in Host |-> "Running"]
  /\ tasks = [s \in Host |-> {Entry(t, 1, [id |-> 1, due |-> t, life |-> 1])}]
  /\ bound = [s \in Host |-> FALSE]
  /\ life = [s \in Host |-> 1]

Pause(s) ==
  /\ state' = IF IsAlive(s) THEN [state EXCEPT ![s] = "Paused"] ELSE state
  /\ UNCHANGED <<tasks, bound, life, inserts>>

Resume(s) ==
  IF state[s] # "Paused"
  THEN UNCHANGED <<serverVars, inserts>>
  ELSE /\ tasks' = [tasks EXCEPT ![s] = Postponed(@, now)]
       /\ inserts' = inserts + Cardinality(Late(tasks[s], now))
       /\ state' = [state EXCEPT ![s] = "Running"]
       /\ UNCHANGED <<bound, life>>

\* Slip: the tasks of the process outlive it.
CrashKeepsTasks(S) ==
  /\ \A s \in S : state[s] # "Crashed"
  /\ state' = [s \in Host |-> IF s \in S THEN "Crashed" ELSE state[s]]
  /\ bound' = [s \in Host |-> bound[s] /\ s \notin S]
  /\ UNCHANGED <<tasks, life, inserts>>

\* Transport::Reset, Scheduler::Reset and the heap's: a crash leaves only what
\* the disk holds.  Crashing a crashed server panics.
CrashAll(S) ==
  /\ \A s \in S : state[s] # "Crashed"
  /\ state' = [s \in Host |-> IF s \in S THEN "Crashed" ELSE state[s]]
  /\ tasks' = [s \in Host |-> IF s \in S THEN {} ELSE tasks[s]]
  /\ bound' = [s \in Host |-> bound[s] /\ s \notin S]
  /\ UNCHANGED <<life, inserts>>

Crash(s) == CrashAll({s})

\* Server::Shutdown of the servers in S, one by one.
Shutdown(S) == CrashAll({s \in S : state[s] # "Crashed"})

\* Slip: the new process starts on a server that is still marked as it was.
StartUnmarked(s, q) ==
  /\ tasks' = [tasks EXCEPT ![s] = ScheduleAt(q, now, life[s] + 1)]
  /\ life' = [life EXCEPT ![s] = @ + 1]
  /\ inserts' = inserts + 1
  /\ UNCHANGED state

\* StartProcess on queue q: the main function of a new process is due now.
StartProcess(s, q) ==
  /\ tasks' = [tasks EXCEPT ![s] = ScheduleAt(q, now, life[s] + 1)]
  /\ life' = [life EXCEPT ![s] = @ + 1]
  /\ inserts' = inserts + 1
  /\ state' = [state EXCEPT ![s] = "Running"]

\* Launching a server that is up panics.
Launch(s) ==
  /\ state[s] = "Crashed"
  /\ StartProcess(s, tasks[s])
  /\ UNCHANGED bound

\* Crash and Launch in one go; nothing on a server that is down.
FastReboot(s) ==
  IF ~IsAlive(s)
  THEN UNCHANGED <<serverVars, inserts>>
  ELSE /\ StartProcess(s, {})
       /\ bound' = [bound EXCEPT ![s] = FALSE]
=============================================================================
