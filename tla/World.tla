------------------------------- MODULE World -------------------------------
(***************************************************************************)
(* world/world.cpp: the discrete event loop.  World::Step picks the actor  *)
(* whose next step is the earliest, moves the clock to it and lets the     *)
(* actor take it.  A step of the network delivers one frame; a step of a   *)
(* server runs one task, and a task is code of the program under test:     *)
(* any sequence of the calls the runtime offers it.  So a server's step is *)
(* a TakeNext, the calls of the task one by one, and an EndStep; nothing   *)
(* else of the world moves in between (active).                            *)
(***************************************************************************)
EXTENDS Network, Server

CONSTANTS
  StartTime,    \* GlobalStartTime of the time model
  Listener,     \* the hosts whose programs open endpoints
  Route,        \* the links on which programs send
  Delay,        \* how far ahead a program may set a timer; 0 is a Submit
  Idle,         \* active, between two steps
  Stopped       \* active, after World::Stop

CONSTANTS       \* bounds of a check
  MaxTime,      \* programs plan nothing after it
  MaxInserts,   \* programs insert nothing beyond it
  MaxLife,      \* launches of one server
  Breakable,    \* the links adversaries pause one by one
  Victim        \* the servers adversaries and the harness touch

ASSUME ProgramAssumption ==
  /\ StartTime \in Nat
  /\ Listener \subseteq Host
  /\ Route \subseteq Link
  /\ Delay \subseteq Nat
  /\ Breakable \subseteq Link /\ Victim \subseteq Pool
  /\ MaxTime \in Nat /\ MaxInserts \in Nat /\ MaxLife \in Nat

ASSUME ActiveAssumption == Idle # Stopped /\ {Idle, Stopped} \cap Host = {}

VARIABLE active     \* World::active_, the actor taking its step

vars == <<now, inserts, active, frames, paused, events, state, tasks, bound, life>>

TypeOK ==
  /\ now \in Nat
  /\ inserts \in Nat
  /\ active \in Host \cup {Idle, Stopped}
  /\ NetTypeOK
  /\ ServerTypeOK

\* World::Start at the start time the time model chose.
Init ==
  /\ now = StartTime
  /\ active = Idle
  /\ NetInit
  /\ ServerInit(now)

----------------------------------------------------------------------------
(* FindNextStep: the earliest step; of equally early ones the actor added  *)
(* first, and the network, added by World::Start, is the last actor.       *)

TaskIsNext(s, x) ==
  /\ state[s] = "Running"
  /\ IsSmallest(x, tasks[s])
  /\ \A r \in Host \ {s} : state[r] = "Running" =>
       \A y \in tasks[r] :
         \/ x.time < y.time
         \/ x.time = y.time /\ HostIndex[s] < HostIndex[r]
  /\ \A e \in events : x.time <= e.time

EventIsNext(e) ==
  /\ IsSmallest(e, events)
  /\ \A r \in Host : state[r] = "Running" => \A y \in tasks[r] : e.time < y.time

----------------------------------------------------------------------------
(* World::Step, the actor is a server *)

\* Server::Step up to the call of Run.
TakeNext(s) ==
  /\ active = Idle
  /\ \E x \in tasks[s] :
       /\ TaskIsNext(s, x)
       /\ FastForwardTo(x.time)
       /\ tasks' = [tasks EXCEPT ![s] = @ \ {x}]
  /\ active' = s
  /\ UNCHANGED <<inserts, netVars, state, bound, life>>

\* The task returns.
EndStep ==
  /\ active \in Host
  /\ active' = Idle
  /\ UNCHANGED <<now, inserts, netVars, serverVars>>

\* A timer is set, a fiber or a task is submitted.
Schedule(s) ==
  /\ active = s
  /\ inserts' = NextInsert(tasks[s])
  /\ inserts' <= MaxInserts
  /\ \E d \in Delay :
       /\ now + d <= MaxTime
       /\ tasks' = [tasks EXCEPT ![s] = ScheduleAs(@, inserts', now + d, life[s])]
  /\ UNCHANGED <<now, active, netVars, state, bound, life>>

\* Serve, or ConnectTo without its ping: an endpoint is there to answer.
Bind(s) ==
  /\ active = s
  /\ s \in Listener
  /\ bound' = [bound EXCEPT ![s] = TRUE]
  /\ UNCHANGED <<now, inserts, active, netVars, state, tasks, life>>

\* The last socket is closed: RemoveEndpoint.
Unbind(s) ==
  /\ active = s
  /\ bound' = [bound EXCEPT ![s] = FALSE]
  /\ UNCHANGED <<now, inserts, active, netVars, state, tasks, life>>

\* A message is sent through a socket.
Send(s) ==
  /\ active = s
  /\ inserts < MaxInserts
  /\ now <= MaxTime
  /\ \E l \in Route :
       /\ l[1] = s
       /\ Transmit(frames, events, l, now, [type |-> "Data", id |-> inserts + 1])
  /\ UNCHANGED <<now, active, paused, serverVars>>

----------------------------------------------------------------------------
(* Faults an adversary injects while it takes its step *)

NetFault ==
  /\ active \in Adversary
  /\ \/ \E l \in Breakable : PauseLink(l)
     \/ \E l \in Breakable : ResumeLink(l)
     \/ \E lhs \in SUBSET SystemHost : Split(lhs)
     \/ Heal
  /\ UNCHANGED <<now, active, serverVars>>

ServerFault(v) ==
  /\ active \in Adversary
  /\ \/ Pause(v)
     \/ Resume(v)
     \/ Crash(v)
     \/ life[v] < MaxLife /\ Launch(v)
     \/ life[v] < MaxLife /\ FastReboot(v)
  /\ UNCHANGED <<now, active, netVars>>

----------------------------------------------------------------------------
(* World::Step, the actor is the network *)

\* Transport::HandlePacket of the receiver, at time t.  There may be no
\* endpoint at the packet's port, or one newer than the packet, even when some
\* other endpoint exists: Data is then answered with a Reset, and a Reset
\* dropped or, when it is only outdated, answered as well.
HandlePacket(l, fs, es, t, p) ==
  \/ /\ \/ p.type = "Data"
        \/ bound[l[2]] /\ inserts < MaxInserts
     /\ Transmit(fs, es, Opposite(l), t, [type |-> "Reset", id |-> inserts + 1])
     /\ UNCHANGED serverVars
  \/ /\ p.type = "Reset"
     /\ frames' = fs
     /\ events' = es
     /\ UNCHANGED <<inserts, serverVars>>
  \/ /\ bound[l[2]]
     /\ tasks' = [tasks EXCEPT ![l[2]] = ScheduleAt(@, t, life[l[2]])]
     /\ frames' = fs
     /\ events' = es
     /\ inserts' = inserts + 1
     /\ UNCHANGED <<state, bound, life>>

\* What Network::Step verifies before it takes a frame of link l at time t.
NetIsSound(l, t) == \E f \in frames[l] : IsSmallest(f, frames[l]) /\ f.time = t

\* Slip: the frame of a skipped event is taken off the link as well.
SkipFrame(e) ==
  /\ paused[e.item]
  /\ events' = events \ {e}
  /\ frames' = [frames EXCEPT ![e.item] = {f \in @ : ~IsSmallest(f, @)}]
  /\ UNCHANGED <<inserts, serverVars>>

\* The event of a paused link is dropped, its frame stays.
SkipEvent(e) ==
  /\ paused[e.item]
  /\ events' = events \ {e}
  /\ UNCHANGED <<inserts, frames, serverVars>>

Deliver(e) ==
  LET l == e.item IN
  /\ ~paused[l]
  /\ NetIsSound(l, e.time)
  /\ \E f \in frames[l] :
       /\ IsSmallest(f, frames[l])
       /\ HandlePacket(l, [frames EXCEPT ![l] = @ \ {f}], events \ {e}, e.time, f.item)

NetworkStep ==
  /\ active = Idle
  /\ \E e \in events :
       /\ EventIsNext(e)
       /\ FastForwardTo(e.time)
       /\ SkipEvent(e) \/ Deliver(e)
  /\ UNCHANGED <<active, paused>>

----------------------------------------------------------------------------
(* Calls of the test harness, between two steps *)

RestartServer(v) ==
  /\ active = Idle
  /\ life[v] < MaxLife
  /\ FastReboot(v)
  /\ UNCHANGED <<now, active, netVars>>

\* Adversaries, network, servers and clients are shut down one by one.
Stop ==
  /\ active = Idle
  /\ active' = Stopped
  /\ ShutdownNetwork
  /\ Shutdown(Host)
  /\ UNCHANGED <<now, paused>>

----------------------------------------------------------------------------
ServerStep == \E s \in Host : TakeNext(s)

Call == \E s \in Host : Schedule(s) \/ Bind(s) \/ Unbind(s) \/ Send(s)

Fault == NetFault \/ \E v \in Victim : ServerFault(v)

Harness == (\E v \in Victim : RestartServer(v)) \/ Stop

Next == ServerStep \/ EndStep \/ Call \/ Fault \/ NetworkStep \/ Harness

Spec == Init /\ [][Next]_vars

\* MakeSteps and RunFor go on calling Step, and a task that was started returns.
Fairness == WF_vars(ServerStep) /\ WF_vars(EndStep) /\ WF_vars(NetworkStep)

FairSpec == Spec /\ Fairness
----------------------------------------------------------------------------
(* Properties *)

\* Time::FastForwardTo verifies that the clock is never turned back, whatever
\* step World::Step finds next (time/time.hpp:28).
NoTimeTravel ==
  active = Idle =>
    /\ \A s \in Host : \A x \in tasks[s] : TaskIsNext(s, x) => x.time >= now
    /\ \A e \in events : EventIsNext(e) => e.time >= now

\* Network::Step verifies that the frame it takes for an event is there and is
\* due at the time of the event (network/network.cpp:72-73), after any history
\* of pauses, resumes and partitions.
NoBrokenNet ==
  active = Idle =>
    \A e \in events : EventIsNext(e) /\ ~paused[e.item] => NetIsSound(e.item, e.time)

\* Crash drops the tasks and the endpoints (server/server.cpp:58-63) and no
\* packet brings any to a server that is down: a task only ever runs in the
\* process that scheduled it.
OwnTasks ==
  \A s \in Host :
    /\ state[s] = "Crashed" => tasks[s] = {} /\ ~bound[s]
    /\ \A x \in tasks[s] : x.item.life = life[s]

\* x waits for the time that y does, or for now if that has passed.
Waits(x, y) == x.item = y.item /\ x.time = IF y.time < now THEN now ELSE y.time

\* Resume of a paused server (process/scheduler.hpp:75-80) loses no task and runs
\* none before it is due; it puts off the late ones to this moment and no other,
\* and keeps the order of the tasks, but that those that were late go behind
\* those that fall due at the very moment.
PauseIsADelay ==
  [][\A s \in Host :
       state[s] = "Paused" /\ state'[s] = "Running" /\ life'[s] = life[s] =>
         /\ \A y \in tasks[s] : \E x \in tasks'[s] : Waits(x, y)
         /\ \A x \in tasks'[s] :
              x.time >= x.item.due /\ \E y \in tasks[s] : Waits(x, y)
         /\ \A x, y \in tasks[s] :
              Before(x, y) /\ ~(x.time < now /\ y.time = now) =>
                \E u, v \in tasks'[s] :
                  u.item = x.item /\ v.item = y.item /\ Before(u, v)]_vars

\* A paused link holds its frames back and loses none, and Resume puts every
\* late one back: a frame leaves the network only at its delivery time and
\* through a link that is not paused (network/network.cpp:68-75, link.cpp:49-63).
NoFrameLost ==
  [][active' # Stopped =>
       \A l \in Link : \A f \in frames[l] :
         \/ \E g \in frames'[l] : g.item = f.item /\ g.time >= f.time
         \/ active = Idle /\ ~paused[l] /\ f.time = now']_vars

\* ThreadPool::Submit: the program of r has work to do at this very moment.
Submits(r) == active = r /\ \E x \in tasks'[r] \ tasks[r] : x.time = now

\* Programs of S keep the world at one moment for ever.
Hogged(S) == []<><<\E r \in S : Submits(r)>>_vars

InFlight(l, n) == \E f \in frames[l] : f.item.id = n

\* A frame on a link that stays open arrives, those a pause has held back
\* included (network/link.cpp:49-63), unless programs submit work at one moment
\* for ever: the network, added last, comes after every host.
FrameArrives ==
  \/ Hogged(Host)
  \/ \A l \in Route \cup {Opposite(r) : r \in Route}, n \in 1 .. MaxInserts + 1 :
       InFlight(l, n) ~> (~InFlight(l, n) \/ paused[l])

Queued(s, n) == \E x \in tasks[s] : x.item.id = n

Due(s, n) == \E x \in tasks[s] : x.item.id = n /\ x.time = now

\* Its time comes for every task of a server that is not paused or crashed for
\* good, unless programs submit work at an earlier moment for ever; and a task
\* whose time has come gets its turn unless a host added before its own does
\* (world/world.cpp:111-131, runtime/thread_pool.hpp:42-44).  No host added
\* later, no other task of its own host, no packet and no fault keeps it waiting.
TaskGetsItsTurn ==
  \A s \in Host, n \in 1 .. MaxInserts + 1 :
    /\ \/ Hogged(Host)
       \/ Queued(s, n) ~> (~Queued(s, n) \/ state[s] = "Paused")
    /\ \/ Hogged({r \in Host : HostIndex[r] < HostIndex[s]})
       \/ Due(s, n) ~> (~Due(s, n) \/ state[s] = "Paused")

----------------------------------------------------------------------------
(* The inductive invariant behind NoTimeTravel and NoBrokenNet *)

\* Nothing that may be stepped lies in the past.
Ahead ==
  /\ \A e \in events : now <= e.time
  /\ \A s \in Host : state[s] = "Running" => \A x \in tasks[s] : now <= x.time

\* The event e announces the frame f of its link.
Twins(e, f) == e.time = f.time /\ e.tie_braker = f.tie_braker

HasEvent(l, f) == \E e \in events : e.item = l /\ Twins(e, f)

\* Every event announces a frame, and every frame has its event but those
\* whose time came while their link was paused.
Paired ==
  /\ \A e \in events : \E f \in frames[e.item] : Twins(e, f)
  /\ \A l \in Link : \A f \in frames[l] :
       HasEvent(l, f) \/ (paused[l] /\ f.time <= now)

\* Ties come from the counter and are never given twice in one queue.
GoodTies ==
  /\ UniqueTies(events)
  /\ \A e \in events : e.tie_braker <= inserts
  /\ \A l \in Link :
       /\ UniqueTies(frames[l])
       /\ \A f \in frames[l] : f.tie_braker <= inserts

\* Link::Resume leaves a frame due now to its event.  So once the network has
\* passed over such an event, no adversary may have a step left at this time.
AdversariesAreDone ==
  (\E l \in Link : \E f \in frames[l] : f.time = now /\ ~HasEvent(l, f)) =>
    /\ active \notin Adversary
    /\ \A a \in Adversary : \A x \in tasks[a] : now < x.time

\* Adversaries that wake up on timers only, as those of the examples do.
TimedAdversaries == Adversary \cap Listener = {}

\* No packet and no fault reaches an adversary that opens no endpoint.
AdversariesAreAlone ==
  \A a \in Adversary : state[a] # "Paused" /\ ~bound[a]

Finite ==
  /\ \A l \in Link : IsFiniteSet(frames[l])
  /\ \A s \in Host : IsFiniteSet(tasks[s])

\* A task waits for the time it was scheduled at (PauseIsADelay rests on it).
NeverEarly == \A s \in Host : \A x \in tasks[s] : x.item.due <= x.time

\* No fault reaches the actor that takes its step.
ActiveRuns == active \in Host => state[active] = "Running"

NetInv ==
  /\ TypeOK
  /\ Finite
  /\ ActiveRuns
  /\ OwnTasks
  /\ Ahead
  /\ Paired
  /\ GoodTies
  /\ AdversariesAreAlone
  /\ AdversariesAreDone
=============================================================================
