----------------------------- MODULE Transport -----------------------------
(***************************************************************************)
(* network/transport.cpp and network/socket.cpp: connections between the   *)
(* processes of a world, and what becomes of them when processes crash.    *)
(*                                                                         *)
(* An endpoint, of a client or of a service, is stamped on creation with   *)
(* the number of the world step it was made in; a packet carries the stamp *)
(* of the client endpoint of its connection, and one older than the        *)
(* endpoint it comes to is outdated.  A ping goes to and fro on every      *)
(* connection, for as long as there is an endpoint on both sides.          *)
(*                                                                         *)
(* World models when packets travel; here they wait in a set and arrive in *)
(* any order.  Stamps are only compared with <, so the step number is      *)
(* counted on after steps that left their stamp on something, and no       *)
(* others.                                                                 *)
(***************************************************************************)
EXTENDS Integers, FiniteSets, Sequences

CONSTANTS
  Machine,        \* the servers of the world
  Service,        \* Service[h]: the ports the program of h serves at
  Dials,          \* Dials[h]: the addresses the program of h connects to; it
                  \* may be one of its own (WithMe of the peers of a node)
  PortCount,      \* the ports are 0 .. PortCount - 1; a Port is a uint16_t
  HasAdversary,   \* IsThereAdversary()
  Nobody          \* active, between two steps

CONSTANTS         \* bounds of a check
  MaxIds,         \* endpoints and messages made
  Crashable,      \* the machines that crash
  Pausable        \* the machines that are paused

Port == 0 .. PortCount - 1

Address == Machine \X Port

ASSUME TransportAssumption ==
  /\ PortCount \in Nat /\ PortCount > 1
  /\ Service \in [Machine -> SUBSET Port]
  /\ Dials \in [Machine -> SUBSET Address]
  /\ \A h \in Machine : \A a \in Dials[h] : a[2] \in Service[a[1]]
  /\ HasAdversary \in BOOLEAN
  /\ Nobody \notin Machine
  /\ MaxIds \in Nat
  /\ Crashable \subseteq Machine /\ Pausable \subseteq Machine

VARIABLES
  step,           \* World::step_number_, see above
  tried,          \* the ports tried for the connections made in this step
  active,         \* the machine whose task runs
  up,             \* Server::state_
  endpoints,      \* Transport::endpoints_, of all machines
  next_port,      \* Transport::next_port_
  packets,        \* the packets on their way
  inbox,          \* the TransportTasks in the scheduler of each machine
  replies,        \* the ReplySockets each process holds
  ids             \* counts endpoints and messages

tvars == <<step, tried, active, up, endpoints, next_port, packets, inbox,
           replies, ids>>

NoPeer == <<>>

\* id and conn are for the properties: an endpoint's number, and the number of
\* the client endpoint a packet was made for.  A ping is numbered after its
\* connection, a message has a number of its own, and an answer to a packet
\* keeps the packet's.
Endpoint == [at : Address, ts : Nat, id : Nat, peer : Address \cup {NoPeer}]

Packet == [type : {"Data", "Reset", "Ping"}, src : Address, dst : Address,
           ts : Nat, conn : Nat, id : Nat]

IsClient(e) == e.peer # NoPeer

Callback == [handler : Endpoint, packet : Packet]

Init ==
  /\ step = 0 /\ tried = 0 /\ ids = 0
  /\ active = Nobody
  /\ up = [h \in Machine |-> "Running"]
  /\ endpoints = {}
  /\ next_port = [h \in Machine |-> 1]
  /\ packets = {}
  /\ inbox = [h \in Machine |-> <<>>]
  /\ replies = [h \in Machine |-> {}]

At(a) == {e \in endpoints : e.at = a}

----------------------------------------------------------------------------
(* Steps of the process of h *)

\* A task of the process that is not the transport's: its main function, a
\* timer, a fiber.
Wake(h) ==
  /\ active = Nobody
  /\ up[h] = "Running"
  /\ active' = h
  /\ UNCHANGED <<step, tried, up, endpoints, next_port, packets, inbox, replies, ids>>

\* A TransportTask.  A client socket closes itself when its peer is gone.
\* A handler that was closed while the task waited is taken to exist still.
RunCallback(h) ==
  /\ active = Nobody
  /\ up[h] = "Running"
  /\ inbox[h] # <<>>
  /\ active' = h
  /\ inbox' = [inbox EXCEPT ![h] = Tail(@)]
  /\ LET handler == Head(inbox[h]).handler
         packet == Head(inbox[h]).packet
     IN /\ endpoints' = IF IsClient(handler) /\ packet.type = "Reset"
                        THEN endpoints \ {handler} ELSE endpoints
        /\ replies' = IF ~IsClient(handler) /\ packet.type = "Data"
                      THEN [replies EXCEPT ![h] = @ \cup {packet}] ELSE replies
  /\ UNCHANGED <<step, tried, up, next_port, packets, ids>>

EndStep ==
  /\ active # Nobody
  /\ active' = Nobody
  /\ step' = IF tried > 0 \/ \E e \in endpoints : e.ts = step THEN step + 1 ELSE step
  /\ tried' = 0
  /\ UNCHANGED <<up, endpoints, next_port, packets, inbox, replies, ids>>

\* Slip: a machine counts its own endpoints.
LocalTimestamp(h) == next_port[h]

\* GetNewEndpointTimestamp
NewTimestamp(h) == step

\* FindFreePort tries the ports from next_port_ on and takes the first without
\* an endpoint, after k others.  When every port has one the search never ends.
PortTried(h, k) == (next_port[h] + k) % PortCount

IsFree(h, k) ==
  /\ At(<<h, PortTried(h, k)>>) = {}
  /\ \A j \in 0 .. k - 1 : At(<<h, PortTried(h, j)>>) # {}

PortAfter(p) == (p + 1) % PortCount

\* A program serves before it connects to others; one that does the reverse may
\* be given the port it is about to serve at.
HasServed(h) == \A p \in Service[h] : At(<<h, p>>) # {}

\* In one step a program does not try all the ports there are: it would be given
\* one twice, with the same stamp, if it closes the first socket meanwhile.
ConnectTo(h) ==
  /\ active = h
  /\ ids < MaxIds
  /\ HasServed(h)
  /\ \E k \in Port, peer \in Dials[h] :
       LET p == PortTried(h, k) IN
       /\ IsFree(h, k)
       /\ tried + k < PortCount
       /\ tried' = tried + k + 1
       /\ next_port' = [next_port EXCEPT ![h] = PortAfter(p)]
       /\ endpoints' = endpoints \cup {[at |-> <<h, p>>, ts |-> NewTimestamp(h),
                                        id |-> ids + 1, peer |-> peer]}
       /\ packets' = IF HasAdversary
                     THEN packets \cup {[type |-> "Ping", src |-> <<h, p>>,
                            dst |-> peer, ts |-> NewTimestamp(h),
                            conn |-> ids + 1, id |-> ids + 1]}
                     ELSE packets
  /\ ids' = ids + 1
  /\ UNCHANGED <<step, active, up, inbox, replies>>

\* Serving at a port in use panics.  A program that has connected to a port of
\* its own does not serve there anew in the same step: the two services would
\* have one stamp, and the second take the messages for the first.  Those of the
\* repository serve once, when they start.
Serve(h) ==
  /\ active = h
  /\ ids < MaxIds
  /\ \E p \in Service[h] :
       /\ At(<<h, p>>) = {}
       /\ <<h, p>> \in Dials[h] => tried = 0
       /\ endpoints' = endpoints \cup {[at |-> <<h, p>>, ts |-> NewTimestamp(h),
                                        id |-> ids + 1, peer |-> NoPeer]}
  /\ ids' = ids + 1
  /\ UNCHANGED <<step, tried, active, up, next_port, packets, inbox, replies>>

\* ClientSocket::Send
Send(h) ==
  /\ active = h
  /\ ids < MaxIds
  /\ \E e \in endpoints :
       /\ e.at[1] = h
       /\ IsClient(e)
       /\ packets' = packets \cup {[type |-> "Data", src |-> e.at, dst |-> e.peer,
                                    ts |-> e.ts, conn |-> e.id, id |-> ids + 1]}
  /\ ids' = ids + 1
  /\ UNCHANGED <<step, tried, active, up, endpoints, next_port, inbox, replies>>

\* The packet that goes back to where p came from.
Answer(p, type) == [p EXCEPT !.type = type, !.src = p.dst, !.dst = p.src]

\* ReplySocket::Send: the endpoint it answers for may be gone by now.
Reply(h) ==
  /\ active = h
  /\ ids < MaxIds
  /\ \E p \in replies[h] :
       packets' = packets \cup {[Answer(p, "Data") EXCEPT !.id = ids + 1]}
  /\ ids' = ids + 1
  /\ UNCHANGED <<step, tried, active, up, endpoints, next_port, inbox, replies>>

\* The destructor of a ClientSocket or a ServerSocket: RemoveEndpoint.
Close(h) ==
  /\ active = h
  /\ \E e \in endpoints : e.at[1] = h /\ endpoints' = endpoints \ {e}
  /\ UNCHANGED <<step, tried, active, up, next_port, packets, inbox, replies, ids>>

----------------------------------------------------------------------------
(* Transport::HandlePacket *)

Bounce(p, type) ==
  /\ packets' = (packets \ {p}) \cup {Answer(p, type)}
  /\ UNCHANGED inbox

Drop(p) ==
  /\ packets' = packets \ {p}
  /\ UNCHANGED inbox

\* The handler of e is called by a task of its own.
Handle(p, e) ==
  /\ packets' = packets \ {p}
  /\ inbox' = [inbox EXCEPT ![e.at[1]] = Append(@, [handler |-> e, packet |-> p])]

\* Slip: only messages are answered where there is no endpoint.
MissingData(p) == IF p.type = "Data" THEN Bounce(p, "Reset") ELSE Drop(p)

Missing(p) == IF p.type = "Reset" THEN Drop(p) ELSE Bounce(p, "Reset")

\* Slips: no packet is outdated, or every one but those of the very same stamp.
NeverOutdated(p, e) == FALSE

OutdatedUnlessEqual(p, e) == p.ts # e.ts

IsOutdated(p, e) == p.ts < e.ts

HandlePacket(p) ==
  \/ At(p.dst) = {} /\ Missing(p)
  \/ \E e \in At(p.dst) :
       \/ IsOutdated(p, e) /\ Bounce(p, "Reset")
       \/ ~IsOutdated(p, e) /\ p.type = "Ping" /\ Bounce(p, "Ping")
       \/ ~IsOutdated(p, e) /\ p.type \in {"Data", "Reset"} /\ Handle(p, e)

\* The network is the last actor of the world: at the time of a delivery every
\* task that is due and may run has run (module World, EventIsNext).  A crashed
\* or paused machine takes packets like any other.
Deliver(p) ==
  /\ active = Nobody
  /\ \A h \in Machine : up[h] = "Running" => inbox[h] = <<>>
  /\ HandlePacket(p)
  /\ UNCHANGED <<step, tried, active, up, endpoints, next_port, replies, ids>>

----------------------------------------------------------------------------
(* Faults, between two steps of the others *)

Crash(h) ==
  /\ active = Nobody
  /\ up[h] # "Crashed"
  /\ up' = [up EXCEPT ![h] = "Crashed"]
  /\ endpoints' = {e \in endpoints : e.at[1] # h}
  /\ inbox' = [inbox EXCEPT ![h] = <<>>]
  /\ replies' = [replies EXCEPT ![h] = {}]
  /\ UNCHANGED <<step, tried, active, next_port, packets, ids>>

Launch(h) ==
  /\ active = Nobody
  /\ up[h] = "Crashed"
  /\ up' = [up EXCEPT ![h] = "Running"]
  /\ UNCHANGED <<step, tried, active, endpoints, next_port, packets, inbox, replies, ids>>

Pause(h) ==
  /\ active = Nobody
  /\ up[h] = "Running"
  /\ up' = [up EXCEPT ![h] = "Paused"]
  /\ UNCHANGED <<step, tried, active, endpoints, next_port, packets, inbox, replies, ids>>

Resume(h) ==
  /\ active = Nobody
  /\ up[h] = "Paused"
  /\ up' = [up EXCEPT ![h] = "Running"]
  /\ UNCHANGED <<step, tried, active, endpoints, next_port, packets, inbox, replies, ids>>

----------------------------------------------------------------------------
Call(h) == ConnectTo(h) \/ Serve(h) \/ Send(h) \/ Reply(h) \/ Close(h)

Fault ==
  \/ \E h \in Crashable : Crash(h) \/ Launch(h)
  \/ \E h \in Pausable : Pause(h) \/ Resume(h)

DeliverId(n) == \E p \in packets : p.id = n /\ Deliver(p)

Next ==
  \/ \E h \in Machine : Wake(h) \/ RunCallback(h) \/ Call(h)
  \/ EndStep
  \/ \E p \in packets : Deliver(p)
  \/ Fault

Spec == Init /\ [][Next]_tvars

\* Tasks that are due run and return; a packet arrives, for its flight time is
\* finite and time goes on, though other steps of the world come in between.
Fairness ==
  /\ WF_tvars(EndStep)
  /\ \A h \in Machine : SF_tvars(RunCallback(h))
  /\ \A n \in 1 .. MaxIds : SF_tvars(DeliverId(n))

FairSpec == Spec /\ Fairness

----------------------------------------------------------------------------
(* Properties *)

TypeOK ==
  /\ step \in Nat /\ tried \in Nat /\ ids \in Nat
  /\ active \in Machine \cup {Nobody}
  /\ up \in [Machine -> {"Running", "Paused", "Crashed"}]
  /\ endpoints \subseteq Endpoint
  /\ next_port \in [Machine -> Port]
  /\ packets \subseteq Packet
  /\ inbox \in [Machine -> Seq(Callback)]
  /\ replies \in [Machine -> SUBSET Packet]

Callbacks(h) == {inbox[h][i] : i \in DOMAIN inbox[h]}

\* A client socket is told of the messages and of the end of its own connection
\* only, never of one that had its port before (transport.cpp:150-210): across
\* crashes, ports that come round again and packets that arrive late.
OwnMail ==
  \A h \in Machine : \A c \in Callbacks(h) :
    IsClient(c.handler) => c.packet.conn = c.handler.id

\* A service handles no message meant for an earlier incarnation of itself: the
\* connection was opened after the service was (transport.cpp:167-170).
NoStaleRequests ==
  \A h \in Machine : \A c \in Callbacks(h) :
    ~IsClient(c.handler) => c.packet.conn > c.handler.id

\* The service e was connected to has lived on to this moment.
PeerLives(e) == \E s \in At(e.peer) : s.id < e.id

\* No client is told that its peer is gone while the service it has connected
\* to lives on, be a reset on its way or in its inbox (transport.cpp:152-190).
NoFalseAlarm ==
  \A e \in endpoints : IsClient(e) /\ PeerLives(e) =>
    /\ \A p \in packets : ~(p.type = "Reset" /\ p.conn = e.id)
    /\ \A c \in Callbacks(e.at[1]) : ~(c.packet.type = "Reset" /\ c.handler = e)

Connected(n) == \E e \in endpoints : e.id = n /\ IsClient(e)

IsCutOff(n) == \E e \in endpoints : e.id = n /\ IsClient(e) /\ ~PeerLives(e)

ClientIsPaused(n) == \E e \in endpoints : e.id = n /\ up[e.at[1]] = "Paused"

\* A client whose peer has crashed, rebooted or closed learns of it and closes
\* its socket, even if it never sends a thing (transport.cpp:60-63).
CrashIsNoticed ==
  \A n \in 1 .. MaxIds :
    IsCutOff(n) ~> (~Connected(n) \/ ClientIsPaused(n))
----------------------------------------------------------------------------
(* The inductive invariant behind OwnMail, NoStaleRequests and NoFalseAlarm *)

Served == {a \in Address : a[2] \in Service[a[1]]}

\* Packets on their way, waiting for a handler, or kept to be replied to.
Mail ==
  packets \cup (UNION {replies[h] : h \in Machine})
          \cup (UNION {{c.packet : c \in Callbacks(h)} : h \in Machine})

\* Of the two ends of a packet one is a service.
HasEnds(p) == (p.src \in Served) # (p.dst \in Served)

ClientEnd(p) == IF p.dst \in Served THEN p.src ELSE p.dst

ServerEnd(p) == IF p.dst \in Served THEN p.dst ELSE p.src

\* The client endpoint that p was made for, or that what p answers was.
Origin(p) ==
  [at |-> ClientEnd(p), ts |-> p.ts, id |-> p.conn, peer |-> ServerEnd(p)]

Clients == {e \in endpoints : IsClient(e)}

Origins == Clients \cup {Origin(p) : p \in Mail}

\* The port of a is among those tried in this step, which end before next_port_.
WasTried(a) ==
  /\ a[1] = active
  /\ \E j \in 1 .. tried : (a[2] + j) % PortCount = next_port[a[1]]

\* An address has one endpoint, a service or a client as its port says, and
\* stamps never decrease.
EndpointsAreApart ==
  /\ \A e, f \in endpoints : e.at = f.at => e = f
  /\ \A e \in endpoints :
       /\ IsClient(e) <=> e.at \notin Served
       /\ e.id <= ids /\ e.ts <= step
  /\ \A e, f \in endpoints : e.id < f.id => e.ts <= f.ts

\* Clients are where no service is, and know one; a stamp is that of the step it
\* was made in.
OriginsAreClients ==
  /\ \A p \in Mail : HasEnds(p)
  /\ \A o \in Origins :
       /\ o.at \notin Served /\ o.peer \in Dials[o.at[1]]
       /\ o.id <= ids /\ o.ts <= step
       /\ o.ts = step => WasTried(o.at)

\* Who has the port of o, or the one o was connected to, after it is not taken
\* for what was there before: its stamp is newer.
SuccessorsAreNewer ==
  \A o \in Origins, e \in endpoints :
    /\ e.at = o.at => e = o \/ o.ts < e.ts
    /\ e.at = o.peer => e.id < o.id \/ o.ts < e.ts
    /\ e.id = o.id => e = o

HandlersAreKnown == \A h \in Machine : \A c \in Callbacks(h) : c.handler.id <= ids

TransportInv ==
  /\ TypeOK
  /\ EndpointsAreApart
  /\ OriginsAreClients
  /\ SuccessorsAreNewer
  /\ HandlersAreKnown
  /\ OwnMail
  /\ NoStaleRequests
  /\ NoFalseAlarm
=============================================================================
