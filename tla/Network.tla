------------------------------ MODULE Network ------------------------------
(***************************************************************************)
(* network/link.cpp and network/network.cpp: a one-way link between every  *)
(* two hosts (a host and itself included), and the network actor that      *)
(* takes the frames of all the links in the order of their delivery times. *)
(*                                                                         *)
(* Every frame added to a link also adds an event to the network's queue.  *)
(* The two share a time and, here, a tie_braker; nothing else ties them    *)
(* together, and a step of the network finds the frame of an event only    *)
(* because both queues happen to agree on what comes next.                 *)
(*                                                                         *)
(* The operators take the queues they change as arguments and return them, *)
(* so that a handler that removes one frame and sends another is a         *)
(* composition of the two.                                                 *)
(***************************************************************************)
EXTENDS PriorityQueue, Time, Cluster

CONSTANT FlightTime   \* what the time model may answer for a frame

ASSUME FlightAssumption == FlightTime \subseteq Nat \ {0}

VARIABLES
  frames,       \* Link::frames_, for each link
  paused,       \* Link::paused_, for each link
  events        \* Network::events_

netVars == <<frames, paused, events>>

Link == Host \X Host

Opposite(l) == <<l[2], l[1]>>

\* The order of links_: GetLinkIndex(i, j) = i * servers_.size() + j.
LinkBefore(l, m) ==
  \/ HostIndex[l[1]] < HostIndex[m[1]]
  \/ HostIndex[l[1]] = HostIndex[m[1]] /\ HostIndex[l[2]] < HostIndex[m[2]]

PacketType == {"Data", "Reset"}

\* id tells two packets of one type apart; the code's packets are objects.
Packet == [type : PacketType, id : Nat]

NetTypeOK ==
  /\ frames \in [Link -> SUBSET EntryOf(Packet)]
  /\ paused \in [Link -> BOOLEAN]
  /\ events \in SUBSET EntryOf(Link)

\* Network::Start: BuildLinks makes the links, idle and not paused.
NetInit ==
  /\ frames = [l \in Link |-> {}]
  /\ paused = [l \in Link |-> FALSE]
  /\ events = {}

\* Network::Shutdown, and Link::Shutdown of every link.
ShutdownNetwork ==
  /\ frames' = [l \in Link |-> {}]
  /\ events' = {}

----------------------------------------------------------------------------
(* Sending: Link::Add *)

AddFrame(fs, l, t, n, p) == [fs EXCEPT ![l] = @ \cup {Entry(t, n, p)}]

AddLinkEvent(es, l, t, n) == es \cup {Entry(t, n, l)}

\* Add(packet): p leaves on link l of (fs, es) at time t.
Transmit(fs, es, l, t, p) ==
  \E flight \in FlightTime :
    /\ frames' = AddFrame(fs, l, t + flight, inserts + 1, p)
    /\ events' = AddLinkEvent(es, l, t + flight, inserts + 1)
    /\ inserts' = inserts + 1

----------------------------------------------------------------------------
(* Faults: Link::Pause and Resume, and the operations built of them *)

\* Pausing a paused link panics: no caller survives it.
PauseLinks(L) ==
  /\ \A l \in L : ~paused[l]
  /\ paused' = [l \in Link |-> paused[l] \/ l \in L]
  /\ UNCHANGED <<frames, events, inserts>>

\* Slip: a frame due at this very moment is taken for a late one.
OverdueOrDue(L) ==
  UNION {{<<l, f>> : f \in {g \in frames[l] : g.time <= now}} : l \in L}

\* The frames that Resume puts back: those whose time has passed.
Overdue(L) ==
  UNION {{<<l, f>> : f \in {g \in frames[l] : g.time < now}} : l \in L}

\* The order they are put back in: link by link as in links_, smallest first.
Sooner(o, p) == LinkBefore(o[1], p[1]) \/ (o[1] = p[1] /\ Before(o[2], p[2]))

Place(o, S) == Cardinality({p \in S : Sooner(p, o)})

\* Slip: Resume clears the flag and forgets what the pause has held back.
ResumeForgetful(L) ==
  /\ paused' = [l \in Link |-> paused[l] /\ l \notin L]
  /\ UNCHANGED <<frames, events, inserts>>

\* Slip: Resume announces the late frames again, at their old times.
ResumeInThePast(L) ==
  LET S == Overdue({l \in L : paused[l]})
  IN /\ paused' = [l \in Link |-> paused[l] /\ l \notin L]
     /\ events' = events \cup {Entry(o[2].time, o[2].tie_braker, o[1]) : o \in S}
     /\ UNCHANGED <<frames, inserts>>

\* Resume of each paused link in L: its overdue frames are put back, with an
\* event each, to be delivered at now + 1.  Frames due at now are left alone.
ResumeLinks(L) ==
  LET R == {l \in L : paused[l]}
      S == Overdue(R)
      Tie(o) == inserts + 1 + Place(o, S)
  IN /\ paused' = [l \in Link |-> paused[l] /\ l \notin R]
     /\ frames' = [l \in Link |->
                     {f \in frames[l] : <<l, f>> \notin S} \cup
                     {Entry(now + 1, Tie(o), o[2].item) : o \in {p \in S : p[1] = l}}]
     /\ events' = events \cup {Entry(now + 1, Tie(o), o[1]) : o \in S}
     /\ inserts' = inserts + Cardinality(S)

PauseLink(l) == PauseLinks({l})

ResumeLink(l) == ResumeLinks({l})

\* Links a partition cuts: between two system hosts on its two sides.
Cross(lhs) == {l \in SystemHost \X SystemHost : (l[1] \in lhs) # (l[2] \in lhs)}

Split(lhs) == PauseLinks(Cross(lhs))

Heal == ResumeLinks(Link)
=============================================================================
