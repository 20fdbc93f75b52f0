--------------------------- MODULE TransportProof ---------------------------
(***************************************************************************)
(* Proofs about module Transport: whoever has a port, a client or a        *)
(* service, is told of its own connections only, and of the end of one     *)
(* only when it has ended.                                                 *)
(*                                                                         *)
(* The argument is about the client endpoints that something under way was *)
(* made for (Origins).  An endpoint that has succeeded one of them at its  *)
(* port, or its peer, has a greater stamp (SuccessorsAreNewer): then       *)
(* IsOutdated tells the two apart.                                         *)
(***************************************************************************)
EXTENDS Transport, SequenceTheorems, TLAPS

\* What a queue has after its first entry is taken.
LEMMA TailOf ==
  ASSUME NEW S, NEW q \in Seq(S), q # <<>>
  PROVE  /\ Tail(q) \in Seq(S)
         /\ Head(q) \in S
         /\ 1 \in DOMAIN q /\ Head(q) = q[1]
         /\ \A i \in DOMAIN Tail(q) : i + 1 \in DOMAIN q /\ Tail(q)[i] = q[i + 1]
  OBVIOUS

\* What a queue has after an entry has joined it.
LEMMA AppendOf ==
  ASSUME NEW S, NEW q \in Seq(S), NEW x \in S
  PROVE  /\ Append(q, x) \in Seq(S)
         /\ \A i \in DOMAIN Append(q, x) :
              (i \in DOMAIN q /\ Append(q, x)[i] = q[i]) \/ Append(q, x)[i] = x
  OBVIOUS

\* A port number comes round at most once in one search.
LEMMA ComesRound ==
  ASSUME NEW n \in Port, NEW k \in 0 .. PortCount
  PROVE  /\ (n + k) % PortCount \in Port
         /\ (n + k) % PortCount = IF n + k < PortCount THEN n + k ELSE n + k - PortCount
  BY TransportAssumption DEF Port

\* An address is not NoPeer.
LEMMA AddressIsPeer == \A a \in Address : a # NoPeer
  BY DEF Address, NoPeer

\* An answer belongs to the connection of the packet it answers.
LEMMA AnswerOf ==
  ASSUME NEW p \in Packet, NEW type \in {"Data", "Reset", "Ping"}
  PROVE  /\ Answer(p, type) \in Packet
         /\ Answer(p, type).type = type
         /\ Answer(p, type).conn = p.conn
         /\ HasEnds(p) => HasEnds(Answer(p, type)) /\ Origin(Answer(p, type)) = Origin(p)
<1>. DEFINE a == Answer(p, type)
<1>1. /\ a.type = type /\ a.src = p.dst /\ a.dst = p.src
      /\ a.ts = p.ts /\ a.conn = p.conn /\ a.id = p.id
  BY DEF Answer, Packet
<1>3. a \in Packet
  BY DEF Answer, Packet
<1>2. ASSUME HasEnds(p)
      PROVE  HasEnds(a) /\ Origin(a) = Origin(p)
  BY <1>1, <1>2 DEF HasEnds, Origin, ClientEnd, ServerEnd
<1>. QED
  BY <1>1, <1>2, <1>3

----------------------------------------------------------------------------
(* Types *)

\* A callback comes from the inbox as it went in.
LEMMA HeadType ==
  ASSUME TypeOK, NEW h \in Machine, inbox[h] # <<>>
  PROVE  /\ Head(inbox[h]) \in Callback
         /\ Head(inbox[h]) \in Callbacks(h)
         /\ [inbox EXCEPT ![h] = Tail(@)] \in [Machine -> Seq(Callback)]
<1>1. inbox[h] \in Seq(Callback)
  BY DEF TypeOK
<1>. QED
  BY <1>1, TailOf DEF TypeOK, Callbacks

\* A callback that runs keeps the types.
LEMMA RunCallbackType ==
  ASSUME TypeOK, NEW h \in Machine, RunCallback(h)
  PROVE  TypeOK'
<1>. DEFINE c == Head(inbox[h])
<1>1. /\ c \in Callback
      /\ inbox' \in [Machine -> Seq(Callback)]
  BY HeadType DEF RunCallback
<1>2. c.packet \in Packet
  BY <1>1 DEF Callback
<1>3. endpoints' \subseteq endpoints
  BY DEF RunCallback
<1>4. replies' \in [Machine -> SUBSET Packet]
  BY <1>2 DEF RunCallback, TypeOK
<1>. QED
  BY <1>1, <1>3, <1>4 DEF RunCallback, TypeOK

\* The port the search ends at.
LEMMA ConnectedAt ==
  ASSUME TypeOK, NEW h \in Machine, NEW k \in Port
  PROVE  /\ PortTried(h, k) \in Port
         /\ PortAfter(PortTried(h, k)) \in Port
<1>1. next_port[h] \in Port /\ k \in 0 .. PortCount
  BY TransportAssumption DEF TypeOK, Port
<1>2. PortTried(h, k) \in Port
  BY <1>1, ComesRound DEF PortTried
<1>3. 1 \in 0 .. PortCount
  BY TransportAssumption
<1>. QED
  BY <1>2, <1>3, ComesRound DEF PortAfter

\* What ConnectTo makes: an endpoint at a free port, and perhaps a ping.
LEMMA Connecting ==
  ASSUME TypeOK, NEW h \in Machine, ConnectTo(h)
  PROVE  \E k \in Port, e \in Endpoint :
           /\ e.at = <<h, PortTried(h, k)>> /\ At(e.at) = {}
           /\ e.ts = step /\ e.id = ids + 1 /\ e.peer \in Dials[h]
           /\ endpoints' = endpoints \cup {e}
           /\ next_port' = [next_port EXCEPT ![h] = PortAfter(PortTried(h, k))]
           /\ tried + k < PortCount /\ tried' = tried + k + 1
           /\ \/ packets' = packets
              \/ \E q \in Packet :
                   /\ packets' = packets \cup {q}
                   /\ q.type = "Ping" /\ q.src = e.at /\ q.dst = e.peer
                   /\ q.ts = step /\ q.conn = ids + 1
<1>1. PICK k \in Port, peer \in Dials[h] :
        LET p == PortTried(h, k) IN
        /\ IsFree(h, k)
        /\ tried + k < PortCount
        /\ tried' = tried + k + 1
        /\ next_port' = [next_port EXCEPT ![h] = PortAfter(p)]
        /\ endpoints' = endpoints \cup {[at |-> <<h, p>>, ts |-> NewTimestamp(h),
                                         id |-> ids + 1, peer |-> peer]}
        /\ packets' = IF HasAdversary
                      THEN packets \cup {[type |-> "Ping", src |-> <<h, p>>,
                             dst |-> peer, ts |-> NewTimestamp(h),
                             conn |-> ids + 1, id |-> ids + 1]}
                      ELSE packets
  BY DEF ConnectTo
<1>. DEFINE a == <<h, PortTried(h, k)>>
            e == [at |-> a, ts |-> step, id |-> ids + 1, peer |-> peer]
            q == [type |-> "Ping", src |-> a, dst |-> peer, ts |-> step,
                  conn |-> ids + 1, id |-> ids + 1]
<1>2. a \in Address /\ peer \in Address
  BY ConnectedAt, TransportAssumption DEF Address
<1>3. step \in Nat /\ ids + 1 \in Nat /\ NewTimestamp(h) = step
  BY DEF TypeOK, NewTimestamp
<1>4. At(a) = {}
  BY <1>1 DEF IsFree
<1>5. endpoints' = endpoints \cup {e} /\ (packets' = packets \/ packets' = packets \cup {q})
  BY <1>1, <1>3
<1>6. /\ tried + k < PortCount /\ tried' = tried + k + 1
      /\ next_port' = [next_port EXCEPT ![h] = PortAfter(PortTried(h, k))]
  BY <1>1
<1>. HIDE DEF a
<1>7. e \in Endpoint /\ q \in Packet
  BY <1>2, <1>3 DEF Endpoint, Packet
<1>8. /\ e.at = a /\ e.ts = step /\ e.id = ids + 1 /\ e.peer = peer
      /\ q.type = "Ping" /\ q.src = a /\ q.dst = peer /\ q.ts = step /\ q.conn = ids + 1
  OBVIOUS
<1>. HIDE DEF e, q
<1>9. e.at = <<h, PortTried(h, k)>> /\ At(e.at) = {} /\ e.peer \in Dials[h]
  BY <1>4, <1>8 DEF a
<1>10. \/ packets' = packets
       \/ \E r \in Packet :
            /\ packets' = packets \cup {r}
            /\ r.type = "Ping" /\ r.src = e.at /\ r.dst = e.peer
            /\ r.ts = step /\ r.conn = ids + 1
  BY <1>5, <1>7, <1>8
<1>. QED
  BY <1>5, <1>6, <1>7, <1>8, <1>9, <1>10

\* ConnectTo keeps the types.
LEMMA ConnectToType ==
  ASSUME TypeOK, NEW h \in Machine, ConnectTo(h)
  PROVE  TypeOK'
<1>1. PICK k \in Port, e \in Endpoint :
        /\ endpoints' = endpoints \cup {e}
        /\ next_port' = [next_port EXCEPT ![h] = PortAfter(PortTried(h, k))]
        /\ tried' = tried + k + 1
        /\ packets' = packets \/ \E q \in Packet : packets' = packets \cup {q}
  BY Connecting
<1>2. next_port' \in [Machine -> Port]
  BY <1>1, ConnectedAt DEF TypeOK
<1>3. tried' \in Nat
  BY <1>1 DEF TypeOK, Port
<1>. QED
  BY <1>1, <1>2, <1>3 DEF TypeOK, ConnectTo

\* What Serve makes: an endpoint without a peer where none was.
LEMMA Serving ==
  ASSUME TypeOK, NEW h \in Machine, Serve(h)
  PROVE  \E e \in Endpoint :
           /\ e.at \in Served /\ e.at[1] = h /\ At(e.at) = {}
           /\ e.at \in Dials[h] => tried = 0
           /\ e.ts = step /\ e.id = ids + 1 /\ e.peer = NoPeer
           /\ endpoints' = endpoints \cup {e}
<1>1. PICK p \in Service[h] :
        /\ At(<<h, p>>) = {}
        /\ <<h, p>> \in Dials[h] => tried = 0
        /\ endpoints' = endpoints \cup {[at |-> <<h, p>>, ts |-> NewTimestamp(h),
                                      id |-> ids + 1, peer |-> NoPeer]}
  BY DEF Serve
<1>. DEFINE e == [at |-> <<h, p>>, ts |-> step, id |-> ids + 1, peer |-> NoPeer]
<1>2. <<h, p>> \in Served /\ <<h, p>> \in Address
  BY TransportAssumption DEF Served, Address
<1>3. step \in Nat /\ ids + 1 \in Nat /\ NewTimestamp(h) = step
  BY DEF TypeOK, NewTimestamp
<1>4. e \in Endpoint
  BY <1>2, <1>3 DEF Endpoint
<1>5. e.at = <<h, p>> /\ e.ts = step /\ e.id = ids + 1 /\ e.peer = NoPeer
  OBVIOUS
<1>6. /\ endpoints' = endpoints \cup {e} /\ e.at \in Served /\ e.at[1] = h
      /\ At(e.at) = {}
      /\ e.at \in Dials[h] => tried = 0
  BY <1>1, <1>2, <1>3
<1>. QED
  BY <1>4, <1>5, <1>6

\* Serve keeps the types.
LEMMA ServeType ==
  ASSUME TypeOK, NEW h \in Machine, Serve(h)
  PROVE  TypeOK'
<1>3. endpoints' \subseteq Endpoint
  BY Serving DEF TypeOK
<1>. QED
  BY <1>3 DEF Serve, TypeOK

\* Send keeps the types.
LEMMA SendType ==
  ASSUME TypeOK, NEW h \in Machine, Send(h)
  PROVE  TypeOK'
<1>1. PICK e \in endpoints :
        /\ IsClient(e)
        /\ packets' = packets \cup {[type |-> "Data", src |-> e.at, dst |-> e.peer,
                                     ts |-> e.ts, conn |-> e.id, id |-> ids + 1]}
  BY DEF Send
<1>2. /\ e.at \in Address /\ e.peer \in Address /\ e.ts \in Nat /\ e.id \in Nat
      /\ ids + 1 \in Nat
  BY <1>1 DEF TypeOK, Endpoint, IsClient
<1>3. packets' \subseteq Packet
  BY <1>1, <1>2 DEF TypeOK, Packet
<1>. QED
  BY <1>2, <1>3 DEF Send, TypeOK

\* What a ReplySocket sends is an answer with a number of its own.
LEMMA ReplyOf ==
  ASSUME TypeOK, NEW h \in Machine, NEW p \in replies[h]
  PROVE  LET r == [Answer(p, "Data") EXCEPT !.id = ids + 1] IN
         /\ p \in Packet /\ r \in Packet
         /\ r.type = "Data" /\ r.conn = p.conn
         /\ HasEnds(p) => HasEnds(r) /\ Origin(r) = Origin(p)
<1>. DEFINE a == Answer(p, "Data")
            r == [a EXCEPT !.id = ids + 1]
<1>1. p \in Packet /\ ids + 1 \in Nat
  BY DEF TypeOK
<1>2. a \in Packet /\ a.type = "Data" /\ a.conn = p.conn
  BY <1>1, AnswerOf
<1>3. HasEnds(p) => HasEnds(a) /\ Origin(a) = Origin(p)
  BY <1>1, AnswerOf
<1>. HIDE DEF a
<1>4. /\ r.type = a.type /\ r.src = a.src /\ r.dst = a.dst
      /\ r.ts = a.ts /\ r.conn = a.conn /\ r \in Packet
  BY <1>1, <1>2 DEF Packet
<1>. HIDE DEF r
<1>5. HasEnds(r) = HasEnds(a) /\ Origin(r) = Origin(a)
  BY <1>4 DEF HasEnds, Origin, ClientEnd, ServerEnd
<1>. QED
  BY <1>1, <1>2, <1>3, <1>4, <1>5 DEF a, r

\* Reply keeps the types.
LEMMA ReplyType ==
  ASSUME TypeOK, NEW h \in Machine, Reply(h)
  PROVE  TypeOK'
<1>1. packets' \subseteq Packet
  BY ReplyOf DEF Reply, TypeOK
<1>. QED
  BY <1>1 DEF Reply, TypeOK

\* The three ends of a delivery: the packet goes back, is dropped, or waits in
\* the inbox of the endpoint it came to.
LEMMA DeliveryEnds ==
  ASSUME TypeOK, NEW p \in packets, HandlePacket(p)
  PROVE  \/ \E type \in {"Reset", "Ping"} :
              /\ Bounce(p, type)
              /\ type = "Reset" => \/ At(p.dst) = {}
                                   \/ \E e \in At(p.dst) : p.ts < e.ts
         \/ Drop(p)
         \/ \E e \in At(p.dst) : p.ts >= e.ts /\ Handle(p, e)
<1>1. p.ts \in Nat /\ \A e \in endpoints : e.ts \in Nat
  BY DEF TypeOK, Packet, Endpoint
<1>. QED
  BY <1>1 DEF HandlePacket, Missing, IsOutdated, At

\* Deliver keeps the types.
LEMMA DeliverType ==
  ASSUME TypeOK, NEW p \in packets, Deliver(p)
  PROVE  TypeOK'
<1>0. p \in Packet
  BY DEF TypeOK
<1>1. ASSUME NEW type \in {"Reset", "Ping"}, Bounce(p, type)
      PROVE  TypeOK'
  BY <1>0, <1>1, AnswerOf DEF Bounce, Deliver, TypeOK
<1>2. ASSUME Drop(p)
      PROVE  TypeOK'
  BY <1>2 DEF Drop, Deliver, TypeOK
<1>3. ASSUME NEW e \in At(p.dst), Handle(p, e)
      PROVE  TypeOK'
  <2>1. e \in Endpoint /\ e.at[1] \in Machine
    BY DEF At, TypeOK, Endpoint, Address
  <2>2. [handler |-> e, packet |-> p] \in Callback /\ inbox[e.at[1]] \in Seq(Callback)
    BY <1>0, <2>1 DEF Callback, TypeOK
  <2>3. inbox' \in [Machine -> Seq(Callback)]
    BY <1>3, <2>1, <2>2, AppendOf DEF Handle, TypeOK
  <2>. QED
    BY <1>3, <2>3 DEF Handle, Deliver, TypeOK
<1>4. HandlePacket(p)
  BY DEF Deliver
<1>. QED
  BY <1>1, <1>2, <1>3, <1>4, DeliveryEnds

\* Crash keeps the types.
LEMMA CrashType ==
  ASSUME TypeOK, NEW h \in Machine, Crash(h)
  PROVE  TypeOK'
BY DEF Crash, TypeOK

\* Every step keeps the types.
LEMMA TypeStep ==
  ASSUME TypeOK, [Next]_tvars
  PROVE  TypeOK'
<1>0. Crashable \subseteq Machine /\ Pausable \subseteq Machine
  BY TransportAssumption
<1>1. ASSUME NEW h \in Machine, Wake(h)
      PROVE  TypeOK'
  BY <1>1 DEF Wake, TypeOK
<1>2. ASSUME NEW h \in Machine, Close(h)
      PROVE  TypeOK'
  BY <1>2 DEF Close, TypeOK
<1>3. CASE EndStep
  BY <1>3 DEF EndStep, TypeOK
<1>4. ASSUME NEW h \in Machine, Launch(h) \/ Pause(h) \/ Resume(h)
      PROVE  TypeOK'
  BY <1>4 DEF Launch, Pause, Resume, TypeOK
<1>5. CASE UNCHANGED tvars
  BY <1>5 DEF tvars, TypeOK
<1>. QED
  BY <1>0, <1>1, <1>2, <1>3, <1>4, <1>5, RunCallbackType, ConnectToType, ServeType,
     SendType, ReplyType, DeliverType, CrashType DEF Next, Call, Fault

----------------------------------------------------------------------------
(* Endpoints and the origins of what is under way *)

OriginInv == EndpointsAreApart /\ OriginsAreClients /\ SuccessorsAreNewer

\* What Origins holds.
LEMMA OriginsType ==
  ASSUME TypeOK
  PROVE  /\ Mail \subseteq Packet
         /\ \A o \in Origins : o \in Endpoint
<1>1. Mail \subseteq Packet
  <2>1. \A h \in Machine : replies[h] \subseteq Packet /\ inbox[h] \in Seq(Callback)
    BY DEF TypeOK
  <2>2. \A h \in Machine : \A c \in Callbacks(h) : c.packet \in Packet
    <3>1. \A h \in Machine : \A i \in DOMAIN inbox[h] : inbox[h][i] \in Callback
      BY <2>1
    <3>. QED
      BY <3>1 DEF Callbacks, Callback
  <2>. QED
    BY <2>1, <2>2 DEF Mail, TypeOK
<1>2. \A p \in Packet : Origin(p) \in Endpoint
  BY DEF Origin, ClientEnd, ServerEnd, Packet, Endpoint
<1>. QED
  BY <1>1, <1>2 DEF Origins, Clients, TypeOK

\* Where there is nothing new, nothing needs to be told apart anew.  The step
\* goes on, or another process takes its turn.
LEMMA NothingNew ==
  ASSUME TypeOK, OriginInv,
         endpoints' \subseteq endpoints,
         \A p \in Mail' : HasEnds(p) /\ Origin(p) \in Origins,
         ids' \in Nat, ids <= ids',
         UNCHANGED <<step, tried, next_port>>,
         active' = active \/ active = Nobody
  PROVE  OriginInv'
<1>1. Origins' \subseteq Origins
  BY DEF Origins, Clients
<1>2. /\ ids \in Nat
      /\ \A o \in Origins : o \in Endpoint /\ o.id \in Nat /\ o.at[1] \in Machine
      /\ \A e \in endpoints : e.id \in Nat
  BY OriginsType DEF TypeOK, Endpoint, Address
<1>3. EndpointsAreApart'
  BY <1>2 DEF OriginInv, EndpointsAreApart
<1>4. \A o \in Origins : o.ts = step => WasTried(o.at)'
  <2>. SUFFICES ASSUME NEW o \in Origins, o.ts = step
                PROVE  WasTried(o.at)'
    OBVIOUS
  <2>1. WasTried(o.at)
    BY DEF OriginInv, OriginsAreClients
  <2>2. active' = active
    BY <1>2, <2>1, TransportAssumption DEF WasTried
  <2>. QED
    BY <2>1, <2>2 DEF WasTried
<1>5. OriginsAreClients'
  BY <1>1, <1>2, <1>4 DEF OriginInv, OriginsAreClients
<1>6. SuccessorsAreNewer'
  BY <1>1 DEF OriginInv, SuccessorsAreNewer
<1>. QED
  BY <1>3, <1>5, <1>6 DEF OriginInv

\* The mail there was has ends and origins.
LEMMA OldMail ==
  ASSUME OriginInv
  PROVE  \A p \in Mail : HasEnds(p) /\ Origin(p) \in Origins
BY DEF OriginInv, OriginsAreClients, Origins

\* Steps that move packets from one place to another.
LEMMA MovedMail ==
  ASSUME TypeOK, OriginInv, NEW h \in Machine, RunCallback(h)
  PROVE  Mail' \subseteq Mail
<1>1. Head(inbox[h]) \in Callbacks(h)
  BY HeadType DEF RunCallback
<1>2. \A g \in Machine : Callbacks(g)' \subseteq Callbacks(g)
  <2>1. \A g \in Machine : inbox[g] \in Seq(Callback)
    BY DEF TypeOK
  <2>2. \A g \in Machine : inbox'[g] = inbox[g] \/ (g = h /\ inbox'[g] = Tail(inbox[g]))
    BY DEF RunCallback, TypeOK
  <2>3. \A g \in Machine : inbox[g] # <<>> =>
          \A i \in DOMAIN Tail(inbox[g]) : i + 1 \in DOMAIN inbox[g]
                                           /\ Tail(inbox[g])[i] = inbox[g][i + 1]
    BY <2>1, TailOf
  <2>. QED
    BY <2>2, <2>3 DEF Callbacks, RunCallback
<1>3. \A g \in Machine : \A p \in replies'[g] : p \in replies[g] \/ p = Head(inbox[h]).packet
  BY DEF RunCallback, TypeOK
<1>4. packets' = packets
  BY DEF RunCallback
<1>. QED
  BY <1>1, <1>2, <1>3, <1>4 DEF Mail

\* How a delivery changes the mail.
LEMMA DeliveredMail ==
  ASSUME TypeOK, OriginInv, NEW p \in packets, Deliver(p)
  PROVE  \A r \in Mail' : HasEnds(r) /\ Origin(r) \in Origins
<1>0. p \in Packet /\ p \in Mail /\ replies' = replies
  BY DEF TypeOK, Mail, Deliver
<1>1. ASSUME NEW type \in {"Reset", "Ping"}, Bounce(p, type)
      PROVE  \A r \in Mail' : r \in Mail \/ r = Answer(p, type)
  BY <1>0, <1>1 DEF Bounce, Mail, Callbacks
<1>2. ASSUME Drop(p)
      PROVE  \A r \in Mail' : r \in Mail
  BY <1>0, <1>2 DEF Drop, Mail, Callbacks
<1>3. ASSUME NEW e \in At(p.dst), Handle(p, e)
      PROVE  \A r \in Mail' : r \in Mail
  <2>1. e.at[1] \in Machine
    BY DEF At, TypeOK, Endpoint, Address
  <2>2. \A g \in Machine : \A c \in Callbacks(g)' : c \in Callbacks(g) \/ c.packet = p
    <3>. TAKE g \in Machine
    <3>. DEFINE new == [handler |-> e, packet |-> p]
    <3>1. inbox[g] \in Seq(Callback) /\ new \in Callback
      BY <1>0 DEF TypeOK, Callback, At
    <3>2. inbox'[g] = inbox[g] \/ inbox'[g] = Append(inbox[g], new)
      BY <1>3 DEF Handle, TypeOK
    <3>3. new.packet = p
      OBVIOUS
    <3>. HIDE DEF new
    <3>. QED
      BY <3>1, <3>2, <3>3, AppendOf DEF Callbacks
  <2>. QED
    BY <1>0, <1>3, <2>2 DEF Handle, Mail
<1>4. HandlePacket(p)
  BY DEF Deliver
<1>5. \A type \in {"Reset", "Ping"} :
        HasEnds(Answer(p, type)) /\ Origin(Answer(p, type)) \in Origins
  BY <1>0, AnswerOf, OldMail
<1>. QED
  BY <1>1, <1>2, <1>3, <1>4, <1>5, DeliveryEnds, OldMail

\* Ports are tried in a ring: one that was tried in this step is not tried again
\* before all the others were, and stays as far behind next_port_ as it should.
LEMMA TriedOnce ==
  ASSUME NEW x \in Port, NEW n \in Port, NEW j \in Nat, NEW k \in Port,
         j >= 1, j + k < PortCount, (x + j) % PortCount = n
  PROVE  /\ (n + k) % PortCount # x
         /\ (x + (j + k + 1)) % PortCount = PortAfter((n + k) % PortCount)
<1>. DEFINE p == (n + k) % PortCount
<1>0. PortCount \in Nat /\ PortCount > 1 /\ x < PortCount /\ n < PortCount
  BY TransportAssumption DEF Port
<1>1. /\ j \in 0 .. PortCount /\ k \in 0 .. PortCount /\ 1 \in 0 .. PortCount
      /\ j + k + 1 \in 0 .. PortCount
  BY <1>0 DEF Port
<1>2. n = IF x + j < PortCount THEN x + j ELSE x + j - PortCount
  BY <1>1, ComesRound
<1>3. p \in Port /\ p = IF n + k < PortCount THEN n + k ELSE n + k - PortCount
  BY <1>1, ComesRound
<1>4. (p + 1) % PortCount = IF p + 1 < PortCount THEN p + 1 ELSE p + 1 - PortCount
  BY <1>1, <1>3, ComesRound
<1>5. (x + (j + k + 1)) % PortCount =
        IF x + (j + k + 1) < PortCount THEN x + (j + k + 1)
                                       ELSE x + (j + k + 1) - PortCount
  BY <1>1, ComesRound
<1>. HIDE DEF p
<1>6. x \in Nat /\ n \in Nat /\ k \in Nat /\ p \in Nat
  BY <1>3 DEF Port
<1>7. p # x
  BY <1>0, <1>2, <1>3, <1>6
<1>8. (x + (j + k + 1)) % PortCount = (p + 1) % PortCount
  BY <1>0, <1>2, <1>3, <1>4, <1>5, <1>6
<1>. QED
  BY <1>7, <1>8 DEF p, PortAfter

\* A new client is at no port tried before it in its step, and those tried stay
\* behind next_port_.
LEMMA ConnectingTries ==
  ASSUME TypeOK, NEW h \in Machine, active = h, NEW k \in Port, tried + k < PortCount,
         tried' = tried + k + 1, active' = active,
         next_port' = [next_port EXCEPT ![h] = PortAfter(PortTried(h, k))]
  PROVE  \A a \in Address :
           /\ WasTried(a) => a # <<h, PortTried(h, k)>> /\ WasTried(a)'
           /\ a = <<h, PortTried(h, k)>> => WasTried(a)'
<1>0. /\ next_port[h] \in Port /\ tried \in Nat /\ k \in Nat
      /\ next_port'[h] = PortAfter(PortTried(h, k))
      /\ PortTried(h, k) = (next_port[h] + k) % PortCount
  BY DEF TypeOK, Port, PortTried
<1>1. ASSUME NEW a \in Address, WasTried(a)
      PROVE  a # <<h, PortTried(h, k)>> /\ WasTried(a)'
  <2>1. a[2] \in Port /\ a[1] = h
    BY <1>1 DEF WasTried, Address
  <2>2. PICK j \in 1 .. tried : (a[2] + j) % PortCount = next_port[h]
    BY <1>1, <2>1 DEF WasTried
  <2>3. j \in Nat /\ j >= 1 /\ j + k < PortCount
    <3>1. PortCount \in Nat
      BY TransportAssumption
    <3>. QED
      BY <1>0, <3>1
  <2>. DEFINE n == next_port[h]
              x == a[2]
  <2>4. /\ (n + k) % PortCount # x
        /\ (x + (j + k + 1)) % PortCount = PortAfter((n + k) % PortCount)
    <3>1. n \in Port /\ x \in Port /\ k \in Port /\ (x + j) % PortCount = n
      BY <1>0, <2>1, <2>2
    <3>. HIDE DEF n, x
    <3>. QED
      BY <2>3, <3>1, TriedOnce
  <2>5. j + k + 1 \in 1 .. tried'
    BY <1>0, <2>3
  <2>. QED
    BY <1>0, <2>1, <2>4, <2>5 DEF WasTried
<1>2. ASSUME NEW a \in Address, a = <<h, PortTried(h, k)>>
      PROVE  WasTried(a)'
  <2>1. a[1] = h /\ a[2] = PortTried(h, k)
    BY <1>2
  <2>2. (a[2] + 1) % PortCount = next_port'[h]
    BY <1>0, <2>1 DEF PortAfter
  <2>3. 1 \in 1 .. tried'
    BY <1>0
  <2>. QED
    BY <2>1, <2>2, <2>3 DEF WasTried
<1>. QED
  BY <1>1, <1>2

\* ConnectTo confuses no endpoint with what was there before.
LEMMA ConnectToOrigins ==
  ASSUME TypeOK, OriginInv, NEW h \in Machine, ConnectTo(h)
  PROVE  OriginInv'
<1>1. PICK k \in Port, e \in Endpoint :
        /\ e.at = <<h, PortTried(h, k)>> /\ At(e.at) = {}
        /\ e.ts = step /\ e.id = ids + 1 /\ e.peer \in Dials[h]
        /\ endpoints' = endpoints \cup {e}
        /\ next_port' = [next_port EXCEPT ![h] = PortAfter(PortTried(h, k))]
        /\ tried + k < PortCount /\ tried' = tried + k + 1
        /\ \/ packets' = packets
           \/ \E q \in Packet :
                /\ packets' = packets \cup {q}
                /\ q.type = "Ping" /\ q.src = e.at /\ q.dst = e.peer
                /\ q.ts = step /\ q.conn = ids + 1
  BY Connecting
<1>2. /\ active = h /\ active' = h /\ step' = step /\ ids' = ids + 1
      /\ replies' = replies /\ inbox' = inbox /\ step \in Nat /\ ids \in Nat
      /\ \A f \in endpoints : f \in Endpoint /\ f.id \in Nat /\ f.ts \in Nat
      /\ \A o \in Origins : o \in Endpoint /\ o.id \in Nat /\ o.ts \in Nat /\ o.at \in Address
  BY OriginsType DEF ConnectTo, TypeOK, Endpoint
<1>3. /\ e.peer \in Address /\ e.peer \in Served /\ IsClient(e)
      /\ e.at \in Address /\ e.at[1] = h
  BY <1>1, TransportAssumption, AddressIsPeer DEF Served, IsClient, Endpoint
<1>4. e.at \notin Served
  BY <1>1, <1>3 DEF ConnectTo, HasServed, Served
<1>5. ASSUME NEW q \in Packet, q.src = e.at, q.dst = e.peer, q.ts = step, q.conn = ids + 1
      PROVE  HasEnds(q) /\ Origin(q) = e
  BY <1>1, <1>3, <1>4, <1>5 DEF HasEnds, Origin, ClientEnd, ServerEnd, Endpoint
<1>6. \A p \in Mail' : p \in Mail \/ (HasEnds(p) /\ Origin(p) = e)
  BY <1>1, <1>2, <1>5 DEF Mail, Callbacks
<1>7. \A o \in Origins' : o \in Origins \/ o = e
  BY <1>1, <1>6 DEF Origins, Clients
<1>8. \A a \in Address : WasTried(a) => a # e.at /\ WasTried(a)'
  BY <1>1, <1>2, ConnectingTries
<1>9. WasTried(e.at)'
  BY <1>1, <1>2, <1>3, ConnectingTries
<1>10. \A f \in endpoints : f.at # e.at
  BY <1>1 DEF At
<1>11. EndpointsAreApart'
  <2>1. \A f, g \in endpoints' : f.at = g.at => f = g
    BY <1>1, <1>10 DEF OriginInv, EndpointsAreApart
  <2>2. \A f \in endpoints' :
          /\ IsClient(f) <=> f.at \notin Served
          /\ f.id <= ids' /\ f.ts <= step'
    BY <1>1, <1>2, <1>3, <1>4 DEF OriginInv, EndpointsAreApart
  <2>3. \A f, g \in endpoints' : f.id < g.id => f.ts <= g.ts
    BY <1>1, <1>2 DEF OriginInv, EndpointsAreApart
  <2>. QED
    BY <2>1, <2>2, <2>3 DEF EndpointsAreApart
<1>12. OriginsAreClients'
  <2>1. \A p \in Mail' : HasEnds(p)
    BY <1>6, OldMail
  <2>2. ASSUME NEW o \in Origins
        PROVE  /\ o.at \notin Served /\ o.peer \in Dials[o.at[1]]
               /\ o.id <= ids' /\ o.ts <= step'
               /\ o.ts = step' => WasTried(o.at)'
    BY <1>2, <1>8 DEF OriginInv, OriginsAreClients
  <2>3. /\ e.at \notin Served /\ e.peer \in Dials[e.at[1]]
        /\ e.id <= ids' /\ e.ts <= step'
        /\ WasTried(e.at)'
    BY <1>1, <1>2, <1>3, <1>4, <1>9
  <2>. QED
    BY <1>7, <2>1, <2>2, <2>3 DEF OriginsAreClients
<1>13. SuccessorsAreNewer'
  <2>1. ASSUME NEW o \in Origins
        PROVE  /\ e.at = o.at => o.ts < e.ts
               /\ e.at # o.peer
               /\ e.id # o.id
    <3>1. /\ o.ts <= step /\ o.id <= ids /\ o.peer \in Served
          /\ o.ts = step => WasTried(o.at)
      BY TransportAssumption, <1>2 DEF OriginInv, OriginsAreClients, Served, Address
    <3>. QED
      BY <1>1, <1>2, <1>4, <1>8, <3>1
  <2>2. \A f \in endpoints : f.at # e.at /\ f.id < e.id
    BY <1>1, <1>2, <1>10 DEF OriginInv, EndpointsAreApart
  <2>3. e.at # e.peer
    BY <1>3, <1>4
  <2>4. ASSUME NEW o \in Origins', NEW f \in endpoints'
        PROVE  /\ f.at = o.at => f = o \/ o.ts < f.ts
               /\ f.at = o.peer => f.id < o.id \/ o.ts < f.ts
               /\ f.id = o.id => f = o
    <3>1. CASE o \in Origins /\ f \in endpoints
      BY <3>1 DEF OriginInv, SuccessorsAreNewer
    <3>2. CASE o \in Origins /\ f = e
      BY <2>1, <3>2
    <3>3. CASE o = e /\ f \in endpoints
      BY <1>1, <1>2, <2>2, <3>3
    <3>4. CASE o = e /\ f = e
      BY <2>3, <3>4
    <3>. QED
      BY <1>1, <1>7, <3>1, <3>2, <3>3, <3>4
  <2>. QED
    BY <2>4 DEF SuccessorsAreNewer
<1>. QED
  BY <1>11, <1>12, <1>13 DEF OriginInv

\* Serve confuses no endpoint with what was there before.
LEMMA ServeOrigins ==
  ASSUME TypeOK, OriginInv, NEW h \in Machine, Serve(h)
  PROVE  OriginInv'
<1>1. PICK e \in Endpoint :
        /\ e.at \in Served /\ e.at[1] = h /\ At(e.at) = {}
        /\ e.at \in Dials[h] => tried = 0
        /\ e.ts = step /\ e.id = ids + 1 /\ e.peer = NoPeer
        /\ endpoints' = endpoints \cup {e}
  BY Serving
<1>2. /\ active = h /\ active' = h /\ step' = step /\ ids' = ids + 1
      /\ tried' = tried /\ tried \in Nat /\ next_port' = next_port
      /\ packets' = packets /\ replies' = replies /\ inbox' = inbox
      /\ step \in Nat /\ ids \in Nat
      /\ \A f \in endpoints : f \in Endpoint /\ f.id \in Nat /\ f.ts \in Nat
      /\ \A o \in Origins : o \in Endpoint /\ o.id \in Nat /\ o.ts \in Nat /\ o.at \in Address
  BY OriginsType DEF Serve, TypeOK, Endpoint
<1>3. ~IsClient(e)
  BY <1>1 DEF IsClient
<1>4. Mail' = Mail
  BY <1>2 DEF Mail, Callbacks
<1>5. Origins' = Origins
  BY <1>1, <1>3, <1>4 DEF Origins, Clients
<1>6. \A a \in Address : WasTried(a) => WasTried(a)'
  BY <1>2 DEF WasTried
<1>7. \A f \in endpoints : f.at # e.at
  BY <1>1 DEF At
<1>8. EndpointsAreApart'
  <2>1. \A f, g \in endpoints' : f.at = g.at => f = g
    BY <1>1, <1>7 DEF OriginInv, EndpointsAreApart
  <2>2. \A f \in endpoints' :
          /\ IsClient(f) <=> f.at \notin Served
          /\ f.id <= ids' /\ f.ts <= step'
    BY <1>1, <1>2, <1>3 DEF OriginInv, EndpointsAreApart
  <2>3. \A f, g \in endpoints' : f.id < g.id => f.ts <= g.ts
    BY <1>1, <1>2 DEF OriginInv, EndpointsAreApart
  <2>. QED
    BY <2>1, <2>2, <2>3 DEF EndpointsAreApart
<1>9. OriginsAreClients'
  BY <1>2, <1>4, <1>5, <1>6 DEF OriginInv, OriginsAreClients
<1>10. SuccessorsAreNewer'
  <2>1. ASSUME NEW o \in Origins
        PROVE  /\ e.at # o.at
               /\ e.at = o.peer => o.ts < e.ts
               /\ e.id # o.id
    <3>1. /\ o.ts <= step /\ o.id <= ids /\ o.at \notin Served
          /\ o.peer \in Dials[o.at[1]] /\ o.at[1] \in Machine
          /\ o.ts = step => o.at[1] = h /\ tried > 0
      BY <1>2 DEF OriginInv, OriginsAreClients, WasTried, Address
    <3>2. o.ts = step => e.at # o.peer
      BY <1>1, <3>1
    <3>. QED
      BY <1>1, <1>2, <3>1, <3>2
  <2>2. ASSUME NEW o \in Origins', NEW f \in endpoints'
        PROVE  /\ f.at = o.at => f = o \/ o.ts < f.ts
               /\ f.at = o.peer => f.id < o.id \/ o.ts < f.ts
               /\ f.id = o.id => f = o
    BY <1>1, <1>5, <2>1 DEF OriginInv, SuccessorsAreNewer
  <2>. QED
    BY <2>2 DEF SuccessorsAreNewer
<1>. QED
  BY <1>8, <1>9, <1>10 DEF OriginInv

\* A message is made for the client that sends it.
LEMMA SendOrigins ==
  ASSUME TypeOK, OriginInv, NEW h \in Machine, Send(h)
  PROVE  OriginInv'
<1>1. PICK e \in endpoints :
        /\ IsClient(e)
        /\ packets' = packets \cup {[type |-> "Data", src |-> e.at, dst |-> e.peer,
                                     ts |-> e.ts, conn |-> e.id, id |-> ids + 1]}
  BY DEF Send
<1>. DEFINE q == [type |-> "Data", src |-> e.at, dst |-> e.peer,
                  ts |-> e.ts, conn |-> e.id, id |-> ids + 1]
<1>2. e \in Endpoint /\ e \in Origins /\ ids \in Nat /\ ids' = ids + 1
  BY <1>1 DEF Origins, Clients, TypeOK, Send
<1>3. e.at \notin Served /\ e.peer \in Served
  <2>1. e.at \notin Served /\ e.peer \in Dials[e.at[1]] /\ e.at[1] \in Machine
    BY <1>2 DEF OriginInv, OriginsAreClients, Endpoint, Address
  <2>. QED
    BY <2>1, TransportAssumption DEF Served
<1>4. /\ q.src = e.at /\ q.dst = e.peer /\ q.ts = e.ts /\ q.conn = e.id
      /\ packets' = packets \cup {q}
  BY <1>1
<1>. HIDE DEF q
<1>5. HasEnds(q) /\ Origin(q) = e
  BY <1>2, <1>3, <1>4 DEF HasEnds, Origin, ClientEnd, ServerEnd, Endpoint
<1>6. \A p \in Mail' : p \in Mail \/ p = q
  BY <1>4 DEF Send, Mail, Callbacks
<1>7. \A p \in Mail' : HasEnds(p) /\ Origin(p) \in Origins
  BY <1>2, <1>5, <1>6, OldMail
<1>. QED
  BY <1>2, <1>7, NothingNew DEF Send

\* An answer is made for the client whose packet it answers.
LEMMA ReplyOrigins ==
  ASSUME TypeOK, OriginInv, NEW h \in Machine, Reply(h)
  PROVE  OriginInv'
<1>1. PICK p \in replies[h] :
        packets' = packets \cup {[Answer(p, "Data") EXCEPT !.id = ids + 1]}
  BY DEF Reply
<1>. DEFINE r == [Answer(p, "Data") EXCEPT !.id = ids + 1]
<1>2. HasEnds(p) /\ Origin(p) \in Origins
  BY OldMail DEF Mail
<1>3. HasEnds(r) /\ Origin(r) = Origin(p)
  BY <1>2, ReplyOf
<1>4. packets' = packets \cup {r}
  BY <1>1
<1>. HIDE DEF r
<1>5. \A q \in Mail' : q \in Mail \/ q = r
  BY <1>4 DEF Reply, Mail, Callbacks
<1>6. \A q \in Mail' : HasEnds(q) /\ Origin(q) \in Origins
  BY <1>2, <1>3, <1>5, OldMail
<1>7. ids \in Nat /\ ids' = ids + 1
  BY DEF TypeOK, Reply
<1>. QED
  BY <1>6, <1>7, NothingNew DEF Reply

\* A stamp given in a step is older than the next step.
LEMMA EndStepOrigins ==
  ASSUME TypeOK, OriginInv, EndStep
  PROVE  OriginInv'
<1>1. /\ endpoints' = endpoints /\ ids' = ids /\ Mail' = Mail /\ Origins' = Origins
      /\ tried \in Nat /\ step \in Nat
      /\ step' = step \/ step' = step + 1
      /\ tried > 0 => step' = step + 1
  BY DEF EndStep, TypeOK, Mail, Callbacks, Origins, Clients
<1>2. /\ \A f \in endpoints : f.ts \in Nat
      /\ \A o \in Origins : o.ts \in Nat
  BY OriginsType DEF TypeOK, Endpoint
<1>3. \A o \in Origins : o.ts <= step' /\ o.ts # step'
  <2>. SUFFICES ASSUME NEW o \in Origins
                PROVE  o.ts <= step' /\ o.ts # step'
    OBVIOUS
  <2>1. o.ts <= step /\ (o.ts = step => tried > 0)
    BY <1>1 DEF OriginInv, OriginsAreClients, WasTried
  <2>. QED
    BY <1>1, <1>2, <2>1
<1>4. EndpointsAreApart'
  BY <1>1, <1>2 DEF OriginInv, EndpointsAreApart
<1>5. OriginsAreClients'
  BY <1>1, <1>3 DEF OriginInv, OriginsAreClients
<1>6. SuccessorsAreNewer'
  BY <1>1 DEF OriginInv, SuccessorsAreNewer
<1>. QED
  BY <1>4, <1>5, <1>6 DEF OriginInv

\* No step confuses an endpoint with what was there before.
LEMMA OriginStep ==
  ASSUME TypeOK, OriginInv, [Next]_tvars
  PROVE  OriginInv'
<1>0. Crashable \subseteq Machine /\ Pausable \subseteq Machine /\ ids \in Nat
  BY TransportAssumption DEF TypeOK
<1>1. ASSUME NEW h \in Machine, Wake(h) \/ Close(h)
      PROVE  OriginInv'
  <2>1. Mail' = Mail
    BY <1>1 DEF Wake, Close, Mail, Callbacks
  <2>. QED
    BY <1>0, <1>1, <2>1, OldMail, NothingNew DEF Wake, Close
<1>2. ASSUME NEW h \in Machine, RunCallback(h)
      PROVE  OriginInv'
  <2>1. \A p \in Mail' : HasEnds(p) /\ Origin(p) \in Origins
    BY <1>2, MovedMail, OldMail
  <2>2. endpoints' \subseteq endpoints
    BY <1>2 DEF RunCallback
  <2>. QED
    BY <1>0, <1>2, <2>1, <2>2, NothingNew DEF RunCallback
<1>3. ASSUME NEW p \in packets, Deliver(p)
      PROVE  OriginInv'
  <2>1. \A r \in Mail' : HasEnds(r) /\ Origin(r) \in Origins
    BY <1>3, DeliveredMail
  <2>. QED
    BY <1>0, <1>3, <2>1, NothingNew DEF Deliver
<1>4. ASSUME NEW h \in Machine, Crash(h)
      PROVE  OriginInv'
  <2>1. \A g \in Machine : /\ replies'[g] \subseteq replies[g]
                           /\ Callbacks(g)' \subseteq Callbacks(g)
    BY <1>4 DEF Crash, TypeOK, Callbacks
  <2>2. Mail' \subseteq Mail
    BY <1>4, <2>1 DEF Crash, Mail
  <2>3. \A p \in Mail' : HasEnds(p) /\ Origin(p) \in Origins
    BY <2>2, OldMail
  <2>4. endpoints' \subseteq endpoints
    BY <1>4 DEF Crash
  <2>. QED
    BY <1>0, <1>4, <2>3, <2>4, NothingNew DEF Crash
<1>5. ASSUME NEW h \in Machine, Launch(h) \/ Pause(h) \/ Resume(h)
      PROVE  OriginInv'
  <2>1. Mail' = Mail
    BY <1>5 DEF Launch, Pause, Resume, Mail, Callbacks
  <2>. QED
    BY <1>0, <1>5, <2>1, OldMail, NothingNew DEF Launch, Pause, Resume
<1>6. CASE UNCHANGED tvars
  <2>1. Mail' = Mail
    BY <1>6 DEF tvars, Mail, Callbacks
  <2>. QED
    BY <1>0, <1>6, <2>1, OldMail, NothingNew DEF tvars
<1>. QED
  BY <1>0, <1>1, <1>2, <1>3, <1>4, <1>5, <1>6, ConnectToOrigins, ServeOrigins,
     SendOrigins, ReplyOrigins, EndStepOrigins DEF Next, Call, Fault

----------------------------------------------------------------------------
(* What becomes of a packet *)

\* A callback is of an endpoint where its packet came to, and which it is not
\* too old for.
LEMMA NewCallback ==
  ASSUME TypeOK, [Next]_tvars, NEW h \in Machine, NEW c \in Callbacks(h)'
  PROVE  \/ c \in Callbacks(h)
         \/ \E p \in packets : \E e \in At(p.dst) :
              p.ts >= e.ts /\ c.handler = e /\ c.packet = p
<1>0. Crashable \subseteq Machine /\ Pausable \subseteq Machine
  BY TransportAssumption
<1>1. CASE UNCHANGED inbox
  BY <1>1 DEF Callbacks
<1>2. ASSUME NEW g \in Machine, RunCallback(g)
      PROVE  c \in Callbacks(h)
  <2>1. inbox[h] \in Seq(Callback)
    BY DEF TypeOK
  <2>2. inbox'[h] = inbox[h] \/ (inbox[h] # <<>> /\ inbox'[h] = Tail(inbox[h]))
    BY <1>2 DEF RunCallback, TypeOK
  <2>3. inbox[h] # <<>> =>
          \A i \in DOMAIN Tail(inbox[h]) : i + 1 \in DOMAIN inbox[h]
                                           /\ Tail(inbox[h])[i] = inbox[h][i + 1]
    BY <2>1, TailOf
  <2>. QED
    BY <2>2, <2>3 DEF Callbacks
<1>3. ASSUME NEW g \in Machine, Crash(g)
      PROVE  c \in Callbacks(h)
  BY <1>3 DEF Crash, TypeOK, Callbacks
<1>4. ASSUME NEW p \in packets, Deliver(p), ~UNCHANGED inbox
      PROVE  \/ c \in Callbacks(h)
             \/ \E e \in At(p.dst) : p.ts >= e.ts /\ c.handler = e /\ c.packet = p
  <2>1. PICK e \in At(p.dst) : p.ts >= e.ts /\ Handle(p, e)
    BY <1>4, DeliveryEnds DEF Deliver, Bounce, Drop
  <2>. DEFINE new == [handler |-> e, packet |-> p]
  <2>2. inbox[h] \in Seq(Callback) /\ new \in Callback
    BY DEF TypeOK, Callback, At
  <2>3. inbox'[h] = inbox[h] \/ inbox'[h] = Append(inbox[h], new)
    BY <2>1 DEF Handle, TypeOK
  <2>4. new.handler = e /\ new.packet = p
    OBVIOUS
  <2>. HIDE DEF new
  <2>. QED
    BY <2>1, <2>2, <2>3, <2>4, AppendOf DEF Callbacks
<1>5. \/ UNCHANGED inbox
      \/ \E g \in Machine : RunCallback(g) \/ Crash(g)
      \/ \E p \in packets : Deliver(p)
  BY <1>0 DEF Next, Call, Fault, Wake, ConnectTo, Serve, Send, Reply, Close, EndStep,
              Launch, Pause, Resume, tvars
<1>. QED
  BY <1>1, <1>2, <1>3, <1>4, <1>5

\* An endpoint that is made has a number of its own.
LEMMA NewEndpoint ==
  ASSUME TypeOK, [Next]_tvars
  PROVE  /\ ids \in Nat /\ ids' \in Nat /\ ids <= ids'
         /\ \A e \in endpoints' : e \in endpoints \/ e.id = ids + 1
<1>0. Crashable \subseteq Machine /\ Pausable \subseteq Machine /\ ids \in Nat
  BY TransportAssumption DEF TypeOK
<1>1. ids' \in Nat /\ ids <= ids'
  BY <1>0 DEF Next, Call, Fault, Wake, RunCallback, Deliver, ConnectTo, Serve, Send,
              Reply, Close, EndStep, Crash, Launch, Pause, Resume, tvars
<1>2. ASSUME NEW h \in Machine, ConnectTo(h)
      PROVE  \A e \in endpoints' : e \in endpoints \/ e.id = ids + 1
  BY <1>2, Connecting
<1>3. ASSUME NEW h \in Machine, Serve(h)
      PROVE  \A e \in endpoints' : e \in endpoints \/ e.id = ids + 1
  BY <1>3, Serving
<1>4. \/ endpoints' \subseteq endpoints
      \/ \E h \in Machine : ConnectTo(h) \/ Serve(h)
  BY <1>0 DEF Next, Call, Fault, Wake, RunCallback, Deliver, Send, Reply, Close,
              EndStep, Crash, Launch, Pause, Resume, tvars
<1>. QED
  BY <1>0, <1>1, <1>2, <1>3, <1>4

\* A reset is made for a packet that came where no endpoint is, or to one that
\* it is too old for.
LEMMA NewReset ==
  ASSUME TypeOK, [Next]_tvars, NEW r \in packets', r.type = "Reset"
  PROVE  \/ r \in packets
         \/ \E p \in packets :
              /\ r.conn = p.conn
              /\ At(p.dst) = {} \/ \E e \in At(p.dst) : p.ts < e.ts
<1>0. Crashable \subseteq Machine /\ Pausable \subseteq Machine
  BY TransportAssumption
<1>1. ASSUME NEW h \in Machine, ConnectTo(h)
      PROVE  r \in packets
  BY <1>1, Connecting
<1>2. ASSUME NEW h \in Machine, Send(h)
      PROVE  r \in packets
  BY <1>2 DEF Send
<1>3. ASSUME NEW h \in Machine, Reply(h)
      PROVE  r \in packets
  BY <1>3, ReplyOf DEF Reply
<1>4. ASSUME NEW p \in packets, Deliver(p)
      PROVE  \/ r \in packets
             \/ /\ r.conn = p.conn
                /\ At(p.dst) = {} \/ \E e \in At(p.dst) : p.ts < e.ts
  <2>1. p \in Packet
    BY DEF TypeOK
  <2>2. ASSUME NEW type \in {"Reset", "Ping"}, Bounce(p, type), r \notin packets
        PROVE  type = "Reset" /\ r.conn = p.conn
    <3>1. r = Answer(p, type)
      BY <2>2 DEF Bounce
    <3>. QED
      BY <2>1, <3>1, AnswerOf
  <2>. QED
    BY <1>4, <2>2, DeliveryEnds DEF Deliver, Drop, Handle
<1>5. \/ UNCHANGED packets
      \/ \E h \in Machine : ConnectTo(h) \/ Send(h) \/ Reply(h)
      \/ \E p \in packets : Deliver(p)
  BY <1>0 DEF Next, Call, Fault, Wake, RunCallback, Serve, Close, EndStep, Crash,
              Launch, Pause, Resume, tvars
<1>. QED
  BY <1>1, <1>2, <1>3, <1>4, <1>5

\* A packet that is not too old for the endpoint it comes to belongs to it, or
\* to a connection opened after it.
LEMMA ComesToItsOwn ==
  ASSUME TypeOK, OriginInv, NEW p \in packets, NEW e \in At(p.dst), p.ts >= e.ts
  PROVE  /\ IsClient(e) => p.conn = e.id
         /\ ~IsClient(e) => p.conn > e.id
<1>1. /\ p \in Packet /\ p \in Mail /\ e \in endpoints /\ e.at = p.dst
      /\ e.ts \in Nat /\ p.ts \in Nat /\ e.id \in Nat /\ p.conn \in Nat
  BY DEF TypeOK, Mail, At, Packet, Endpoint
<1>2. HasEnds(p) /\ Origin(p) \in Origins
  BY <1>1, OldMail
<1>3. Origin(p).ts = p.ts /\ Origin(p).id = p.conn
  BY DEF Origin
<1>4. IsClient(e) <=> e.at \notin Served
  BY <1>1 DEF OriginInv, EndpointsAreApart
<1>5. /\ e.at \notin Served => Origin(p).at = e.at
      /\ e.at \in Served => Origin(p).peer = e.at
  BY <1>1, <1>2 DEF Origin, ClientEnd, ServerEnd, HasEnds
<1>6. /\ e.at = Origin(p).at => e = Origin(p) \/ Origin(p).ts < e.ts
      /\ e.at = Origin(p).peer => e.id < Origin(p).id \/ Origin(p).ts < e.ts
  BY <1>1, <1>2 DEF OriginInv, SuccessorsAreNewer
<1>. HIDE DEF Origin
<1>. QED
  BY <1>1, <1>3, <1>4, <1>5, <1>6

\* A packet of a client whose service has lived on is answered at either end.
LEMMA FindsItsEnds ==
  ASSUME TypeOK, OriginInv, NEW e \in Clients, PeerLives(e),
         NEW p \in packets, p.conn = e.id
  PROVE  /\ At(p.dst) # {}
         /\ \A f \in At(p.dst) : p.ts >= f.ts
<1>1. /\ p \in Packet /\ p \in Mail /\ e \in endpoints /\ IsClient(e)
      /\ \A f \in endpoints : f.ts \in Nat /\ f.id \in Nat
      /\ p.ts \in Nat
  BY DEF TypeOK, Mail, Packet, Endpoint, Clients
<1>2. HasEnds(p) /\ Origin(p) \in Origins
  BY <1>1, OldMail
<1>3. Origin(p).ts = p.ts /\ Origin(p).id = p.conn
  BY DEF Origin
<1>4. e = Origin(p)
  BY <1>1, <1>2, <1>3 DEF OriginInv, SuccessorsAreNewer
<1>5. p.ts = e.ts /\ (p.dst = e.at \/ p.dst = e.peer)
  BY <1>4 DEF Origin, ClientEnd, ServerEnd
<1>6. PICK s \in endpoints : s.at = e.peer /\ s.id < e.id
  BY DEF PeerLives, At
<1>7. s.ts <= e.ts
  BY <1>1, <1>6 DEF OriginInv, EndpointsAreApart
<1>8. \A f \in At(p.dst) : f = e \/ f = s
  BY <1>1, <1>5, <1>6 DEF At, OriginInv, EndpointsAreApart
<1>9. e \in At(p.dst) \/ s \in At(p.dst)
  BY <1>1, <1>5, <1>6 DEF At
<1>. QED
  BY <1>1, <1>5, <1>7, <1>8, <1>9

\* Every callback is of its own connection.
LEMMA MailStep ==
  ASSUME TypeOK, OriginInv, HandlersAreKnown, OwnMail, NoStaleRequests, [Next]_tvars
  PROVE  HandlersAreKnown' /\ OwnMail' /\ NoStaleRequests'
<1>. SUFFICES ASSUME NEW h \in Machine, NEW c \in Callbacks(h)'
              PROVE  /\ c.handler.id <= ids'
                     /\ IsClient(c.handler) => c.packet.conn = c.handler.id
                     /\ ~IsClient(c.handler) => c.packet.conn > c.handler.id
  BY DEF HandlersAreKnown, OwnMail, NoStaleRequests
<1>1. CASE c \in Callbacks(h)
  <2>1. c.handler.id \in Nat
    <3>1. inbox[h] \in Seq(Callback)
      BY DEF TypeOK
    <3>2. c \in Callback
      BY <1>1, <3>1 DEF Callbacks
    <3>. QED
      BY <3>2 DEF Callback, Endpoint
  <2>. QED
    BY <1>1, <2>1, NewEndpoint DEF HandlersAreKnown, OwnMail, NoStaleRequests
<1>2. ASSUME NEW p \in packets, NEW e \in At(p.dst),
             p.ts >= e.ts, c.handler = e, c.packet = p
      PROVE  /\ c.handler.id <= ids'
             /\ IsClient(c.handler) => c.packet.conn = c.handler.id
             /\ ~IsClient(c.handler) => c.packet.conn > c.handler.id
  <2>1. e.id \in Nat /\ e.id <= ids
    BY DEF At, TypeOK, Endpoint, OriginInv, EndpointsAreApart
  <2>. QED
    BY <1>2, <2>1, NewEndpoint, ComesToItsOwn
<1>. QED
  BY <1>1, <1>2, NewCallback

\* No reset is on its way to a client whose peer lives on.
LEMMA AlarmStep ==
  ASSUME TransportInv, [Next]_tvars
  PROVE  NoFalseAlarm'
<1>0. TypeOK /\ OriginInv
  BY DEF TransportInv, OriginInv
<1>. SUFFICES ASSUME NEW e \in endpoints', IsClient(e), PeerLives(e)'
              PROVE  /\ \A r \in packets' : ~(r.type = "Reset" /\ r.conn = e.id)
                     /\ \A c \in Callbacks(e.at[1])' :
                          ~(c.packet.type = "Reset" /\ c.handler = e)
  BY DEF NoFalseAlarm
<1>1. e.at[1] \in Machine /\ e.id \in Nat
  BY <1>0, TypeStep DEF TypeOK, Endpoint, Address
<1>2. \A p \in packets : p.conn \in Nat /\ p.conn <= ids
  <2>. SUFFICES ASSUME NEW p \in packets
                PROVE  p.conn \in Nat /\ p.conn <= ids
    OBVIOUS
  <2>1. p \in Packet /\ Origin(p) \in Origins /\ Origin(p).id = p.conn
    BY <1>0, OldMail DEF TypeOK, Mail, Origin
  <2>. QED
    BY <1>0, <2>1 DEF OriginInv, OriginsAreClients, Packet
<1>3. \A c \in Callbacks(e.at[1]) : c.handler.id <= ids
  BY <1>1 DEF TransportInv, HandlersAreKnown
<1>4. \A f \in endpoints : f.id <= ids /\ f.id \in Nat
  BY <1>0 DEF OriginInv, EndpointsAreApart, TypeOK, Endpoint
<1>5. CASE e \notin endpoints
  <2>1. ids \in Nat /\ e.id = ids + 1
    BY <1>0, <1>5, NewEndpoint
  <2>. QED
    BY <1>0, <1>1, <1>2, <1>3, <1>4, <2>1, NewReset, NewCallback DEF At
<1>6. CASE e \in endpoints
  <2>1. e \in Clients
    BY <1>6 DEF Clients
  <2>2. PICK s \in endpoints' : s.at = e.peer /\ s.id < e.id
    BY DEF PeerLives, At
  <2>3. s \in endpoints
    BY <1>0, <1>1, <1>4, <1>6, <2>2, NewEndpoint
  <2>4. PeerLives(e)
    BY <2>2, <2>3 DEF PeerLives, At
  <2>5. /\ \A p \in packets : ~(p.type = "Reset" /\ p.conn = e.id)
        /\ \A c \in Callbacks(e.at[1]) : ~(c.packet.type = "Reset" /\ c.handler = e)
    BY <1>6, <2>4 DEF TransportInv, NoFalseAlarm
  <2>6. ASSUME NEW r \in packets', r.type = "Reset", r.conn = e.id
        PROVE  FALSE
    <3>1. PICK p \in packets :
            /\ p.conn = e.id
            /\ At(p.dst) = {} \/ \E f \in At(p.dst) : p.ts < f.ts
      BY <1>0, <2>5, <2>6, NewReset
    <3>2. p.ts \in Nat /\ \A f \in At(p.dst) : f.ts \in Nat
      BY <1>0 DEF TypeOK, At, Packet, Endpoint
    <3>. QED
      BY <1>0, <2>1, <2>4, <3>1, <3>2, FindsItsEnds
  <2>7. ASSUME NEW c \in Callbacks(e.at[1])', c.packet.type = "Reset", c.handler = e
        PROVE  FALSE
    <3>1. PICK p \in packets :
            \E f \in At(p.dst) : p.ts >= f.ts /\ f = e /\ c.packet = p
      BY <1>0, <1>1, <2>5, <2>7, NewCallback
    <3>2. p.conn = e.id
      BY <1>0, <3>1, ComesToItsOwn
    <3>. QED
      BY <2>5, <2>7, <3>1, <3>2
  <2>. QED
    BY <2>6, <2>7
<1>. QED
  BY <1>5, <1>6

----------------------------------------------------------------------------
(* The theorems *)

\* Without endpoints and packets there is nothing to confuse.
LEMMA InitialTransport == Init => TransportInv
<1>. SUFFICES ASSUME Init
              PROVE  TransportInv
  OBVIOUS
<1>1. \A h \in Machine : Callbacks(h) = {} /\ replies[h] = {}
  BY DEF Init, Callbacks
<1>2. Mail = {} /\ Origins = {}
  BY <1>1 DEF Init, Mail, Origins, Clients
<1>3. TypeOK
  BY TransportAssumption DEF Init, TypeOK, Port
<1>. QED
  BY <1>1, <1>2, <1>3
  DEF TransportInv, EndpointsAreApart, OriginsAreClients, SuccessorsAreNewer,
      HandlersAreKnown, OwnMail, NoStaleRequests, NoFalseAlarm, Init

\* Every step keeps the invariant.
LEMMA TransportStep == TransportInv /\ [Next]_tvars => TransportInv'
<1>. SUFFICES ASSUME TransportInv, [Next]_tvars
              PROVE  TransportInv'
  OBVIOUS
<1>1. TypeOK /\ OriginInv /\ HandlersAreKnown /\ OwnMail /\ NoStaleRequests
  BY DEF TransportInv, OriginInv
<1>2. TypeOK'
  BY <1>1, TypeStep
<1>3. OriginInv'
  BY <1>1, OriginStep
<1>4. HandlersAreKnown' /\ OwnMail' /\ NoStaleRequests'
  BY <1>1, MailStep
<1>5. NoFalseAlarm'
  BY AlarmStep
<1>. QED
  BY <1>2, <1>3, <1>4, <1>5 DEF TransportInv, OriginInv

\* The inductive invariant of the transport.
THEOREM TransportIsSound == Spec => []TransportInv
<1>. QED
  BY InitialTransport, TransportStep, PTL DEF Spec

\* Every endpoint, packet and callback is well formed, and next_port_ wraps.
THEOREM TypeCorrect == Spec => []TypeOK
<1>1. TransportInv => TypeOK
  BY DEF TransportInv
<1>. QED
  BY <1>1, TransportIsSound, PTL

\* A client socket is told of its own connection only, whatever had its port
\* before and however late a packet arrives (transport.cpp:150-210).
THEOREM ClientsGetTheirOwn == Spec => []OwnMail
<1>1. TransportInv => OwnMail
  BY DEF TransportInv
<1>. QED
  BY <1>1, TransportIsSound, PTL

\* A service handles no message of a connection opened before it was, by a client
\* of an earlier incarnation (transport.cpp:167-170).
THEOREM ServicesStartAfresh == Spec => []NoStaleRequests
<1>1. TransportInv => NoStaleRequests
  BY DEF TransportInv
<1>. QED
  BY <1>1, TransportIsSound, PTL

\* While the service lives on that a client has connected to, there is no reset
\* for it, on its way or in its inbox (transport.cpp:152-190).
THEOREM ResetsAreTrue == Spec => []NoFalseAlarm
<1>1. TransportInv => NoFalseAlarm
  BY DEF TransportInv
<1>. QED
  BY <1>1, TransportIsSound, PTL
=============================================================================
