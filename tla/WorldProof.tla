----------------------------- MODULE WorldProof -----------------------------
(***************************************************************************)
(* What holds in every world, of any size and for any program: the types,  *)
(* that the clock is never turned back, that links lose no frame and a     *)
(* pause no task, and, when adversaries wake up on timers only, that the   *)
(* network's queues always fit together.                                   *)
(***************************************************************************)
EXTENDS World, FiniteSetTheorems, TLAPS

----------------------------------------------------------------------------
(* Finite sets and ranks *)

\* The image of a finite set under a function is finite.
LEMMA ImageFinite ==
  ASSUME NEW S, IsFiniteSet(S), NEW f, f \in [S -> {f[x] : x \in S}]
  PROVE  IsFiniteSet({f[x] : x \in S})
<1>1. f \in Surjection(S, {f[x] : x \in S})
  BY DEF Surjection
<1>. QED
  BY <1>1, FS_Surjection

\* How many elements of S stand before u in R.
Rank(u, S, R) == Cardinality({v \in S : <<v, u>> \in R})

\* Ranks in a finite strict total order R are distinct and below the size.
LEMMA RankIsInjective ==
  ASSUME NEW S, IsFiniteSet(S), NEW R,
         \A x \in S : <<x, x>> \notin R,
         \A x, y \in S : x # y => <<x, y>> \in R \/ <<y, x>> \in R,
         \A x, y, z \in S : <<x, y>> \in R /\ <<y, z>> \in R => <<x, z>> \in R,
         NEW x \in S
  PROVE  /\ Rank(x, S, R) \in Nat
         /\ Rank(x, S, R) < Cardinality(S)
         /\ \A y \in S : Rank(x, S, R) = Rank(y, S, R) => x = y
<1>. DEFINE below(u) == {v \in S : <<v, u>> \in R}
            rank(u) == Cardinality(below(u))
<1>1. \A u \in S : below(u) \in SUBSET S /\ u \notin below(u)
  OBVIOUS
<1>2. \A u, w \in S : <<u, w>> \in R => below(u) \in SUBSET below(w) /\ u \in below(w)
  OBVIOUS
<1>. HIDE DEF below
<1>3. \A u \in S : /\ IsFiniteSet(below(u))
                   /\ rank(u) \in Nat
                   /\ rank(u) <= Cardinality(S)
                   /\ Cardinality(S) = rank(u) => S = below(u)
  BY <1>1, FS_Subset, FS_CardinalityType
<1>4. \A u, w \in S : <<u, w>> \in R => /\ rank(u) <= rank(w)
                                        /\ rank(w) = rank(u) => below(w) = below(u)
  BY <1>2, <1>3, FS_Subset
<1>5. Cardinality(S) \in Nat
  BY FS_CardinalityType
<1>. HIDE DEF rank
<1>6. rank(x) < Cardinality(S)
  BY <1>1, <1>3, <1>5
<1>7. \A u, w \in S : <<u, w>> \in R => rank(u) # rank(w)
  BY <1>1, <1>2, <1>4
<1>8. \A y \in S : rank(x) = rank(y) => x = y
  BY <1>7
<1>. QED
  BY <1>3, <1>6, <1>8 DEF rank, below, Rank

\* Two overdue frames are never put back with one tie_braker.
LEMMA PlaceIsInjective ==
  ASSUME NEW S \in SUBSET (Link \X EntryOf(Packet)), IsFiniteSet(S),
         \A o, p \in S : o[1] = p[1] /\ o[2].tie_braker = p[2].tie_braker => o = p,
         NEW o \in S
  PROVE  /\ Place(o, S) \in Nat
         /\ Place(o, S) < Cardinality(S)
         /\ \A p \in S : Place(o, S) = Place(p, S) => o = p
<1>. DEFINE R == {q \in S \X S : Sooner(q[1], q[2])}
<1>1. \A p, q \in S : <<p, q>> \in R <=> Sooner(p, q)
  OBVIOUS
<1>2. \A l, m \in Link : l = m \/ LinkBefore(l, m) \/ LinkBefore(m, l)
  BY ClusterAssumption DEF Link, LinkBefore
<1>3. /\ \A l \in Link : ~LinkBefore(l, l)
      /\ \A l, m, n \in Link : LinkBefore(l, m) /\ LinkBefore(m, n) => LinkBefore(l, n)
  BY ClusterAssumption DEF Link, LinkBefore
<1>4. \A p \in S : /\ p[1] \in Link
                   /\ p[2].time \in Nat /\ p[2].tie_braker \in Nat
  BY DEF EntryOf
<1>5. \A p, q \in S : p # q => Sooner(p, q) \/ Sooner(q, p)
  BY <1>2, <1>4 DEF Sooner, Before
<1>6. \A p \in S : ~Sooner(p, p)
  BY <1>3, <1>4 DEF Sooner, Before
<1>7. \A p, q, r \in S : Sooner(p, q) /\ Sooner(q, r) => Sooner(p, r)
  BY <1>3, <1>4 DEF Sooner, Before
<1>8. \A u \in S : Place(u, S) = Rank(u, S, R)
  <2>. SUFFICES ASSUME NEW u \in S
                PROVE  {v \in S : Sooner(v, u)} = {v \in S : <<v, u>> \in R}
    BY DEF Place, Rank
  <2>. QED
    BY <1>1
<1>9. /\ \A x \in S : <<x, x>> \notin R
      /\ \A x, y \in S : x # y => <<x, y>> \in R \/ <<y, x>> \in R
      /\ \A x, y, z \in S : <<x, y>> \in R /\ <<y, z>> \in R => <<x, z>> \in R
  BY <1>1, <1>5, <1>6, <1>7
<1>. HIDE DEF R
<1>10. /\ Rank(o, S, R) \in Nat
       /\ Rank(o, S, R) < Cardinality(S)
       /\ \A y \in S : Rank(o, S, R) = Rank(y, S, R) => o = y
  BY <1>9, RankIsInjective
<1>. QED
  BY <1>8, <1>10

----------------------------------------------------------------------------
(* Types *)

TypeInv == TypeOK /\ Finite

\* An entry of a queue (PriorityQueue::Insert).
LEMMA EntryType ==
  ASSUME NEW X, NEW x \in X, NEW t \in Nat, NEW n \in Nat
  PROVE  Entry(t, n, x) \in EntryOf(X)
BY DEF Entry, EntryOf

\* Transmit keeps the types.
LEMMA TransmitType ==
  ASSUME TypeInv,
         NEW fs \in [Link -> SUBSET EntryOf(Packet)],
         \A m \in Link : IsFiniteSet(fs[m]),
         NEW es \in SUBSET EntryOf(Link),
         NEW l \in Link, NEW t \in Nat, NEW p \in Packet,
         Transmit(fs, es, l, t, p)
  PROVE  /\ frames' \in [Link -> SUBSET EntryOf(Packet)]
         /\ events' \in SUBSET EntryOf(Link)
         /\ \A m \in Link : IsFiniteSet(frames'[m])
         /\ inserts' \in Nat
<1>1. PICK d \in FlightTime :
        /\ frames' = AddFrame(fs, l, t + d, inserts + 1, p)
        /\ events' = AddLinkEvent(es, l, t + d, inserts + 1)
        /\ inserts' = inserts + 1
  BY DEF Transmit
<1>2. inserts + 1 \in Nat /\ t + d \in Nat
  BY FlightAssumption DEF TypeInv, TypeOK
<1>3. /\ Entry(t + d, inserts + 1, p) \in EntryOf(Packet)
      /\ Entry(t + d, inserts + 1, l) \in EntryOf(Link)
  BY <1>2, EntryType
<1>4. \A m \in Link : IsFiniteSet(frames'[m])
  <2>. SUFFICES ASSUME NEW m \in Link
                PROVE  IsFiniteSet(frames'[m])
    OBVIOUS
  <2>1. IsFiniteSet(fs[m] \cup {Entry(t + d, inserts + 1, p)})
    BY FS_AddElement
  <2>. QED
    BY <1>1, <2>1 DEF AddFrame
<1>. QED
  BY <1>1, <1>2, <1>3, <1>4 DEF AddFrame, AddLinkEvent

\* The overdue frames of a set of links are a finite set of frames, each with
\* its link.
LEMMA OverdueType ==
  ASSUME TypeInv, NEW R \in SUBSET Link
  PROVE  /\ Overdue(R) \in SUBSET (Link \X EntryOf(Packet))
         /\ IsFiniteSet(Overdue(R))
         /\ Cardinality(Overdue(R)) \in Nat
<1>. DEFINE G(l) == {g \in frames[l] : g.time < now}
            F == [l \in R |-> {<<l, f>> : f \in G(l)}]
<1>1. \A l \in R : IsFiniteSet(F[l])
  <2>. SUFFICES ASSUME NEW l \in R
                PROVE  IsFiniteSet(F[l])
    OBVIOUS
  <2>. DEFINE h == [f \in G(l) |-> <<l, f>>]
  <2>1. IsFiniteSet(G(l))
    BY FS_Subset DEF TypeInv, Finite
  <2>. HIDE DEF G
  <2>2. IsFiniteSet({h[f] : f \in G(l)})
    BY <2>1, ImageFinite
  <2>. QED
    BY <2>2
<1>2. IsFiniteSet({F[l] : l \in R})
  <2>1. IsFiniteSet(Link)
    BY ClusterAssumption, FS_Product DEF Link
  <2>2. IsFiniteSet(R)
    BY <2>1, FS_Subset
  <2>. HIDE DEF F
  <2>3. F \in [R -> {F[l] : l \in R}]
    BY DEF F
  <2>. QED
    BY <2>2, <2>3, ImageFinite
<1>3. Overdue(R) = UNION {F[l] : l \in R}
  BY DEF Overdue
<1>4. IsFiniteSet(Overdue(R))
  <2>. HIDE DEF F
  <2>. QED
    BY <1>1, <1>2, <1>3, FS_UNION
<1>5. Overdue(R) \in SUBSET (Link \X EntryOf(Packet))
  BY DEF Overdue, TypeInv, TypeOK, NetTypeOK
<1>. QED
  BY <1>4, <1>5, FS_CardinalityType

\* ResumeLinks keeps the types.
LEMMA ResumeLinksType ==
  ASSUME TypeInv, NEW L \in SUBSET Link, ResumeLinks(L)
  PROVE  /\ NetTypeOK'
         /\ \A l \in Link : IsFiniteSet(frames'[l])
         /\ inserts' \in Nat
<1>. DEFINE R == {l \in L : paused[l]}
            S == Overdue(R)
            Tie(o) == inserts + 1 + Place(o, S)
            kept(l) == {f \in frames[l] : <<l, f>> \notin S}
            mine(l) == {p \in S : p[1] = l}
            Put(o) == Entry(now + 1, Tie(o), o[2].item)
            back(l) == {Put(o) : o \in mine(l)}
<1>1. /\ S \in SUBSET (Link \X EntryOf(Packet))
      /\ IsFiniteSet(S)
      /\ Cardinality(S) \in Nat
  BY OverdueType
<1>. HIDE DEF S
<1>2. /\ paused' = [l \in Link |-> paused[l] /\ l \notin R]
      /\ frames' = [l \in Link |-> kept(l) \cup back(l)]
      /\ events' = events \cup {Entry(now + 1, Tie(o), o[1]) : o \in S}
      /\ inserts' = inserts + Cardinality(S)
  BY DEF ResumeLinks, S
<1>3. \A o \in S : Tie(o) \in Nat
  <2>. SUFFICES ASSUME NEW o \in S
                PROVE  Place(o, S) \in Nat
    BY DEF TypeInv, TypeOK
  <2>1. {p \in S : Sooner(p, o)} \in SUBSET S
    OBVIOUS
  <2>. QED
    BY <1>1, <2>1, FS_Subset, FS_CardinalityType DEF Place
<1>. HIDE DEF Tie
<1>4. now + 1 \in Nat
  BY DEF TypeInv, TypeOK
<1>5. \A o \in S : o[1] \in Link /\ o[2].item \in Packet
  BY <1>1 DEF EntryOf
<1>6. \A o \in S : /\ Put(o) \in EntryOf(Packet)
                   /\ Entry(now + 1, Tie(o), o[1]) \in EntryOf(Link)
  BY <1>3, <1>4, <1>5, EntryType
<1>7. \A l \in Link : IsFiniteSet(frames'[l])
  <2>. SUFFICES ASSUME NEW l \in Link
                PROVE  IsFiniteSet(frames'[l])
    OBVIOUS
  <2>1. IsFiniteSet(kept(l)) /\ IsFiniteSet(mine(l))
    BY <1>1, FS_Subset DEF TypeInv, Finite
  <2>. HIDE DEF Put
  <2>. DEFINE h == [o \in mine(l) |-> Put(o)]
  <2>. HIDE DEF mine
  <2>2. IsFiniteSet({h[o] : o \in mine(l)})
    BY <2>1, ImageFinite
  <2>3. IsFiniteSet(back(l))
    BY <2>2
  <2>4. IsFiniteSet(kept(l) \cup back(l))
    BY <2>1, <2>3, FS_Union
  <2>. QED
    BY <1>2, <2>4
<1>8. frames' \in [Link -> SUBSET EntryOf(Packet)]
  <2>1. \A l \in Link : kept(l) \cup back(l) \in SUBSET EntryOf(Packet)
    BY <1>6 DEF TypeInv, TypeOK, NetTypeOK
  <2>. QED
    BY <1>2, <2>1
<1>9. events' \in SUBSET EntryOf(Link)
  BY <1>2, <1>6 DEF TypeInv, TypeOK, NetTypeOK
<1>10. paused' \in [Link -> BOOLEAN]
  BY <1>2
<1>11. inserts' \in Nat
  BY <1>1, <1>2 DEF TypeInv, TypeOK
<1>. QED
  BY <1>7, <1>8, <1>9, <1>10, <1>11 DEF NetTypeOK

\* What Resume makes of a finite queue of tasks.
LEMMA PostponedType ==
  ASSUME inserts \in Nat, NEW at \in Nat,
         NEW q \in SUBSET EntryOf(Task), IsFiniteSet(q)
  PROVE  /\ Postponed(q, at) \in SUBSET EntryOf(Task)
         /\ IsFiniteSet(Postponed(q, at))
         /\ Cardinality(Late(q, at)) \in Nat
<1>. DEFINE late == Late(q, at)
            rank(x) == Cardinality({y \in late : Before(y, x)})
            Put(x) == Entry(at, inserts + 1 + rank(x), x.item)
            h == [x \in late |-> Put(x)]
<1>1. late \in SUBSET q /\ IsFiniteSet(late) /\ Cardinality(late) \in Nat
  BY FS_Subset, FS_CardinalityType DEF Late
<1>2. Postponed(q, at) = (q \ late) \cup {Put(x) : x \in late}
  BY DEF Postponed
<1>. HIDE DEF late
<1>3. \A x \in late : rank(x) \in Nat
  <2>. TAKE x \in late
  <2>1. {y \in late : Before(y, x)} \in SUBSET late
    OBVIOUS
  <2>. QED
    BY <1>1, <2>1, FS_Subset, FS_CardinalityType
<1>. HIDE DEF rank
<1>4. \A x \in late : x.item \in Task
  BY <1>1 DEF EntryOf
<1>5. \A x \in late : Put(x) \in EntryOf(Task)
  BY <1>3, <1>4, EntryType
<1>6. IsFiniteSet(q \ late)
  BY FS_Subset
<1>7. IsFiniteSet({Put(x) : x \in late})
  <2>. HIDE DEF Put
  <2>1. IsFiniteSet({h[x] : x \in late})
    BY <1>1, ImageFinite
  <2>. QED
    BY <2>1
<1>8. IsFiniteSet(Postponed(q, at))
  BY <1>2, <1>6, <1>7, FS_Union
<1>. QED
  BY <1>1, <1>2, <1>5, <1>8 DEF late

\* A task joins a queue as some insertion.
LEMMA ScheduleAsType ==
  ASSUME NEW q \in SUBSET EntryOf(Task), IsFiniteSet(q),
         NEW n \in Nat, NEW at \in Nat, NEW k \in Nat
  PROVE  /\ ScheduleAs(q, n, at, k) \in SUBSET EntryOf(Task)
         /\ IsFiniteSet(ScheduleAs(q, n, at, k))
<1>1. [id |-> n, due |-> at, life |-> k] \in Task
  BY DEF Task
<1>2. Entry(at, n, [id |-> n, due |-> at, life |-> k]) \in EntryOf(Task)
  BY <1>1, EntryType
<1>. QED
  BY <1>2, FS_AddElement DEF ScheduleAs

\* A task joins a queue as the next insertion.
LEMMA ScheduleType ==
  ASSUME inserts \in Nat, NEW q \in SUBSET EntryOf(Task), IsFiniteSet(q),
         NEW at \in Nat, NEW k \in Nat
  PROVE  /\ ScheduleAt(q, at, k) \in SUBSET EntryOf(Task)
         /\ IsFiniteSet(ScheduleAt(q, at, k))
         /\ inserts + 1 \in Nat
<1>1. inserts + 1 \in Nat
  OBVIOUS
<1>. QED
  BY <1>1, ScheduleAsType DEF ScheduleAt

\* The counter of insertions goes on by one at most.
LEMMA NextInsertIsNext ==
  ASSUME inserts \in Nat, NEW q
  PROVE  /\ NextInsert(q) \in Nat
         /\ NextInsert(q) = inserts \/ NextInsert(q) = inserts + 1
BY DEF NextInsert

\* StartProcess keeps the types.
LEMMA StartProcessType ==
  ASSUME TypeInv, NEW s \in Host, NEW q \in SUBSET EntryOf(Task), IsFiniteSet(q),
         StartProcess(s, q)
  PROVE  /\ state' \in [Host -> State]
         /\ tasks' \in [Host -> SUBSET EntryOf(Task)]
         /\ life' \in [Host -> Nat]
         /\ inserts' \in Nat
         /\ \A r \in Host : IsFiniteSet(tasks'[r])
<1>1. life[s] + 1 \in Nat /\ now \in Nat /\ inserts \in Nat
  BY DEF TypeInv, TypeOK, ServerTypeOK
<1>2. /\ ScheduleAt(q, now, life[s] + 1) \in SUBSET EntryOf(Task)
      /\ IsFiniteSet(ScheduleAt(q, now, life[s] + 1))
  BY <1>1, ScheduleType
<1>. QED
  BY <1>1, <1>2 DEF StartProcess, TypeInv, TypeOK, ServerTypeOK, Finite, State

\* FastReboot keeps the types.
LEMMA FastRebootType ==
  ASSUME TypeInv, NEW s \in Host, FastReboot(s)
  PROVE  /\ ServerTypeOK'
         /\ inserts' \in Nat
         /\ \A r \in Host : IsFiniteSet(tasks'[r])
<1>1. CASE ~IsAlive(s)
  BY <1>1 DEF FastReboot, serverVars, TypeInv, TypeOK, ServerTypeOK, Finite
<1>2. CASE IsAlive(s)
  <2>1. StartProcess(s, {}) /\ bound' = [bound EXCEPT ![s] = FALSE]
    BY <1>2 DEF FastReboot
  <2>2. {} \in SUBSET EntryOf(Task) /\ IsFiniteSet({})
    BY FS_EmptySet
  <2>3. bound' \in [Host -> BOOLEAN]
    BY <2>1 DEF TypeInv, TypeOK, ServerTypeOK
  <2>. QED
    BY <2>1, <2>2, <2>3, StartProcessType DEF ServerTypeOK
<1>. QED
  BY <1>1, <1>2

\* CrashAll keeps the types.
LEMMA CrashAllType ==
  ASSUME TypeInv, NEW S \in SUBSET Host, CrashAll(S)
  PROVE  /\ ServerTypeOK'
         /\ inserts' \in Nat
         /\ \A r \in Host : IsFiniteSet(tasks'[r])
BY FS_EmptySet DEF CrashAll, TypeInv, TypeOK, ServerTypeOK, Finite, State

\* ServerFault keeps the types.
LEMMA ServerFaultType ==
  ASSUME TypeInv, NEW v \in Victim, ServerFault(v)
  PROVE  TypeInv'
<1>1. v \in Host
  BY ProgramAssumption DEF Host
<1>2. now' = now /\ active' = active /\ netVars' = netVars
  BY DEF ServerFault
<1>. SUFFICES /\ ServerTypeOK'
              /\ inserts' \in Nat
              /\ \A r \in Host : IsFiniteSet(tasks'[r])
  BY <1>2 DEF TypeInv, TypeOK, Finite, netVars, NetTypeOK
<1>3. CASE Pause(v)
  BY <1>3 DEF Pause, TypeInv, TypeOK, ServerTypeOK, Finite, State
<1>4. CASE Resume(v)
  <2>1. CASE state[v] # "Paused"
    BY <1>4, <2>1 DEF Resume, serverVars, TypeInv, TypeOK, ServerTypeOK, Finite
  <2>2. CASE state[v] = "Paused"
    <3>1. /\ Postponed(tasks[v], now) \in SUBSET EntryOf(Task)
          /\ IsFiniteSet(Postponed(tasks[v], now))
          /\ Cardinality(Late(tasks[v], now)) \in Nat
      BY <1>1, PostponedType DEF TypeInv, TypeOK, ServerTypeOK, Finite
    <3>. QED
      BY <1>1, <1>4, <2>2, <3>1 DEF Resume, TypeInv, TypeOK, ServerTypeOK, Finite, State
  <2>. QED
    BY <2>1, <2>2
<1>5. CASE Crash(v)
  BY <1>1, <1>5, CrashAllType DEF Crash
<1>6. CASE Launch(v)
  <2>1. /\ tasks[v] \in SUBSET EntryOf(Task)
        /\ IsFiniteSet(tasks[v])
    BY <1>1 DEF TypeInv, TypeOK, ServerTypeOK, Finite
  <2>2. StartProcess(v, tasks[v]) /\ bound' = bound
    BY <1>6 DEF Launch
  <2>. QED
    BY <1>1, <2>1, <2>2, StartProcessType DEF ServerTypeOK, TypeInv, TypeOK
<1>7. CASE FastReboot(v)
  BY <1>1, <1>7, FastRebootType
<1>. QED
  BY <1>3, <1>4, <1>5, <1>6, <1>7 DEF ServerFault

\* Deliver keeps the types.
LEMMA DeliverType ==
  ASSUME TypeInv, NEW e \in events, Deliver(e)
  PROVE  /\ frames' \in [Link -> SUBSET EntryOf(Packet)]
         /\ events' \in SUBSET EntryOf(Link)
         /\ \A m \in Link : IsFiniteSet(frames'[m])
         /\ ServerTypeOK'
         /\ inserts' \in Nat
         /\ \A r \in Host : IsFiniteSet(tasks'[r])
<1>. DEFINE l == e.item
            es == events \ {e}
<1>1. l \in Link /\ Opposite(l) \in Link /\ l[2] \in Host /\ e.time \in Nat
  BY DEF TypeInv, TypeOK, NetTypeOK, EntryOf, Opposite, Link
<1>2. PICK f \in frames[l] :
        HandlePacket(l, [frames EXCEPT ![l] = @ \ {f}], es, e.time, f.item)
  BY DEF Deliver
<1>. DEFINE fs == [frames EXCEPT ![l] = @ \ {f}]
<1>3. /\ fs \in [Link -> SUBSET EntryOf(Packet)]
      /\ es \in SUBSET EntryOf(Link)
  BY DEF TypeInv, TypeOK, NetTypeOK
<1>4. \A m \in Link : IsFiniteSet(fs[m])
  <2>. TAKE m \in Link
  <2>1. fs[m] \in SUBSET frames[m]
    BY DEF TypeInv, TypeOK, NetTypeOK
  <2>. QED
    BY <2>1, FS_Subset DEF TypeInv, Finite
<1>5. CASE /\ Transmit(fs, es, Opposite(l), e.time, [type |-> "Reset", id |-> inserts + 1])
           /\ UNCHANGED serverVars
  <2>1. [type |-> "Reset", id |-> inserts + 1] \in Packet
    BY DEF Packet, PacketType, TypeInv, TypeOK
  <2>. HIDE DEF fs, es
  <2>. QED
    BY <1>1, <1>3, <1>4, <1>5, <2>1, TransmitType
       DEF serverVars, TypeInv, TypeOK, ServerTypeOK, Finite
<1>6. CASE frames' = fs /\ events' = es /\ UNCHANGED <<inserts, serverVars>>
  BY <1>3, <1>4, <1>6 DEF serverVars, TypeInv, TypeOK, ServerTypeOK, Finite
<1>7. CASE /\ tasks' = [tasks EXCEPT ![l[2]] = ScheduleAt(@, e.time, life[l[2]])]
           /\ frames' = fs
           /\ events' = es
           /\ inserts' = inserts + 1
           /\ UNCHANGED <<state, bound, life>>
  <2>. DEFINE q == ScheduleAt(tasks[l[2]], e.time, life[l[2]])
  <2>1. q \in SUBSET EntryOf(Task) /\ IsFiniteSet(q) /\ inserts + 1 \in Nat
    BY <1>1, ScheduleType DEF TypeInv, TypeOK, ServerTypeOK, Finite
  <2>. HIDE DEF fs, es
  <2>. QED
    BY <1>1, <1>3, <1>4, <1>7, <2>1 DEF TypeInv, TypeOK, ServerTypeOK, Finite
<1>. QED
  BY <1>2, <1>5, <1>6, <1>7 DEF HandlePacket

\* The world begins with the right types.
LEMMA TypeInit == Init => TypeInv
<1>. SUFFICES ASSUME Init
              PROVE  TypeInv
  OBVIOUS
<1>. USE DEF Init
<1>1. StartTime \in Nat /\ now = StartTime
  BY ProgramAssumption
<1>2. Entry(now, 1, [id |-> 1, due |-> now, life |-> 1]) \in EntryOf(Task)
  BY <1>1, EntryType DEF Task
<1>3. NetTypeOK /\ \A l \in Link : IsFiniteSet(frames[l])
  BY FS_EmptySet DEF NetInit, NetTypeOK
<1>4. ServerTypeOK /\ \A s \in Host : IsFiniteSet(tasks[s])
  BY <1>2, FS_Singleton DEF ServerInit, ServerTypeOK, State
<1>. QED
  BY <1>1, <1>3, <1>4 DEF ServerInit, TypeInv, TypeOK, Finite

\* Every step keeps the types.
LEMMA TypeStep == TypeInv /\ [Next]_vars => TypeInv'
<1>. SUFFICES ASSUME TypeInv, [Next]_vars
              PROVE  TypeInv'
  OBVIOUS
<1>. USE DEF TypeInv
<1>1. ASSUME NEW s \in Host, TakeNext(s)
      PROVE  TypeInv'
  <2>1. PICK x \in tasks[s] : now' = x.time /\ tasks' = [tasks EXCEPT ![s] = @ \ {x}]
    BY <1>1 DEF TakeNext, FastForwardTo
  <2>2. now' \in Nat
    BY <2>1 DEF TypeOK, ServerTypeOK, EntryOf
  <2>3. tasks' \in [Host -> SUBSET EntryOf(Task)]
    BY <2>1 DEF TypeOK, ServerTypeOK
  <2>4. \A r \in Host : IsFiniteSet(tasks'[r])
    <3>. TAKE r \in Host
    <3>1. tasks'[r] \in SUBSET tasks[r]
      BY <2>1 DEF TypeOK, ServerTypeOK
    <3>. QED
      BY <3>1, FS_Subset DEF Finite
  <2>. QED
    BY <1>1, <2>2, <2>3, <2>4 DEF TakeNext, netVars, TypeOK, NetTypeOK, ServerTypeOK, Finite
<1>2. ASSUME EndStep
      PROVE  TypeInv'
  BY <1>2 DEF EndStep, netVars, serverVars, TypeOK, NetTypeOK, ServerTypeOK, Finite
<1>3. ASSUME NEW s \in Host, Schedule(s)
      PROVE  TypeInv'
  <2>1. PICK d \in Delay :
          tasks' = [tasks EXCEPT ![s] = ScheduleAs(@, inserts', now + d, life[s])]
    BY <1>3 DEF Schedule
  <2>2. now + d \in Nat /\ life[s] \in Nat /\ inserts' \in Nat
    BY <1>3, ProgramAssumption, NextInsertIsNext DEF Schedule, TypeOK, ServerTypeOK
  <2>. DEFINE q == ScheduleAs(tasks[s], inserts', now + d, life[s])
  <2>3. q \in SUBSET EntryOf(Task) /\ IsFiniteSet(q)
    BY <2>2, ScheduleAsType DEF TypeOK, ServerTypeOK, Finite
  <2>. HIDE DEF q
  <2>4. tasks' = [tasks EXCEPT ![s] = q]
    BY <2>1 DEF q
  <2>. QED
    BY <1>3, <2>2, <2>3, <2>4 DEF Schedule, netVars, TypeOK, NetTypeOK, ServerTypeOK, Finite
<1>4. ASSUME NEW s \in Host, Bind(s) \/ Unbind(s)
      PROVE  TypeInv'
  BY <1>4 DEF Bind, Unbind, netVars, TypeOK, NetTypeOK, ServerTypeOK, Finite
<1>5. ASSUME NEW s \in Host, Send(s)
      PROVE  TypeInv'
  <2>. DEFINE p == [type |-> "Data", id |-> inserts + 1]
  <2>1. PICK l \in Route : Transmit(frames, events, l, now, p)
    BY <1>5 DEF Send
  <2>2. l \in Link /\ p \in Packet /\ now \in Nat
    BY ProgramAssumption DEF Packet, PacketType, TypeOK
  <2>. HIDE DEF p
  <2>3. /\ frames' \in [Link -> SUBSET EntryOf(Packet)]
        /\ events' \in SUBSET EntryOf(Link)
        /\ \A m \in Link : IsFiniteSet(frames'[m])
        /\ inserts' \in Nat
    BY <2>1, <2>2, TransmitType DEF TypeOK, NetTypeOK, Finite
  <2>. QED
    BY <1>5, <2>3 DEF Send, serverVars, TypeOK, NetTypeOK, ServerTypeOK, Finite
<1>6. ASSUME NetFault
      PROVE  TypeInv'
  <2>1. now' = now /\ active' = active /\ serverVars' = serverVars
    BY <1>6 DEF NetFault
  <2>. SUFFICES /\ NetTypeOK'
                /\ inserts' \in Nat
                /\ \A l \in Link : IsFiniteSet(frames'[l])
    BY <2>1 DEF serverVars, TypeOK, ServerTypeOK, Finite
  <2>2. ASSUME NEW L, PauseLinks(L)
        PROVE  NetTypeOK' /\ inserts' \in Nat /\ \A l \in Link : IsFiniteSet(frames'[l])
    <3>1. paused' \in [Link -> BOOLEAN]
      BY <2>2 DEF PauseLinks
    <3>. QED
      BY <2>2, <3>1 DEF PauseLinks, TypeOK, NetTypeOK, Finite
  <2>3. ASSUME NEW L \in SUBSET Link, ResumeLinks(L)
        PROVE  NetTypeOK' /\ inserts' \in Nat /\ \A l \in Link : IsFiniteSet(frames'[l])
    BY <2>3, ResumeLinksType
  <2>4. \A l \in Breakable : {l} \in SUBSET Link
    BY ProgramAssumption
  <2>. QED
    BY <1>6, <2>2, <2>3, <2>4 DEF NetFault, PauseLink, ResumeLink, Split, Heal
<1>7. ASSUME NEW v \in Victim, ServerFault(v)
      PROVE  TypeInv'
  BY <1>7, ServerFaultType
<1>8. ASSUME NetworkStep
      PROVE  TypeInv'
  <2>1. PICK e \in events : now' = e.time /\ (SkipEvent(e) \/ Deliver(e))
    BY <1>8 DEF NetworkStep, FastForwardTo
  <2>2. now' \in Nat /\ active' = active /\ paused' = paused
    BY <1>8, <2>1 DEF NetworkStep, TypeOK, NetTypeOK, EntryOf
  <2>3. CASE SkipEvent(e)
    BY <2>2, <2>3 DEF SkipEvent, serverVars, TypeOK, NetTypeOK, ServerTypeOK, Finite
  <2>4. CASE Deliver(e)
    <3>1. /\ frames' \in [Link -> SUBSET EntryOf(Packet)]
          /\ events' \in SUBSET EntryOf(Link)
          /\ \A m \in Link : IsFiniteSet(frames'[m])
          /\ ServerTypeOK'
          /\ inserts' \in Nat
          /\ \A r \in Host : IsFiniteSet(tasks'[r])
      BY <2>4, DeliverType
    <3>. QED
      BY <2>2, <3>1 DEF TypeOK, NetTypeOK, Finite
  <2>. QED
    BY <2>1, <2>3, <2>4
<1>9. ASSUME NEW v \in Victim, RestartServer(v)
      PROVE  TypeInv'
  <2>1. v \in Host
    BY ProgramAssumption DEF Host
  <2>2. ServerTypeOK' /\ inserts' \in Nat /\ \A r \in Host : IsFiniteSet(tasks'[r])
    BY <1>9, <2>1, FastRebootType DEF RestartServer
  <2>. QED
    BY <1>9, <2>2 DEF RestartServer, netVars, TypeOK, NetTypeOK, Finite
<1>10. ASSUME Stop
       PROVE  TypeInv'
  <2>1. ServerTypeOK' /\ inserts' \in Nat /\ \A r \in Host : IsFiniteSet(tasks'[r])
    BY <1>10, CrashAllType DEF Stop, Shutdown
  <2>. QED
    BY <1>10, <2>1, FS_EmptySet DEF Stop, ShutdownNetwork, TypeOK, NetTypeOK, Finite
<1>11. CASE UNCHANGED vars
  BY <1>11 DEF vars, TypeOK, NetTypeOK, ServerTypeOK, Finite
<1>. QED
  BY <1>1, <1>2, <1>3, <1>4, <1>5, <1>6, <1>7, <1>8, <1>9, <1>10, <1>11
     DEF Next, ServerStep, Call, Fault, Harness

\* Every variable of a world keeps its type and every queue stays finite.
THEOREM TypeCorrect == Spec => [](TypeOK /\ Finite)
<1>1. TypeInv <=> TypeOK /\ Finite
  BY DEF TypeInv
<1>. QED
  BY <1>1, TypeInit, TypeStep, PTL DEF Spec

----------------------------------------------------------------------------
(* Tasks stay with their process, and the clock is never turned back *)

TimeInv == OwnTasks /\ ActiveRuns /\ Ahead

\* Starting a process: its one task is due now.
LEMMA StartProcessTime ==
  ASSUME TypeInv, TimeInv, NEW s \in Host, NEW q, StartProcess(s, q), q = {},
         active \notin Host \/ active # s, UNCHANGED <<now, active, netVars>>,
         \A r \in Host : bound'[r] => bound[r] \/ (r = s)
  PROVE  TimeInv'
<1>. USE DEF TypeInv, TypeOK, ServerTypeOK
<1>1. tasks' = [tasks EXCEPT ![s] =
                  {Entry(now, inserts + 1,
                         [id |-> inserts + 1, due |-> now, life |-> life[s] + 1])}]
  BY DEF StartProcess, ScheduleAt, ScheduleAs
<1>2. state' = [state EXCEPT ![s] = "Running"] /\ life' = [life EXCEPT ![s] = life[s] + 1]
  BY DEF StartProcess
<1>3. OwnTasks'
  BY <1>1, <1>2 DEF TimeInv, OwnTasks, Entry
<1>4. ActiveRuns'
  BY <1>2 DEF TimeInv, ActiveRuns
<1>5. Ahead'
  BY <1>1, <1>2 DEF TimeInv, Ahead, Entry, netVars
<1>. QED
  BY <1>3, <1>4, <1>5 DEF TimeInv

\* FastReboot leaves nothing behind the clock.
LEMMA FastRebootTime ==
  ASSUME TypeInv, TimeInv, NEW s \in Host, FastReboot(s),
         active \notin Host \/ active # s, UNCHANGED <<now, active, netVars>>
  PROVE  TimeInv'
<1>1. CASE ~IsAlive(s)
  BY <1>1 DEF FastReboot, serverVars, netVars, TimeInv, OwnTasks, ActiveRuns, Ahead
<1>2. CASE IsAlive(s)
  <2>1. StartProcess(s, {}) /\ \A r \in Host : bound'[r] => bound[r] \/ (r = s)
    BY <1>2 DEF FastReboot, TypeInv, TypeOK, ServerTypeOK
  <2>. QED
    BY <2>1, StartProcessTime
<1>. QED
  BY <1>1, <1>2

\* Resume puts no task into the past, and only tasks that were there.
LEMMA PostponedItems ==
  ASSUME NEW at \in Nat, NEW q \in SUBSET EntryOf(Task)
  PROVE  \A x \in Postponed(q, at) : at <= x.time /\ \E y \in q : x.item = y.item
<1>. DEFINE late == Late(q, at)
            rank(x) == Cardinality({y \in late : Before(y, x)})
            Put(x) == Entry(at, inserts + 1 + rank(x), x.item)
<1>1. Postponed(q, at) = (q \ late) \cup {Put(x) : x \in late}
  BY DEF Postponed
<1>. HIDE DEF rank
<1>2. \A x \in late : Put(x).time = at /\ Put(x).item = x.item /\ x \in q
  BY DEF Entry, Late
<1>3. \A x \in q \ late : at <= x.time
  BY DEF Late, EntryOf
<1>. HIDE DEF late, Put
<1>. QED
  BY <1>1, <1>2, <1>3

\* ServerFault leaves nothing behind the clock.
LEMMA ServerFaultTime ==
  ASSUME TypeInv, TimeInv, NEW v \in Victim, ServerFault(v)
  PROVE  TimeInv'
<1>. USE DEF TypeInv, TypeOK, ServerTypeOK
<1>1. v \in Host /\ active # v
  BY ProgramAssumption, ClusterAssumption DEF Host, ServerFault
<1>2. now' = now /\ active' = active /\ events' = events /\ UNCHANGED <<now, active, netVars>>
  BY DEF ServerFault, netVars
<1>3. CASE Pause(v)
  BY <1>1, <1>2, <1>3 DEF Pause, IsAlive, TimeInv, OwnTasks, ActiveRuns, Ahead, State
<1>4. CASE Resume(v)
  <2>1. CASE state[v] # "Paused"
    BY <1>2, <1>4, <2>1 DEF Resume, serverVars, TimeInv, OwnTasks, ActiveRuns, Ahead
  <2>2. CASE state[v] = "Paused"
    <3>1. /\ tasks' = [tasks EXCEPT ![v] = Postponed(@, now)]
          /\ state' = [state EXCEPT ![v] = "Running"]
          /\ bound' = bound /\ life' = life
      BY <1>4, <2>2 DEF Resume
    <3>2. \A x \in Postponed(tasks[v], now) :
            now <= x.time /\ \E y \in tasks[v] : x.item = y.item
      BY <1>1, PostponedItems
    <3>3. OwnTasks'
      BY <1>1, <2>2, <3>1, <3>2 DEF TimeInv, OwnTasks
    <3>4. ActiveRuns' /\ Ahead'
      BY <1>1, <1>2, <3>1, <3>2 DEF TimeInv, ActiveRuns, Ahead
    <3>. QED
      BY <3>3, <3>4 DEF TimeInv
  <2>. QED
    BY <2>1, <2>2
<1>5. CASE Crash(v)
  BY <1>1, <1>2, <1>5 DEF Crash, CrashAll, TimeInv, OwnTasks, ActiveRuns, Ahead
<1>6. CASE Launch(v)
  <2>1. tasks[v] = {} /\ StartProcess(v, tasks[v]) /\ bound' = bound
    BY <1>1, <1>6 DEF Launch, TimeInv, OwnTasks
  <2>. QED
    BY <1>1, <1>2, <2>1, StartProcessTime
<1>7. CASE FastReboot(v)
  BY <1>1, <1>2, <1>7, FastRebootTime
<1>. QED
  BY <1>3, <1>4, <1>5, <1>6, <1>7 DEF ServerFault

\* The packet an event stands for is handled at the time of the event.
LEMMA DeliverTime ==
  ASSUME TypeInv, TimeInv, active = Idle, NEW e \in events, EventIsNext(e),
         Deliver(e), now' = e.time, active' = active
  PROVE  TimeInv'
<1>. USE DEF TypeInv, TypeOK, NetTypeOK, ServerTypeOK
<1>. DEFINE l == e.item
            es == events \ {e}
<1>1. e.time \in Nat /\ l \in Link /\ l[2] \in Host
  BY DEF EntryOf, Link
<1>2. /\ \A g \in es : e.time <= g.time
      /\ \A r \in Host : state[r] = "Running" => \A y \in tasks[r] : e.time <= y.time
  BY DEF EventIsNext, IsSmallest, Before, EntryOf
<1>3. PICK f \in frames[l] :
        HandlePacket(l, [frames EXCEPT ![l] = @ \ {f}], es, e.time, f.item)
  BY DEF Deliver
<1>4. ActiveRuns' <=> TRUE
  BY ActiveAssumption DEF ActiveRuns
<1>. HIDE DEF es
<1>5. CASE \E p : /\ Transmit([frames EXCEPT ![l] = @ \ {f}], es, Opposite(l), e.time, p)
                  /\ UNCHANGED serverVars
  <2>1. PICK d \in FlightTime :
          events' = es \cup {Entry(e.time + d, inserts + 1, Opposite(l))}
    BY <1>5 DEF Transmit, AddLinkEvent
  <2>2. \A g \in events' : e.time <= g.time
    BY <1>1, <1>2, <2>1, FlightAssumption DEF Entry
  <2>. QED
    BY <1>2, <1>4, <1>5, <2>2 DEF serverVars, TimeInv, OwnTasks, Ahead
<1>6. CASE events' = es /\ UNCHANGED <<inserts, serverVars>>
  BY <1>2, <1>4, <1>6 DEF serverVars, TimeInv, OwnTasks, Ahead
<1>7. CASE /\ bound[l[2]]
           /\ tasks' = [tasks EXCEPT ![l[2]] = ScheduleAt(@, e.time, life[l[2]])]
           /\ events' = es
           /\ UNCHANGED <<state, bound, life>>
  <2>. DEFINE x == Entry(e.time, inserts + 1,
                         [id |-> inserts + 1, due |-> e.time, life |-> life[l[2]]])
  <2>1. tasks' = [tasks EXCEPT ![l[2]] = @ \cup {x}]
    BY <1>7 DEF ScheduleAt, ScheduleAs
  <2>2. x.time = e.time /\ x.item.life = life[l[2]]
    BY DEF Entry
  <2>. HIDE DEF x
  <2>3. OwnTasks'
    BY <1>1, <1>7, <2>1, <2>2 DEF TimeInv, OwnTasks
  <2>4. Ahead'
    BY <1>1, <1>2, <1>7, <2>1, <2>2 DEF Ahead, EntryOf
  <2>. QED
    BY <1>4, <2>3, <2>4 DEF TimeInv
<1>. QED
  BY <1>3, <1>5, <1>6, <1>7 DEF HandlePacket

\* Nothing lies in the past when the world begins.
LEMMA TimeInit == Init => TimeInv
BY ActiveAssumption, ProgramAssumption
   DEF Init, NetInit, ServerInit, TimeInv, OwnTasks, ActiveRuns, Ahead, Entry

\* Every step keeps what is queued ahead of the clock.
LEMMA TimeStep == TypeInv /\ TimeInv /\ [Next]_vars => TimeInv'
<1>. SUFFICES ASSUME TypeInv, TimeInv, [Next]_vars
              PROVE  TimeInv'
  OBVIOUS
<1>. USE DEF TypeInv, TypeOK, NetTypeOK, ServerTypeOK
<1>1. ASSUME NEW s \in Host, TakeNext(s)
      PROVE  TimeInv'
  <2>1. PICK x \in tasks[s] : /\ TaskIsNext(s, x)
                              /\ now' = x.time
                              /\ tasks' = [tasks EXCEPT ![s] = @ \ {x}]
    BY <1>1 DEF TakeNext, FastForwardTo
  <2>2. /\ \A r \in Host : state[r] = "Running" => \A y \in tasks[r] : x.time <= y.time
        /\ \A e \in events : x.time <= e.time
        /\ state[s] = "Running"
    BY <2>1 DEF TaskIsNext, IsSmallest, Before, EntryOf
  <2>3. /\ active' = s
        /\ events' = events /\ state' = state /\ bound' = bound /\ life' = life
    BY <1>1 DEF TakeNext, netVars
  <2>4. \A r \in Host : tasks'[r] \subseteq tasks[r]
    BY <2>1
  <2>5. OwnTasks'
    BY <2>3, <2>4 DEF TimeInv, OwnTasks
  <2>6. Ahead'
    BY <2>1, <2>2, <2>3, <2>4 DEF Ahead
  <2>. QED
    BY <2>2, <2>3, <2>5, <2>6 DEF TimeInv, ActiveRuns
<1>2. ASSUME EndStep
      PROVE  TimeInv'
  BY <1>2, ActiveAssumption
     DEF EndStep, netVars, serverVars, TimeInv, OwnTasks, ActiveRuns, Ahead
<1>3. ASSUME NEW s \in Host, Schedule(s)
      PROVE  TimeInv'
  <2>1. PICK d \in Delay :
          tasks' = [tasks EXCEPT ![s] = ScheduleAs(@, inserts', now + d, life[s])]
    BY <1>3 DEF Schedule
  <2>. DEFINE x == Entry(now + d, inserts',
                         [id |-> inserts', due |-> now + d, life |-> life[s]])
  <2>2. tasks' = [tasks EXCEPT ![s] = @ \cup {x}]
    BY <2>1 DEF ScheduleAs
  <2>3. now <= x.time /\ x.item.life = life[s]
    BY ProgramAssumption DEF Entry
  <2>. HIDE DEF x
  <2>4. /\ active = s /\ state[s] = "Running"
        /\ UNCHANGED <<now, active, events, state, bound, life>>
    BY <1>3 DEF Schedule, netVars, TimeInv, ActiveRuns
  <2>5. OwnTasks'
    BY <2>2, <2>3, <2>4 DEF TimeInv, OwnTasks
  <2>6. Ahead' /\ ActiveRuns'
    BY <2>2, <2>3, <2>4 DEF TimeInv, Ahead, ActiveRuns
  <2>. QED
    BY <2>5, <2>6 DEF TimeInv
<1>4. ASSUME NEW s \in Host, Bind(s) \/ Unbind(s)
      PROVE  TimeInv'
  BY <1>4 DEF Bind, Unbind, netVars, TimeInv, OwnTasks, ActiveRuns, Ahead
<1>5. ASSUME NEW s \in Host, Send(s)
      PROVE  TimeInv'
  <2>1. PICK l \in Route, d \in FlightTime :
          events' = events \cup {Entry(now + d, inserts + 1, l)}
    BY <1>5 DEF Send, Transmit, AddLinkEvent
  <2>2. \A e \in events' : now <= e.time
    BY <2>1, FlightAssumption DEF Entry, TimeInv, Ahead
  <2>. QED
    BY <1>5, <2>2 DEF Send, serverVars, TimeInv, OwnTasks, ActiveRuns, Ahead
<1>6. ASSUME NetFault
      PROVE  TimeInv'
  <2>1. \A e \in events' : e \in events \/ e.time = now + 1
    <3>1. ASSUME NEW L, PauseLinks(L)
          PROVE  \A e \in events' : e \in events \/ e.time = now + 1
      BY <3>1 DEF PauseLinks
    <3>2. ASSUME NEW L, ResumeLinks(L)
          PROVE  \A e \in events' : e \in events \/ e.time = now + 1
      BY <3>2 DEF ResumeLinks, Entry
    <3>. QED
      BY <1>6, <3>1, <3>2 DEF NetFault, PauseLink, ResumeLink, Split, Heal
  <2>2. \A e \in events' : now <= e.time
    BY <2>1 DEF TimeInv, Ahead
  <2>. QED
    BY <1>6, <2>2 DEF NetFault, serverVars, TimeInv, OwnTasks, ActiveRuns, Ahead
<1>7. ASSUME NEW v \in Victim, ServerFault(v)
      PROVE  TimeInv'
  BY <1>7, ServerFaultTime
<1>8. ASSUME NetworkStep
      PROVE  TimeInv'
  <2>1. PICK e \in events : /\ EventIsNext(e)
                            /\ now' = e.time
                            /\ SkipEvent(e) \/ Deliver(e)
    BY <1>8 DEF NetworkStep, FastForwardTo
  <2>2. active = Idle /\ active' = active
    BY <1>8 DEF NetworkStep
  <2>3. CASE SkipEvent(e)
    <3>1. /\ \A g \in events \ {e} : e.time <= g.time
          /\ \A r \in Host : state[r] = "Running" => \A y \in tasks[r] : e.time <= y.time
      BY <2>1 DEF EventIsNext, IsSmallest, Before, EntryOf
    <3>. QED
      BY <2>1, <2>2, <2>3, <3>1
         DEF SkipEvent, serverVars, TimeInv, OwnTasks, ActiveRuns, Ahead
  <2>4. CASE Deliver(e)
    BY <2>1, <2>2, <2>4, DeliverTime
  <2>. QED
    BY <2>1, <2>3, <2>4
<1>9. ASSUME NEW v \in Victim, RestartServer(v)
      PROVE  TimeInv'
  BY <1>9, FastRebootTime, ActiveAssumption, ProgramAssumption DEF RestartServer, Host
<1>10. ASSUME Stop
       PROVE  TimeInv'
  <2>1. \A s \in Host : state'[s] = "Crashed" /\ tasks'[s] = {} /\ ~bound'[s]
    <3>. TAKE s \in Host
    <3>1. CASE state[s] = "Crashed"
      BY <1>10, <3>1 DEF Stop, Shutdown, CrashAll, TimeInv, OwnTasks
    <3>2. CASE state[s] # "Crashed"
      BY <1>10, <3>2 DEF Stop, Shutdown, CrashAll
    <3>. QED
      BY <3>1, <3>2
  <2>. QED
    BY <1>10, <2>1, ActiveAssumption DEF Stop, ShutdownNetwork, TimeInv, OwnTasks, ActiveRuns, Ahead
<1>11. CASE UNCHANGED vars
  BY <1>11 DEF vars, TimeInv, OwnTasks, ActiveRuns, Ahead
<1>. QED
  BY <1>1, <1>2, <1>3, <1>4, <1>5, <1>6, <1>7, <1>8, <1>9, <1>10, <1>11
     DEF Next, ServerStep, Call, Fault, Harness

\* A task only runs in the process that scheduled it, whatever crashes and
\* restarts, and a server that is down has neither tasks nor endpoints.
THEOREM TasksStayHome == Spec => []OwnTasks
<1>1. TypeInv /\ TimeInv => OwnTasks
  BY DEF TimeInv
<1>. QED
  BY <1>1, TypeInit, TypeStep, TimeInit, TimeStep, PTL DEF Spec

\* The check of FastForwardTo never fails: no step lies in the past.
THEOREM ClockGoesForward == Spec => []NoTimeTravel
<1>1. TypeInv /\ TimeInv => NoTimeTravel
  BY DEF TypeInv, TypeOK, NetTypeOK, ServerTypeOK, EntryOf, TimeInv, Ahead,
         NoTimeTravel, TaskIsNext, EventIsNext, IsSmallest
<1>. QED
  BY <1>1, TypeInit, TypeStep, TimeInit, TimeStep, PTL DEF Spec

----------------------------------------------------------------------------
(* Events and frames stay paired *)

PairInv == Paired /\ GoodTies /\ AdversariesAreAlone /\ AdversariesAreDone

\* Paired and GoodTies of the queues fs and es at time t.
PairedIn(fs, es, t) ==
  /\ \A e \in es : \E f \in fs[e.item] : Twins(e, f)
  /\ \A l \in Link : \A f \in fs[l] :
       \/ \E e \in es : e.item = l /\ Twins(e, f)
       \/ paused[l] /\ f.time <= t

TiesIn(fs, es) ==
  /\ UniqueTies(es)
  /\ \A e \in es : e.tie_braker <= inserts
  /\ \A l \in Link : UniqueTies(fs[l]) /\ \A f \in fs[l] : f.tie_braker <= inserts

\* Paired, as a statement about given queues.
LEMMA PairedNow == /\ Paired <=> PairedIn(frames, events, now)
                   /\ GoodTies <=> TiesIn(frames, events)
BY DEF Paired, PairedIn, GoodTies, TiesIn, HasEvent

\* A sent frame comes with its event, and with a tie_braker nobody has.
LEMMA TransmitPairs ==
  ASSUME TypeInv,
         NEW fs \in [Link -> SUBSET EntryOf(Packet)],
         NEW es \in SUBSET EntryOf(Link),
         NEW l \in Link, NEW t \in Nat, NEW p, NEW u \in Nat,
         PairedIn(fs, es, u), TiesIn(fs, es),
         Transmit(fs, es, l, t, p), paused' = paused
  PROVE  /\ PairedIn(frames, events, u)'
         /\ TiesIn(frames, events)'
         /\ \A m \in Link : \A f \in frames'[m] :
              f \in fs[m] \/ (HasEvent(m, f))'
         /\ es \subseteq events'
<1>. USE DEF TypeInv, TypeOK, NetTypeOK
<1>1. PICK d \in FlightTime :
        /\ frames' = AddFrame(fs, l, t + d, inserts + 1, p)
        /\ events' = AddLinkEvent(es, l, t + d, inserts + 1)
        /\ inserts' = inserts + 1
  BY DEF Transmit
<1>. DEFINE nf == Entry(t + d, inserts + 1, p)
            ne == Entry(t + d, inserts + 1, l)
<1>2. /\ nf.time = t + d /\ nf.tie_braker = inserts + 1
      /\ ne.time = t + d /\ ne.tie_braker = inserts + 1 /\ ne.item = l
  BY DEF Entry
<1>3. /\ frames' = [fs EXCEPT ![l] = @ \cup {nf}]
      /\ events' = es \cup {ne}
  BY <1>1 DEF AddFrame, AddLinkEvent
<1>. HIDE DEF nf, ne
<1>4. Twins(ne, nf)
  BY <1>2 DEF Twins
<1>5. \A m \in Link : frames'[m] = IF m = l THEN fs[m] \cup {nf} ELSE fs[m]
  BY <1>3
<1>6. \A m \in Link : \A f \in frames'[m] : f \in fs[m] \/ (m = l /\ f = nf)
  BY <1>5
<1>7. \A e \in es : e.item \in Link /\ e.tie_braker \in Nat /\ e.tie_braker <= inserts
  BY DEF EntryOf, TiesIn
<1>8. \A m \in Link : \A f \in fs[m] : f.tie_braker \in Nat /\ f.tie_braker <= inserts
  BY DEF EntryOf, TiesIn
<1>9. \A e \in events' : \E f \in frames'[e.item] : Twins(e, f)
  BY <1>2, <1>3, <1>4, <1>5, <1>7 DEF PairedIn
<1>10. \A m \in Link : \A f \in frames'[m] :
         \/ \E e \in events' : e.item = m /\ Twins(e, f)
         \/ paused[m] /\ f.time <= u
  BY <1>2, <1>3, <1>4, <1>6 DEF PairedIn
<1>11. UniqueTies(events')
  BY <1>2, <1>3, <1>7 DEF TiesIn, UniqueTies
<1>12. \A m \in Link : UniqueTies(frames'[m])
  BY <1>2, <1>5, <1>6, <1>8 DEF TiesIn, UniqueTies
<1>13. /\ \A e \in events' : e.tie_braker <= inserts'
       /\ \A m \in Link : \A f \in frames'[m] : f.tie_braker <= inserts'
  BY <1>1, <1>2, <1>3, <1>6, <1>7, <1>8
<1>14. PairedIn(frames, events, u)'
  BY <1>9, <1>10 DEF PairedIn, Twins
<1>15. TiesIn(frames, events)'
  BY <1>11, <1>12, <1>13 DEF TiesIn, UniqueTies
<1>16. \A m \in Link : \A f \in frames'[m] : f \in fs[m] \/ (HasEvent(m, f))'
  BY <1>2, <1>3, <1>4, <1>6 DEF HasEvent, Twins
<1>. QED
  BY <1>3, <1>14, <1>15, <1>16

\* When nobody is left to strand a frame that is due now, Resume pairs every
\* frame it puts back with its new event.
LEMMA ResumePairs ==
  ASSUME TypeInv, TimeInv, PairInv, active \in Adversary,
         NEW L \in SUBSET Link, ResumeLinks(L), now' = now
  PROVE  /\ Paired'
         /\ GoodTies'
         /\ ~ \E l \in Link : \E f \in frames'[l] : f.time = now /\ ~(HasEvent(l, f))'
<1>. USE DEF TypeInv, TypeOK, NetTypeOK
<1>. DEFINE R == {l \in L : paused[l]}
            S == Overdue(R)
            Tie(o) == inserts + 1 + Place(o, S)
            nf(o) == Entry(now + 1, Tie(o), o[2].item)
            ne(o) == Entry(now + 1, Tie(o), o[1])
            mine(l) == {p \in S : p[1] = l}
<1>1. /\ S \in SUBSET (Link \X EntryOf(Packet))
      /\ IsFiniteSet(S)
      /\ Cardinality(S) \in Nat
  BY OverdueType
<1>2. \A l \in Link : \A f : <<l, f>> \in S <=> l \in L /\ paused[l] /\ f \in frames[l] /\ f.time < now
  BY DEF Overdue
<1>3. \A o \in S : o[1] \in Link /\ o[2] \in frames[o[1]] /\ o = <<o[1], o[2]>>
  BY <1>1, <1>2
<1>. HIDE DEF S
<1>4. /\ paused' = [l \in Link |-> paused[l] /\ l \notin R]
      /\ frames' = [l \in Link |-> {f \in frames[l] : <<l, f>> \notin S}
                                  \cup {nf(o) : o \in mine(l)}]
      /\ events' = events \cup {ne(o) : o \in S}
      /\ inserts' = inserts + Cardinality(S)
  BY DEF ResumeLinks, S
<1>5. \A o, p \in S : o[1] = p[1] /\ o[2].tie_braker = p[2].tie_braker => o = p
  BY <1>3 DEF PairInv, GoodTies, UniqueTies
<1>6. \A o \in S : /\ Place(o, S) \in Nat
                   /\ Place(o, S) < Cardinality(S)
                   /\ \A p \in S : Place(o, S) = Place(p, S) => o = p
  BY <1>1, <1>5, PlaceIsInjective
<1>7. \A o \in S : /\ Tie(o) \in Nat /\ inserts < Tie(o) /\ Tie(o) <= inserts'
                   /\ \A p \in S : Tie(o) = Tie(p) => o = p
  <2>. SUFFICES ASSUME NEW o \in S
                PROVE  /\ Tie(o) \in Nat /\ inserts < Tie(o) /\ Tie(o) <= inserts'
                       /\ \A p \in S : Tie(o) = Tie(p) => o = p
    OBVIOUS
  <2>1. Tie(o) \in Nat /\ inserts < Tie(o) /\ Tie(o) <= inserts'
    BY <1>1, <1>4, <1>6
  <2>2. ASSUME NEW p \in S, Tie(o) = Tie(p)
        PROVE  o = p
    <3>1. Place(o, S) = Place(p, S)
      BY <1>6, <2>2
    <3>. QED
      BY <1>6, <3>1
  <2>. QED
    BY <2>1, <2>2
<1>8. \A o \in S : /\ nf(o).time = now + 1 /\ nf(o).tie_braker = Tie(o)
                   /\ ne(o).time = now + 1 /\ ne(o).tie_braker = Tie(o)
                   /\ ne(o).item = o[1]
                   /\ Twins(ne(o), nf(o))
  BY DEF Entry, Twins
<1>. HIDE DEF Tie, nf, ne
<1>9. \A l \in Link : \A f \in frames'[l] :
        \/ f \in frames[l] /\ <<l, f>> \notin S
        \/ \E o \in S : o[1] = l /\ f = nf(o)
  BY <1>4
<1>9a. \A l \in Link : \A f \in frames'[l] :
         \/ f \in frames[l]
         \/ \E o \in S : /\ o[1] = l
                         /\ f.time = now + 1 /\ f.tie_braker = Tie(o) /\ f = nf(o)
  <2>. SUFFICES ASSUME NEW l \in Link, NEW f \in frames'[l], f \notin frames[l]
                PROVE  \E o \in S : /\ o[1] = l
                                    /\ f.time = now + 1 /\ f.tie_braker = Tie(o)
                                    /\ f = nf(o)
    OBVIOUS
  <2>1. PICK o \in S : o[1] = l /\ f = nf(o)
    BY <1>9
  <2>. QED
    BY <1>8, <2>1
<1>10. \A e \in events' : e \in events \/ \E o \in S : e = ne(o)
  BY <1>4
\* No frame due now lacks its event: an adversary is taking its step.
<1>11. \A l \in Link : \A f \in frames[l] :
         HasEvent(l, f) \/ (paused[l] /\ f.time < now)
  <2>. SUFFICES ASSUME NEW l \in Link, NEW f \in frames[l], ~HasEvent(l, f)
                PROVE  paused[l] /\ f.time < now
    OBVIOUS
  <2>1. paused[l] /\ f.time <= now
    BY DEF PairInv, Paired
  <2>2. f.time # now
    BY DEF PairInv, AdversariesAreDone
  <2>. QED
    BY <2>1, <2>2 DEF EntryOf
<1>12. \A l \in Link : \A f \in frames'[l] :
         \/ (HasEvent(l, f))'
         \/ paused'[l] /\ f.time < now
  <2>. SUFFICES ASSUME NEW l \in Link, NEW f \in frames'[l]
                PROVE  (HasEvent(l, f))' \/ (paused'[l] /\ f.time < now)
    OBVIOUS
  <2>1. CASE f \in frames[l] /\ <<l, f>> \notin S
    <3>1. CASE HasEvent(l, f)
      BY <1>4, <3>1 DEF HasEvent, Twins
    <3>2. CASE ~HasEvent(l, f)
      BY <1>2, <1>4, <1>11, <2>1, <3>2
    <3>. QED
      BY <3>1, <3>2
  <2>2. CASE \E o \in S : o[1] = l /\ f = nf(o)
    BY <1>4, <1>8, <2>2 DEF HasEvent, Twins
  <2>. QED
    BY <1>9, <2>1, <2>2
<1>13. \A e \in events' : \E f \in frames'[e.item] : Twins(e, f)
  <2>. SUFFICES ASSUME NEW e \in events'
                PROVE  \E f \in frames'[e.item] : Twins(e, f)
    OBVIOUS
  <2>1. CASE e \in events
    <3>1. PICK f \in frames[e.item] : Twins(e, f)
      BY <2>1 DEF PairInv, Paired
    <3>2. e.item \in Link /\ now <= e.time /\ now \in Nat /\ e.time \in Nat
      BY <2>1 DEF TimeInv, Ahead, EntryOf
    <3>3. <<e.item, f>> \notin S
      BY <1>2, <3>1, <3>2 DEF Twins
    <3>. QED
      BY <1>4, <3>1, <3>2, <3>3
  <2>2. CASE \E o \in S : e = ne(o)
    BY <1>3, <1>4, <1>8, <2>2
  <2>. QED
    BY <1>10, <2>1, <2>2
<1>14. Paired'
  <2>1. \A l \in Link : \A f \in frames'[l] :
          (HasEvent(l, f))' \/ (paused'[l] /\ f.time <= now')
    <3>. SUFFICES ASSUME NEW l \in Link, NEW f \in frames'[l], paused'[l], f.time < now
                  PROVE  f.time <= now
      BY <1>12
    <3>1. f \in frames[l] \/ f.time = now + 1
      BY <1>9a
    <3>. QED
      BY <3>1 DEF EntryOf
  <2>. QED
    BY <1>13, <2>1 DEF Paired, Twins
<1>15. GoodTies'
  <2>1. \A e \in events : e.tie_braker \in Nat /\ e.tie_braker <= inserts
    BY DEF PairInv, GoodTies, EntryOf
  <2>2. \A l \in Link : \A f \in frames[l] : f.tie_braker \in Nat /\ f.tie_braker <= inserts
    BY DEF PairInv, GoodTies, EntryOf
  <2>3. inserts \in Nat /\ inserts' \in Nat /\ inserts <= inserts'
    BY <1>1, <1>4
  <2>4. UniqueTies(events')
    BY <1>7, <1>8, <1>10, <2>1, <2>3 DEF PairInv, GoodTies, UniqueTies
  <2>5. \A l \in Link : UniqueTies(frames'[l])
    <3>. SUFFICES ASSUME NEW l \in Link, NEW f \in frames'[l], NEW g \in frames'[l],
                         f.tie_braker = g.tie_braker
                  PROVE  f = g
      BY DEF UniqueTies
    <3>1. CASE f \in frames[l] /\ g \in frames[l]
      BY <3>1 DEF PairInv, GoodTies, UniqueTies
    <3>2. CASE f \notin frames[l] /\ g \notin frames[l]
      <4>1. PICK o \in S : f.tie_braker = Tie(o) /\ f = nf(o)
        BY <1>9a, <3>2
      <4>2. PICK p \in S : g.tie_braker = Tie(p) /\ g = nf(p)
        BY <1>9a, <3>2
      <4>. QED
        BY <1>7, <4>1, <4>2
    <3>3. CASE f \in frames[l] /\ g \notin frames[l]
      BY <1>7, <1>9a, <2>2, <2>3, <3>3
    <3>4. CASE f \notin frames[l] /\ g \in frames[l]
      BY <1>7, <1>9a, <2>2, <2>3, <3>4
    <3>. QED
      BY <3>1, <3>2, <3>3, <3>4
  <2>6. \A e \in events' : e.tie_braker <= inserts'
    BY <1>7, <1>8, <1>10, <2>1, <2>3
  <2>7. \A l \in Link : \A f \in frames'[l] : f.tie_braker <= inserts'
    BY <1>7, <1>9a, <2>2, <2>3
  <2>. QED
    BY <2>4, <2>5, <2>6, <2>7 DEF GoodTies, UniqueTies
<1>16. ~ \E l \in Link : \E f \in frames'[l] : f.time = now /\ ~(HasEvent(l, f))'
  BY <1>12
<1>. QED
  BY <1>14, <1>15, <1>16

\* The frame of the next event, if its link is open, is the next of the link.
LEMMA NextFrame ==
  ASSUME TypeInv, PairInv, NEW e \in events, IsSmallest(e, events), ~paused[e.item]
  PROVE  \E f \in frames[e.item] : /\ Twins(e, f)
                                  /\ IsSmallest(f, frames[e.item])
                                  /\ \A g \in frames[e.item] :
                                       IsSmallest(g, frames[e.item]) => g = f
<1>. USE DEF TypeInv, TypeOK, NetTypeOK
<1>. DEFINE l == e.item
<1>1. l \in Link
  BY DEF EntryOf
<1>2. PICK f \in frames[l] : Twins(e, f)
  BY DEF PairInv, Paired
<1>3. \A g \in frames[l] : g.time \in Nat /\ g.tie_braker \in Nat
  BY <1>1 DEF EntryOf
<1>4. \A g \in frames[l] \ {f} : Before(f, g)
  <2>. SUFFICES ASSUME NEW g \in frames[l], g # f
                PROVE  Before(f, g)
    OBVIOUS
  <2>1. PICK d \in events : d.item = l /\ Twins(d, g)
    BY <1>1 DEF PairInv, Paired, HasEvent
  <2>2. d # e
    BY <1>1, <1>2, <2>1 DEF Twins, PairInv, GoodTies, UniqueTies
  <2>. QED
    BY <1>2, <2>1, <2>2 DEF IsSmallest, Before, Twins
<1>5. \A g \in frames[l] : IsSmallest(g, frames[l]) => g = f
  BY <1>3, <1>4 DEF IsSmallest, Before
<1>. QED
  BY <1>2, <1>4, <1>5 DEF IsSmallest

\* At the time of the network's step no adversary has a step left.
LEMMA NetworkIsLast ==
  ASSUME TypeInv, TimeInv, PairInv, active = Idle, NEW e \in events, EventIsNext(e)
  PROVE  /\ active \notin Adversary
         /\ \A a \in Adversary : \A x \in tasks[a] : e.time < x.time
         /\ now <= e.time
<1>1. active \notin Adversary
  BY ActiveAssumption DEF Host
<1>2. \A a \in Adversary : state[a] = "Running" \/ tasks[a] = {}
  BY DEF Host, TypeInv, TypeOK, ServerTypeOK, State, TimeInv, OwnTasks,
         PairInv, AdversariesAreAlone
<1>. QED
  BY <1>1, <1>2 DEF EventIsNext, Host, TimeInv, Ahead

\* The network passing over an event of a paused link keeps the queues paired.
LEMMA SkipPairs ==
  ASSUME TypeInv, TimeInv, PairInv, active = Idle, NEW e \in events, EventIsNext(e),
         SkipEvent(e), now' = e.time, UNCHANGED <<active, paused>>
  PROVE  PairInv'
<1>. USE DEF TypeInv, TypeOK, NetTypeOK
<1>1. /\ events' = events \ {e} /\ frames' = frames /\ inserts' = inserts
      /\ tasks' = tasks /\ state' = state /\ bound' = bound
      /\ paused[e.item]
  BY DEF SkipEvent, serverVars
<1>2. /\ active \notin Adversary
      /\ \A a \in Adversary : \A x \in tasks[a] : e.time < x.time
      /\ now <= e.time
  BY NetworkIsLast
<1>3. Paired'
  <2>1. \A g \in events' : \E f \in frames[g.item] : Twins(g, f)
    BY <1>1 DEF PairInv, Paired
  <2>2. ASSUME NEW l \in Link, NEW f \in frames[l]
        PROVE  (HasEvent(l, f))' \/ (paused[l] /\ f.time <= e.time)
    <3>1. CASE \E g \in events : g # e /\ g.item = l /\ Twins(g, f)
      BY <1>1, <3>1 DEF HasEvent, Twins
    <3>2. CASE e.item = l /\ Twins(e, f)
      BY <1>1, <3>2 DEF Twins, EntryOf
    <3>3. CASE ~HasEvent(l, f)
      BY <1>2, <3>3 DEF PairInv, Paired, EntryOf
    <3>. QED
      BY <3>1, <3>2, <3>3 DEF HasEvent
  <2>. QED
    BY <1>1, <2>1, <2>2 DEF Paired, Twins
<1>4. GoodTies'
  BY <1>1 DEF PairInv, GoodTies, UniqueTies
<1>5. AdversariesAreAlone' /\ AdversariesAreDone'
  BY <1>1, <1>2 DEF PairInv, AdversariesAreAlone, AdversariesAreDone
<1>. QED
  BY <1>3, <1>4, <1>5 DEF PairInv

\* Taking a frame with its event keeps the queues paired.
LEMMA DeliverPairs ==
  ASSUME TypeInv, TimeInv, PairInv, active = Idle, NEW e \in events, EventIsNext(e),
         Deliver(e), now' = e.time, UNCHANGED <<active, paused>>
  PROVE  PairInv'
<1>. USE DEF TypeInv, TypeOK, NetTypeOK
<1>. DEFINE l == e.item
            es == events \ {e}
<1>1. /\ active \notin Adversary
      /\ \A a \in Adversary : \A x \in tasks[a] : e.time < x.time
      /\ now <= e.time
  BY NetworkIsLast
<1>2. l \in Link /\ e.time \in Nat /\ Opposite(l) \in Link /\ l[2] \in Host
  BY DEF EntryOf, Link, Opposite
<1>3. PICK f \in frames[l] :
        /\ IsSmallest(f, frames[l])
        /\ HandlePacket(l, [frames EXCEPT ![l] = @ \ {f}], es, e.time, f.item)
  BY DEF Deliver
<1>4. Twins(e, f)
  BY <1>3, NextFrame DEF Deliver, EventIsNext
<1>. DEFINE fs == [frames EXCEPT ![l] = @ \ {f}]
<1>5. /\ fs \in [Link -> SUBSET EntryOf(Packet)]
      /\ es \in SUBSET EntryOf(Link)
      /\ \A m \in Link : \A g \in fs[m] : g \in frames[m] /\ (m = l => g # f)
      /\ \A m \in Link : \A g \in frames[m] : g \in fs[m] \/ (m = l /\ g = f)
  BY <1>2
<1>. HIDE DEF fs
<1>6. PairedIn(fs, es, e.time)
  <2>1. ASSUME NEW d \in es
        PROVE  \E g \in fs[d.item] : Twins(d, g)
    <3>1. PICK g \in frames[d.item] : Twins(d, g)
      BY DEF PairInv, Paired
    <3>2. g # f
      BY <1>4, <3>1 DEF Twins, PairInv, GoodTies, UniqueTies
    <3>3. d.item \in Link
      BY DEF EntryOf
    <3>. QED
      BY <1>5, <3>1, <3>2, <3>3
  <2>2. ASSUME NEW m \in Link, NEW g \in fs[m]
        PROVE  (\E d \in es : d.item = m /\ Twins(d, g)) \/ (paused[m] /\ g.time <= e.time)
    <3>1. CASE HasEvent(m, g)
      <4>1. PICK d \in events : d.item = m /\ Twins(d, g)
        BY <3>1 DEF HasEvent
      <4>2. d # e
        BY <1>4, <1>5, <4>1 DEF Twins, PairInv, GoodTies, UniqueTies
      <4>. QED
        BY <4>1, <4>2
    <3>2. CASE ~HasEvent(m, g)
      BY <1>1, <1>5, <3>2 DEF PairInv, Paired, EntryOf
    <3>. QED
      BY <3>1, <3>2
  <2>. QED
    BY <2>1, <2>2 DEF PairedIn
<1>7. TiesIn(fs, es)
  BY <1>5 DEF TiesIn, PairInv, GoodTies, UniqueTies
<1>. HIDE DEF es
<1>8. ASSUME PairedIn(frames, events, e.time)', TiesIn(frames, events)',
             \A a \in Adversary : tasks'[a] = tasks[a],
             UNCHANGED <<state, bound>>
      PROVE  PairInv'
  <2>1. Paired' /\ GoodTies'
    BY <1>8 DEF Paired, PairedIn, GoodTies, TiesIn, HasEvent
  <2>2. AdversariesAreAlone' /\ AdversariesAreDone'
    BY <1>1, <1>8 DEF PairInv, AdversariesAreAlone, AdversariesAreDone
  <2>. QED
    BY <2>1, <2>2 DEF PairInv
<1>9. CASE \E p : Transmit(fs, es, Opposite(l), e.time, p) /\ UNCHANGED serverVars
  <2>1. PairedIn(frames, events, e.time)' /\ TiesIn(frames, events)'
    BY <1>2, <1>5, <1>6, <1>7, <1>9, TransmitPairs
  <2>. QED
    BY <1>8, <1>9, <2>1 DEF serverVars
<1>10. CASE frames' = fs /\ events' = es /\ UNCHANGED <<inserts, serverVars>>
  <2>1. PairedIn(frames, events, e.time)' /\ TiesIn(frames, events)'
    BY <1>6, <1>7, <1>10 DEF PairedIn, TiesIn, Twins, UniqueTies
  <2>. QED
    BY <1>8, <1>10, <2>1 DEF serverVars
<1>11. CASE /\ bound[l[2]]
            /\ tasks' = [tasks EXCEPT ![l[2]] = ScheduleAt(@, e.time, life[l[2]])]
            /\ frames' = fs
            /\ events' = es
            /\ inserts' = inserts + 1
            /\ UNCHANGED <<state, bound, life>>
  <2>1. l[2] \notin Adversary
    BY <1>11 DEF PairInv, AdversariesAreAlone
  <2>2. \A a \in Adversary : tasks'[a] = tasks[a]
    BY <1>11, <2>1 DEF ServerTypeOK, Host
  <2>3. PairedIn(frames, events, e.time)'
    BY <1>6, <1>11 DEF PairedIn, Twins
  <2>4. \A d \in es : d.tie_braker \in Nat
    BY <1>5 DEF EntryOf
  <2>5. \A m \in Link : \A g \in fs[m] : g.tie_braker \in Nat
    BY <1>5 DEF EntryOf
  <2>6. TiesIn(frames, events)'
    BY <1>7, <1>11, <2>4, <2>5 DEF TiesIn, UniqueTies
  <2>. QED
    BY <1>8, <1>11, <2>2, <2>3, <2>6
<1>. QED
  BY <1>3, <1>9, <1>10, <1>11 DEF HandlePacket, fs

\* Empty queues are paired.
LEMMA PairInit == Init => PairInv
BY DEF Init, NetInit, ServerInit, PairInv, Paired, GoodTies, UniqueTies, Host,
       AdversariesAreAlone, AdversariesAreDone

\* An action of servers only, at one time, that leaves adversaries alone.
LEMMA ServerOnlyPairs ==
  ASSUME TypeInv, PairInv, UNCHANGED <<now, netVars>>,
         inserts' \in Nat, inserts <= inserts',
         active' = active \/ active' \notin Adversary,
         \A a \in Adversary : tasks'[a] = tasks[a] /\ state'[a] = state[a] /\ ~bound'[a]
  PROVE  PairInv'
<1>. USE DEF TypeInv, TypeOK, NetTypeOK, netVars
<1>1. Paired'
  BY DEF PairInv, Paired, HasEvent, Twins
<1>2. GoodTies'
  <2>1. \A e \in events : e.tie_braker \in Nat
    BY DEF EntryOf
  <2>2. \A l \in Link : \A f \in frames[l] : f.tie_braker \in Nat
    BY DEF EntryOf
  <2>. QED
    BY <2>1, <2>2 DEF PairInv, GoodTies, UniqueTies
<1>3. AdversariesAreAlone'
  BY DEF PairInv, AdversariesAreAlone
<1>4. AdversariesAreDone'
  BY DEF PairInv, AdversariesAreDone, HasEvent, Twins
<1>. QED
  BY <1>1, <1>2, <1>3, <1>4 DEF PairInv

\* Pausing and resuming links keeps the queues paired (network/link.cpp:50-72).
LEMMA NetFaultPairs ==
  ASSUME TypeInv, TimeInv, PairInv, NetFault
  PROVE  PairInv'
<1>. USE DEF TypeInv, TypeOK, NetTypeOK
<1>1. UNCHANGED <<now, active, state, tasks, bound, life>> /\ active \in Adversary
  BY DEF NetFault, serverVars
<1>2. AdversariesAreAlone'
  BY <1>1 DEF PairInv, AdversariesAreAlone
<1>3. ASSUME NEW L, PauseLinks(L)
      PROVE  PairInv'
  <2>1. /\ UNCHANGED <<frames, events, inserts>>
        /\ \A l \in Link : paused[l] => paused'[l]
    BY <1>3 DEF PauseLinks
  <2>2. Paired'
    BY <1>1, <2>1 DEF PairInv, Paired, HasEvent, Twins
  <2>3. GoodTies'
    BY <2>1 DEF PairInv, GoodTies, UniqueTies
  <2>4. AdversariesAreDone'
    BY <1>1, <2>1 DEF PairInv, AdversariesAreDone, HasEvent, Twins
  <2>. QED
    BY <1>2, <2>2, <2>3, <2>4 DEF PairInv
<1>4. ASSUME NEW L \in SUBSET Link, ResumeLinks(L)
      PROVE  PairInv'
  <2>1. /\ Paired'
        /\ GoodTies'
        /\ ~ \E l \in Link : \E f \in frames'[l] : f.time = now /\ ~(HasEvent(l, f))'
    BY <1>1, <1>4, ResumePairs
  <2>2. AdversariesAreDone'
    BY <1>1, <2>1 DEF AdversariesAreDone
  <2>. QED
    BY <1>2, <2>1, <2>2 DEF PairInv
<1>5. \A l \in Breakable : {l} \in SUBSET Link
  BY ProgramAssumption
<1>. QED
  BY <1>3, <1>4, <1>5 DEF NetFault, PauseLink, ResumeLink, Split, Heal

\* Faults of servers touch no queue of the network.
LEMMA ServerFaultPairs ==
  ASSUME TypeInv, PairInv, NEW v \in Victim,
         ServerFault(v) \/ RestartServer(v), TypeInv'
  PROVE  PairInv'
<1>. USE DEF TypeInv, TypeOK, ServerTypeOK
<1>1. v \in Host /\ v \notin Adversary
  BY ProgramAssumption, ClusterAssumption DEF Host
<1>2. UNCHANGED <<now, active, netVars>>
  BY DEF ServerFault, RestartServer
<1>. SUFFICES /\ inserts <= inserts'
              /\ \A a \in Adversary : /\ tasks'[a] = tasks[a] /\ state'[a] = state[a]
                                      /\ bound'[a] = bound[a]
  BY <1>2, ServerOnlyPairs DEF PairInv, AdversariesAreAlone
<1>3. \A a \in Adversary : a \in Host /\ a # v
  BY <1>1 DEF Host
<1>4. CASE Pause(v)
  BY <1>3, <1>4 DEF Pause
<1>5. CASE Resume(v)
  <2>1. Cardinality(Late(tasks[v], now)) \in Nat
    BY <1>1, PostponedType DEF Finite
  <2>. QED
    BY <1>3, <1>5, <2>1 DEF Resume, serverVars
<1>6. CASE Crash(v)
  BY <1>3, <1>6 DEF Crash, CrashAll
<1>7. CASE Launch(v)
  BY <1>3, <1>7 DEF Launch, StartProcess
<1>8. CASE FastReboot(v)
  BY <1>3, <1>8 DEF FastReboot, StartProcess, serverVars
<1>. QED
  BY <1>4, <1>5, <1>6, <1>7, <1>8 DEF ServerFault, RestartServer

\* Every step keeps the queues paired.
LEMMA PairStep ==
  ASSUME TimedAdversaries
  PROVE  TypeInv /\ TimeInv /\ PairInv /\ TypeInv' /\ [Next]_vars => PairInv'
<1>. SUFFICES ASSUME TypeInv, TimeInv, PairInv, TypeInv', [Next]_vars
              PROVE  PairInv'
  OBVIOUS
<1>. USE DEF TypeInv, TypeOK, NetTypeOK, ServerTypeOK
<1>0. \A a \in Adversary : a \in Host /\ a \notin Listener /\ a # Idle /\ a # Stopped
  BY ActiveAssumption DEF TimedAdversaries, Host
<1>1. ASSUME NEW s \in Host, TakeNext(s)
      PROVE  PairInv'
  <2>1. PICK x \in tasks[s] : /\ TaskIsNext(s, x)
                              /\ now' = x.time
                              /\ tasks' = [tasks EXCEPT ![s] = @ \ {x}]
    BY <1>1 DEF TakeNext, FastForwardTo
  <2>2. now <= now' /\ now \in Nat /\ now' \in Nat
    BY <2>1 DEF TaskIsNext, TimeInv, Ahead
  <2>3. /\ active' = s /\ UNCHANGED <<inserts, frames, paused, events, state, bound>>
        /\ \A a \in Host : tasks'[a] \subseteq tasks[a]
    BY <1>1, <2>1 DEF TakeNext, netVars
  <2>4. \A l \in Link : \A f \in frames[l] :
          /\ (HasEvent(l, f))' <=> HasEvent(l, f)
          /\ ~HasEvent(l, f) => paused[l] /\ f.time <= now
          /\ f.time \in Nat
    BY <2>3 DEF HasEvent, Twins, PairInv, Paired, EntryOf
  <2>5. Paired'
    BY <2>2, <2>3, <2>4 DEF PairInv, Paired, Twins
  <2>6. GoodTies' /\ AdversariesAreAlone'
    BY <2>3 DEF PairInv, GoodTies, UniqueTies, AdversariesAreAlone
  <2>7. AdversariesAreDone'
    <3>. SUFFICES ASSUME NEW l \in Link, NEW f \in frames[l], f.time = now', ~HasEvent(l, f)
                  PROVE  /\ s \notin Adversary
                         /\ \A a \in Adversary : \A y \in tasks[a] : now' < y.time
      BY <1>0, <2>3, <2>4 DEF AdversariesAreDone
    <3>1. f.time = now /\ now' = now
      BY <2>2, <2>4
    <3>2. \A a \in Adversary : \A y \in tasks[a] : now < y.time
      BY <3>1 DEF PairInv, AdversariesAreDone
    <3>3. s \notin Adversary
      <4>1. x \in tasks[s] /\ x.time = now
        BY <2>1, <3>1
      <4>. QED
        BY <2>2, <3>2, <4>1
    <3>. QED
      BY <3>1, <3>2, <3>3
  <2>. QED
    BY <2>5, <2>6, <2>7 DEF PairInv
<1>2. ASSUME EndStep
      PROVE  PairInv'
  BY <1>0, <1>2, ServerOnlyPairs DEF EndStep, serverVars, PairInv, AdversariesAreAlone
<1>3. ASSUME NEW s \in Host, Schedule(s)
      PROVE  PairInv'
  <2>1. CASE s \notin Adversary
    <3>1. \A a \in Adversary : tasks'[a] = tasks[a]
      BY <1>0, <1>3, <2>1 DEF Schedule
    <3>. QED
      BY <1>3, <3>1, NextInsertIsNext, ServerOnlyPairs
         DEF Schedule, PairInv, AdversariesAreAlone
  <2>2. CASE s \in Adversary
    <3>1. /\ active = s /\ UNCHANGED <<now, active, frames, paused, events, state, bound>>
          /\ inserts' \in {inserts, inserts + 1}
      BY <1>3, NextInsertIsNext DEF Schedule, netVars
    <3>2. Paired' /\ AdversariesAreAlone'
      BY <3>1 DEF PairInv, Paired, HasEvent, Twins, AdversariesAreAlone
    <3>3. GoodTies'
      <4>1. \A e \in events : e.tie_braker \in Nat
        BY DEF EntryOf
      <4>2. \A l \in Link : \A f \in frames[l] : f.tie_braker \in Nat
        BY DEF EntryOf
      <4>. QED
        BY <3>1, <4>1, <4>2 DEF PairInv, GoodTies, UniqueTies
    <3>4. AdversariesAreDone'
      BY <2>2, <3>1 DEF PairInv, AdversariesAreDone, HasEvent, Twins
    <3>. QED
      BY <3>2, <3>3, <3>4 DEF PairInv
  <2>. QED
    BY <2>1, <2>2
<1>4. ASSUME NEW s \in Host, Bind(s) \/ Unbind(s)
      PROVE  PairInv'
  <2>1. \A a \in Adversary : ~bound'[a]
    BY <1>0, <1>4 DEF Bind, Unbind, PairInv, AdversariesAreAlone
  <2>. QED
    BY <1>4, <2>1, ServerOnlyPairs DEF Bind, Unbind
<1>5. ASSUME NEW s \in Host, Send(s)
      PROVE  PairInv'
  <2>1. PICK u \in Nat : u = now
    OBVIOUS
  <2>2. PICK l \in Route :
          Transmit(frames, events, l, now, [type |-> "Data", id |-> inserts + 1])
    BY <1>5 DEF Send
  <2>3. UNCHANGED <<now, active, paused, state, tasks, bound, life>>
    BY <1>5 DEF Send, serverVars
  <2>4. PairedIn(frames, events, u) /\ TiesIn(frames, events)
    BY <2>1, PairedNow DEF PairInv
  <2>5. /\ PairedIn(frames, events, u)'
        /\ TiesIn(frames, events)'
        /\ \A m \in Link : \A f \in frames'[m] : f \in frames[m] \/ (HasEvent(m, f))'
        /\ events \subseteq events'
    BY <2>2, <2>3, <2>4, TransmitPairs, ProgramAssumption
  <2>6. now' = u
    BY <2>1, <2>3
  <2>7. Paired' /\ GoodTies'
    BY <2>5, <2>6 DEF Paired, PairedIn, GoodTies, TiesIn, HasEvent
  <2>8. AdversariesAreDone' /\ AdversariesAreAlone'
    BY <2>3, <2>5 DEF PairInv, AdversariesAreDone, AdversariesAreAlone, HasEvent, Twins
  <2>. QED
    BY <2>7, <2>8 DEF PairInv
<1>6. ASSUME NetFault
      PROVE  PairInv'
  BY <1>6, NetFaultPairs
<1>7. ASSUME NEW v \in Victim, ServerFault(v) \/ RestartServer(v)
      PROVE  PairInv'
  BY <1>7, ServerFaultPairs
<1>8. ASSUME NetworkStep
      PROVE  PairInv'
  <2>1. PICK e \in events : /\ EventIsNext(e)
                            /\ now' = e.time
                            /\ SkipEvent(e) \/ Deliver(e)
    BY <1>8 DEF NetworkStep, FastForwardTo
  <2>2. active = Idle /\ UNCHANGED <<active, paused>>
    BY <1>8 DEF NetworkStep
  <2>. QED
    BY <2>1, <2>2, SkipPairs, DeliverPairs
<1>9. ASSUME Stop
      PROVE  PairInv'
  <2>1. /\ events' = {} /\ \A l \in Link : frames'[l] = {}
        /\ active' = Stopped /\ now' = now
    BY <1>9 DEF Stop, ShutdownNetwork
  <2>2. \A a \in Adversary : state'[a] # "Paused" /\ ~bound'[a]
    BY <1>0, <1>9 DEF Stop, Shutdown, CrashAll, PairInv, AdversariesAreAlone
  <2>. QED
    BY <2>1, <2>2 DEF PairInv, Paired, GoodTies, UniqueTies, AdversariesAreAlone,
                      AdversariesAreDone
<1>10. CASE UNCHANGED vars
  <2>1. UNCHANGED <<now, active, inserts, tasks, state, bound, netVars>>
    BY <1>10 DEF vars, netVars
  <2>. QED
    BY <2>1, ServerOnlyPairs DEF PairInv, AdversariesAreAlone
<1>. QED
  BY <1>1, <1>2, <1>3, <1>4, <1>5, <1>6, <1>7, <1>8, <1>9, <1>10
     DEF Next, ServerStep, Call, Fault, Harness

\* The network's "Broken net" checks never fail as long as adversaries wake up
\* on timers only: a link fault is then always injected before the network has
\* taken any step at that time.
THEOREM NetIsNeverBroken ==
  ASSUME TimedAdversaries
  PROVE  Spec => []NoBrokenNet
<1>1. TypeInv /\ PairInv => NoBrokenNet
  <2>. SUFFICES ASSUME TypeInv, PairInv, NEW e \in events, EventIsNext(e), ~paused[e.item]
                PROVE  NetIsSound(e.item, e.time)
    BY DEF NoBrokenNet
  <2>. QED
    BY NextFrame DEF EventIsNext, NetIsSound, Twins
<1>. QED
  BY <1>1, TypeInit, TypeStep, TimeInit, TimeStep, PairInit, PairStep, PTL DEF Spec

----------------------------------------------------------------------------
(* No frame is lost *)

\* What NoFrameLost says of one step.
FramesStay ==
  \A l \in Link : \A f \in frames[l] :
    \/ \E g \in frames'[l] : g.item = f.item /\ g.time >= f.time
    \/ active = Idle /\ ~paused[l] /\ f.time = now'

\* A frame that still is where it was is not lost.
LEMMA KeptFrames ==
  ASSUME TypeInv, \A l \in Link : frames[l] \subseteq frames'[l]
  PROVE  FramesStay
BY DEF FramesStay, TypeInv, TypeOK, NetTypeOK, EntryOf

\* Resume moves a late frame to the next moment.
LEMMA ResumeLosesNothing ==
  ASSUME TypeInv, NEW L \in SUBSET Link, ResumeLinks(L)
  PROVE  FramesStay
<1>. DEFINE S == Overdue({l \in L : paused[l]})
            Tie(o) == inserts + 1 + Place(o, S)
<1>1. \A l \in Link : frames'[l] = {f \in frames[l] : <<l, f>> \notin S} \cup
                 {Entry(now + 1, Tie(o), o[2].item) : o \in {p \in S : p[1] = l}}
  BY DEF ResumeLinks
<1>2. \A l \in Link : \A f \in frames[l] : <<l, f>> \in S => f.time < now
  BY DEF Overdue
<1>. HIDE DEF S, Tie
<1>. SUFFICES ASSUME NEW l \in Link, NEW f \in frames[l]
              PROVE  \E g \in frames'[l] : g.item = f.item /\ g.time >= f.time
  BY DEF FramesStay
<1>3. f.time \in Nat /\ now \in Nat
  BY DEF TypeInv, TypeOK, NetTypeOK, EntryOf
<1>4. CASE <<l, f>> \notin S
  BY <1>1, <1>3, <1>4
<1>5. CASE <<l, f>> \in S
  <2>1. PICK o \in S : o = <<l, f>>
    BY <1>5
  <2>. DEFINE g == Entry(now + 1, Tie(o), o[2].item)
  <2>2. g \in frames'[l]
    BY <1>1, <2>1
  <2>3. g.item = f.item /\ g.time = now + 1
    BY <2>1 DEF Entry
  <2>. QED
    BY <1>2, <1>3, <1>5, <2>2, <2>3
<1>. QED
  BY <1>4, <1>5

\* The network takes one frame, at its time and off an open link.
LEMMA DeliveryIsOnTime ==
  ASSUME TypeInv, active = Idle, NEW e \in events, Deliver(e), now' = e.time
  PROVE  FramesStay
<1>. DEFINE l == e.item
<1>1. l \in Link /\ ~paused[l]
  BY DEF Deliver, TypeInv, TypeOK, NetTypeOK, EntryOf
<1>2. PICK f \in frames[l] :
        /\ IsSmallest(f, frames[l])
        /\ HandlePacket(l, [frames EXCEPT ![l] = @ \ {f}], events \ {e}, e.time, f.item)
  BY DEF Deliver
<1>3. PICK g \in frames[l] : IsSmallest(g, frames[l]) /\ g.time = e.time
  BY DEF Deliver, NetIsSound
<1>4. \A h \in frames[l] : h.time \in Nat /\ h.tie_braker \in Nat
  BY <1>1 DEF TypeInv, TypeOK, NetTypeOK, EntryOf
<1>5. f = g
  BY <1>2, <1>3, <1>4 DEF IsSmallest, Before
<1>. DEFINE fs == [frames EXCEPT ![l] = @ \ {f}]
<1>6. /\ fs \in [Link -> SUBSET EntryOf(Packet)]
      /\ fs[l] = frames[l] \ {f}
      /\ \A m \in Link : m # l => fs[m] = frames[m]
  BY <1>1 DEF TypeInv, TypeOK, NetTypeOK
<1>. HIDE DEF fs
<1>7. \A m \in Link : fs[m] \subseteq frames'[m]
  <2>1. CASE frames' = fs
    BY <2>1
  <2>2. CASE \E p, t : Transmit(fs, events \ {e}, Opposite(l), t, p)
    <3>1. Opposite(l) \in Link
      BY <1>1 DEF Opposite, Link
    <3>. QED
      BY <1>6, <2>2, <3>1 DEF Transmit, AddFrame
  <2>. QED
    BY <1>2, <2>1, <2>2 DEF HandlePacket, fs
<1>8. \A m \in Link : \A h \in frames[m] : h.time >= h.time
  BY DEF TypeInv, TypeOK, NetTypeOK, EntryOf
<1>. SUFFICES ASSUME NEW m \in Link, NEW h \in frames[m], ~(m = l /\ h = f)
              PROVE  \E k \in frames'[m] : k.item = h.item /\ k.time >= h.time
  BY <1>1, <1>3, <1>5 DEF FramesStay
<1>9. h \in frames'[m]
  BY <1>6, <1>7
<1>. QED
  BY <1>8, <1>9

\* Every step keeps the frames as FramesStay says.
LEMMA FramesStayStep ==
  TypeInv /\ [Next]_vars => [active' # Stopped => FramesStay]_vars
<1>. SUFFICES ASSUME TypeInv, Next, active' # Stopped
              PROVE  FramesStay
  OBVIOUS
<1>1. CASE frames' = frames
  BY <1>1, KeptFrames
<1>2. ASSUME NEW s \in Host, Send(s)
      PROVE  FramesStay
  <2>1. PICK l \in Route :
          Transmit(frames, events, l, now, [type |-> "Data", id |-> inserts + 1])
    BY <1>2 DEF Send
  <2>2. \A m \in Link : frames[m] \subseteq frames'[m]
    BY <2>1, ProgramAssumption DEF Transmit, AddFrame, TypeInv, TypeOK, NetTypeOK
  <2>. QED
    BY <2>2, KeptFrames
<1>3. CASE NetFault
  <2>1. ASSUME NEW L, PauseLinks(L)
        PROVE  FramesStay
    BY <1>1, <2>1 DEF PauseLinks
  <2>2. \A l \in Breakable : {l} \in SUBSET Link
    BY ProgramAssumption
  <2>. QED
    BY <1>3, <2>1, <2>2, ResumeLosesNothing
       DEF NetFault, PauseLink, ResumeLink, Split, Heal
<1>4. CASE NetworkStep
  <2>1. PICK e \in events : now' = e.time /\ (SkipEvent(e) \/ Deliver(e))
    BY <1>4 DEF NetworkStep, FastForwardTo
  <2>2. CASE SkipEvent(e)
    BY <1>1, <2>2 DEF SkipEvent
  <2>3. CASE Deliver(e)
    BY <1>4, <2>1, <2>3, DeliveryIsOnTime DEF NetworkStep
  <2>. QED
    BY <2>1, <2>2, <2>3
<1>5. ASSUME NEW s \in Host, TakeNext(s) \/ Schedule(s) \/ Bind(s) \/ Unbind(s)
      PROVE  frames' = frames
  BY <1>5 DEF TakeNext, Schedule, Bind, Unbind, netVars
<1>6. ASSUME NEW v \in Victim, ServerFault(v) \/ RestartServer(v)
      PROVE  frames' = frames
  BY <1>6 DEF ServerFault, RestartServer, netVars
<1>7. EndStep => frames' = frames
  BY DEF EndStep, netVars
<1>8. ~Stop
  BY DEF Stop
<1>. QED
  BY <1>1, <1>2, <1>3, <1>4, <1>5, <1>6, <1>7, <1>8
     DEF Next, ServerStep, Call, Fault, Harness

\* Pauses, resumes and partitions of links lose no frame: one only leaves the
\* network at its delivery time, and through a link that is open.
THEOREM FramesAreNeverLost == Spec => NoFrameLost
<1>1. TypeInv /\ [Next]_vars => [active' # Stopped =>
       \A l \in Link : \A f \in frames[l] :
         \/ \E g \in frames'[l] : g.item = f.item /\ g.time >= f.time
         \/ active = Idle /\ ~paused[l] /\ f.time = now']_vars
  BY FramesStayStep DEF FramesStay
<1>. QED
  BY <1>1, TypeInit, TypeStep, PTL DEF Spec, NoFrameLost

----------------------------------------------------------------------------
(* A pause is a delay *)

\* What PauseIsADelay says of one step.
TasksKeepTheirOrder ==
  \A s \in Host :
    state[s] = "Paused" /\ state'[s] = "Running" /\ life'[s] = life[s] =>
      /\ \A y \in tasks[s] : \E x \in tasks'[s] : Waits(x, y)
      /\ \A x \in tasks'[s] :
           x.time >= x.item.due /\ \E y \in tasks[s] : Waits(x, y)
      /\ \A x, y \in tasks[s] :
           Before(x, y) /\ ~(x.time < now /\ y.time = now) =>
             \E u, v \in tasks'[s] :
               u.item = x.item /\ v.item = y.item /\ Before(u, v)

\* Resume takes every late task, puts it back at the time of the call, and
\* keeps the order of the tasks but for the late ones and those due just then.
LEMMA PostponedOrder ==
  ASSUME inserts \in Nat, NEW at \in Nat, at = now,
         NEW q \in SUBSET EntryOf(Task), IsFiniteSet(q),
         \A x \in q : x.item.due <= x.time
  PROVE  /\ \A y \in q : \E x \in Postponed(q, at) : Waits(x, y)
         /\ \A x \in Postponed(q, at) :
              x.time >= x.item.due /\ \E y \in q : Waits(x, y)
         /\ \A x, y \in q :
              Before(x, y) /\ ~(x.time < at /\ y.time = at) =>
                \E u, v \in Postponed(q, at) :
                  u.item = x.item /\ v.item = y.item /\ Before(u, v)
<1>. DEFINE late == Late(q, at)
            below(x) == {y \in late : Before(y, x)}
            rank(x) == Cardinality(below(x))
            Put(x) == Entry(at, inserts + 1 + rank(x), x.item)
<1>1. Postponed(q, at) = (q \ late) \cup {Put(x) : x \in late}
  BY DEF Postponed
<1>2. \A x \in q : /\ x.time \in Nat /\ x.tie_braker \in Nat
                   /\ x.item.due \in Nat
                   /\ x \in late <=> x.time < at
  BY DEF Late, EntryOf, Task
<1>3. late \in SUBSET q /\ IsFiniteSet(late)
  BY FS_Subset DEF Late
<1>. HIDE DEF late
<1>4. \A x \in late : below(x) \in SUBSET late /\ x \notin below(x)
  BY <1>2, <1>3 DEF Before
<1>5. \A x, y \in late : Before(x, y) => below(x) \in SUBSET below(y) /\ x \in below(y)
  BY <1>2, <1>3 DEF Before
<1>. HIDE DEF below
<1>6. \A x \in late : IsFiniteSet(below(x)) /\ rank(x) \in Nat
  BY <1>3, <1>4, FS_Subset, FS_CardinalityType
<1>7. \A x, y \in late : Before(x, y) => rank(x) < rank(y)
  <2>. SUFFICES ASSUME NEW x \in late, NEW y \in late, Before(x, y)
                PROVE  rank(x) < rank(y)
    OBVIOUS
  <2>1. rank(x) <= rank(y) /\ (rank(x) = rank(y) => below(x) = below(y))
    BY <1>5, <1>6, FS_Subset
  <2>. QED
    BY <1>4, <1>5, <1>6, <2>1
<1>. HIDE DEF rank
<1>8. \A x \in late : /\ Put(x).time = at
                      /\ Put(x).tie_braker = inserts + 1 + rank(x)
                      /\ Put(x).item = x.item
                      /\ Put(x) \in Postponed(q, at)
  BY <1>1 DEF Entry
<1>9. \A x \in Postponed(q, at) :
        \/ x \in q /\ ~(x.time < at)
        \/ \E y \in late : x.time = at /\ x.item = y.item
  <2>. HIDE DEF Put
  <2>. QED
    BY <1>1, <1>2, <1>8
<1>10. \A x \in q : x \notin late => x \in Postponed(q, at)
  BY <1>1
<1>11. \A y \in q : \E x \in Postponed(q, at) : Waits(x, y)
  <2>. SUFFICES ASSUME NEW y \in q
                PROVE  \E x \in Postponed(q, at) : Waits(x, y)
    OBVIOUS
  <2>. HIDE DEF Put
  <2>1. CASE y \in late
    BY <1>2, <1>8, <2>1 DEF Waits
  <2>2. CASE y \notin late
    BY <1>2, <1>10, <2>2 DEF Waits
  <2>. QED
    BY <2>1, <2>2
<1>12. \A x \in Postponed(q, at) : x.time >= x.item.due /\ \E y \in q : Waits(x, y)
  <2>. SUFFICES ASSUME NEW x \in Postponed(q, at)
                PROVE  x.time >= x.item.due /\ \E y \in q : Waits(x, y)
    OBVIOUS
  <2>1. CASE x \in q /\ ~(x.time < at)
    BY <1>2, <2>1 DEF Waits
  <2>2. CASE \E y \in late : x.time = at /\ x.item = y.item
    <3>1. PICK y \in late : x.time = at /\ x.item = y.item
      BY <2>2
    <3>2. y \in q /\ y.time < at /\ y.item.due <= y.time
      BY <1>2, <1>3
    <3>3. Waits(x, y)
      BY <3>1, <3>2 DEF Waits
    <3>. QED
      BY <1>2, <3>1, <3>2, <3>3
  <2>. QED
    BY <1>9, <2>1, <2>2
<1>13. ASSUME NEW x \in q, NEW y \in q, Before(x, y), ~(x.time < at /\ y.time = at)
       PROVE  \E u, v \in Postponed(q, at) :
                u.item = x.item /\ v.item = y.item /\ Before(u, v)
  <2>1. CASE x \in late /\ y \in late
    <3>1. rank(x) < rank(y) /\ rank(x) \in Nat /\ rank(y) \in Nat
      BY <1>6, <1>7, <1>13, <2>1 DEF rank
    <3>2. Before(Put(x), Put(y))
      BY <1>8, <2>1, <3>1 DEF Before
    <3>. QED
      BY <1>8, <2>1, <3>2
  <2>2. CASE x \in late /\ y \notin late
    <3>1. Before(Put(x), y)
      BY <1>2, <1>8, <1>13, <2>2 DEF Before
    <3>. QED
      BY <1>8, <1>10, <2>2, <3>1
  <2>3. CASE x \notin late
    <3>1. y \notin late
      BY <1>2, <1>13, <2>3 DEF Before
    <3>. QED
      BY <1>10, <1>13, <2>3, <3>1
  <2>. QED
    BY <2>1, <2>2, <2>3
<1>. QED
  BY <1>11, <1>12, <1>13

\* A task scheduled at some time is not due before it.
LEMMA ScheduleDue ==
  ASSUME NEW at \in Nat, NEW q, NEW n, NEW k,
         \A x \in q : x.item.due <= x.time
  PROVE  \A x \in ScheduleAs(q, n, at, k) : x.item.due <= x.time
BY DEF ScheduleAs, Entry

\* No step makes a task early.
LEMMA NeverEarlyStep == TypeInv /\ NeverEarly /\ [Next]_vars => NeverEarly'
<1>. SUFFICES ASSUME TypeInv, NeverEarly, [Next]_vars
              PROVE  NeverEarly'
  OBVIOUS
<1>. USE DEF TypeInv, TypeOK, ServerTypeOK
<1>1. CASE \A s \in Host : tasks'[s] \subseteq tasks[s]
  BY <1>1 DEF NeverEarly
<1>2. ASSUME NEW s \in Host, NEW n, NEW at \in Nat, NEW k, NEW q, q \subseteq tasks[s],
             tasks' = [tasks EXCEPT ![s] = ScheduleAs(q, n, at, k)]
      PROVE  NeverEarly'
  <2>1. \A x \in ScheduleAs(q, n, at, k) : x.item.due <= x.time
    BY <1>2, ScheduleDue DEF NeverEarly
  <2>. QED
    BY <1>2, <2>1 DEF NeverEarly
<1>3. ASSUME NEW s \in Host, TakeNext(s)
      PROVE  NeverEarly'
  BY <1>1, <1>3 DEF TakeNext
<1>4. ASSUME NEW s \in Host, Schedule(s)
      PROVE  NeverEarly'
  <2>1. PICK d \in Delay :
          tasks' = [tasks EXCEPT ![s] = ScheduleAs(@, inserts', now + d, life[s])]
    BY <1>4 DEF Schedule
  <2>2. now + d \in Nat
    BY ProgramAssumption
  <2>. QED
    BY <1>2, <2>1, <2>2
<1>5. ASSUME NEW v \in Victim, ServerFault(v) \/ RestartServer(v)
      PROVE  NeverEarly'
  <2>1. v \in Host
    BY ProgramAssumption DEF Host
  <2>2. CASE Resume(v) /\ state[v] = "Paused"
    <3>1. \A x \in Postponed(tasks[v], now) : x.time >= x.item.due
      BY <2>1, PostponedOrder DEF NeverEarly, Finite
    <3>2. tasks' = [tasks EXCEPT ![v] = Postponed(@, now)]
      BY <2>2 DEF Resume
    <3>3. \A x \in Postponed(tasks[v], now) : x.item.due \in Nat /\ x.time \in Nat
      BY <2>1, PostponedType DEF EntryOf, Task, Finite
    <3>. QED
      BY <2>1, <3>1, <3>2, <3>3 DEF NeverEarly
  <2>3. CASE StartProcess(v, tasks[v]) \/ StartProcess(v, {})
    BY <1>2, <2>1, <2>3 DEF StartProcess, ScheduleAt
  <2>4. CASE Crash(v)
    BY <1>1, <2>4 DEF Crash, CrashAll
  <2>. QED
    BY <1>1, <1>5, <2>2, <2>3, <2>4
       DEF ServerFault, RestartServer, Pause, Resume, Launch, FastReboot, serverVars
<1>6. CASE NetworkStep
  <2>1. PICK e \in events : SkipEvent(e) \/ Deliver(e)
    BY <1>6 DEF NetworkStep
  <2>2. e.time \in Nat /\ e.item[2] \in Host
    BY DEF NetTypeOK, EntryOf, Link
  <2>3. CASE tasks' = tasks
    BY <1>1, <2>3
  <2>4. CASE tasks' = [tasks EXCEPT ![e.item[2]] = ScheduleAt(@, e.time, life[e.item[2]])]
    BY <1>2, <2>2, <2>4 DEF ScheduleAt
  <2>. QED
    BY <2>1, <2>3, <2>4 DEF SkipEvent, Deliver, HandlePacket, serverVars
<1>7. CASE Stop
  BY <1>1, <1>7 DEF Stop, Shutdown, CrashAll
<1>8. ASSUME NEW s \in Host, Bind(s) \/ Unbind(s) \/ Send(s)
      PROVE  tasks' = tasks
  BY <1>8 DEF Bind, Unbind, Send, serverVars
<1>9. EndStep \/ NetFault \/ UNCHANGED vars => tasks' = tasks
  BY DEF EndStep, NetFault, vars, serverVars
<1>. QED
  BY <1>1, <1>3, <1>4, <1>5, <1>6, <1>7, <1>8, <1>9
     DEF Next, ServerStep, Call, Fault, Harness

\* Only Resume makes a paused process run on.
LEMMA OnlyResumeResumes ==
  ASSUME TypeInv, Next, NEW s \in Host,
         state[s] = "Paused", state'[s] = "Running", life'[s] = life[s]
  PROVE  tasks'[s] = Postponed(tasks[s], now)
<1>. USE DEF TypeInv, TypeOK, ServerTypeOK
<1>1. ASSUME NEW v \in Victim, ServerFault(v) \/ RestartServer(v)
      PROVE  tasks'[s] = Postponed(tasks[s], now)
  <2>1. v \in Host
    BY ProgramAssumption DEF Host
  <2>2. CASE Pause(v)
    BY <2>1, <2>2 DEF Pause
  <2>3. CASE Resume(v)
    BY <2>1, <2>3 DEF Resume, serverVars
  <2>4. CASE Crash(v)
    BY <2>4 DEF Crash, CrashAll
  <2>5. CASE Launch(v) \/ FastReboot(v)
    BY <2>1, <2>5 DEF Launch, FastReboot, StartProcess, serverVars
  <2>. QED
    BY <1>1, <2>2, <2>3, <2>4, <2>5 DEF ServerFault, RestartServer
<1>2. ASSUME NEW r \in Host,
             TakeNext(r) \/ Schedule(r) \/ Bind(r) \/ Unbind(r) \/ Send(r)
      PROVE  FALSE
  BY <1>2 DEF TakeNext, Schedule, Bind, Unbind, Send, serverVars
<1>3. ~(EndStep \/ NetFault)
  BY DEF EndStep, NetFault, serverVars
<1>4. ~NetworkStep
  BY DEF NetworkStep, SkipEvent, Deliver, HandlePacket, serverVars
<1>5. ~Stop
  BY DEF Stop, Shutdown, CrashAll
<1>. QED
  BY <1>1, <1>2, <1>3, <1>4, <1>5 DEF Next, ServerStep, Call, Fault, Harness

\* Pausing a server and resuming it loses no task and adds none; each waits for
\* the time it waited for, or for this moment if that has passed, and never for
\* a time before it is due; and their order stays.
THEOREM PausesAreDelays == Spec => PauseIsADelay
<1>1. TypeInv /\ NeverEarly /\ [Next]_vars => [TasksKeepTheirOrder]_vars
  <2>. SUFFICES ASSUME TypeInv, NeverEarly, Next
                PROVE  TasksKeepTheirOrder
    OBVIOUS
  <2>1. ASSUME NEW s \in Host,
               state[s] = "Paused", state'[s] = "Running", life'[s] = life[s]
        PROVE  /\ tasks'[s] = Postponed(tasks[s], now)
               /\ inserts \in Nat /\ now \in Nat
               /\ tasks[s] \in SUBSET EntryOf(Task) /\ IsFiniteSet(tasks[s])
               /\ \A x \in tasks[s] : x.item.due <= x.time
    BY <2>1, OnlyResumeResumes DEF TypeInv, TypeOK, ServerTypeOK, Finite, NeverEarly
  <2>2. ASSUME NEW s \in Host,
               state[s] = "Paused", state'[s] = "Running", life'[s] = life[s]
        PROVE  /\ \A y \in tasks[s] : \E x \in tasks'[s] : Waits(x, y)
               /\ \A x \in tasks'[s] :
                    x.time >= x.item.due /\ \E y \in tasks[s] : Waits(x, y)
               /\ \A x, y \in tasks[s] :
                    Before(x, y) /\ ~(x.time < now /\ y.time = now) =>
                      \E u, v \in tasks'[s] :
                        u.item = x.item /\ v.item = y.item /\ Before(u, v)
    <3>. DEFINE q == tasks[s]
                r == tasks'[s]
    <3>1. /\ inserts \in Nat /\ now \in Nat
          /\ q \in SUBSET EntryOf(Task) /\ IsFiniteSet(q)
          /\ \A x \in q : x.item.due <= x.time
          /\ r = Postponed(q, now)
      BY <2>1, <2>2
    <3>. HIDE DEF q, r
    <3>2. /\ \A y \in q : \E x \in r : Waits(x, y)
          /\ \A x \in r : x.time >= x.item.due /\ \E y \in q : Waits(x, y)
          /\ \A x, y \in q :
               Before(x, y) /\ ~(x.time < now /\ y.time = now) =>
                 \E u, v \in r :
                   u.item = x.item /\ v.item = y.item /\ Before(u, v)
      BY <3>1, PostponedOrder
    <3>. QED
      BY <3>2 DEF q, r
  <2>. QED
    BY <2>2 DEF TasksKeepTheirOrder
<1>2. Init => NeverEarly
  BY ProgramAssumption DEF Init, ServerInit, NeverEarly, Entry
<1>3. [][TasksKeepTheirOrder]_vars => PauseIsADelay
  BY PTL DEF TasksKeepTheirOrder, PauseIsADelay
<1>. QED
  BY <1>1, <1>2, <1>3, NeverEarlyStep, TypeInit, TypeStep, PTL DEF Spec
=============================================================================
