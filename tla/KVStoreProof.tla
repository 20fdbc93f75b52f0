---------------------------- MODULE KVStoreProof ----------------------------
(***************************************************************************)
(* The quorums of the key-value store keep what they have answered, for    *)
(* any pool, any clients, any clocks and any number of crashes.            *)
(***************************************************************************)
EXTENDS KVStore, FiniteSetTheorems, TLAPS

IInv == TypeOK /\ KVInv /\ ReadsAreFresh

\* Two quorums (Coordinator::Majority) meet.
LEMMA QuorumsMeet ==
  ASSUME NEW A \in SUBSET Node, NEW B \in SUBSET Node,
         Cardinality(A) >= Majority, Cardinality(B) >= Majority
  PROVE  A \cap B # {}
<1>1. Cardinality(Node) \in Nat
  BY KVAssumption, FS_CardinalityType
<1>2. Cardinality(A) \in Nat /\ Cardinality(B) \in Nat
  BY KVAssumption, FS_Subset, FS_CardinalityType
<1>3. Cardinality(A) + Cardinality(B) > Cardinality(Node)
  BY <1>1, <1>2 DEF Majority
<1> QED
  BY <1>3, KVAssumption, FS_MajoritiesIntersect

\* Nothing is busy or answered to begin with.
LEMMA InitInv == Init => IInv
<1> SUFFICES ASSUME Init PROVE IInv
  OBVIOUS
<1>1. Unwritten \in StampedValue
  BY DEF Unwritten, StampedValue, WriteTimestamp, MinTimestamp
<1>2. TypeOK
  BY <1>1 DEF Init, TypeOK, NoReplies
<1>3. KVInv
  BY DEF Init, KVInv, AckedIsKept, Decided, Answered, RepliesAreFresh, Call, NoReplies, Done
<1>4. ReadsAreFresh
  BY KVAssumption DEF Init, ReadsAreFresh, Call
<1> QED
  BY <1>2, <1>3, <1>4 DEF IInv

\* A call begins: what has ended before is what a quorum has.
LEMMA BeginSetInv ==
  ASSUME NEW c \in SetCall, NEW n \in Node, IInv, BeginSet(c, n)
  PROVE  IInv'
<1> USE DEF IInv, KVInv, BeginSet, Begin
<1>0. c \in Call
  BY DEF Call
<1>1. n # None
  BY KVAssumption
<1>a. stamp' \in [SetCall -> Nat]
  BY KVAssumption DEF TypeOK, ChooseWriteTimestamp
<1>b. /\ coordinator' \in [Call -> Node \cup {None}]
      /\ \A d \in Call : coordinator'[d] # None <=> status'[d] = "running"
  BY <1>0, <1>1 DEF TypeOK
<1>2. TypeOK'
  BY <1>0, <1>a, <1>b DEF TypeOK, Done
<1>3. Done' = Done /\ Done \subseteq Call
  BY <1>0 DEF Done, TypeOK
<1>4. \A s \in SetCall : s # c => stamp'[s] = stamp[s]
  BY DEF TypeOK, ChooseWriteTimestamp
<1>5. AckedIsKept'
  BY <1>0, <1>4 DEF AckedIsKept, Answered
<1>6. Decided'
  BY <1>0 DEF Decided, TypeOK
<1>7. Answered'
  BY <1>0, <1>3 DEF Answered, TypeOK
<1>8. \A g \in GetCall : g \in Call /\ g # c /\ before'[g] = before[g] /\ c \notin before[g]
  BY <1>0, KVAssumption DEF Answered, Done, Call, TypeOK
<1>9. RepliesAreFresh'
  BY <1>4, <1>8 DEF RepliesAreFresh
<1>10. ReadsAreFresh'
  BY <1>0, <1>4, <1>8 DEF ReadsAreFresh, TypeOK
<1> QED
  BY <1>2, <1>5, <1>6, <1>7, <1>9, <1>10

\* BeginGet keeps the invariant.
LEMMA BeginGetInv ==
  ASSUME NEW c \in GetCall, NEW n \in Node, IInv, BeginGet(c, n)
  PROVE  IInv'
<1> USE DEF IInv, KVInv, BeginGet, Begin
<1>0. c \in Call /\ c \notin SetCall
  BY KVAssumption DEF Call
<1>a. /\ coordinator' \in [Call -> Node \cup {None}]
      /\ \A d \in Call : coordinator'[d] # None <=> status'[d] = "running"
  BY <1>0, KVAssumption DEF TypeOK
<1>1. TypeOK'
  BY <1>0, <1>a DEF TypeOK, Done
<1>2. Done' = Done /\ Done \subseteq Call /\ c \notin Done
  BY <1>0 DEF Done, TypeOK
<1>3. AckedIsKept'
  BY DEF AckedIsKept
<1>4. Decided'
  BY <1>0 DEF Decided, TypeOK
<1>5. Answered'
  BY <1>0, <1>2 DEF Answered, TypeOK
<1>6. \A s \in SetCall : \A m \in acks[s] : m \in Node /\ store[m].timestamp >= stamp[s]
  BY DEF AckedIsKept, TypeOK
<1>7. replies[c] = NoReplies
  BY <1>0 DEF Answered
<1>8. RepliesAreFresh'
  <2> SUFFICES ASSUME NEW g \in GetCall, NEW s \in before'[g] \cap SetCall, NEW m \in acks[s],
                      replies[g][m] # None
               PROVE  replies[g][m].timestamp >= stamp[s]
    BY DEF RepliesAreFresh
  <2>1. g # c
    BY <1>6, <1>7 DEF NoReplies
  <2>2. before'[g] = before[g]
    BY <2>1, <1>0 DEF TypeOK, Call
  <2> QED
    BY <2>2 DEF RepliesAreFresh
<1>9. ReadsAreFresh'
  BY <1>0 DEF ReadsAreFresh, TypeOK, Call
<1> QED
  BY <1>1, <1>3, <1>4, <1>5, <1>8, <1>9

\* A Set ends with a quorum.
LEMMA FinishSetInv ==
  ASSUME NEW c \in SetCall, IInv, FinishSet(c)
  PROVE  IInv'
<1> USE DEF IInv, KVInv, FinishSet, Finish
<1>0. c \in Call /\ c \notin GetCall
  BY KVAssumption DEF Call
<1>1. TypeOK'
  BY <1>0 DEF TypeOK
<1>2. Done \subseteq Done' /\ c \notin Done
  BY <1>0 DEF Done, TypeOK
<1>3. AckedIsKept' /\ RepliesAreFresh'
  BY DEF AckedIsKept, RepliesAreFresh
<1>4. Decided'
  BY <1>0 DEF Decided, TypeOK
<1>5. Answered'
  BY <1>0, <1>2 DEF Answered, TypeOK
<1>6. ReadsAreFresh'
  BY <1>0 DEF ReadsAreFresh, TypeOK, Call
<1> QED
  BY <1>1, <1>3, <1>4, <1>5, <1>6

\* A Get ends: the quorum it has read meets the quorum of every earlier Set.
LEMMA FinishGetInv ==
  ASSUME NEW c \in GetCall, IInv, FinishGet(c)
  PROVE  IInv'
<1> USE DEF IInv, KVInv, FinishGet, Finish
<1>0. c \in Call /\ c \notin SetCall
  BY KVAssumption DEF Call
<1> DEFINE replied == {n \in Node : replies[c][n] # None}
<1>1. PICK q \in Quorum(replied) : \E v \in MostRecent({replies[c][n] : n \in q}) :
         result' = [result EXCEPT ![c] = v]
  OBVIOUS
<1>2. PICK v \in MostRecent({replies[c][n] : n \in q}) : result' = [result EXCEPT ![c] = v]
  BY <1>1
<1>3. q \subseteq replied /\ Cardinality(q) = Majority
  BY <1>1 DEF Quorum
<1>4. \A n \in q : n \in Node /\ replies[c][n] # None /\ replies[c][n] \in StampedValue
  BY <1>0, <1>3 DEF TypeOK
<1>5. v \in StampedValue
  BY <1>2, <1>4 DEF MostRecent
<1>6. TypeOK'
  BY <1>0, <1>2, <1>5 DEF TypeOK, NoReplies
<1>7. Done \subseteq Done' /\ c \notin Done
  BY <1>0 DEF Done, TypeOK
<1>8. AckedIsKept'
  BY DEF AckedIsKept
<1>9. RepliesAreFresh'
  BY <1>0 DEF RepliesAreFresh, TypeOK, NoReplies
<1>10. Decided'
  BY <1>0 DEF Decided, TypeOK
<1>11. Answered'
  BY <1>0, <1>7 DEF Answered, TypeOK
<1>12. \A s \in before[c] \cap SetCall : v.timestamp >= stamp[s]
  <2> TAKE s \in before[c] \cap SetCall
  <2>1. Cardinality(acks[s]) >= Majority /\ acks[s] \subseteq Node
    BY <1>0 DEF Answered, Done, TypeOK, Call
  <2>2. Majority >= Majority
    BY KVAssumption, FS_CardinalityType DEF Majority
  <2>3. PICK n : n \in acks[s] /\ n \in q
    BY <1>3, <2>1, <2>2, QuorumsMeet
  <2>4. replies[c][n].timestamp >= stamp[s]
    BY <1>4, <2>3 DEF RepliesAreFresh
  <2>5. replies[c][n].timestamp <= v.timestamp
    BY <1>2, <2>3 DEF MostRecent
  <2>6. replies[c][n].timestamp \in Nat /\ v.timestamp \in Nat /\ stamp[s] \in Nat
    BY <1>4, <1>5, <2>3 DEF StampedValue, WriteTimestamp, TypeOK
  <2> QED
    BY <2>4, <2>5, <2>6
<1>13. ReadsAreFresh'
  BY <1>0, <1>2, <1>12 DEF ReadsAreFresh, TypeOK, Call
<1> QED
  BY <1>6, <1>8, <1>9, <1>10, <1>11, <1>13

\* TakeWrite keeps the invariant.
LEMMA TakeWriteInv ==
  ASSUME NEW c \in SetCall, NEW n \in Node, IInv, TakeWrite(c, n)
  PROVE  IInv'
<1> USE DEF IInv, KVInv, TakeWrite
<1>1. TypeOK'
  BY DEF TypeOK, Fiber
<1>2. AckedIsKept' /\ RepliesAreFresh' /\ ReadsAreFresh'
  BY DEF AckedIsKept, RepliesAreFresh, ReadsAreFresh
<1>3. Decided'
  BY DEF Decided, Requested, TypeOK
<1>4. Answered'
  BY DEF Answered, Done
<1> QED
  BY <1>1, <1>2, <1>3, <1>4

\* The database of a replica only goes on to newer values: what the fiber with
\* the mutex has read is still there when it writes.
LEMMA FinishWriteGrows ==
  ASSUME NEW n \in Node, IInv, NEW b \in busy[n],
         store' = [store EXCEPT ![n] =
                     IF Newer(b.call, b.local) THEN Target(b.call) ELSE @]
  PROVE  /\ store' \in [Node -> StampedValue]
         /\ store'[n].timestamp >= stamp[b.call]
         /\ \A m \in Node : store'[m].timestamp >= store[m].timestamp
         /\ \A m \in Node : store'[m] # store[m] =>
              \/ store[m] = Unwritten
              \/ store[m].timestamp < store'[m].timestamp
<1> USE DEF IInv, KVInv, TypeOK
<1>1. b \in Fiber /\ b.local = store[n]
  BY DEF Decided
<1>2. b.call \in SetCall /\ stamp[b.call] \in Nat
  BY <1>1 DEF Fiber
<1>3. Target(b.call) \in StampedValue /\ Target(b.call).timestamp = stamp[b.call]
  BY <1>2 DEF Target, StampedValue, WriteTimestamp
<1>4. \A m \in Node : store[m] \in StampedValue /\ store[m].timestamp \in Nat
  BY DEF StampedValue, WriteTimestamp
<1>5. store' \in [Node -> StampedValue]
  BY <1>3
<1>6. \A m \in Node : m # n => store'[m] = store[m]
  OBVIOUS
<1>7. CASE Newer(b.call, b.local)
  <2>1. store'[n] = Target(b.call)
    BY <1>7
  <2>2. store[n] = Unwritten \/ store[n].timestamp < stamp[b.call]
    BY <1>1, <1>7 DEF Newer
  <2>3. store[n].timestamp <= stamp[b.call]
    BY <1>2, <1>4, <2>2 DEF Unwritten, MinTimestamp
  <2> QED
    BY <1>2, <1>3, <1>4, <1>5, <1>6, <2>1, <2>2, <2>3
<1>8. CASE ~ Newer(b.call, b.local)
  <2>1. store'[n] = store[n]
    BY <1>8
  <2>2. store[n].timestamp >= stamp[b.call]
    BY <1>1, <1>2, <1>4, <1>8 DEF Newer
  <2> QED
    BY <1>4, <1>5, <1>6, <2>1, <2>2
<1> QED
  BY <1>7, <1>8

\* FinishWrite keeps the invariant.
LEMMA FinishWriteInv ==
  ASSUME NEW n \in Node, IInv, FinishWrite(n)
  PROVE  IInv'
<1> USE DEF IInv, KVInv
<1>1. PICK b \in busy[n] :
        /\ store' = [store EXCEPT ![n] =
                       IF Newer(b.call, b.local) THEN Target(b.call) ELSE @]
        /\ busy' = [busy EXCEPT ![n] = @ \ {b}]
        /\ acks' = [acks EXCEPT ![b.call] =
                      IF status[b.call] = "running" THEN @ \cup {n} ELSE @]
        /\ UNCHANGED <<up, status, coordinator, stamp, replies, result, before>>
  BY DEF FinishWrite
<1>2. /\ store' \in [Node -> StampedValue]
      /\ store'[n].timestamp >= stamp[b.call]
      /\ \A m \in Node : store'[m].timestamp >= store[m].timestamp
  BY <1>1, FinishWriteGrows
<1>3. b.call \in SetCall /\ busy[n] = {b}
  BY DEF TypeOK, Fiber, Decided
<1>4. TypeOK'
  BY <1>1, <1>2, <1>3 DEF TypeOK
<1>5. \A m \in Node : store[m].timestamp \in Nat /\ store'[m].timestamp \in Nat
  BY <1>2 DEF TypeOK, StampedValue, WriteTimestamp
<1>6. AckedIsKept'
  <2> SUFFICES ASSUME NEW s \in SetCall, NEW m \in acks'[s]
               PROVE  store'[m].timestamp >= stamp[s]
    BY <1>1 DEF AckedIsKept
  <2>1. m \in acks[s] \/ (s = b.call /\ m = n)
    BY <1>1, <1>3 DEF TypeOK
  <2>2. CASE m \in acks[s]
    <3>1. m \in Node /\ stamp[s] \in Nat
      BY <2>2 DEF TypeOK
    <3>2. store[m].timestamp >= stamp[s]
      BY <2>2 DEF AckedIsKept
    <3> QED
      BY <1>2, <1>5, <3>1, <3>2
  <2> QED
    BY <1>2, <2>1, <2>2
<1>7. Decided'
  BY <1>1, <1>3 DEF Decided, TypeOK
<1>8. \A s \in SetCall : acks'[s] = acks[s] \/ status[s] = "running"
  BY <1>1, <1>3 DEF TypeOK
<1>9. Answered'
  BY <1>1, <1>8 DEF Answered, Done
<1>10. \A g \in GetCall : \A s \in before[g] \cap SetCall : acks'[s] = acks[s]
  BY <1>8 DEF Answered, Done, Call
<1>11. RepliesAreFresh' /\ ReadsAreFresh'
  BY <1>1, <1>10 DEF RepliesAreFresh, ReadsAreFresh
<1> QED
  BY <1>4, <1>6, <1>7, <1>9, <1>11

\* A reply shows what the replica has, thus what it has acknowledged.
LEMMA LocalReadInv ==
  ASSUME NEW c \in GetCall, NEW n \in Node, IInv, LocalRead(c, n)
  PROVE  IInv'
<1> USE DEF IInv, KVInv, LocalRead
<1>1. TypeOK'
  BY DEF TypeOK
<1>2. AckedIsKept' /\ ReadsAreFresh'
  BY DEF AckedIsKept, ReadsAreFresh
<1>3. Decided'
  BY DEF Decided
<1>4. Answered'
  BY DEF Answered, Done, TypeOK
<1>5. RepliesAreFresh'
  BY DEF RepliesAreFresh, AckedIsKept, TypeOK
<1> QED
  BY <1>1, <1>2, <1>3, <1>4, <1>5

\* Databases survive; the calls that were running on the node never end.
LEMMA CrashInv ==
  ASSUME NEW n \in Node, IInv, Crash(n)
  PROVE  IInv'
<1> USE DEF IInv, KVInv, Crash
<1>1. PICK unheard \in SUBSET {c \in SetCall : status[c] = "running"} :
        acks' = [c \in SetCall |->
                   IF coordinator[c] = n THEN {}
                   ELSE IF c \in unheard THEN acks[c] \ {n} ELSE acks[c]]
  OBVIOUS
<1>2. \A c \in SetCall : acks'[c] \subseteq acks[c]
  BY <1>1
<1>4. \A c \in Call : coordinator[c] = n => status[c] = "running"
  BY KVAssumption DEF TypeOK
<1>3. \A c \in SetCall : status[c] # "running" => acks'[c] = acks[c]
  BY <1>1, <1>4 DEF Call
<1>5. TypeOK'
  <2>1. \A c \in Call : coordinator'[c] # None <=> status'[c] = "running"
    BY <1>4, KVAssumption DEF TypeOK
  <2> QED
    BY <1>1, <2>1 DEF TypeOK, NoReplies
<1>6. Done' = Done
  BY <1>4 DEF Done, TypeOK
<1>7. AckedIsKept'
  BY <1>2 DEF AckedIsKept
<1>8. Decided'
  BY DEF Decided, TypeOK, Call, Fiber
<1>9. Answered'
  BY <1>2, <1>3, <1>4, <1>6 DEF Answered, Call
<1>10. RepliesAreFresh'
  BY <1>2 DEF RepliesAreFresh, NoReplies, TypeOK
<1>11. ReadsAreFresh'
  BY DEF ReadsAreFresh, Call
<1> QED
  BY <1>5, <1>7, <1>8, <1>9, <1>10, <1>11

\* Steps that touch neither stamps nor answers keep the invariant.
LEMMA QuietInv ==
  ASSUME IInv,
         up' \subseteq Node,
         UNCHANGED <<store, busy, status, coordinator, stamp, acks, replies, result, before>>
  PROVE  IInv'
BY DEF IInv, KVInv, TypeOK, AckedIsKept, Decided, Answered, Done, RepliesAreFresh, ReadsAreFresh

\* Every step keeps the invariant.
LEMMA NextInv == IInv /\ [Next]_vars => IInv'
<1> SUFFICES ASSUME IInv, [Next]_vars PROVE IInv'
  OBVIOUS
<1>1. ASSUME NEW c \in SetCall, NEW n \in Node, BeginSet(c, n) \/ TakeWrite(c, n)
      PROVE  IInv'
  BY <1>1, BeginSetInv, TakeWriteInv
<1>2. ASSUME NEW c \in GetCall, NEW n \in Node, BeginGet(c, n) \/ LocalRead(c, n)
      PROVE  IInv'
  BY <1>2, BeginGetInv, LocalReadInv
<1>3. ASSUME NEW c \in SetCall, FinishSet(c) PROVE IInv'
  BY <1>3, FinishSetInv
<1>4. ASSUME NEW c \in GetCall, FinishGet(c) PROVE IInv'
  BY <1>4, FinishGetInv
<1>5. ASSUME NEW n \in Node, FinishWrite(n) PROVE IInv'
  BY <1>5, FinishWriteInv
<1>7. ASSUME NEW n \in Node, Launch(n) PROVE IInv'
  BY <1>7, QuietInv DEF Launch, IInv, TypeOK
<1>8. ASSUME NEW n \in Crashable, Crash(n) PROVE IInv'
  BY <1>8, CrashInv, KVAssumption
<1>9. CASE UNCHANGED vars
  BY <1>9, QuietInv DEF vars, IInv, TypeOK
<1> QED
  BY <1>1, <1>2, <1>3, <1>4, <1>5, <1>7, <1>8, <1>9 DEF Next

\* The invariant holds for any pool, calls and clocks.
LEMMA InvHolds == Spec => []IInv
BY InitInv, NextInv, PTL DEF Spec

\* Coordinator::Get returns nothing older than a Set that had been answered,
\* for every pool, whatever the wall clocks show and whichever nodes crash.
THEOREM QuorumsKeepAnswers == Spec => []ReadsAreFresh
<1>1. IInv => ReadsAreFresh
  BY DEF IInv
<1> QED
  BY <1>1, InvHolds, PTL

\* What Replica::LocalWrite has acknowledged stays or is replaced by newer.
THEOREM AcknowledgedIsDurable == Spec => []AckedIsKept
<1>1. IInv => AckedIsKept
  BY DEF IInv, KVInv
<1> QED
  BY <1>1, InvHolds, PTL

\* No replica goes back to an older value, however requests are repeated.
THEOREM ReplicasGoForward == Spec => StampsGrow
<1> DEFINE Grow == \A n \in Node :
       store'[n] # store[n] =>
         \/ store[n] = Unwritten
         \/ store[n].timestamp < store'[n].timestamp
<1>1. IInv /\ [Next]_vars => [Grow]_vars
  <2> SUFFICES ASSUME IInv, Next PROVE Grow
    BY DEF vars
  <2>1. ASSUME NEW n \in Node, FinishWrite(n) PROVE Grow
    BY <2>1, FinishWriteGrows DEF FinishWrite
  <2>2. CASE UNCHANGED store
    BY <2>2
  <2> QED
    BY <2>1, <2>2 DEF Next, BeginSet, TakeWrite, BeginGet, LocalRead, FinishSet,
       FinishGet, Launch, Crash
<1> QED
  BY <1>1, InvHolds, PTL DEF Spec, StampsGrow

=============================================================================
